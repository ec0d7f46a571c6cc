---------------------------- MODULE MCChat_proofs ----------------------------
(***************************************************************************)
(* Both ends of the tutor's websocket, and the session of the tab, for     *)
(* every number of turns, drops, tokens, calls and iterations.             *)
(***************************************************************************)
EXTENDS MCChat, SequenceTheorems, WellFoundedInduction, TLAPS

----------------------------------------------------------------------------
(* The session of the tab: one identity, whatever was signed in before.    *)

\* Who is not signed in asks nothing and knows nobody.
Outside == token = 0 => query = Tab!NoQuery /\ fetch = Tab!NoFetch

\* What is stored, found, kept and asked about is the token of the provider.
\* The request is part of it: its answer becomes the user.
Agreed ==
    ~mixed =>
      /\ Tab!GetToken(store) = token
      /\ query.user \in {0, token}
      /\ chat \in {0, token}
      /\ fetch.state = "sent" => fetch.header = token

TabInv == Tab!TypeOK /\ Outside /\ Agreed

\* A token that is stored is the one that is read.
LEMMA StoredIsRead ==
    ASSUME NEW t \in Tab!Token, NEW remember \in BOOLEAN
    PROVE  Tab!GetToken(Tab!Stored(t, remember)) = t
BY DEF Tab!GetToken, Tab!Stored, Tab!Token

\* What is read from the storage is a token or nothing.
LEMMA ReadTyped == ASSUME Tab!TypeOK PROVE Tab!GetToken(store) \in Tab!Maybe
BY DEF Tab!TypeOK, Tab!GetToken, Tab!Maybe

\* The values a request and a query start from.
LEMMA FreshTyped ==
    ASSUME Tab!SignInAssumption
    PROVE  /\ Tab!NoQuery \in [status : {"pending", "success", "error"}, user : Tab!Maybe]
           /\ Tab!NoFetch \in [state : {"idle", "sent", "waiting"}, header : Tab!Maybe, tries : 0..1]
           /\ \A s : Tab!GetToken(s) \in Tab!Maybe =>
                Tab!Asking(s) \in [state : {"idle", "sent", "waiting"}, header : Tab!Maybe, tries : 0..1]
           /\ Tab!Token \subseteq Tab!Maybe /\ 0 \in Tab!Maybe
BY DEF Tab!SignInAssumption, Tab!NoQuery, Tab!NoFetch, Tab!Asking, Tab!Maybe, Tab!Token

\* Nobody is signed in at first.
LEMMA TabInitially == ASSUME Tab!SignInAssumption PROVE Tab!Init => TabInv
<1> SUFFICES ASSUME Tab!Init PROVE TabInv
  OBVIOUS
<1>1. Tab!TypeOK
  <2>1. store \in [local : Tab!Maybe, tab : Tab!Maybe]
    BY FreshTyped DEF Tab!Init
  <2>2. degraded \in BOOLEAN /\ retrying \in BOOLEAN /\ mixed \in BOOLEAN
    BY DEF Tab!Init
  <2>3. failures \in 0..MaxFailures /\ loads \in 0..MaxLoads
    BY DEF Tab!Init, Tab!SignInAssumption
  <2>4. QED
    BY <2>1, <2>2, <2>3, FreshTyped DEF Tab!Init, Tab!TypeOK
<1>2. Outside /\ Agreed
  BY DEF Tab!Init, Outside, Agreed, Tab!GetToken, Tab!NoQuery, Tab!NoFetch
<1>3. QED
  BY <1>1, <1>2 DEF TabInv

\* A token that comes in is stored, and asked about; over another one it
\* mixes identities.
LEMMA TabLogin ==
    ASSUME Tab!SignInAssumption, TabInv, NEW t \in Tab!Token, NEW remember \in BOOLEAN,
           Tab!LoginWithToken(t, remember),
           forms' \subseteq forms, hash' \in {0, hash}, UNCHANGED issued
    PROVE  TabInv'
<1>1. Tab!GetToken(store') = t /\ t \in Tab!Maybe /\ t # 0
  BY StoredIsRead, FreshTyped DEF Tab!LoginWithToken, Tab!Token
<1>2. store' \in [local : Tab!Maybe, tab : Tab!Maybe]
  BY FreshTyped DEF Tab!LoginWithToken, Tab!Stored
<1>3. fetch' \in [state : {"idle", "sent", "waiting"}, header : Tab!Maybe, tries : 0..1]
  BY <1>1, FreshTyped DEF Tab!LoginWithToken, TabInv, Tab!TypeOK
<1>4. Tab!TypeOK'
  <2>1. hash' \in Tab!Maybe /\ chat' \in Tab!Maybe /\ issued' \in Tab!Maybe
    BY FreshTyped DEF TabInv, Tab!TypeOK, Tab!LoginWithToken
  <2>2. degraded' \in BOOLEAN /\ retrying' \in BOOLEAN /\ mixed' \in BOOLEAN
    BY DEF TabInv, Tab!TypeOK, Tab!LoginWithToken
  <2>3. QED
    BY <1>1, <1>2, <1>3, <2>1, <2>2 DEF TabInv, Tab!TypeOK, Tab!LoginWithToken
<1>5. Outside'
  BY <1>1 DEF Tab!LoginWithToken, Outside
<1>6. Agreed'
  <2>1. SUFFICES ASSUME token = 0 PROVE Agreed'
    BY DEF Tab!LoginWithToken, Agreed
  <2>2. fetch' = Tab!Asking(store') /\ query' = Tab!NoQuery /\ chat' = chat /\ token' = t
    BY <2>1 DEF Tab!LoginWithToken, TabInv, Outside
  <2>3. ~mixed' => chat = 0
    BY <2>1 DEF Tab!LoginWithToken, TabInv, Agreed
  <2>4. QED
    BY <1>1, <2>2, <2>3 DEF Agreed, Tab!Asking, Tab!NoQuery
<1>7. QED
  BY <1>4, <1>5, <1>6 DEF TabInv

\* The forms, the Google return and other tabs.
LEMMA TabComesIn ==
    ASSUME Tab!SignInAssumption, TabInv, NEW yes \in BOOLEAN,
           \/ Tab!StartSignIn(yes) \/ Tab!TakeHash(yes) \/ Tab!Load(yes) \/ Tab!OtherTab(yes) \/ Tab!DropHash
           \/ \E form \in forms : Tab!SignedIn(form) \/ Tab!SignInFailed(form)
    PROVE  TabInv'
<1>1. CASE Tab!StartSignIn(yes)
  <2>1. issued' \in Tab!Token /\ issued' \in Tab!Maybe
    BY <1>1 DEF Tab!StartSignIn, TabInv, Tab!TypeOK, Tab!SignInAssumption, Tab!Token, Tab!Maybe
  <2>2. QED
    BY <1>1, <2>1 DEF Tab!StartSignIn, TabInv, Tab!TypeOK, Outside, Agreed
<1>2. CASE Tab!TakeHash(yes)
  <2>1. hash \in Tab!Token
    BY <1>2 DEF Tab!TakeHash, TabInv, Tab!TypeOK, Tab!SignInAssumption, Tab!Token, Tab!Maybe
  <2>2. QED
    BY <1>2, <2>1, TabLogin DEF Tab!TakeHash
<1>3. CASE Tab!Load(yes)
  <2>1. issued' \in Tab!Maybe /\ hash' \in Tab!Maybe /\ loads' \in 0..MaxLoads
    BY <1>3 DEF Tab!Load, TabInv, Tab!TypeOK, Tab!SignInAssumption, Tab!Maybe
  <2>2. token' \in Tab!Maybe /\ fetch' \in [state : {"idle", "sent", "waiting"}, header : Tab!Maybe, tries : 0..1]
    BY <1>3, ReadTyped, FreshTyped DEF Tab!Load, TabInv
  <2>3. Tab!TypeOK'
    BY <1>3, <2>1, <2>2, FreshTyped DEF Tab!Load, TabInv, Tab!TypeOK
  <2>4. Outside' /\ Agreed'
    BY <1>3 DEF Tab!Load, TabInv, Outside, Agreed, Tab!NoQuery, Tab!NoFetch, Tab!Asking
  <2>5. QED
    BY <2>3, <2>4 DEF TabInv
<1>4. CASE Tab!OtherTab(yes)
  <2>1. issued' \in Tab!Maybe /\ loads' \in 0..MaxLoads
    BY <1>4 DEF Tab!OtherTab, TabInv, Tab!TypeOK, Tab!SignInAssumption, Tab!Maybe
  <2>2. store' \in [local : Tab!Maybe, tab : Tab!Maybe]
    BY <1>4, <2>1, FreshTyped DEF Tab!OtherTab, TabInv, Tab!TypeOK
  <2>3. QED
    BY <1>4, <2>1, <2>2 DEF Tab!OtherTab, TabInv, Tab!TypeOK, Outside, Agreed
<1>5. CASE Tab!DropHash
  BY <1>5, FreshTyped DEF Tab!DropHash, TabInv, Tab!TypeOK, Outside, Agreed
<1>6. ASSUME NEW form \in forms, Tab!SignedIn(form)
      PROVE  TabInv'
  <2>1. form.token \in Tab!Token /\ form.remember \in BOOLEAN
    BY DEF TabInv, Tab!TypeOK
  <2>2. QED
    BY <1>6, <2>1, TabLogin DEF Tab!SignedIn
<1>7. ASSUME NEW form \in forms, Tab!SignInFailed(form)
      PROVE  TabInv'
  BY <1>7 DEF Tab!SignInFailed, TabInv, Tab!TypeOK, Outside, Agreed
<1>8. QED
  BY <1>1, <1>2, <1>3, <1>4, <1>5, <1>6, <1>7

\* Leaving clears all that is about somebody.
LEMMA TabLeaves ==
    ASSUME Tab!SignInAssumption, TabInv, Tab!Leave, degraded' \in BOOLEAN,
           UNCHANGED <<forms, hash, issued, expired, failures, loads, mixed>>
    PROVE  TabInv'
<1>1. store' \in [local : Tab!Maybe, tab : Tab!Maybe] /\ Tab!GetToken(store') = 0
  BY FreshTyped DEF Tab!Leave, Tab!GetToken
<1>2. QED
  BY <1>1, FreshTyped DEF Tab!Leave, TabInv, Tab!TypeOK, Outside, Agreed, Tab!NoQuery, Tab!NoFetch

\* The answers of the server. The user found is the one asked about.
LEMMA TabAnswers == ASSUME Tab!SignInAssumption, TabInv, Tab!Answer PROVE TabInv'
<1>1. CASE Tab!Found
  <2>1. query' \in [status : {"pending", "success", "error"}, user : Tab!Maybe]
    BY <1>1 DEF Tab!Found, TabInv, Tab!TypeOK
  <2>2. Tab!TypeOK'
    BY <1>1, <2>1, FreshTyped DEF Tab!Answer, Tab!Found, TabInv, Tab!TypeOK
  <2>3. token # 0
    BY <1>1 DEF Tab!Found, TabInv, Outside, Tab!NoFetch
  <2>4. Outside' /\ Agreed'
    BY <1>1, <2>3 DEF Tab!Answer, Tab!Found, TabInv, Outside, Agreed, Tab!NoFetch
  <2>5. QED
    BY <2>2, <2>4 DEF TabInv
<1>2. CASE Tab!Unknown
  BY <1>2, TabLeaves DEF Tab!Answer, Tab!Unknown
<1>3. CASE Tab!Failed
  <2>1. token # 0
    BY <1>3 DEF Tab!Failed, TabInv, Outside, Tab!NoFetch
  <2>2. failures' \in 0..MaxFailures
    BY <1>3 DEF Tab!Failed, TabInv, Tab!TypeOK, Tab!SignInAssumption
  <2>3. CASE fetch.tries = 0
    <3>1. fetch' = [state |-> "waiting", header |-> fetch.header, tries |-> 1]
      BY <1>3, <2>3 DEF Tab!Failed, TabInv, Tab!TypeOK
    <3>2. fetch' \in [state : {"idle", "sent", "waiting"}, header : Tab!Maybe, tries : 0..1]
      BY <3>1 DEF TabInv, Tab!TypeOK
    <3>3. UNCHANGED <<store, token, query, degraded, retrying, chat, forms, hash, issued, expired, loads, mixed>>
      BY <1>3, <2>3 DEF Tab!Answer, Tab!Failed
    <3>4. Tab!TypeOK'
      BY <2>2, <3>2, <3>3 DEF TabInv, Tab!TypeOK
    <3>5. Outside' /\ Agreed'
      BY <2>1, <3>1, <3>3 DEF TabInv, Outside, Agreed
    <3>6. QED
      BY <3>4, <3>5 DEF TabInv
  <2>4. CASE fetch.tries # 0
    <3>1. query' \in [status : {"pending", "success", "error"}, user : Tab!Maybe] /\ query'.user = query.user
      BY <1>3, <2>4 DEF Tab!Failed, TabInv, Tab!TypeOK
    <3>2. /\ fetch' = Tab!NoFetch /\ degraded' = TRUE /\ retrying' = FALSE
          /\ UNCHANGED <<store, token, chat, forms, hash, issued, expired, loads, mixed>>
      BY <1>3, <2>4 DEF Tab!Answer, Tab!Failed
    <3>3. Tab!TypeOK'
      BY <2>2, <3>1, <3>2, FreshTyped DEF TabInv, Tab!TypeOK
    <3>4. Outside' /\ Agreed'
      BY <2>1, <3>1, <3>2 DEF TabInv, Outside, Agreed, Tab!NoFetch
    <3>5. QED
      BY <3>3, <3>4 DEF TabInv
  <2>5. QED
    BY <2>3, <2>4
<1>4. QED
  BY <1>1, <1>2, <1>3 DEF Tab!Answer

\* A request that goes out again reads the storage again.
LEMMA TabAsks == ASSUME Tab!SignInAssumption, TabInv, Tab!Resend \/ Tab!Refetch \/ Tab!RetrySession PROVE TabInv'
<1>1. CASE Tab!Resend
  <2>1. fetch' \in [state : {"idle", "sent", "waiting"}, header : Tab!Maybe, tries : 0..1] /\ fetch'.header = Tab!GetToken(store)
    BY <1>1, ReadTyped DEF Tab!Resend, TabInv, Tab!TypeOK
  <2>2. token # 0
    BY <1>1 DEF Tab!Resend, TabInv, Outside, Tab!NoFetch
  <2>3. QED
    BY <1>1, <2>1, <2>2 DEF Tab!Resend, TabInv, Tab!TypeOK, Outside, Agreed
<1>2. ASSUME token # 0, Tab!AskAgain, degraded' \in BOOLEAN, retrying' \in BOOLEAN,
             UNCHANGED <<store, token, forms, hash, chat, issued, expired, failures, loads, mixed>>
      PROVE  TabInv'
  <2>1. Tab!TypeOK'
    BY <1>2, ReadTyped, FreshTyped DEF Tab!AskAgain, TabInv, Tab!TypeOK
  <2>2. Outside' /\ Agreed'
    BY <1>2 DEF Tab!AskAgain, TabInv, Outside, Agreed, Tab!Asking, Tab!NoQuery
  <2>3. QED
    BY <2>1, <2>2 DEF TabInv
<1>3. CASE Tab!Refetch
  BY <1>2, <1>3 DEF Tab!Refetch, TabInv, Tab!TypeOK
<1>4. CASE Tab!RetrySession
  <2>1. token # 0
    <3>1. token = 0 => Tab!Status = "unauthenticated"
      BY DEF Tab!Status
    <3>2. QED
      BY <1>4, <3>1 DEF Tab!RetrySession, Tab!Inside
  <2>2. CASE Tab!AskAgain /\ retrying' = TRUE
    BY <1>2, <1>4, <2>1, <2>2 DEF Tab!RetrySession
  <2>3. CASE UNCHANGED <<query, fetch, retrying>>
    BY <1>4, <2>3 DEF Tab!RetrySession, TabInv, Tab!TypeOK, Outside, Agreed
  <2>4. QED
    BY <1>4, <2>2, <2>3 DEF Tab!RetrySession
<1>5. QED
  BY <1>1, <1>3, <1>4

\* Every step of the tab.
LEMMA TabInvStep == ASSUME Tab!SignInAssumption, TabInv, [Tab!Next]_(Tab!sessionVars) PROVE TabInv'
<1>1. CASE UNCHANGED Tab!sessionVars
  BY <1>1 DEF Tab!sessionVars, TabInv, Tab!TypeOK, Outside, Agreed
<1>2. CASE Tab!Logout
  BY <1>2, TabLeaves DEF Tab!Logout, TabInv, Tab!TypeOK
<1>3. CASE Tab!StartChat
  <2>1. chat' \in Tab!Maybe
    BY <1>3, ReadTyped DEF Tab!StartChat, TabInv
  <2>2. QED
    BY <1>3, <2>1 DEF Tab!StartChat, TabInv, Tab!TypeOK, Outside, Agreed
<1>4. ASSUME NEW t \in Tab!Token, Tab!Expire(t)
      PROVE  TabInv'
  BY <1>4 DEF Tab!Expire, TabInv, Tab!TypeOK, Outside, Agreed
<1>5. QED
  BY <1>1, <1>2, <1>3, <1>4, TabComesIn, TabAnswers, TabAsks DEF Tab!Next

\* The composition starts where the browser session starts,
LEMMA TabIsSession == BothInit => Tab!Init
BY DEF BothInit

\* a step of it is one of the session or none,
LEMMA TabOrStutter == [BothNext]_vars => [Tab!Next]_(Tab!sessionVars)
BY DEF BothNext, LoopStep, OwnerStep, LoopOther, ChatStep, TabStep, OnlyLoop, OnlyChat, vars,
       sessionVars, Tab!sessionVars

\* and the session's invariant holds in it.
LEMMA TabInvAlways == BothSpec => []TabInv
<1>1. BothInit => TabInv
  BY TabIsSession, TabInitially, ChatAndLoopAssumption
<1>2. TabInv /\ [BothNext]_vars => TabInv'
  BY TabOrStutter, TabInvStep, ChatAndLoopAssumption
<1>3. QED
  BY <1>1, <1>2, PTL DEF BothSpec

\* The user shown, the token sent and the chat in the tab are those of one
\* sign-in (AuthProvider, useCurrentUserQuery).
THEOREM OneIdentityHolds == BothSpec => []OneIdentity
<1>1. TabInv => OneIdentity
  BY DEF TabInv, Agreed, OneIdentity, Tab!OneIdentity
<1>2. QED
  BY <1>1, TabInvAlways, PTL

----------------------------------------------------------------------------
(* The chat in the browser: what is locked waits for a turn that runs.     *)

Unlocks == {"turn_paused", "turn_done", "turn_cancelled", "error"}
Runs(t) == served[t].status \in {"running", "asking"}

\* A frame that unlocks the input, behind place k of what is on its way.
UnlockBehind(k) == \E j \in DOMAIN inbox : j > k /\ inbox[j].type \in Unlocks

\* The learner's reply to the turn the hook waits for is on its way.
ReplyOnWay ==
    \E i \in DOMAIN outbox :
        outbox[i].type = "submit_user_reply" /\ outbox[i].about = hook.active

\* The socket is open or will be tried again.
Attempts == conn # "error" => tries < MaxAttempts

\* What is said about a turn names it.
Named ==
    /\ \A i \in DOMAIN outbox : outbox[i].type # "message" => outbox[i].about # 0
    /\ \A j \in DOMAIN inbox : inbox[j].type = "turn_started" => inbox[j].turn # 0

\* Without a drop a turn that runs has its socket,
AllHeard == drops = 0 => \A t \in Turn : Runs(t) => served[t].heard
\* what locks the input will unlock it, or answers first,
Waits == drops = 0 /\ hook.busy => Runs(hook.active) \/ UnlockBehind(0) \/ ReplyOnWay
\* and so does what will lock it.
WillWait ==
    drops = 0 =>
        \A k \in DOMAIN inbox :
            inbox[k].type = "turn_started" => Runs(inbox[k].turn) \/ UnlockBehind(k)

ChatInv == TypeOK /\ Attempts /\ Named /\ StopWorks /\ AllHeard /\ Waits /\ WillWait

\* The invariant of the chat holds initially.
LEMMA ChatInitially == Init => ChatInv
<1> SUFFICES ASSUME Init PROVE ChatInv
  OBVIOUS
<1>1. TypeOK
  BY ChatAssumption DEF Init, TypeOK, FreshHook, Hook, Session, Served
<1>2. Attempts
  BY ChatAssumption DEF Init, Attempts
<1>3. QED
  BY <1>1, <1>2 DEF Init, ChatInv, Named, StopWorks, AllHeard, Waits, WillWait, FreshHook, Runs

\* The turns are numbers, and a session is named by one.
LEMMA TurnsAndSessions ==
    /\ Session = Turn \cup {0} /\ 0 \notin Turn
    /\ \A s \in Session : FreshHook(s) \in Hook
BY ChatAssumption DEF Session, Turn, FreshHook, Hook

\* The socket goes, or the page: what was on its way is lost.
LEMMA LostOrReloaded == ASSUME ChatInv, Lost \/ Reload PROVE ChatInv'
<1>1. /\ drops' \in 0..MaxDrops /\ drops' # 0
      /\ outbox' = <<>> /\ inbox' = <<>> /\ UNCHANGED cache
      /\ served' = [t \in Turn |-> [served[t] EXCEPT !.heard = FALSE]]
  BY ChatAssumption DEF Lost, Reload, ChatInv, TypeOK
<1>2. served' \in [Turn -> Served]
  BY <1>1 DEF ChatInv, TypeOK, Served
<1>3. /\ conn' \in {"connecting", "closed", "error"} /\ tries' \in 0..MaxAttempts
      /\ conn' # "error" => tries' < MaxAttempts
  BY ChatAssumption DEF Lost, Reload, ChatInv, TypeOK, Attempts
<1>4. hook' \in Hook /\ (hook'.busy => hook'.active # 0)
  <2>1. CASE Lost
    BY <2>1 DEF Lost, ChatInv, TypeOK, Hook, StopWorks
  <2>2. CASE Reload
    BY <2>2, TurnsAndSessions DEF Reload, ChatInv, TypeOK, FreshHook
  <2>3. QED
    BY <2>1, <2>2
<1>5. outbox' \in Seq(Wire) /\ inbox' \in Seq(Frame)
  BY <1>1
<1>6. TypeOK'
  BY <1>1, <1>2, <1>3, <1>4, <1>5 DEF ChatInv, TypeOK
<1>7. QED
  BY <1>1, <1>3, <1>4, <1>6
  DEF ChatInv, Attempts, Named, StopWorks, AllHeard, Waits, WillWait, Runs

\* The socket opens or is tried again, the session is saved.
LEMMA SocketStep == ASSUME ChatInv, Opened \/ Retry \/ SaveSession PROVE ChatInv'
<1>1. UNCHANGED <<hook, outbox, inbox, served, drops>>
  BY DEF Opened, Retry, SaveSession
<1>2. /\ conn' \in {"connecting", "open", "closed", "error"} /\ tries' \in 0..MaxAttempts
      /\ cache' \in Session
      /\ conn' # "error" => tries' < MaxAttempts
  BY ChatAssumption DEF Opened, Retry, SaveSession, ChatInv, TypeOK, Attempts, Hook
<1>3. TypeOK'
  BY <1>1, <1>2 DEF ChatInv, TypeOK
<1>4. QED
  BY <1>1, <1>2, <1>3
  DEF ChatInv, Attempts, Named, StopWorks, AllHeard, Waits, WillWait, Runs, UnlockBehind, ReplyOnWay

\* A message of the learner, and what the hook makes of it.
LEMMA PostStep ==
    ASSUME ChatInv, NEW m \in Wire, m.type # "message" => m.about # 0, Post(m),
           UNCHANGED <<conn, tries, cache, inbox, served, drops>>,
           hook' \in Hook,
           hook'.busy => /\ hook'.active = hook.active /\ hook.active # 0
                         /\ hook.busy \/ (m.type = "submit_user_reply" /\ m.about = hook.active)
    PROVE  ChatInv'
<1>1. /\ outbox' \in Seq(Wire) /\ Len(outbox') = Len(outbox) + 1
      /\ outbox'[Len(outbox')] = m
      /\ \A i \in DOMAIN outbox : i \in DOMAIN outbox' /\ outbox'[i] = outbox[i]
      /\ \A i \in DOMAIN outbox' : i \in DOMAIN outbox \/ i = Len(outbox')
  BY DEF ChatInv, TypeOK, Post
<1>2. TypeOK'
  BY <1>1 DEF ChatInv, TypeOK
<1>3. Named'
  BY <1>1 DEF ChatInv, Named
<1>4. Waits'
  <2>1. SUFFICES ASSUME drops = 0, hook'.busy PROVE Waits'
    BY DEF Waits
  <2>2. CASE hook.busy
    <3>1. Runs(hook.active) \/ UnlockBehind(0) \/ ReplyOnWay
      BY <2>1, <2>2 DEF ChatInv, Waits
    <3>2. ReplyOnWay => ReplyOnWay'
      BY <1>1, <2>1 DEF ReplyOnWay
    <3>3. QED
      BY <2>1, <3>1, <3>2 DEF Waits, Runs, UnlockBehind
  <2>3. CASE m.type = "submit_user_reply" /\ m.about = hook.active
    <3>1. Len(outbox') \in DOMAIN outbox'
      BY <1>1 DEF ChatInv, TypeOK
    <3>2. QED
      BY <1>1, <2>1, <2>3, <3>1 DEF Waits, ReplyOnWay
  <2>4. QED
    BY <2>1, <2>2, <2>3
<1>5. QED
  BY <1>2, <1>3, <1>4
  DEF ChatInv, Attempts, StopWorks, AllHeard, WillWait, Runs, UnlockBehind

\* What the learner does keeps it.
LEMMA LearnerStep == ASSUME ChatInv, SendMessage \/ SendReply \/ Stop PROVE ChatInv'
<1>1. hook \in Hook
  BY DEF ChatInv, TypeOK
<1>2. CASE SendMessage
  <2>1. [type |-> "message", about |-> hook.session] \in Wire
    BY <1>1, TurnsAndSessions DEF Wire, Hook
  <2>2. QED
    BY <1>1, <1>2, <2>1, PostStep DEF SendMessage, ChatInv, StopWorks
<1>3. CASE SendReply
  <2>1. [type |-> "submit_user_reply", about |-> hook.active] \in Wire
    BY <1>1 DEF Wire, Hook
  <2>2. hook' \in Hook /\ hook'.active = hook.active
    BY <1>1, <1>3 DEF SendReply, Hook
  <2>3. QED
    BY <1>3, <2>1, <2>2, PostStep DEF SendReply
<1>4. CASE Stop
  <2>1. [type |-> "cancel_turn", about |-> hook.active] \in Wire
    BY <1>1 DEF Wire, Hook
  <2>2. hook' \in Hook /\ ~hook'.busy
    BY <1>1, <1>4 DEF Stop, Hook
  <2>3. QED
    BY <1>4, <2>1, <2>2, PostStep DEF Stop
<1>5. QED
  BY <1>2, <1>3, <1>4

\* The server changes what it knows of a turn and tells of it.
LEMMA ServerTells ==
    ASSUME ChatInv, NEW t \in Turn, NEW r \in Served, NEW frames \in Seq(Frame),
           served' = [served EXCEPT ![t] = r], inbox' = inbox \o frames,
           UNCHANGED <<conn, tries, hook, cache, drops>>,
           outbox' \in Seq(Wire), Named',
           drops = 0 /\ r.status \in {"running", "asking"} => r.heard,
           drops = 0 /\ Runs(t) =>
               \/ r.status \in {"running", "asking"}
               \/ \E j \in DOMAIN frames : frames[j].type \in Unlocks,
           \A j \in DOMAIN frames :
               frames[j].type = "turn_started" => frames[j].turn = t /\ r.status = "running",
           drops = 0 /\ ReplyOnWay =>
               \/ ReplyOnWay'
               \/ hook.active = t /\ r.status = "running"
               \/ \E j \in DOMAIN frames : frames[j].type \in Unlocks
    PROVE  ChatInv'
<1>1. /\ served' \in [Turn -> Served] /\ served'[t] = r
      /\ \A u \in Turn : u # t => served'[u] = served[u]
  BY DEF ChatInv, TypeOK
<1>2. /\ inbox' \in Seq(Frame) /\ Len(inbox') = Len(inbox) + Len(frames)
      /\ Len(inbox) \in Nat /\ Len(frames) \in Nat
      /\ DOMAIN inbox = 1..Len(inbox) /\ DOMAIN frames = 1..Len(frames)
      /\ DOMAIN inbox' = 1..Len(inbox')
      /\ \A k \in DOMAIN inbox : inbox'[k] = inbox[k]
      /\ \A j \in DOMAIN frames : inbox'[Len(inbox) + j] = frames[j]
      /\ \A k \in DOMAIN inbox' : k \in DOMAIN inbox \/ k - Len(inbox) \in DOMAIN frames
  BY DEF ChatInv, TypeOK
<1>3. TypeOK'
  BY <1>1, <1>2 DEF ChatInv, TypeOK
<1>4. AllHeard'
  BY <1>1 DEF ChatInv, AllHeard, Runs
<1>5. ASSUME NEW j \in DOMAIN frames, frames[j].type \in Unlocks, NEW k \in 0..Len(inbox)
      PROVE  UnlockBehind(k)'
  <2>1. Len(inbox) + j \in DOMAIN inbox' /\ Len(inbox) + j > k
    BY <1>2
  <2>2. QED
    BY <1>2, <1>5, <2>1 DEF UnlockBehind
<1>6. ASSUME NEW k \in 0..Len(inbox), UnlockBehind(k)
      PROVE  UnlockBehind(k)'
  <2>1. \A j \in DOMAIN inbox : j \in DOMAIN inbox' /\ inbox'[j] = inbox[j]
    BY <1>2
  <2>2. QED
    BY <1>6, <2>1 DEF UnlockBehind
<1>7. ASSUME NEW u \in Turn, NEW k \in 0..Len(inbox), drops = 0, Runs(u)
      PROVE  Runs(u)' \/ UnlockBehind(k)'
  <2>1. CASE u = t
    BY <1>1, <1>5, <1>7, <2>1 DEF Runs
  <2>2. CASE u # t
    BY <1>1, <1>7, <2>2 DEF Runs
  <2>3. QED
    BY <2>1, <2>2
<1>8. Waits'
  <2>1. SUFFICES ASSUME drops = 0, hook.busy
                 PROVE  Runs(hook.active)' \/ UnlockBehind(0)' \/ ReplyOnWay'
    BY DEF Waits, Runs
  <2>2. Runs(hook.active) \/ UnlockBehind(0) \/ ReplyOnWay
    BY <2>1 DEF ChatInv, Waits
  <2>3. hook.active \in Turn
    BY <2>1 DEF ChatInv, TypeOK, Hook, StopWorks
  <2>4. 0 \in 0..Len(inbox)
    BY <1>2
  <2>5. CASE Runs(hook.active)
    BY <1>7, <2>1, <2>3, <2>4, <2>5
  <2>6. CASE UnlockBehind(0)
    BY <1>6, <2>4, <2>6
  <2>7. CASE ReplyOnWay
    BY <1>1, <1>5, <2>1, <2>4, <2>7 DEF Runs
  <2>8. QED
    BY <2>2, <2>5, <2>6, <2>7
<1>9. WillWait'
  <2>1. SUFFICES ASSUME drops = 0, NEW k \in DOMAIN inbox', inbox'[k].type = "turn_started"
                 PROVE  \/ served'[inbox'[k].turn].status \in {"running", "asking"}
                        \/ UnlockBehind(k)'
    BY DEF WillWait, Runs
  <2>2. CASE k \in DOMAIN inbox
    <3>1. inbox'[k] = inbox[k] /\ k \in 0..Len(inbox) /\ inbox[k] \in Frame
      BY <1>2, <2>2 DEF ChatInv, TypeOK
    <3>2. PICK u \in Turn : u = inbox[k].turn
      BY <2>1, <2>2, <3>1 DEF ChatInv, Frame, Named
    <3>3. Runs(u) \/ UnlockBehind(k)
      BY <2>1, <2>2, <3>1, <3>2 DEF ChatInv, WillWait
    <3>4. CASE Runs(u)
      <4>1. Runs(u)' \/ UnlockBehind(k)'
        BY <1>7, <2>1, <3>1, <3>4
      <4>2. QED
        BY <3>1, <3>2, <4>1 DEF Runs
    <3>5. CASE UnlockBehind(k)
      BY <1>6, <3>1, <3>5
    <3>6. QED
      BY <3>3, <3>4, <3>5
  <2>3. CASE k \notin DOMAIN inbox
    <3>1. k - Len(inbox) \in DOMAIN frames /\ inbox'[k] = frames[k - Len(inbox)]
      BY <1>2, <2>3
    <3>2. QED
      BY <1>1, <2>1, <3>1
  <2>4. QED
    BY <2>2, <2>3
<1>10. QED
  BY <1>3, <1>4, <1>8, <1>9 DEF ChatInv, Attempts, StopWorks
\* What is left when the first is taken.
LEMMA RestOf ==
    ASSUME NEW S, NEW s \in Seq(S), s # <<>>
    PROVE  /\ Head(s) \in S /\ Tail(s) \in Seq(S) /\ Head(s) = s[1] /\ 1 \in DOMAIN s
           /\ Len(s) \in Nat /\ DOMAIN s = 1..Len(s) /\ DOMAIN Tail(s) = 1..(Len(s) - 1)
           /\ \A i \in DOMAIN Tail(s) : i + 1 \in DOMAIN s /\ Tail(s)[i] = s[i + 1]
           /\ \A i \in DOMAIN s : i = 1 \/ (i - 1 \in DOMAIN Tail(s) /\ Tail(s)[i - 1] = s[i])
OBVIOUS

\* What the server says at once.
OnlyFrame(frames, f) == DOMAIN frames = {1} /\ frames[1] = f
\* A frame on its way once,
LEMMA OneFrame == ASSUME NEW f \in Frame PROVE <<f>> \in Seq(Frame) /\ OnlyFrame(<<f>>, f)
BY DEF OnlyFrame
\* and twice.
LEMMA TwoFrames ==
    ASSUME NEW f \in Frame
    PROVE  /\ <<>> \o <<f>> = <<f>> /\ <<f>> \in Seq(Frame) /\ <<f>> \o <<f>> \in Seq(Frame)
           /\ DOMAIN <<f>> = {1} /\ <<f>>[1] = f
           /\ DOMAIN (<<f>> \o <<f>>) = {1, 2} /\ (<<f>> \o <<f>>)[1] = f /\ (<<f>> \o <<f>>)[2] = f
<1>1. <<f>> \in Seq(Frame) /\ DOMAIN <<f>> = {1} /\ <<f>>[1] = f /\ Len(<<f>>) = 1
  OBVIOUS
<1>2. PICK s \in Seq(Frame) : s = <<f>>
  BY <1>1
<1>3. s \o s \in Seq(Frame) /\ DOMAIN (s \o s) = 1..2 /\ (s \o s)[1] = s[1] /\ (s \o s)[2] = s[1]
  BY <1>1, <1>2
<1>4. <<>> \o s = s
  OBVIOUS
<1>5. 1..2 = {1, 2}
  OBVIOUS
<1>6. QED
  BY <1>1, <1>2, <1>3, <1>4, <1>5

\* The server takes a message.
LEMMA ServeStep == ASSUME ChatInv, Serve PROVE ChatInv'
<1>1. PICK m \in Wire :
        /\ m = Head(outbox) /\ m = outbox[1] /\ 1 \in DOMAIN outbox
        /\ outbox' = Tail(outbox) /\ outbox' \in Seq(Wire)
        /\ \A i \in DOMAIN outbox' : i + 1 \in DOMAIN outbox /\ outbox'[i] = outbox[i + 1]
        /\ \A i \in DOMAIN outbox : i = 1 \/ (i - 1 \in DOMAIN outbox' /\ outbox'[i - 1] = outbox[i])
        /\ m.type # "message" => m.about \in Turn
  <2>1. outbox \in Seq(Wire) /\ outbox # <<>> /\ outbox' = Tail(outbox)
    BY DEF ChatInv, TypeOK, Serve
  <2>2. Head(outbox) \in Wire /\ Head(outbox) = outbox[1] /\ 1 \in DOMAIN outbox
    BY <2>1, RestOf
  <2>3. outbox[1].type # "message" => outbox[1].about \in Turn
    BY <2>2 DEF ChatInv, Named, Wire
  <2>4. QED
    BY <2>1, <2>2, <2>3, RestOf
<1>2. /\ UNCHANGED <<conn, tries, hook, cache, drops>>
      /\ ServeMessage(m) \/ ServeReply(m) \/ ServeCancel(m)
  BY <1>1 DEF Serve
<1>3. ReplyOnWay => ReplyOnWay' \/ (m.type = "submit_user_reply" /\ m.about = hook.active)
  BY ZenonT(40), <1>1, <1>2 DEF ReplyOnWay
<1>4. ASSUME NEW frames \in Seq(Frame), inbox' = inbox \o frames,
             \A j \in DOMAIN frames : frames[j].type = "turn_started" => frames[j].turn # 0
      PROVE  Named'
  <2>1. \A i \in DOMAIN outbox' : outbox'[i].type # "message" => outbox'[i].about # 0
    BY <1>1 DEF ChatInv, Named
  <2>2. \A j \in DOMAIN inbox' : \/ j \in DOMAIN inbox /\ inbox'[j] = inbox[j]
                                 \/ \E i \in DOMAIN frames : inbox'[j] = frames[i]
    BY <1>4 DEF ChatInv, TypeOK
  <2>3. QED
    BY <1>4, <2>1, <2>2 DEF ChatInv, Named
<1>5. served \in [Turn -> Served]
  BY DEF ChatInv, TypeOK
<1>6. ASSUME m.type # "message" \/ m.about # 0, UNCHANGED served, Tell(<<About("error", 0)>>)
      PROVE  ChatInv'
  <2>1. PICK t \in Turn : t = m.about
    BY <1>1, <1>6, TurnsAndSessions DEF Wire
  <2>2. PICK r \in Served : r = served[t] /\ served' = [served EXCEPT ![t] = r]
    BY <1>5, <1>6
  <2>3. PICK frames \in Seq(Frame) : frames = <<About("error", 0)>> /\ OnlyFrame(frames, About("error", 0))
    BY OneFrame DEF Frame, About
  <2>4. inbox' = inbox \o frames
    BY <1>6, <2>3 DEF Tell
  <2>8. /\ \E j \in DOMAIN frames : frames[j].type \in Unlocks
        /\ \A j \in DOMAIN frames : frames[j].type # "turn_started"
    BY <2>3 DEF Unlocks, OnlyFrame, About
  <2>5. Named'
    BY <1>4, <2>4, <2>8
  <2>6. drops = 0 /\ r.status \in {"running", "asking"} => r.heard
    BY <2>2 DEF ChatInv, AllHeard, Runs
  <2>9. drops = 0 /\ Runs(t) => r.status \in {"running", "asking"}
    BY <2>2 DEF Runs
  <2>7. QED
    BY ZenonT(40), <1>1, <1>2, <2>2, <2>4, <2>5, <2>6, <2>8, <2>9, ServerTells
<1>7. CASE ServeMessage(m) /\ ~(m.about # 0 /\ Busy(m.about))
  <2>1. PICK t \in NewTurns :
          /\ served' = [served EXCEPT ![t].status = "running", ![t].heard = TRUE,
                                      ![t].session = IF m.about = 0 THEN t ELSE m.about]
          /\ Tell(<<About("turn_started", t)>>)
    BY <1>7 DEF ServeMessage
  <2>2. t \in Turn /\ t # 0 /\ served[t].status = "none" /\ m.type = "message"
    BY <1>7, TurnsAndSessions DEF NewTurns, ServeMessage
  <2>10. PICK r :
          r = [served[t] EXCEPT !.status = "running", !.heard = TRUE,
                                !.session = IF m.about = 0 THEN t ELSE m.about]
    OBVIOUS
  <2>3. r \in Served /\ r.status = "running" /\ r.heard
    BY <1>5, <2>2, <2>10, TurnsAndSessions DEF Served, Wire
  <2>4. served' = [served EXCEPT ![t] = r]
    BY <1>5, <2>1, <2>2, <2>10
  <2>5. PICK frames \in Seq(Frame) :
          frames = <<About("turn_started", t)>> /\ OnlyFrame(frames, About("turn_started", t))
    BY <2>2, OneFrame DEF Frame, About
  <2>6. inbox' = inbox \o frames
    BY <2>1, <2>5 DEF Tell
  <2>9. \A j \in DOMAIN frames : frames[j].turn = t
    BY <2>5 DEF OnlyFrame, About
  <2>7. Named'
    BY <1>4, <2>2, <2>6, <2>9
  <2>8. QED
    BY ZenonT(40), <1>1, <1>2, <1>3, <2>2, <2>3, <2>4, <2>6, <2>7, <2>9, ServerTells DEF Runs
<1>8. CASE ServeReply(m) /\ served[m.about].status = "paused"
  <2>1. PICK t \in Turn : t = m.about /\ m.type = "submit_user_reply"
    BY <1>1, <1>8 DEF ServeReply
  <2>9. PICK r : r = [served[t] EXCEPT !.status = "running", !.heard = TRUE]
    OBVIOUS
  <2>2. r \in Served /\ r.status = "running" /\ r.heard
    BY <1>5, <2>9 DEF Served
  <2>3. served' = [served EXCEPT ![t] = r]
    BY <1>5, <1>8, <2>1, <2>9 DEF ServeReply
  <2>10. PICK frames : frames = <<>>
    OBVIOUS
  <2>4. frames \in Seq(Frame) /\ frames = <<>> /\ DOMAIN frames = {}
    BY <2>10
  <2>5. inbox' = inbox \o frames
    BY <1>8, <2>4 DEF ServeReply, ChatInv, TypeOK
  <2>6. Named'
    BY <1>4, <2>4, <2>5
  <2>7. ReplyOnWay => ReplyOnWay' \/ hook.active = t
    BY <1>3, <2>1
  <2>8. QED
    BY <1>1, <1>2, <2>2, <2>3, <2>4, <2>5, <2>6, <2>7, ServerTells
<1>9. CASE ServeCancel(m)
  <2>1. PICK t \in Turn : t = m.about /\ m.type = "cancel_turn"
    BY <1>1, <1>9 DEF ServeCancel
  <2>9. PICK r : r = [served[t] EXCEPT !.status = "over"]
    OBVIOUS
  <2>2. r \in Served /\ r.status = "over" /\ r.heard = served[t].heard
    BY <1>5, <2>9 DEF Served
  <2>3. served' = [served EXCEPT ![t] = r]
    BY <1>5, <1>9, <2>1, <2>9 DEF ServeCancel
  <2>4. About("turn_cancelled", t) \in Frame /\ About("turn_cancelled", t).type = "turn_cancelled"
    BY DEF Frame, About
  <2>5. PICK frames \in Seq(Frame) :
          /\ inbox' = inbox \o frames
          /\ 1 \in DOMAIN frames
          /\ \A j \in DOMAIN frames : frames[j].type = "turn_cancelled"
    <3>1. PICK f \in Frame : f = About("turn_cancelled", t) /\ f.type = "turn_cancelled"
      BY <2>4
    <3>2. /\ <<>> \o <<f>> = <<f>> /\ <<f>> \in Seq(Frame) /\ <<f>> \o <<f>> \in Seq(Frame)
          /\ DOMAIN <<f>> = {1} /\ <<f>>[1] = f
          /\ DOMAIN (<<f>> \o <<f>>) = {1, 2} /\ (<<f>> \o <<f>>)[1] = f /\ (<<f>> \o <<f>>)[2] = f
      BY <3>1, TwoFrames
    <3>3. CASE inbox' = inbox \o (<<f>> \o <<f>>)
      BY <3>1, <3>2, <3>3
    <3>4. CASE inbox' = inbox \o (<<>> \o <<f>>)
      BY <3>1, <3>2, <3>4
    <3>5. QED
      BY <1>9, <2>1, <3>1, <3>3, <3>4 DEF ServeCancel, Tell
  <2>6. Named'
    BY <1>4, <2>5
  <2>10. /\ \E j \in DOMAIN frames : frames[j].type \in Unlocks
         /\ \A j \in DOMAIN frames : frames[j].type # "turn_started"
    BY <2>5 DEF Unlocks
  <2>11. ReplyOnWay => ReplyOnWay'
    BY <1>3, <2>1
  <2>8. QED
    BY <1>1, <1>2, <2>2, <2>3, <2>5, <2>6, <2>10, <2>11, ServerTells
<1>10. QED
  BY <1>2, <1>6, <1>7, <1>8, <1>9 DEF ServeMessage, ServeReply

\* The task of a turn: what it does not do any more it tells.
LEMMA WorkStep == ASSUME ChatInv, NEW t \in Turn, Work(t) PROVE ChatInv'
<1>1. served \in [Turn -> Served] /\ served[t] \in Served
  BY DEF ChatInv, TypeOK
<1>2. PICK from, to, type : 
        /\ Works(t, from, to, type)
        /\ from \in {"running", "asking"} /\ to \in {"asking", "paused", "over"}
        /\ to = "asking" => served[t].pauses < MaxPauses
        /\ type \in {"ask_user", "turn_paused", "turn_done", "error"}
        /\ to # "asking" => type \in Unlocks
  BY DEF Work, Works, Unlocks
<1>3. PICK r : r = [served[t] EXCEPT !.status = to,
                                     !.pauses = IF to = "asking" THEN served[t].pauses + 1
                                                ELSE served[t].pauses]
  OBVIOUS
<1>4. r \in Served /\ r.status = to /\ r.heard = served[t].heard
  <2>1. PICK n \in 0..MaxPauses :
          n = IF to = "asking" THEN served[t].pauses + 1 ELSE served[t].pauses
    BY <1>1, <1>2, ChatAssumption DEF Served
  <2>2. r = [served[t] EXCEPT !.status = to, !.pauses = n]
    BY <1>3, <2>1
  <2>3. QED
    BY <1>1, <1>2, <2>2 DEF Served
<1>5. served' = [served EXCEPT ![t] = r]
  BY <1>1, <1>2, <1>3 DEF Works
<1>6. UNCHANGED <<conn, tries, hook, cache, outbox, drops>> /\ outbox' \in Seq(Wire)
  BY <1>2 DEF Works, ChatInv, TypeOK
<1>7. drops = 0 => served[t].heard
  BY <1>2 DEF Works, ChatInv, AllHeard, Runs
<1>8. PICK frames \in Seq(Frame) :
        /\ inbox' = inbox \o frames
        /\ \A j \in DOMAIN frames : frames[j].type = type
        /\ served[t].heard => 1 \in DOMAIN frames
  <2>1. CASE served[t].heard
    <3>1. About(type, t) \in Frame /\ About(type, t).type = type
      BY <1>2 DEF Frame, About
    <3>2. PICK f \in Frame : f = About(type, t) /\ f.type = type
      BY <3>1
    <3>3. inbox' = inbox \o <<f>>
      BY <1>2, <2>1, <3>2 DEF Works, Tell
    <3>4. <<f>> \in Seq(Frame) /\ DOMAIN <<f>> = {1} /\ <<f>>[1] = f
      OBVIOUS
    <3>5. QED
      BY <3>2, <3>3, <3>4
  <2>2. CASE ~served[t].heard
    <3>1. inbox' = inbox \o <<>> /\ <<>> \in Seq(Frame) /\ DOMAIN <<>> = {}
      BY <1>2, <2>2 DEF Works, ChatInv, TypeOK
    <3>2. QED
      BY <2>2, <3>1
  <2>3. QED
    BY <2>1, <2>2
<1>9. Named'
  <2>1. \A j \in DOMAIN inbox' : \/ j \in DOMAIN inbox /\ inbox'[j] = inbox[j]
                                 \/ \E i \in DOMAIN frames : inbox'[j] = frames[i]
    BY <1>8 DEF ChatInv, TypeOK
  <2>2. QED
    BY <1>2, <1>6, <1>8, <2>1 DEF ChatInv, Named
<1>10. /\ drops = 0 => to = "asking" \/ \E j \in DOMAIN frames : frames[j].type \in Unlocks
       /\ \A j \in DOMAIN frames : frames[j].type # "turn_started"
  BY <1>2, <1>7, <1>8
<1>11. ReplyOnWay => ReplyOnWay'
  BY <1>6 DEF ReplyOnWay
<1>12. drops = 0 /\ r.status \in {"running", "asking"} => r.heard
  BY <1>4, <1>7
<1>13. drops = 0 => \/ r.status \in {"running", "asking"}
                    \/ \E j \in DOMAIN frames : frames[j].type \in Unlocks
  BY <1>4, <1>10
<1>14. QED
  BY <1>4, <1>5, <1>6, <1>8, <1>9, <1>10, <1>11, <1>12, <1>13, ServerTells

\* The hook takes a frame.
LEMMA HandleStep == ASSUME ChatInv, HandleInbound PROVE ChatInv'
<1>1. PICK f \in Frame :
        /\ f = Head(inbox) /\ f = inbox[1] /\ 1 \in DOMAIN inbox
        /\ inbox' = Tail(inbox) /\ inbox' \in Seq(Frame)
        /\ \A i \in DOMAIN inbox' : i \in Nat /\ i + 1 \in DOMAIN inbox /\ inbox'[i] = inbox[i + 1]
        /\ \A i \in DOMAIN inbox : i \in Nat /\ (i = 1 \/ (i - 1 \in DOMAIN inbox' /\ inbox'[i - 1] = inbox[i]))
  <2>1. inbox \in Seq(Frame) /\ inbox # <<>> /\ inbox' = Tail(inbox)
    BY DEF ChatInv, TypeOK, HandleInbound
  <2>2. QED
    BY <2>1, RestOf
<1>2. /\ hook' = HookAfter(f)
      /\ UNCHANGED <<conn, tries, cache, outbox, served, drops>>
  BY <1>1 DEF HandleInbound
<1>3. hook \in Hook
  BY DEF ChatInv, TypeOK
<1>4. f.type = "turn_started" => f.turn \in Turn /\ served[f.turn] \in Served
  BY <1>1 DEF ChatInv, TypeOK, Named, Frame
<1>5. /\ hook' \in Hook
      /\ hook'.busy => /\ f.type \notin Unlocks
                       /\ \/ f.type = "turn_started" /\ hook'.active = f.turn
                          \/ f.type = "ask_user" /\ hook.busy /\ hook'.active = hook.active
  <2>1. CASE f.type = "turn_started"
    BY <1>2, <1>3, <1>4, <2>1 DEF HookAfter, Hook, Served, Unlocks
  <2>2. CASE f.type = "ask_user"
    BY <1>2, <1>3, <2>2 DEF HookAfter, Hook, Unlocks
  <2>3. CASE f.type = "turn_paused"
    BY <1>2, <1>3, <2>3 DEF HookAfter, Hook
  <2>4. CASE f.type \in {"turn_done", "turn_cancelled"}
    BY <1>2, <1>3, <2>4 DEF HookAfter, Hook
  <2>5. CASE f.type = "error"
    BY <1>2, <1>3, <2>5 DEF HookAfter, Hook
  <2>6. QED
    BY <2>1, <2>2, <2>3, <2>4, <2>5 DEF Frame
<1>6. TypeOK' /\ StopWorks'
  BY <1>1, <1>2, <1>4, <1>5, TurnsAndSessions DEF ChatInv, TypeOK, StopWorks
<1>7. Named'
  BY <1>1, <1>2 DEF ChatInv, Named
<1>8. ASSUME NEW k \in Nat, UnlockBehind(k + 1)
      PROVE  UnlockBehind(k)'
  <2>1. PICK j \in DOMAIN inbox : j > k + 1 /\ inbox[j].type \in Unlocks
    BY <1>8 DEF UnlockBehind
  <2>2. j \in Nat /\ j # 1 /\ j - 1 > k
    BY <1>1, <2>1
  <2>3. j - 1 \in DOMAIN inbox' /\ inbox'[j - 1] = inbox[j]
    BY <1>1, <2>2
  <2>4. QED
    BY <2>1, <2>2, <2>3 DEF UnlockBehind
<1>9. f.type \notin Unlocks /\ UnlockBehind(0) => UnlockBehind(1)
  BY <1>1 DEF UnlockBehind
<1>10. Waits'
  <2>1. SUFFICES ASSUME drops = 0, hook'.busy
                 PROVE  served[hook'.active].status \in {"running", "asking"} \/ UnlockBehind(0)' \/ ReplyOnWay'
    BY <1>2 DEF Waits, Runs
  <2>2. UnlockBehind(1) => UnlockBehind(0)'
    BY <1>8
  <2>3. CASE f.type = "turn_started" /\ hook'.active = f.turn
    BY <1>1, <2>1, <2>2, <2>3 DEF ChatInv, WillWait, Runs
  <2>4. CASE hook.busy /\ hook'.active = hook.active
    <3>1. Runs(hook.active) \/ UnlockBehind(0) \/ ReplyOnWay
      BY <2>1, <2>4, <1>2 DEF ChatInv, Waits
    <3>2. ReplyOnWay => ReplyOnWay'
      BY <1>2, <2>4 DEF ReplyOnWay
    <3>3. QED
      BY <1>5, <1>9, <2>1, <2>2, <2>4, <3>1, <3>2 DEF Runs
  <2>5. QED
    BY <1>5, <2>1, <2>3, <2>4
<1>11. WillWait'
  <2>1. SUFFICES ASSUME drops = 0, NEW k \in DOMAIN inbox', inbox'[k].type = "turn_started"
                 PROVE  served[inbox'[k].turn].status \in {"running", "asking"} \/ UnlockBehind(k)'
    BY <1>2 DEF WillWait, Runs
  <2>2. k \in Nat /\ k + 1 \in DOMAIN inbox /\ inbox'[k] = inbox[k + 1]
    BY <1>1
  <2>3. Runs(inbox[k + 1].turn) \/ UnlockBehind(k + 1)
    BY <1>2, <2>1, <2>2 DEF ChatInv, WillWait
  <2>4. QED
    BY <1>8, <2>2, <2>3 DEF Runs
<1>12. QED
  BY <1>2, <1>6, <1>7, <1>10, <1>11 DEF ChatInv, Attempts, AllHeard, Runs

\* Every step keeps the invariant of the chat,
LEMMA ChatInvStep == ChatInv /\ [Next]_chatVars => ChatInv'
<1>1. ASSUME ChatInv, UNCHANGED chatVars PROVE ChatInv'
  BY <1>1 DEF chatVars, ChatInv, TypeOK, Attempts, Named, StopWorks, AllHeard, Waits, WillWait, Runs,
              UnlockBehind, ReplyOnWay
<1>2. QED
  BY <1>1, LostOrReloaded, SocketStep, LearnerStep, ServeStep, WorkStep, HandleStep DEF Next

\* so it holds in the composition.
LEMMA ChatInvAlways == BothSpec => []ChatInv
<1>1. BothInit => ChatInv
  BY ChatInitially DEF BothInit
<1>2. [BothNext]_vars => [Next]_chatVars
  BY DEF BothNext, LoopStep, OwnerStep, LoopOther, ChatStep, TabStep, OnlyLoop, OnlyChat, OnlySession,
         vars, chatVars
<1>3. ChatInv /\ [BothNext]_vars => ChatInv'
  BY <1>2, ChatInvStep
<1>4. QED
  BY <1>1, <1>3, PTL DEF BothSpec

\* The input of the chat is locked only while Stop can reach the turn it waits
\* for, and on a socket that did not drop only for a turn that is running and
\* will tell, whatever frames and messages cross (useTutorChat).
THEOREM LockIsJustifiedHolds == BothSpec => []LockIsJustified
<1>1. ChatInv => LockIsJustified
  <2>1. SUFFICES ASSUME ChatInv, AtRest, drops = 0, hook.busy
                 PROVE  Runs(hook.active) /\ served[hook.active].heard
    BY DEF ChatInv, LockIsJustified, LockedMeansRunning, Runs
  <2>2. DOMAIN inbox = {} /\ DOMAIN outbox = {}
    BY <2>1 DEF AtRest
  <2>3. Runs(hook.active)
    BY <2>1, <2>2 DEF ChatInv, Waits, UnlockBehind, ReplyOnWay
  <2>4. hook.active \in Turn
    BY <2>1 DEF ChatInv, TypeOK, Hook, StopWorks
  <2>5. QED
    BY <2>1, <2>3, <2>4 DEF ChatInv, AllHeard
<1>2. QED
  BY <1>1, ChatInvAlways, PTL

----------------------------------------------------------------------------
(* The agent loop: its calls, its events, its owner, what its tools wrote  *)
(* and the conversation, each with what makes it inductive.                *)

Done(c) == phase[c] \in {"answered", "pauses"}
Speaks == {"delta", "content", "ask_user", "error"}
\* Said to the owner, who may not have taken it yet.
Uttered(e) == Loop!Heard(e) \/ \E i \in DOMAIN bus : bus[i] = e

\* The calls of the response at hand are different calls, and all that came
\* before are through.
Batches ==
    /\ \A i \in DOMAIN batch : batch[i] \in 1..Len(tools)
    /\ \A i, j \in DOMAIN batch : batch[i] = batch[j] => i = j
    /\ \A c \in 1..Len(tools) : Done(c) \/ \E i \in DOMAIN batch : batch[i] = c
\* They run one after the other, unless they run together.
InOrder ==
    Loop!Parallel \/ \A i, j \in DOMAIN batch : i < j /\ phase[batch[j]] # "waiting" => Done(batch[i])
\* The model is asked when all calls are through; the capability leaves
\* calls behind only where one has failed or read-only ones run together.
Stages ==
    /\ pc \in {"model", "stream"} => \A c \in 1..Len(tools) : Done(c)
    /\ pc = "tools" => /\ \A c \in 1..Len(tools) : phase[c] # "failed"
                       /\ batch # <<>> /\ conv[Len(conv)].calls = batch
    /\ pc = "closed" /\ ~Loop!Parallel =>
          \A i \in DOMAIN batch :
             phase[batch[i]] \in Loop!Ended \/ \E j \in DOMAIN batch : j < i /\ phase[batch[j]] = "failed"

\* Until the capability ends it says deltas only; a question is its last word.
Deltas == pc # "closed" => \A e \in Loop!Event \ {"delta"} : ~Uttered(e)
AskLast ==
    /\ Loop!PauseIsLast
    /\ \A i \in DOMAIN heard, j \in DOMAIN bus : heard[i] = "ask_user" => bus[j] = "done"
    /\ \A i, j \in DOMAIN bus : bus[i] = "ask_user" /\ i < j => bus[j] = "done"
\* It ends with a word, or the model was mute; a stream has said something.
Spoken ==
    outcome # "cancelled" =>
      /\ pc = "closed" => (memo.mute \/ \E e \in Speaks : Uttered(e))
      /\ pc = "stream" => Uttered("delta")
GroundedYet ==
    Uttered("content") /\ turn.meaning /\ round = 1 /\ ~memo.searched
        => memo.reminded \/ iter = MaxIterations

\* An owner that was not cancelled settles what it has heard to the end.
Owners ==
    /\ owner \in {"drain", "settle"} <=> outcome = "open"
    /\ owner = "rollback" => outcome \in {"failed", "cancelled"}
    /\ bound = (owner \notin {"left", "gone"})
    /\ owner # "drain" /\ outcome # "cancelled" =>
         pc = "closed" /\ (bus = <<>> \/ (turn.entry = "sse" /\ Loop!Heard("ask_user")))

\* What was written is in the owner's transaction or committed by it, and a
\* tool has a session of its own only to read.
Writes ==
    /\ written \subseteq Loop!Wrote
    /\ kept \subseteq Loop!Wrote
    /\ outcome \in {"open", "saved"} => Loop!Wrote \subseteq kept \cup written
    /\ outcome # "cancelled" =>
         /\ loose = {}
         /\ owner \in {"leave", "left", "gone"} => written = {}
         /\ \A c \in 1..Len(tools) : phase[c] = "own" => tools[c] \in Loop!ReadOnly

\* The j-th call of message k stands behind one that paused.
Behind(k, j) == \E i \in DOMAIN conv[k].calls : i < j /\ phase[conv[k].calls[i]] = "pauses"
\* Every call is made by one message.
Made ==
    /\ \A c \in 1..Len(tools) : \E k \in DOMAIN conv : \E j \in DOMAIN conv[k].calls : conv[k].calls[j] = c
    /\ \A k \in DOMAIN conv : \A j \in DOMAIN conv[k].calls : conv[k].calls[j] \in 1..Len(tools)
    /\ \A k, l \in DOMAIN conv : \A j \in DOMAIN conv[k].calls, i \in DOMAIN conv[l].calls :
          conv[k].calls[j] = conv[l].calls[i] => k = l /\ j = i
\* An answer stands as far behind the message as its call is in it.
AnswersPlaced ==
    \A i \in DOMAIN conv : conv[i].of # 0 =>
       \E k \in DOMAIN conv : \E j \in DOMAIN conv[k].calls :
          conv[k].calls[j] = conv[i].of /\ i = k + j /\ ~Behind(k, j)
\* The calls of all messages but the one at hand are answered or dropped.
Settled(k) ==
    \A j \in DOMAIN conv[k].calls :
        Behind(k, j) \/ (k + j \in DOMAIN conv /\ conv[k + j].of = conv[k].calls[j])
AllSettled == \A k \in DOMAIN conv : Settled(k) \/ (pc \in {"tools", "closed"} /\ conv[k].calls = batch)
\* A question leaves the conversation where its answer belongs.
PauseKept ==
    Uttered("ask_user") =>
       /\ pc = "closed" /\ Loop!Pausing # {}
       /\ \A c \in 1..Len(tools) : Done(c)
       /\ \E k \in DOMAIN conv : /\ conv[k].calls = batch
                                 /\ Len(conv) = k + Loop!First(Loop!Pausing) - 1
                                 /\ \A j \in 1..(Loop!First(Loop!Pausing) - 1) : conv[k + j].of = batch[j]
\* What an open or failed execution finds kept was written before a pause.
Kept == outcome \in {"open", "failed"} => \A c \in kept : Loop!MadeBefore(c)

Phase == {"waiting", "turn", "own"} \cup Loop!Ended

\* A set of numbers has a least one.
Below == {pair \in Nat \X Nat : pair[1] < pair[2]}
\* A set of numbers has a least one,
LEMMA LeastNumber ==
    ASSUME NEW S \in SUBSET Nat, S # {}
    PROVE  \E m \in S : \A n \in S : m <= n
<1>1. IsWellFoundedOn(Below, Nat)
  BY NatLessThanWellFounded DEF OpToRel, Below
<1>2. PICK m \in S : \A n \in S : ~(<<n, m>> \in Below)
  BY <1>1, WFMin
<1>3. \A n \in S : n < m => <<n, m>> \in Below
  BY DEF Below
<1>4. \A n \in S : m \in Nat /\ n \in Nat /\ ~(n < m)
  BY <1>2, <1>3
<1>5. \A n \in S : m <= n
  BY <1>4
<1>6. QED
  BY <1>5

\* which First gives.
LEMMA FirstIsLeast ==
    ASSUME NEW S \in SUBSET Nat, S # {}
    PROVE  Loop!First(S) \in S /\ \A n \in S : Loop!First(S) <= n
BY LeastNumber DEF Loop!First

\* Every call has a phase.
LEMMA PhaseSeq ==
    ASSUME Loop!TypeOK
    PROVE  phase \in Seq(Phase) /\ Len(phase) = Len(tools) /\ Len(tools) \in Nat
<1>1. Len(tools) \in Nat /\ phase \in [1..Len(tools) -> Phase]
  BY DEF Loop!TypeOK, Phase
<1>2. phase \in Seq(Phase)
  BY <1>1, SeqDef
<1>3. QED
  BY <1>1, <1>2, LenProperties

\* A call goes on.
LEMMA PhaseSet ==
    ASSUME Loop!TypeOK, NEW c \in 1..Len(tools), NEW p \in Phase, phase' = [phase EXCEPT ![c] = p]
    PROVE  /\ phase' \in [1..Len(tools) -> Phase] /\ phase'[c] = p
           /\ \A d \in 1..Len(tools) : d # c => phase'[d] = phase[d]
BY DEF Loop!TypeOK, Phase

\* The conversation only grows.
LEMMA Longer ==
    ASSUME Loop!TypeOK, NEW more \in Seq(Loop!Message), conv' = conv \o more
    PROVE  /\ conv' \in Seq(Loop!Message) /\ Len(conv') = Len(conv) + Len(more)
           /\ Len(conv) \in Nat /\ Len(more) \in Nat
           /\ DOMAIN conv = 1..Len(conv) /\ DOMAIN conv' = 1..Len(conv') /\ DOMAIN more = 1..Len(more)
           /\ \A k \in DOMAIN conv : k \in DOMAIN conv' /\ conv'[k] = conv[k]
           /\ \A j \in DOMAIN more : Len(conv) + j \in DOMAIN conv' /\ conv'[Len(conv) + j] = more[j]
           /\ \A k \in DOMAIN conv' : k \in DOMAIN conv \/ k - Len(conv) \in DOMAIN more
BY DEF Loop!TypeOK

\* A conversation with one more message.
LEMMA AppendIsLonger ==
    ASSUME Loop!TypeOK, NEW m \in Loop!Message, conv' = Append(conv, m)
    PROVE  /\ conv' = conv \o <<m>> /\ <<m>> \in Seq(Loop!Message)
           /\ conv' \in Seq(Loop!Message) /\ Len(conv') = Len(conv) + 1
           /\ Len(conv) \in Nat
           /\ DOMAIN conv = 1..Len(conv) /\ DOMAIN conv' = 1..(Len(conv) + 1)
           /\ \A k \in DOMAIN conv : k \in DOMAIN conv' /\ conv'[k] = conv[k]
           /\ conv'[Len(conv) + 1] = m
BY DEF Loop!TypeOK

\* The messages.
LEMMA MessagesTyped ==
    /\ \A role \in {"user", "system"} : Loop!Said(role) \in Loop!Message
    /\ \A cs \in Seq(Loop!Call) : Loop!CallsMade(cs) \in Loop!Message
    /\ \A c \in Loop!Call : Loop!Answer(c) \in Loop!Message
    /\ \A cs \in Seq(Loop!Call) : Loop!AnswersTo(cs) \in Seq(Loop!Message)
<1>1. \A cs \in Seq(Loop!Call) : Loop!CallsMade(cs) \in Loop!Message
  BY DEF Loop!CallsMade, Loop!Message
<1>2. \A c \in Loop!Call : Loop!Answer(c) \in Loop!Message
  BY DEF Loop!Answer, Loop!Message
<1>3. \A role \in {"user", "system"} : Loop!Said(role) \in Loop!Message
  BY DEF Loop!Said, Loop!Message
<1>4. \A cs \in Seq(Loop!Call) : Loop!AnswersTo(cs) \in Seq(Loop!Message)
  BY <1>2 DEF Loop!AnswersTo
<1>5. QED
  BY <1>1, <1>2, <1>3, <1>4

\* The capability ends: what it says last, and DONE.
LEMMA Closing ==
    ASSUME Loop!TypeOK, NEW e \in Loop!Event, Loop!Close(<<e>>)
    PROVE  /\ pc' = "closed" /\ iter' = iter /\ bus' \in Seq(Loop!Event)
           /\ Len(bus) \in Nat /\ Len(bus') = Len(bus) + 2
           /\ \A i \in 1..Len(bus) : bus'[i] = bus[i]
           /\ bus'[Len(bus) + 1] = e /\ bus'[Len(bus) + 2] = "done"
<1>1. bus' = bus \o <<e>> \o <<"done">> /\ pc' = "closed" /\ iter' = iter
  BY DEF Loop!Close
<1>2. "done" \in Loop!Event /\ bus \in Seq(Loop!Event)
  BY DEF Loop!Event, Loop!TypeOK
<1>3. QED
  BY <1>1, <1>2

\* Closing without a word adds the "done" event.
LEMMA ClosingMute ==
    ASSUME Loop!TypeOK, Loop!Close(<<>>)
    PROVE  /\ pc' = "closed" /\ iter' = iter /\ bus' \in Seq(Loop!Event)
           /\ Len(bus) \in Nat /\ Len(bus') = Len(bus) + 1
           /\ \A i \in 1..Len(bus) : bus'[i] = bus[i]
           /\ bus'[Len(bus) + 1] = "done"
<1>1. bus' = bus \o <<>> \o <<"done">> /\ pc' = "closed" /\ iter' = iter
  BY DEF Loop!Close
<1>2. "done" \in Loop!Event /\ bus \in Seq(Loop!Event)
  BY DEF Loop!Event, Loop!TypeOK
<1>3. bus \o <<>> = bus
  BY <1>2
<1>4. QED
  BY <1>1, <1>2, <1>3

\* What the model calls.
LEMMA Calling ==
    ASSUME Loop!LoopAssumption, Loop!TypeOK, Loop!ModelCalls
    PROVE  \E n \in 1..MaxBatch :
             /\ n \in Nat /\ n >= 1 /\ Len(tools) \in Nat
             /\ Len(tools') = Len(tools) + n /\ Len(tools') <= MaxCalls /\ tools' \in Seq(Loop!Tool)
             /\ phase' \in [1..Len(tools') -> Phase]
             /\ \A c \in 1..Len(tools) : c \in 1..Len(tools') /\ tools'[c] = tools[c] /\ phase'[c] = phase[c]
             /\ \A i \in 1..n : phase'[Len(tools) + i] = "waiting"
             /\ batch' \in Seq(Loop!Call) /\ DOMAIN batch' = 1..n /\ Len(batch') = n
             /\ \A i \in 1..n : batch'[i] = Len(tools) + i
             /\ conv' = Append(conv, Loop!CallsMade(batch')) /\ Loop!CallsMade(batch') \in Loop!Message
<1>0. PICK n \in 1..MaxBatch : \E names \in [1..n -> Loop!Tool] :
         /\ Len(tools) + n <= MaxCalls
         /\ tools' = tools \o names
         /\ phase' = phase \o [i \in 1..n |-> "waiting"]
         /\ batch' = [i \in 1..n |-> Len(tools) + i]
         /\ conv' = Append(conv, Loop!CallsMade(batch'))
  BY DEF Loop!ModelCalls
<1>1. PICK names \in [1..n -> Loop!Tool] :
         /\ Len(tools) + n <= MaxCalls
         /\ tools' = tools \o names
         /\ phase' = phase \o [i \in 1..n |-> "waiting"]
         /\ batch' = [i \in 1..n |-> Len(tools) + i]
         /\ conv' = Append(conv, Loop!CallsMade(batch'))
  BY <1>0
<1>2. n \in Nat /\ n >= 1
  OBVIOUS
<1>3. names \in Seq(Loop!Tool) /\ Len(names) = n
  BY <1>2, SeqDef, LenProperties
<1>4. PICK fresh \in Seq(Phase) :
        /\ fresh = [i \in 1..n |-> "waiting"] /\ Len(fresh) = n
        /\ \A i \in 1..n : fresh[i] = "waiting"
  <2>1. PICK fresh \in [1..n -> Phase] : fresh = [i \in 1..n |-> "waiting"]
    BY DEF Phase
  <2>2. fresh \in Seq(Phase)
    BY <1>2, SeqDef
  <2>3. QED
    BY <1>2, <2>1, <2>2, LenProperties
<1>5. phase \in Seq(Phase) /\ Len(phase) = Len(tools) /\ Len(tools) \in Nat /\ tools \in Seq(Loop!Tool)
  BY PhaseSeq DEF Loop!TypeOK
<1>6. /\ tools' \in Seq(Loop!Tool) /\ Len(tools') = Len(tools) + n
      /\ \A c \in 1..Len(tools) : c \in 1..Len(tools') /\ tools'[c] = tools[c]
  <2>1. tools' = tools \o names
    BY <1>1
  <2>2. /\ tools \o names \in Seq(Loop!Tool) /\ Len(tools \o names) = Len(tools) + Len(names)
        /\ \A c \in 1..Len(tools) : (tools \o names)[c] = tools[c]
    <3>1. tools \in Seq(Loop!Tool) /\ names \in Seq(Loop!Tool)
      BY <1>3, <1>5
    <3>2. QED
      BY <3>1, ConcatProperties
  <2>3. QED
    BY <1>2, <1>3, <1>5, <2>1, <2>2
<1>7. /\ phase' \in Seq(Phase) /\ Len(phase') = Len(tools')
      /\ \A c \in 1..Len(tools) : phase'[c] = phase[c]
      /\ \A i \in 1..n : phase'[Len(tools) + i] = "waiting"
  <2>1. phase' = phase \o fresh
    BY <1>1, <1>4
  <2>2. phase' \in Seq(Phase) /\ Len(phase') = Len(phase) + Len(fresh)
    BY <1>5, <2>1, ConcatProperties
  <2>3. \A c \in 1..Len(phase) : phase'[c] = phase[c]
    BY <1>4, <1>5, <2>1
  <2>4. \A i \in 1..Len(fresh) : phase'[Len(phase) + i] = fresh[i]
    BY <1>4, <1>5, <2>1
  <2>5. QED
    BY <1>2, <1>4, <1>5, <1>6, <2>2, <2>3, <2>4
<1>8. phase' \in [1..Len(tools') -> Phase]
  BY <1>7
<1>9. /\ batch' \in [1..n -> Loop!Call] /\ DOMAIN batch' = 1..n
      /\ \A i \in 1..n : batch'[i] = Len(tools) + i
  BY <1>1, <1>2, <1>5 DEF Loop!Call, Loop!LoopAssumption
<1>10. batch' \in Seq(Loop!Call) /\ Len(batch') = n
  BY <1>2, <1>9, SeqDef, LenProperties
<1>11. Loop!CallsMade(batch') \in Loop!Message
  BY <1>10, MessagesTyped
<1>12. QED
  BY <1>1, <1>2, <1>5, <1>6, <1>7, <1>8, <1>9, <1>10, <1>11

LoopInv ==
    /\ Loop!TypeOK /\ Batches /\ InOrder /\ Stages
    /\ Deltas /\ AskLast /\ Spoken /\ GroundedYet /\ Owners
    /\ Writes /\ Made /\ AnswersPlaced /\ AllSettled /\ PauseKept /\ Kept

\* The places of the first call that pauses.
LEMMA PausePlaced ==
    ASSUME Loop!TypeOK, Loop!Pausing # {}
    PROVE  /\ Loop!Pausing \subseteq 1..Len(batch) /\ Len(batch) \in Nat
           /\ Loop!First(Loop!Pausing) \in Loop!Pausing /\ Loop!First(Loop!Pausing) \in 1..Len(batch)
           /\ \A i \in 1..(Loop!First(Loop!Pausing) - 1) : i \notin Loop!Pausing /\ i \in DOMAIN batch
<1>1. batch \in Seq(Loop!Call) /\ Len(batch) \in Nat /\ DOMAIN batch = 1..Len(batch)
  BY DEF Loop!TypeOK
<1>2. Loop!Pausing \subseteq 1..Len(batch) /\ Loop!Pausing \in SUBSET Nat
  BY <1>1 DEF Loop!Pausing
<1>3. Loop!First(Loop!Pausing) \in Loop!Pausing /\ \A n \in Loop!Pausing : Loop!First(Loop!Pausing) <= n
  BY <1>2, FirstIsLeast
<1>4. PICK f : f = Loop!First(Loop!Pausing)
  OBVIOUS
<1>5. f \in 1..Len(batch) /\ \A n \in Loop!Pausing : f <= n
  BY <1>2, <1>3, <1>4
<1>6. \A i \in 1..(f - 1) : i \notin Loop!Pausing /\ i \in DOMAIN batch
  BY <1>1, <1>2, <1>5
<1>7. QED
  BY <1>1, <1>2, <1>3, <1>4, <1>5, <1>6

\* Pausing is of the calls at hand.
LEMMA FewAnswered ==
    ASSUME Loop!TypeOK, Loop!Pausing # {}, NEW cs, cs = SubSeq(batch, 1, Loop!First(Loop!Pausing) - 1)
    PROVE  /\ cs \in Seq(Loop!Call) /\ Len(cs) = Loop!First(Loop!Pausing) - 1
           /\ DOMAIN cs = 1..(Loop!First(Loop!Pausing) - 1)
           /\ \A i \in DOMAIN cs : i \in DOMAIN batch /\ cs[i] = batch[i]
<1>1. batch \in Seq(Loop!Call) /\ Len(batch) \in Nat /\ Loop!First(Loop!Pausing) \in 1..Len(batch)
  BY PausePlaced DEF Loop!TypeOK
<1>2. QED
  BY <1>1

\* The loop starts with its types,
LEMMA LoopTypesInitially == Loop!LoopAssumption /\ Loop!Init => Loop!TypeOK
<1> SUFFICES ASSUME Loop!LoopAssumption, Loop!Init PROVE Loop!TypeOK
  OBVIOUS
<1>1. conv \in Seq(Loop!Message)
  BY MessagesTyped DEF Loop!Init
<1>2. QED
  BY <1>1 DEF Loop!Init, Loop!TypeOK, Loop!LoopAssumption, Loop!NoMemo

\* keeps them when it goes on,
LEMMA NextIterationTypes ==
    ASSUME Loop!LoopAssumption, Loop!TypeOK, Loop!NextIteration
    PROVE  pc' \in {"model", "closed"} /\ iter' \in 1..MaxIterations /\ bus' \in Seq(Loop!Event)
<1>1. CASE Loop!Close(<<"content">>)
  <2>1. "content" \in Loop!Event
    BY DEF Loop!Event
  <2>2. QED
    BY <1>1, <2>1, Closing DEF Loop!TypeOK
<1>2. CASE ~Loop!Close(<<"content">>)
  BY <1>2 DEF Loop!NextIteration, Loop!TypeOK, Loop!LoopAssumption
<1>3. QED
  BY <1>1, <1>2

\* when it raises
LEMMA RaiseTypes ==
    ASSUME Loop!LoopAssumption, Loop!TypeOK, Loop!Raise
    PROVE  pc' = "closed" /\ iter' \in 1..MaxIterations /\ bus' \in Seq(Loop!Event)
<1>1. "error" \in Loop!Event
  BY DEF Loop!Event
<1>2. QED
  BY <1>1, Closing DEF Loop!Raise, Loop!TypeOK

\* and in every step.
LEMMA LoopTypesStep ==
    ASSUME Loop!LoopAssumption, LoopInv, [Loop!Next]_(Loop!vars)
    PROVE  Loop!TypeOK'
<1> USE DEF LoopInv
<1>1. CASE Loop!StreamDelta
  <2>1. bus' \in Seq(Loop!Event)
    BY <1>1 DEF Loop!StreamDelta, Loop!Event, Loop!TypeOK
  <2>2. QED
    BY <1>1, <2>1 DEF Loop!StreamDelta, Loop!TypeOK, Loop!Event, Loop!Call, Loop!Tool, Loop!Message,
       Loop!ownerVars, Loop!dbVars
<1>2. CASE Loop!StreamEnd
  <2>1. pc' \in {"model", "closed"} /\ iter' \in 1..MaxIterations /\ bus' \in Seq(Loop!Event)
    BY <1>2, NextIterationTypes, RaiseTypes, ClosingMute DEF Loop!StreamEnd, Loop!TypeOK
  <2>2. QED
    BY <1>2, <2>1 DEF Loop!StreamEnd, Loop!TypeOK, Loop!Event, Loop!Call, Loop!Tool, Loop!Message,
       Loop!ownerVars, Loop!dbVars
<1>3. CASE Loop!ModelCalls
  <2>1. /\ Len(tools) \in Nat /\ Len(tools) <= Len(tools') /\ Len(tools') <= MaxCalls
        /\ tools' \in Seq(Loop!Tool) /\ phase' \in [1..Len(tools') -> Phase] /\ batch' \in Seq(Loop!Call)
    BY <1>3, Calling
  <2>2. conv' \in Seq(Loop!Message)
    BY <1>3, Calling, AppendIsLonger
  <2>3. 1..Len(tools) \subseteq 1..Len(tools')
    BY <2>1
  <2>4. QED
    BY ZenonT(40), <1>3, <2>1, <2>2, <2>3
    DEF Loop!ModelCalls, Loop!TypeOK, Phase, Loop!Event, Loop!Call, Loop!Tool, Loop!Message, Loop!ownerVars,
    Loop!dbVars
<1>4. CASE Loop!ModelAnswers
  <2>1. PICK text \in BOOLEAN :
         IF text /\ Loop!NeedsGrounding
         THEN /\ memo' = [memo EXCEPT !.reminded = TRUE]
              /\ conv' = Append(conv, Loop!Said("system"))
              /\ Loop!NextIteration
         ELSE /\ memo' = [memo EXCEPT !.mute = ~text]
              /\ Loop!Close(IF text THEN <<"content">> ELSE <<>>)
              /\ UNCHANGED conv
    BY <1>4 DEF Loop!ModelAnswers
  <2>2. memo' \in [reminded : BOOLEAN, searched : BOOLEAN, mute : BOOLEAN]
    BY <2>1 DEF Loop!TypeOK
  <2>3. conv' \in Seq(Loop!Message)
    BY <2>1, MessagesTyped, AppendIsLonger DEF Loop!TypeOK
  <2>4. pc' \in {"model", "closed"} /\ iter' \in 1..MaxIterations /\ bus' \in Seq(Loop!Event)
    <3>1. CASE text /\ Loop!NeedsGrounding
      BY <2>1, <3>1, NextIterationTypes
    <3>2. CASE ~text
      BY <2>1, <3>2, ClosingMute DEF Loop!TypeOK
    <3>3. CASE text /\ ~Loop!NeedsGrounding
      <4>1. "content" \in Loop!Event
        BY DEF Loop!Event
      <4>2. QED
        BY <2>1, <3>3, <4>1, Closing DEF Loop!TypeOK
    <3>4. QED
      BY <3>1, <3>2, <3>3
  <2>5. QED
    BY <1>4, <2>2, <2>3, <2>4 DEF Loop!ModelAnswers, Loop!TypeOK, Loop!Event, Loop!Call, Loop!Tool,
       Loop!Message, Loop!ownerVars, Loop!dbVars
<1>5. CASE Loop!ModelFails
  <2>1. pc' = "closed" /\ iter' \in 1..MaxIterations /\ bus' \in Seq(Loop!Event)
    BY <1>5, RaiseTypes DEF Loop!ModelFails
  <2>2. QED
    BY <1>5, <2>1 DEF Loop!ModelFails, Loop!TypeOK, Loop!Event, Loop!Call, Loop!Tool, Loop!Message,
       Loop!ownerVars, Loop!dbVars
<1>6. CASE Loop!Collect
  <2>1. pc' \in {"model", "closed"} /\ iter' \in 1..MaxIterations /\ bus' \in Seq(Loop!Event)
    <3>1. CASE Loop!Pausing = {}
      BY <1>6, <3>1, NextIterationTypes DEF Loop!Collect
    <3>2. CASE Loop!Pausing # {}
      <4>1. "ask_user" \in Loop!Event
        BY DEF Loop!Event
      <4>2. QED
        BY <1>6, <3>2, <4>1, Closing DEF Loop!Collect, Loop!TypeOK
    <3>3. QED
      BY <3>1, <3>2
  <2>2. conv' \in Seq(Loop!Message)
    <3>1. CASE Loop!Pausing = {}
      <4>1. batch \in Seq(Loop!Call) /\ conv' = conv \o Loop!AnswersTo(batch)
        BY <1>6, <3>1 DEF Loop!Collect, Loop!TypeOK
      <4>2. QED
        BY <4>1, MessagesTyped, Longer
    <3>2. CASE Loop!Pausing # {}
      <4>1. conv' = conv \o Loop!AnswersTo(SubSeq(batch, 1, Loop!First(Loop!Pausing) - 1))
        BY <1>6, <3>2 DEF Loop!Collect
      <4>2. SubSeq(batch, 1, Loop!First(Loop!Pausing) - 1) \in Seq(Loop!Call)
        BY <3>2, FewAnswered
      <4>3. QED
        BY <4>1, <4>2, MessagesTyped, Longer
    <3>3. QED
      BY <3>1, <3>2
  <2>3. QED
    BY <1>6, <2>1, <2>2 DEF Loop!Collect, Loop!TypeOK, Loop!Event, Loop!Call, Loop!Tool, Loop!Message,
       Loop!ownerVars, Loop!dbVars
<1>7. ASSUME NEW c \in 1..Len(tools), Loop!ToolStart(c) \/ Loop!ToolAtOnce(c) PROVE Loop!TypeOK'
  <2>1. PICK p \in Phase : phase' = [phase EXCEPT ![c] = p]
    BY <1>7 DEF Loop!ToolStart, Loop!ToolAtOnce, Phase, Loop!Ended
  <2>2. phase' \in [1..Len(tools) -> Phase]
    BY <2>1, PhaseSet
  <2>3. QED
    BY <1>7, <2>2
    DEF Loop!ToolStart, Loop!ToolAtOnce, Phase, Loop!TypeOK, Loop!Event, Loop!Call, Loop!Tool, Loop!Message,
    Loop!ownerVars, Loop!dbVars
<1>8. ASSUME NEW c \in 1..Len(tools), Loop!ToolEnd(c) PROVE Loop!TypeOK'
  <2>1. phase' \in [1..Len(tools) -> Phase]
    BY <1>8, PhaseSet DEF Loop!ToolEnd, Phase, Loop!Ended
  <2>2. {written', kept', loose'} \subseteq SUBSET (1..Len(tools))
    BY <1>8 DEF Loop!ToolEnd, Loop!CommitIfUnbound, Loop!TypeOK
  <2>3. memo' \in [reminded : BOOLEAN, searched : BOOLEAN, mute : BOOLEAN]
    BY <1>8 DEF Loop!ToolEnd, Loop!TypeOK
  <2>4. QED
    BY <1>8, <2>1, <2>2, <2>3 DEF Loop!ToolEnd, Phase, Loop!TypeOK, Loop!Event, Loop!Call, Loop!Tool,
       Loop!Message, Loop!ownerVars
<1>9. ASSUME NEW c \in 1..Len(tools), Loop!ToolFails(c) PROVE Loop!TypeOK'
  <2>1. phase' \in [1..Len(tools) -> Phase]
    BY <1>9, PhaseSet DEF Loop!ToolFails, Phase, Loop!Ended
  <2>2. pc' \in {"model", "stream", "tools", "closed"} /\ iter' \in 1..MaxIterations /\ bus' \in Seq(Loop!Event)
    BY <1>9, RaiseTypes DEF Loop!ToolFails, Loop!TypeOK
  <2>3. QED
    BY <1>9, <2>1, <2>2 DEF Loop!ToolFails, Phase, Loop!TypeOK, Loop!Event, Loop!Call, Loop!Tool, Loop!Message,
       Loop!ownerVars, Loop!dbVars
<1>10. CASE Loop!Receive
  <2>1. bus \in Seq(Loop!Event) /\ heard \in Seq(Loop!Event) /\ bus # <<>>
    BY <1>10 DEF Loop!Receive, Loop!TypeOK
  <2>2. Head(bus) \in Loop!Event /\ Tail(bus) \in Seq(Loop!Event)
    BY <2>1
  <2>3. bus' \in Seq(Loop!Event) /\ heard' \in Seq(Loop!Event)
    BY <1>10, <2>1, <2>2 DEF Loop!Receive
  <2>4. QED
    BY <1>10, <2>3 DEF Loop!Receive, Loop!TypeOK, Loop!Event, Loop!Call, Loop!Tool, Loop!Message,
       Loop!loopVars, Loop!dbVars
<1>11. CASE Loop!FindCancelled
  <2>1. bus \in Seq(Loop!Event) /\ bus # <<>>
    BY <1>11 DEF Loop!FindCancelled, Loop!TypeOK
  <2>2. bus' \in Seq(Loop!Event)
    BY <1>11, <2>1 DEF Loop!FindCancelled
  <2>3. QED
    BY <1>11, <2>2 DEF Loop!FindCancelled, Loop!TypeOK, Loop!Event, Loop!Call, Loop!Tool, Loop!Message,
       Loop!loopVars, Loop!dbVars
<1>12. CASE Loop!StreamOver \/ Loop!Cancel \/ Loop!RollBack \/ Loop!Unbind \/ Loop!CloseSession \/ Loop!Commit
  BY ZenonT(40), <1>12 DEF Loop!StreamOver, Loop!Cancel, Loop!RollBack, Loop!Unbind, Loop!CloseSession, Loop!Commit,
     Loop!TypeOK, Loop!Event, Loop!Call, Loop!Tool, Loop!Message, Loop!loopVars, Loop!dbVars
<1>13. CASE Loop!Resume
  <2>1. Loop!Pausing # {}
    BY <1>13 DEF Loop!Resume, Loop!Paused, PauseKept, Uttered
  <2>2. Loop!First(Loop!Pausing) \in 1..Len(batch)
    BY <2>1, PausePlaced
  <2>3. batch[Loop!First(Loop!Pausing)] \in Loop!Call
    BY <2>2 DEF Loop!TypeOK
  <2>4. conv' \in Seq(Loop!Message)
    BY <1>13, <2>3, MessagesTyped DEF Loop!Resume, Loop!TypeOK
  <2>5. round' \in 1..MaxRounds /\ iter' \in 1..MaxIterations
    BY <1>13 DEF Loop!Resume, Loop!LoopAssumption, Loop!TypeOK
  <2>6. batch' \in Seq(Loop!Call) /\ heard' \in Seq(Loop!Event)
    BY <1>13 DEF Loop!Resume
  <2>7. QED
    BY <1>13, <2>4, <2>5, <2>6 DEF Loop!Resume, Loop!TypeOK, Loop!NoMemo, Loop!Event, Loop!Call, Loop!Tool,
       Loop!Message, Loop!dbVars
<1>14. CASE UNCHANGED Loop!vars
  BY <1>14 DEF Loop!vars, Loop!loopVars, Loop!ownerVars, Loop!dbVars, Loop!TypeOK, Loop!Event, Loop!Call,
     Loop!Tool, Loop!Message
<1>15. QED
  BY <1>1, <1>2, <1>3, <1>4, <1>5, <1>6, <1>7, <1>8, <1>9, <1>10, <1>11, <1>12, <1>13, <1>14
  DEF Loop!Next, Loop!LoopStep, Loop!OwnerStep

\* The steps that leave the calls alone.
LEMMA CallsRest ==
    ASSUME LoopInv, UNCHANGED <<tools, phase, batch>>
    PROVE  Batches' /\ InOrder' /\ Loop!Parallel' = Loop!Parallel
BY DEF LoopInv, Batches, InOrder, Loop!Parallel, Done

\* A call that is not through is one of the response at hand, which is not
\* answered to the model.
LEMMA OnHand ==
    ASSUME LoopInv, NEW c \in 1..Len(tools), ~Done(c)
    PROVE  /\ pc \in {"tools", "closed"}
           /\ \E i \in DOMAIN batch : batch[i] = c /\ \A j \in DOMAIN batch : batch[j] = c => j = i
BY DEF LoopInv, Loop!TypeOK, Batches, Stages

\* The calls when the loop leaves the tools alone.
LEMMA StagesRest ==
    ASSUME LoopInv, UNCHANGED <<tools, phase, batch>>, pc \in {"model", "stream"}, pc' # "tools"
    PROVE  Stages'
<1>1. \A c \in 1..Len(tools) : Done(c)
  BY DEF LoopInv, Stages
<1>2. \A i \in DOMAIN batch : phase[batch[i]] \in Loop!Ended
  BY <1>1 DEF LoopInv, Batches, Done, Loop!Ended
<1>3. QED
  BY <1>1, <1>2 DEF Stages, Done

\* What may start stands behind calls that are through, and before the
\* capability has left.
LEMMA Starts ==
    ASSUME LoopInv, NEW c \in 1..Len(tools), Loop!MayStart(c)
    PROVE  /\ phase[c] = "waiting" /\ pc \in {"tools", "closed"}
           /\ ~Loop!Parallel => pc = "tools"
           /\ Loop!Parallel => tools[c] \in Loop!ReadOnly
           /\ \E i \in DOMAIN batch :
                /\ batch[i] = c /\ \A j \in DOMAIN batch : batch[j] = c => j = i
                /\ ~Loop!Parallel => \A j \in DOMAIN batch : j < i => Done(batch[j])
<1>1. PICK i \in DOMAIN batch : batch[i] = c /\ (Loop!Parallel \/ \A j \in 1..(i - 1) : phase[batch[j]] \in Loop!Ended \ {"failed"})
  BY DEF Loop!MayStart
<1>2. phase[c] = "waiting" /\ ~Done(c)
  BY DEF Loop!MayStart, Done
<1>3. pc \in {"tools", "closed"} /\ \A j \in DOMAIN batch : batch[j] = c => j = i
  BY <1>1, <1>2, OnHand
<1>4. DOMAIN batch = 1..Len(batch) /\ Len(batch) \in Nat
  BY DEF LoopInv, Loop!TypeOK
<1>5. ~Loop!Parallel => \A j \in DOMAIN batch : j < i => phase[batch[j]] \in Loop!Ended \ {"failed"}
  BY <1>1, <1>4
<1>6. ~Loop!Parallel => \A j \in DOMAIN batch : j < i => Done(batch[j]) /\ phase[batch[j]] # "failed"
  BY <1>5 DEF Done, Loop!Ended
<1>7. ~Loop!Parallel => pc = "tools"
  BY <1>1, <1>2, <1>3, <1>6 DEF LoopInv, Stages, Loop!Ended
<1>8. Loop!Parallel => tools[c] \in Loop!ReadOnly
  BY <1>1 DEF Loop!Parallel
<1>9. QED
  BY <1>1, <1>2, <1>3, <1>6, <1>7, <1>8

\* A call starts or is over at once.
LEMMA CallStarts ==
    ASSUME LoopInv, NEW c \in 1..Len(tools), Loop!ToolStart(c) \/ Loop!ToolAtOnce(c)
    PROVE  Batches' /\ InOrder' /\ Stages'
<1>1. Loop!MayStart(c) /\ UNCHANGED <<tools, batch, pc, conv>>
  BY DEF Loop!ToolStart, Loop!ToolAtOnce
<1>2. PICK p \in Phase \ {"waiting", "failed"} : phase' = [phase EXCEPT ![c] = p]
  BY DEF Loop!ToolStart, Loop!ToolAtOnce, Phase, Loop!Ended
<1>3. phase'[c] = p /\ \A d \in 1..Len(tools) : d # c => phase'[d] = phase[d]
  BY <1>2, PhaseSet DEF LoopInv
<1>4. Loop!Parallel' = Loop!Parallel
  BY <1>1 DEF Loop!Parallel
<1>5. PICK i \in DOMAIN batch :
        /\ batch[i] = c /\ \A j \in DOMAIN batch : batch[j] = c => j = i
        /\ ~Loop!Parallel => \A j \in DOMAIN batch : j < i => Done(batch[j])
  BY <1>1, Starts
<1>6. /\ phase[c] = "waiting" /\ ~Done(c) /\ pc \in {"tools", "closed"}
      /\ ~Loop!Parallel => pc = "tools"
  BY <1>1, Starts DEF Done
<1>7. \A j \in DOMAIN batch : batch[j] \in 1..Len(tools)
  BY DEF LoopInv, Batches
<1>8. Batches'
  BY <1>1, <1>3, <1>5, <1>7 DEF LoopInv, Batches, Done
<1>9. InOrder'
  <2> SUFFICES ASSUME ~Loop!Parallel, NEW j \in DOMAIN batch, NEW k \in DOMAIN batch, j < k, phase'[batch[k]] # "waiting"
               PROVE  Done(batch[j])'
    BY <1>1, <1>4 DEF InOrder
  <2>1. Done(batch[j])
    <3>1. CASE k = i
      BY <3>1, <1>5
    <3>2. CASE k # i
      BY <3>2, <1>3, <1>5, <1>7 DEF LoopInv, InOrder
    <3>3. QED
      BY <3>1, <3>2
  <2>2. batch[j] # c
    BY <2>1, <1>6
  <2>3. QED
    BY <2>1, <2>2, <1>1, <1>3, <1>7 DEF Done
<1>10. Stages'
  BY <1>1, <1>2, <1>3, <1>4, <1>6 DEF LoopInv, Stages
<1>11. QED
  BY <1>8, <1>9, <1>10

\* A call that runs has an answer, or fails.
LEMMA CallEnds ==
    ASSUME LoopInv, NEW c \in 1..Len(tools), Loop!ToolEnd(c) \/ Loop!ToolFails(c)
    PROVE  Batches' /\ InOrder' /\ Stages'
<1>1. phase[c] \in {"turn", "own"} /\ UNCHANGED <<tools, batch, conv>>
  BY DEF Loop!ToolEnd, Loop!ToolFails
<1>2. PICK p \in {"answered", "failed"} :
        /\ phase' = [phase EXCEPT ![c] = p]
        /\ p = "answered" => pc' = pc
        /\ p = "failed" => pc' = IF pc = "tools" THEN "closed" ELSE pc
  <2>1. CASE Loop!ToolEnd(c)
    BY <2>1 DEF Loop!ToolEnd
  <2>2. CASE Loop!ToolFails(c)
    BY <2>2 DEF Loop!ToolFails, Loop!Raise, Loop!Close
  <2>3. QED
    BY <2>1, <2>2
<1>3. phase'[c] = p /\ \A d \in 1..Len(tools) : d # c => phase'[d] = phase[d]
  BY <1>2, PhaseSet DEF LoopInv, Phase, Loop!Ended
<1>4. Loop!Parallel' = Loop!Parallel
  BY <1>1 DEF Loop!Parallel
<1>5. ~Done(c) /\ phase[c] # "waiting" /\ phase[c] \notin Loop!Ended
  BY <1>1 DEF Done, Loop!Ended
<1>6. PICK i \in DOMAIN batch :
        /\ batch[i] = c /\ \A j \in DOMAIN batch : batch[j] = c => j = i
  BY <1>5, OnHand
<1>7. pc \in {"tools", "closed"} /\ DOMAIN batch \subseteq Nat
  BY <1>5, OnHand DEF LoopInv, Loop!TypeOK
<1>8. \A j \in DOMAIN batch : batch[j] \in 1..Len(tools)
  BY DEF LoopInv, Batches
<1>9. ~Loop!Parallel => \A j \in DOMAIN batch : j < i => Done(batch[j])
  BY <1>5, <1>6 DEF LoopInv, InOrder
<1>10. Batches'
  BY <1>1, <1>3, <1>6, <1>8 DEF LoopInv, Batches, Done
<1>11. InOrder'
  <2> SUFFICES ASSUME ~Loop!Parallel, NEW j \in DOMAIN batch, NEW k \in DOMAIN batch, j < k, phase'[batch[k]] # "waiting"
               PROVE  Done(batch[j])'
    BY <1>1, <1>4 DEF InOrder
  <2>1. phase[batch[k]] # "waiting"
    BY <1>3, <1>5, <1>8
  <2>2. Done(batch[j]) /\ batch[j] # c
    BY <2>1, <1>5 DEF LoopInv, InOrder
  <2>3. QED
    BY <2>2, <1>1, <1>3, <1>8 DEF Done
<1>12. Stages'
  <2>1. pc' \in {"tools", "closed"} /\ (pc' = "tools" => pc = "tools" /\ p # "failed")
    BY <1>2, <1>7
  <2>2. pc' = "tools" => /\ \A d \in 1..Len(tools') : phase'[d] # "failed"
                         /\ batch' # <<>> /\ conv'[Len(conv')].calls = batch'
    BY <2>1, <1>1, <1>2, <1>3 DEF LoopInv, Stages
  <2>3. ASSUME pc' = "closed", ~Loop!Parallel
        PROVE  \A k \in DOMAIN batch : phase'[batch[k]] \in Loop!Ended \/ \E j \in DOMAIN batch : j < k /\ phase'[batch[j]] = "failed"
    <3>1. \A j \in DOMAIN batch : j < i => Done(batch[j]) /\ phase[batch[j]] # "failed"
      BY <1>9, <2>3 DEF Done
    <3>2. pc = "tools"
      BY <3>1, <1>5, <1>6, <1>7, <2>3 DEF LoopInv, Stages
    <3>3. p = "failed" /\ phase'[batch[i]] = "failed"
      BY <3>2, <2>3, <1>2, <1>3, <1>6
    <3>4. TAKE k \in DOMAIN batch
    <3>5. CASE k < i
      <4>1. Done(batch[k]) /\ batch[k] # c
        BY <3>1, <3>5, <1>5
      <4>2. QED
        BY <4>1, <1>3, <1>8 DEF Done, Loop!Ended
    <3>6. CASE k = i
      BY <3>3, <3>6 DEF Loop!Ended
    <3>7. CASE i < k
      BY <3>3, <3>7
    <3>8. QED
      BY <3>5, <3>6, <3>7, <1>7
  <2>4. QED
    BY <2>1, <2>2, <2>3, <1>1, <1>4 DEF Stages
<1>13. QED
  BY <1>10, <1>11, <1>12

\* The model calls, and its calls wait.
LEMMA CallsAreMade ==
    ASSUME Loop!LoopAssumption, LoopInv, Loop!ModelCalls
    PROVE  Batches' /\ InOrder' /\ Stages'
<1>1. PICK n \in 1..MaxBatch :
         /\ n \in Nat /\ n >= 1 /\ Len(tools) \in Nat
         /\ Len(tools') = Len(tools) + n
         /\ \A c \in 1..Len(tools) : c \in 1..Len(tools') /\ tools'[c] = tools[c] /\ phase'[c] = phase[c]
         /\ \A i \in 1..n : phase'[Len(tools) + i] = "waiting"
         /\ DOMAIN batch' = 1..n
         /\ \A i \in 1..n : batch'[i] = Len(tools) + i
         /\ conv' = Append(conv, Loop!CallsMade(batch')) /\ Loop!CallsMade(batch') \in Loop!Message
  BY Calling DEF LoopInv
<1>2. \A c \in 1..Len(tools) : Done(c)
  BY DEF Loop!ModelCalls, LoopInv, Stages
<1>3. \A c \in 1..Len(tools') : c \in 1..Len(tools) \/ (c - Len(tools) \in 1..n /\ batch'[c - Len(tools)] = c)
  BY <1>1
<1>4. \A i \in 1..n : batch'[i] \in 1..Len(tools') /\ phase'[batch'[i]] = "waiting"
  BY <1>1
<1>5. \A i, j \in 1..n : batch'[i] = batch'[j] => i = j
  BY <1>1
<1>6. \A c \in 1..Len(tools) : Done(c)'
  BY <1>1, <1>2 DEF Done
<1>7. Batches'
  BY <1>1, <1>3, <1>4, <1>5, <1>6 DEF Batches
<1>8. InOrder'
  BY <1>1, <1>4 DEF InOrder
<1>9. conv'[Len(conv')].calls = batch'
  BY <1>1, AppendIsLonger DEF LoopInv, Loop!CallsMade
<1>10. \A c \in 1..Len(tools') : phase'[c] # "failed"
  <2> TAKE c \in 1..Len(tools')
  <2>1. CASE c \in 1..Len(tools)
    BY <2>1, <1>6 DEF Done
  <2>2. CASE c \notin 1..Len(tools)
    BY <2>2, <1>3, <1>4
  <2>3. QED
    BY <2>1, <2>2
<1>11. batch' # <<>>
  BY <1>1
<1>12. pc' = "tools"
  BY DEF Loop!ModelCalls
<1>13. QED
  BY <1>7, <1>8, <1>9, <1>10, <1>11, <1>12 DEF Stages

\* The results are collected when no call runs or waits.
LEMMA AllDone ==
    ASSUME LoopInv, Loop!AllEnded
    PROVE  \A c \in 1..Len(tools) : Done(c)
<1>1. \A i \in DOMAIN batch : Done(batch[i])
  BY DEF Loop!AllEnded, LoopInv, Stages, Batches, Done, Loop!Ended
<1>2. QED
  BY <1>1 DEF LoopInv, Batches

\* Where the loop stands after it went on, raised or closed.
LEMMA PcAfter ==
    /\ Loop!NextIteration => pc' \in {"model", "closed"}
    /\ Loop!Raise => pc' = "closed"
    /\ \A s : Loop!Close(s) => pc' = "closed"
BY DEF Loop!NextIteration, Loop!Raise, Loop!Close

\* Collecting the results of a batch keeps the calls in order,
LEMMA CallsCollected ==
    ASSUME LoopInv, Loop!Collect
    PROVE  Batches' /\ InOrder' /\ Stages'
<1>1. \A c \in 1..Len(tools) : Done(c)
  BY AllDone DEF Loop!Collect
<1>2. UNCHANGED <<tools, phase, batch>> /\ pc' \in {"model", "closed"}
  BY PcAfter DEF Loop!Collect
<1>3. \A i \in DOMAIN batch : phase[batch[i]] \in Loop!Ended
  BY DEF Loop!Collect, Loop!AllEnded
<1>4. Stages'
  BY <1>1, <1>2, <1>3 DEF Stages, Done
<1>5. QED
  BY <1>2, <1>4, CallsRest

\* and so does every step.
LEMMA CallsStep ==
    ASSUME Loop!LoopAssumption, LoopInv, [Loop!Next]_(Loop!vars)
    PROVE  Batches' /\ InOrder' /\ Stages'
<1>1. CASE Loop!StreamDelta
  BY <1>1, CallsRest, StagesRest DEF Loop!StreamDelta
<1>2. CASE Loop!StreamEnd
  BY <1>2, CallsRest, StagesRest, PcAfter DEF Loop!StreamEnd, Loop!InStream
<1>3. CASE Loop!ModelAnswers
  <2>1. pc' \in {"model", "closed"}
    BY <1>3, PcAfter DEF Loop!ModelAnswers
  <2>2. QED
    BY <1>3, <2>1, CallsRest, StagesRest DEF Loop!ModelAnswers
<1>4. CASE Loop!ModelFails
  BY <1>4, CallsRest, StagesRest, PcAfter DEF Loop!ModelFails
<1>5. CASE Loop!ModelCalls
  BY <1>5, CallsAreMade
<1>6. CASE Loop!Collect
  BY <1>6, CallsCollected
<1>7. CASE \E c \in 1..Len(tools) : Loop!ToolStart(c) \/ Loop!ToolEnd(c) \/ Loop!ToolAtOnce(c) \/ Loop!ToolFails(c)
  BY <1>7, CallStarts, CallEnds
<1>8. CASE Loop!OwnerStep \/ Loop!Cancel \/ Loop!FindCancelled \/ UNCHANGED Loop!vars
  <2>1. UNCHANGED <<tools, phase, batch, pc, conv>>
    BY <1>8 DEF Loop!OwnerStep, Loop!Cancel, Loop!FindCancelled, Loop!vars, Loop!loopVars,
       Loop!Receive, Loop!StreamOver, Loop!Commit, Loop!RollBack, Loop!Unbind, Loop!CloseSession
  <2>2. Stages'
    BY <2>1 DEF LoopInv, Stages, Loop!Parallel, Done
  <2>3. QED
    BY <2>1, <2>2, CallsRest
<1>9. CASE Loop!Resume
  <2>1. \A c \in 1..Len(tools) : Done(c)
    BY <1>9 DEF Loop!Resume, Loop!Paused, LoopInv, PauseKept, Uttered
  <2>2. batch' = <<>> /\ UNCHANGED <<tools, phase>> /\ pc' = "model" /\ DOMAIN batch' = {}
    BY <1>9 DEF Loop!Resume
  <2>3. Batches' /\ InOrder'
    BY <2>1, <2>2 DEF Batches, InOrder, Done
  <2>4. Stages'
    BY <2>1, <2>2 DEF Stages, Done
  <2>5. QED
    BY <2>3, <2>4
<1>10. QED
  BY <1>1, <1>2, <1>3, <1>4, <1>5, <1>6, <1>7, <1>8, <1>9 DEF Loop!Next, Loop!LoopStep

\* What a step of the loop does to the events: nothing while tools work, a
\* call or another iteration, a delta, the last event, or the end of a stream.
ToolsWork ==
    /\ UNCHANGED <<pc, iter, bus>>
    /\ memo'.mute = memo.mute /\ memo'.reminded = memo.reminded /\ (memo.searched => memo'.searched)
GoesOn == pc # "closed" /\ pc' \in {"model", "tools"} /\ bus' = bus
Streams == pc # "closed" /\ pc' = "stream" /\ bus' = Append(bus, "delta") /\ UNCHANGED <<iter, memo>>
SaysLast(e) ==
    /\ pc # "closed" /\ Loop!Close(<<e>>)
    /\ e = "content" =>
         (turn.meaning /\ round = 1 /\ ~memo'.searched => memo'.reminded \/ iter' = MaxIterations)
StopsTalking == pc # "closed" /\ Loop!Close(<<>>) /\ (memo'.mute \/ (pc = "stream" /\ UNCHANGED memo))

\* Going on says nothing, or something at the limit.
LEMMA NextIterationSays ==
    ASSUME Loop!LoopAssumption, Loop!TypeOK, Loop!NextIteration, pc # "closed"
    PROVE  GoesOn \/ SaysLast("content")
<1>1. CASE iter < MaxIterations
  BY <1>1 DEF Loop!NextIteration, GoesOn
<1>2. CASE ~(iter < MaxIterations)
  <2>1. iter = MaxIterations
    BY <1>2 DEF Loop!TypeOK, Loop!LoopAssumption
  <2>2. Loop!Close(<<"content">>) /\ iter' = iter
    BY <1>2 DEF Loop!NextIteration, Loop!Close
  <2>3. QED
    BY <2>1, <2>2 DEF SaysLast
<1>3. QED
  BY <1>1, <1>2

\* What a step of the loop can say.
LEMMA LoopSays ==
    ASSUME Loop!LoopAssumption, LoopInv, Loop!LoopStep
    PROVE  /\ UNCHANGED Loop!ownerVars
           /\ \/ ToolsWork \/ GoesOn \/ Streams \/ StopsTalking
              \/ \E e \in {"content", "error", "ask_user"} : SaysLast(e)
<1>0. Loop!TypeOK
  BY DEF LoopInv
<1>1. CASE Loop!StreamDelta
  BY <1>1 DEF Loop!StreamDelta, Streams
<1>2. CASE Loop!StreamEnd
  <2>1. pc \in {"model", "stream"} /\ UNCHANGED <<memo, Loop!ownerVars>>
    BY <1>2 DEF Loop!StreamEnd, Loop!InStream
  <2>2. CASE pc = "stream" /\ Loop!Close(<<>>)
    BY <2>1, <2>2 DEF StopsTalking
  <2>3. CASE Loop!NextIteration
    BY <1>0, <2>1, <2>3, NextIterationSays
  <2>4. CASE Loop!Raise
    BY <2>1, <2>4 DEF Loop!Raise, SaysLast
  <2>5. QED
    BY <1>2, <2>1, <2>2, <2>3, <2>4 DEF Loop!StreamEnd
<1>3. CASE Loop!ModelCalls
  BY <1>3 DEF Loop!ModelCalls, GoesOn
<1>4. CASE Loop!ModelAnswers
  <2>1. PICK text \in BOOLEAN :
         IF text /\ Loop!NeedsGrounding
         THEN /\ memo' = [memo EXCEPT !.reminded = TRUE]
              /\ conv' = Append(conv, Loop!Said("system"))
              /\ Loop!NextIteration
         ELSE /\ memo' = [memo EXCEPT !.mute = ~text]
              /\ Loop!Close(IF text THEN <<"content">> ELSE <<>>)
              /\ UNCHANGED conv
    BY <1>4 DEF Loop!ModelAnswers
  <2>2. pc = "model" /\ UNCHANGED Loop!ownerVars
    BY <1>4 DEF Loop!ModelAnswers
  <2>3. CASE text /\ Loop!NeedsGrounding
    BY <1>0, <2>1, <2>2, <2>3, NextIterationSays
  <2>4. CASE text /\ ~Loop!NeedsGrounding
    <3>1. Loop!Close(<<"content">>) /\ memo'.searched = memo.searched /\ memo'.reminded = memo.reminded
      BY <1>0, <2>1, <2>4 DEF Loop!TypeOK
    <3>2. turn.meaning /\ round = 1 /\ ~memo.searched => memo.reminded
      BY <2>4 DEF Loop!NeedsGrounding
    <3>3. UNCHANGED <<turn, round>>
      BY <2>2 DEF Loop!ownerVars
    <3>4. SaysLast("content")
      BY <2>2, <3>1, <3>2, <3>3 DEF SaysLast
    <3>5. QED
      BY <2>2, <3>4
  <2>5. CASE ~text
    <3>1. Loop!Close(<<>>) /\ memo'.mute
      BY <1>0, <2>1, <2>5 DEF Loop!TypeOK
    <3>2. QED
      BY <2>2, <3>1 DEF StopsTalking
  <2>6. QED
    BY <2>3, <2>4, <2>5
<1>5. CASE Loop!ModelFails
  BY <1>5 DEF Loop!ModelFails, Loop!Raise, SaysLast
<1>6. CASE Loop!Collect
  <2>1. pc = "tools" /\ UNCHANGED Loop!ownerVars
    BY <1>6 DEF Loop!Collect, Loop!AllEnded
  <2>2. CASE Loop!Pausing = {}
    BY <1>0, <1>6, <2>1, <2>2, NextIterationSays DEF Loop!Collect
  <2>3. CASE Loop!Pausing # {}
    BY <1>6, <2>1, <2>3 DEF Loop!Collect, SaysLast
  <2>4. QED
    BY <2>1, <2>2, <2>3
<1>7. ASSUME NEW c \in 1..Len(tools), Loop!ToolStart(c) \/ Loop!ToolAtOnce(c)
      PROVE  UNCHANGED Loop!ownerVars /\ ToolsWork
  BY <1>7 DEF Loop!ToolStart, Loop!ToolAtOnce, ToolsWork
<1>8. ASSUME NEW c \in 1..Len(tools), Loop!ToolEnd(c)
      PROVE  UNCHANGED Loop!ownerVars /\ ToolsWork
  BY <1>0, <1>8 DEF Loop!ToolEnd, ToolsWork, Loop!TypeOK
<1>9. ASSUME NEW c \in 1..Len(tools), Loop!ToolFails(c)
      PROVE  UNCHANGED Loop!ownerVars /\ (ToolsWork \/ SaysLast("error"))
  <2>1. CASE pc = "tools"
    BY <1>9, <2>1 DEF Loop!ToolFails, Loop!Raise, SaysLast
  <2>2. CASE pc # "tools"
    BY <1>9, <2>2 DEF Loop!ToolFails, ToolsWork
  <2>3. QED
    BY <2>1, <2>2
<1>10. QED
  BY <1>1, <1>2, <1>3, <1>4, <1>5, <1>6, <1>7, <1>8, <1>9 DEF Loop!LoopStep

\* A delta is one event more.
LEMMA Streaming ==
    ASSUME Loop!TypeOK, bus' = Append(bus, "delta")
    PROVE  /\ DOMAIN bus = 1..Len(bus) /\ Len(bus) \in Nat
           /\ DOMAIN bus' = 1..(Len(bus) + 1) /\ bus'[Len(bus) + 1] = "delta"
           /\ \A i \in 1..Len(bus) : bus'[i] = bus[i]
<1>1. bus \in Seq(Loop!Event) /\ DOMAIN bus = 1..Len(bus) /\ Len(bus) \in Nat
  BY DEF Loop!TypeOK
<1>2. QED
  BY <1>1 DEF Loop!Event

\* What has been said after each of them.
LEMMA SaidMore ==
    ASSUME Loop!TypeOK, UNCHANGED heard
    PROVE  /\ bus' = bus => \A f : Uttered(f)' <=> Uttered(f)
           /\ bus' = Append(bus, "delta") => \A f : Uttered(f)' <=> Uttered(f) \/ f = "delta"
           /\ Loop!Close(<<>>) => \A f : Uttered(f)' <=> Uttered(f) \/ f = "done"
           /\ \A e \in Loop!Event : Loop!Close(<<e>>) => \A f : Uttered(f)' <=> Uttered(f) \/ f \in {e, "done"}
<1>1. bus \in Seq(Loop!Event) /\ DOMAIN bus = 1..Len(bus) /\ Len(bus) \in Nat
  BY DEF Loop!TypeOK
<1>2. bus' = bus => \A f : Uttered(f)' <=> Uttered(f)
  BY DEF Uttered, Loop!Heard
<1>3. ASSUME bus' = Append(bus, "delta") PROVE \A f : Uttered(f)' <=> Uttered(f) \/ f = "delta"
  <2>1. /\ DOMAIN bus' = 1..(Len(bus) + 1) /\ bus'[Len(bus) + 1] = "delta"
        /\ \A i \in 1..Len(bus) : bus'[i] = bus[i]
    BY <1>3, Streaming
  <2>2. QED
    BY <1>1, <2>1 DEF Uttered, Loop!Heard
<1>4. ASSUME Loop!Close(<<>>) PROVE \A f : Uttered(f)' <=> Uttered(f) \/ f = "done"
  <2>1. /\ bus' \in Seq(Loop!Event) /\ Len(bus') = Len(bus) + 1
        /\ \A i \in 1..Len(bus) : bus'[i] = bus[i]
        /\ bus'[Len(bus) + 1] = "done"
    BY <1>4, ClosingMute
  <2>2. DOMAIN bus' = 1..(Len(bus) + 1)
    BY <2>1
  <2>3. QED
    BY <1>1, <2>1, <2>2 DEF Uttered, Loop!Heard
<1>5. ASSUME NEW e \in Loop!Event, Loop!Close(<<e>>) PROVE \A f : Uttered(f)' <=> Uttered(f) \/ f \in {e, "done"}
  <2>1. /\ bus' \in Seq(Loop!Event) /\ Len(bus') = Len(bus) + 2
        /\ \A i \in 1..Len(bus) : bus'[i] = bus[i]
        /\ bus'[Len(bus) + 1] = e /\ bus'[Len(bus) + 2] = "done"
    BY <1>5, Closing
  <2>2. DOMAIN bus' = 1..(Len(bus) + 2)
    BY <2>1
  <2>3. QED
    BY <1>1, <2>1, <2>2 DEF Uttered, Loop!Heard
<1>6. QED
  BY <1>2, <1>3, <1>4, <1>5

\* The owner takes an event, or drops one.
LEMMA SaidTaken ==
    ASSUME Loop!TypeOK, bus # <<>>, bus' = Tail(bus)
    PROVE  /\ Len(bus) \in Nat /\ Len(bus) > 0 /\ DOMAIN bus = 1..Len(bus) /\ DOMAIN bus' = 1..(Len(bus) - 1)
           /\ bus' \in Seq(Loop!Event) /\ \A i \in DOMAIN bus' : bus'[i] = bus[i + 1]
           /\ Head(bus) = bus[1]
           /\ UNCHANGED heard => \A f : Uttered(f)' => Uttered(f)
           /\ heard' = Append(heard, Head(bus)) => \A f : Uttered(f)' <=> Uttered(f)
<1>1. /\ bus \in Seq(Loop!Event) /\ Len(bus) \in Nat /\ Len(bus) > 0 /\ DOMAIN bus = 1..Len(bus)
      /\ Head(bus) = bus[1] /\ DOMAIN bus' = 1..(Len(bus) - 1) /\ bus' \in Seq(Loop!Event)
      /\ \A i \in DOMAIN bus' : bus'[i] = bus[i + 1]
  BY DEF Loop!TypeOK
<1>2. \A f : (\E i \in DOMAIN bus : bus[i] = f) <=> (f = Head(bus) \/ \E i \in DOMAIN bus' : bus'[i] = f)
  <2> TAKE f
  <2>1. ASSUME NEW i \in DOMAIN bus, bus[i] = f PROVE f = Head(bus) \/ \E j \in DOMAIN bus' : bus'[j] = f
    <3>1. CASE i = 1
      BY <1>1, <2>1, <3>1
    <3>2. CASE i # 1
      <4>1. i - 1 \in DOMAIN bus' /\ (i - 1) + 1 = i
        BY <1>1, <3>2
      <4>2. QED
        BY <4>1, <1>1, <2>1
    <3>3. QED
      BY <3>1, <3>2
  <2>2. f = Head(bus) => \E i \in DOMAIN bus : bus[i] = f
    BY <1>1
  <2>3. ASSUME NEW i \in DOMAIN bus', bus'[i] = f PROVE \E j \in DOMAIN bus : bus[j] = f
    BY <1>1, <2>3
  <2>4. QED
    BY <2>1, <2>2, <2>3
<1>3. UNCHANGED heard => \A f : Uttered(f)' => Uttered(f)
  BY <1>2 DEF Uttered, Loop!Heard
<1>4. ASSUME heard' = Append(heard, Head(bus)) PROVE \A f : Loop!Heard(f)' <=> Loop!Heard(f) \/ f = Head(bus)
  <2>1. heard \in Seq(Loop!Event) /\ Head(bus) \in Loop!Event
    BY <1>1 DEF Loop!TypeOK
  <2>2. /\ DOMAIN heard = 1..Len(heard) /\ Len(heard) \in Nat /\ DOMAIN heard' = 1..(Len(heard) + 1)
        /\ heard'[Len(heard) + 1] = Head(bus) /\ \A i \in 1..Len(heard) : heard'[i] = heard[i]
    BY <1>4, <2>1
  <2>3. QED
    BY <2>2 DEF Loop!Heard
<1>5. heard' = Append(heard, Head(bus)) => \A f : Uttered(f)' <=> Uttered(f)
  BY <1>2, <1>4 DEF Uttered
<1>6. QED
  BY <1>1, <1>3, <1>5

\* Nothing has been said that would end the execution while it goes on, and
\* the owner has not settled it.
LEMMA OpenWhileLooping ==
    ASSUME LoopInv, pc # "closed"
    PROVE  /\ \A e \in Loop!Event \ {"delta"} : ~Uttered(e)
           /\ owner = "drain" \/ outcome = "cancelled"
BY DEF LoopInv, Deltas, Owners

\* A question to the learner is the last event of an execution.
LEMMA AskLastOfLoop ==
    ASSUME LoopInv, UNCHANGED heard,
           \/ bus' = bus
           \/ pc # "closed" /\ (bus' = Append(bus, "delta") \/ Loop!Close(<<>>) \/ \E e \in Loop!Event : Loop!Close(<<e>>))
    PROVE  AskLast'
<1>1. CASE bus' = bus
  BY <1>1 DEF LoopInv, AskLast, Loop!PauseIsLast
<1>2. CASE pc # "closed" /\ (bus' = Append(bus, "delta") \/ Loop!Close(<<>>) \/ \E e \in Loop!Event : Loop!Close(<<e>>))
  <2>1. ~Uttered("ask_user")
    BY <1>2, OpenWhileLooping DEF Loop!Event
  <2>2. \A i \in DOMAIN heard' : heard'[i] # "ask_user"
    BY <2>1 DEF Uttered, Loop!Heard
  <2>3. bus \in Seq(Loop!Event) /\ Len(bus) \in Nat /\ DOMAIN bus = 1..Len(bus)
    BY DEF LoopInv, Loop!TypeOK
  <2>4. \A i \in DOMAIN bus : bus[i] # "ask_user"
    BY <2>1 DEF Uttered
  <2>5. \A i, j \in DOMAIN bus' : bus'[i] = "ask_user" /\ i < j => bus'[j] = "done"
    <3>1. CASE bus' = Append(bus, "delta")
      <4>1. /\ DOMAIN bus' = 1..(Len(bus) + 1) /\ bus'[Len(bus) + 1] = "delta"
            /\ \A i \in 1..Len(bus) : bus'[i] = bus[i]
        BY <3>1, Streaming DEF LoopInv
      <4>2. QED
        BY <2>3, <2>4, <4>1
    <3>2. CASE Loop!Close(<<>>)
      <4>1. /\ bus' \in Seq(Loop!Event) /\ Len(bus') = Len(bus) + 1
            /\ \A i \in 1..Len(bus) : bus'[i] = bus[i]
            /\ bus'[Len(bus) + 1] = "done"
        BY <3>2, ClosingMute DEF LoopInv
      <4>2. DOMAIN bus' = 1..(Len(bus) + 1)
        BY <2>3, <4>1
      <4>3. QED
        BY <2>3, <2>4, <4>1, <4>2
    <3>3. CASE \E e \in Loop!Event : Loop!Close(<<e>>)
      <4>1. PICK e \in Loop!Event : Loop!Close(<<e>>)
        BY <3>3
      <4>2. /\ bus' \in Seq(Loop!Event) /\ Len(bus') = Len(bus) + 2
            /\ \A i \in 1..Len(bus) : bus'[i] = bus[i]
            /\ bus'[Len(bus) + 1] = e /\ bus'[Len(bus) + 2] = "done"
        BY <4>1, Closing DEF LoopInv
      <4>3. DOMAIN bus' = 1..(Len(bus) + 2)
        BY <2>3, <4>2
      <4>4. ASSUME NEW i \in DOMAIN bus', NEW j \in DOMAIN bus', bus'[i] = "ask_user", i < j
            PROVE  bus'[j] = "done"
        <5>1. i > Len(bus)
          BY <2>3, <2>4, <4>2, <4>3, <4>4
        <5>2. j = Len(bus) + 2
          BY <2>3, <4>3, <4>4, <5>1
        <5>3. QED
          BY <4>2, <5>2
      <4>5. QED
        BY <4>4
    <3>4. QED
      BY <1>2, <3>1, <3>2, <3>3
  <2>6. QED
    BY <2>2, <2>5 DEF AskLast, Loop!PauseIsLast
<1>3. QED
  BY <1>1, <1>2

\* The events stay in order in a step of the loop,
LEMMA EventsOfLoop ==
    ASSUME Loop!LoopAssumption, LoopInv, Loop!TypeOK', Loop!LoopStep
    PROVE  Deltas' /\ AskLast' /\ Spoken' /\ GroundedYet' /\ Owners'
<1>1. UNCHANGED Loop!ownerVars /\ UNCHANGED <<turn, heard, owner, outcome, round, bound>>
  BY LoopSays DEF Loop!ownerVars
<1>2. Loop!TypeOK /\ Speaks \subseteq Loop!Event /\ {"content", "error", "ask_user", "done"} \subseteq Loop!Event \ {"delta"}
  BY DEF LoopInv, Speaks, Loop!Event
<1>3. CASE ToolsWork
  <2>1. pc' = pc /\ bus' = bus /\ iter' = iter
    BY <1>3 DEF ToolsWork
  <2>2. \A f : Uttered(f)' <=> Uttered(f)
    BY <1>1, <1>2, <2>1, SaidMore
  <2>3. Deltas'
    BY <2>1, <2>2 DEF LoopInv, Deltas
  <2>4. Spoken'
    BY <1>1, <1>3, <2>1, <2>2 DEF LoopInv, Spoken, ToolsWork
  <2>5. GroundedYet'
    BY <1>1, <1>3, <2>1, <2>2 DEF LoopInv, GroundedYet, ToolsWork
  <2>6. Owners'
    BY <1>1, <2>1 DEF LoopInv, Owners, Loop!Heard
  <2>7. QED
    BY <1>1, <2>1, <2>3, <2>4, <2>5, <2>6, AskLastOfLoop
<1>4. ASSUME pc # "closed" PROVE Owners'
  BY <1>1, <1>4, OpenWhileLooping DEF LoopInv, Owners
<1>5. CASE GoesOn
  <2>1. pc # "closed" /\ pc' \in {"model", "tools"} /\ bus' = bus
    BY <1>5 DEF GoesOn
  <2>2. \A f : Uttered(f)' <=> Uttered(f)
    BY <1>1, <1>2, <2>1, SaidMore
  <2>3. \A e \in Loop!Event \ {"delta"} : ~Uttered(e)'
    BY <2>1, <2>2, OpenWhileLooping
  <2>4. Deltas' /\ Spoken' /\ GroundedYet'
    BY <1>2, <2>1, <2>3 DEF Deltas, Spoken, GroundedYet
  <2>5. QED
    BY <1>1, <1>4, <2>1, <2>4, AskLastOfLoop
<1>6. CASE Streams
  <2>1. pc # "closed" /\ pc' = "stream" /\ bus' = Append(bus, "delta")
    BY <1>6 DEF Streams
  <2>2. \A f : Uttered(f)' <=> Uttered(f) \/ f = "delta"
    BY <1>1, <1>2, <2>1, SaidMore
  <2>3. \A e \in Loop!Event \ {"delta"} : ~Uttered(e)'
    BY <2>1, <2>2, OpenWhileLooping
  <2>4. Uttered("delta")'
    BY <2>2
  <2>5. Deltas' /\ Spoken' /\ GroundedYet'
    BY <1>2, <2>1, <2>3, <2>4 DEF Deltas, Spoken, GroundedYet
  <2>6. QED
    BY <1>1, <1>4, <2>1, <2>5, AskLastOfLoop
<1>7. CASE StopsTalking
  <2>1. pc # "closed" /\ Loop!Close(<<>>) /\ pc' = "closed" /\ (memo'.mute \/ (pc = "stream" /\ memo' = memo))
    BY <1>7, PcAfter DEF StopsTalking
  <2>2. \A f : Uttered(f)' <=> Uttered(f) \/ f = "done"
    BY <1>1, <1>2, <2>1, SaidMore
  <2>3. Deltas' /\ GroundedYet'
    BY <1>2, <2>1, <2>2, OpenWhileLooping DEF Deltas, GroundedYet
  <2>4. Spoken'
    <3> SUFFICES ASSUME outcome' # "cancelled", ~memo'.mute PROVE \E e \in Speaks : Uttered(e)'
      BY <2>1 DEF Spoken
    <3>1. Uttered("delta")
      BY <1>1, <2>1 DEF LoopInv, Spoken
    <3>2. QED
      BY <2>2, <3>1 DEF Speaks
  <2>5. QED
    BY <1>1, <1>4, <2>1, <2>3, <2>4, AskLastOfLoop
<1>8. ASSUME NEW e \in {"content", "error", "ask_user"}, SaysLast(e)
      PROVE  Deltas' /\ AskLast' /\ Spoken' /\ GroundedYet' /\ Owners'
  <2>1. pc # "closed" /\ Loop!Close(<<e>>) /\ pc' = "closed"
    BY <1>8, PcAfter DEF SaysLast
  <2>2. \A f : Uttered(f)' <=> Uttered(f) \/ f \in {e, "done"}
    BY <1>1, <1>2, <2>1, SaidMore
  <2>3. Deltas' /\ Spoken'
    BY <2>1, <2>2 DEF Deltas, Spoken, Speaks
  <2>4. GroundedYet'
    <3> SUFFICES ASSUME Uttered("content")', turn'.meaning, round' = 1, ~memo'.searched
                 PROVE  memo'.reminded \/ iter' = MaxIterations
      BY DEF GroundedYet
    <3>1. e = "content"
      BY <1>2, <2>1, <2>2, OpenWhileLooping
    <3>2. QED
      BY <1>1, <1>8, <3>1 DEF SaysLast
  <2>5. AskLast'
    BY <1>1, <1>2, <2>1, AskLastOfLoop
  <2>6. QED
    BY <1>4, <2>1, <2>3, <2>4, <2>5
<1>9. QED
  BY <1>3, <1>5, <1>6, <1>7, <1>8, LoopSays

\* The owner takes what was said.
LEMMA EventsReceived ==
    ASSUME LoopInv, Loop!Receive
    PROVE  Deltas' /\ AskLast' /\ Spoken' /\ GroundedYet' /\ Owners'
<1>1. /\ owner = "drain" /\ bus # <<>> /\ bus' = Tail(bus) /\ heard' = Append(heard, Head(bus))
      /\ owner' = IF turn.entry = "sse" /\ Head(bus) = "ask_user" THEN "settle" ELSE "drain"
      /\ UNCHANGED <<pc, iter, conv, tools, phase, batch, memo, turn, outcome, round, bound>>
  BY DEF Loop!Receive, Loop!loopVars
<1>2. Loop!TypeOK
  BY DEF LoopInv
<1>3. /\ Len(bus) \in Nat /\ Len(bus) > 0 /\ DOMAIN bus = 1..Len(bus) /\ DOMAIN bus' = 1..(Len(bus) - 1)
      /\ \A i \in DOMAIN bus' : bus'[i] = bus[i + 1]
      /\ Head(bus) = bus[1]
      /\ \A f : Uttered(f)' <=> Uttered(f)
  BY <1>1, <1>2, SaidTaken
<1>4. /\ heard \in Seq(Loop!Event) /\ Head(bus) \in Loop!Event /\ Len(heard) \in Nat
      /\ DOMAIN heard = 1..Len(heard) /\ DOMAIN heard' = 1..(Len(heard) + 1)
      /\ heard'[Len(heard) + 1] = Head(bus)
      /\ \A i \in 1..Len(heard) : heard'[i] = heard[i]
  <2>1. heard \in Seq(Loop!Event) /\ Head(bus) \in Loop!Event
    BY <1>1, <1>2, <1>3 DEF Loop!TypeOK
  <2>2. QED
    BY <1>1, <2>1
<1>5. Deltas' /\ Spoken' /\ GroundedYet'
  BY <1>1, <1>3 DEF LoopInv, Deltas, Spoken, GroundedYet
<1>6. AskLast'
  <2>1. \A i, j \in DOMAIN bus' : bus'[i] = "ask_user" /\ i < j => bus'[j] = "done"
    BY <1>3 DEF LoopInv, AskLast
  <2>2. ASSUME NEW i \in DOMAIN heard', heard'[i] = "ask_user"
        PROVE  /\ \A j \in DOMAIN heard' : j > i => heard'[j] = "done"
               /\ \A j \in DOMAIN bus' : bus'[j] = "done"
    <3>1. CASE i \in DOMAIN heard
      <4>1. heard[i] = "ask_user"
        BY <1>4, <2>2, <3>1
      <4>2. /\ \A j \in DOMAIN heard : j > i => heard[j] = "done"
            /\ \A j \in DOMAIN bus : bus[j] = "done"
        BY <3>1, <4>1 DEF LoopInv, AskLast, Loop!PauseIsLast
      <4>3. QED
        BY <1>3, <1>4, <4>2
    <3>2. CASE i = Len(heard) + 1
      <4>1. bus[1] = "ask_user" /\ 1 \in DOMAIN bus
        BY <1>3, <1>4, <2>2, <3>2
      <4>2. \A j \in DOMAIN bus : 1 < j => bus[j] = "done"
        BY <4>1 DEF LoopInv, AskLast
      <4>3. QED
        BY <1>3, <1>4, <3>2, <4>2
    <3>3. QED
      BY <1>4, <3>1, <3>2
  <2>3. QED
    BY <2>1, <2>2 DEF AskLast, Loop!PauseIsLast
<1>7. Owners'
  <2>1. outcome = "open"
    BY <1>1 DEF LoopInv, Owners
  <2>2. ASSUME owner' # "drain"
        PROVE  pc = "closed" /\ turn.entry = "sse" /\ Loop!Heard("ask_user")'
    <3>1. turn.entry = "sse" /\ Head(bus) = "ask_user"
      BY <1>1, <2>2
    <3>2. Loop!Heard("ask_user")'
      BY <1>4, <3>1 DEF Loop!Heard
    <3>3. Uttered("ask_user")
      BY <1>3, <3>1 DEF Uttered
    <3>4. QED
      BY <3>1, <3>2, <3>3, OpenWhileLooping DEF Loop!Event
  <2>3. QED
    BY <1>1, <2>1, <2>2 DEF LoopInv, Owners
<1>8. QED
  BY <1>5, <1>6, <1>7

\* and in one of its owner.
LEMMA EventsOfOwner ==
    ASSUME Loop!LoopAssumption, LoopInv, Loop!TypeOK', Loop!OwnerStep \/ Loop!Cancel \/ Loop!FindCancelled \/ Loop!Resume \/ UNCHANGED Loop!vars
    PROVE  Deltas' /\ AskLast' /\ Spoken' /\ GroundedYet' /\ Owners'
<1>1. CASE Loop!Receive
  BY <1>1, EventsReceived
<1>2. CASE Loop!FindCancelled
  <2>1. /\ outcome' = "cancelled" /\ owner' = "leave" /\ bus # <<>> /\ bus' = Tail(bus)
        /\ UNCHANGED <<pc, iter, conv, tools, phase, batch, memo, turn, heard, round, bound>>
        /\ owner = "drain"
    BY <1>2 DEF Loop!FindCancelled, Loop!loopVars
  <2>2. /\ Len(bus) \in Nat /\ DOMAIN bus = 1..Len(bus) /\ DOMAIN bus' = 1..(Len(bus) - 1)
        /\ \A i \in DOMAIN bus' : bus'[i] = bus[i + 1]
        /\ \A f : Uttered(f)' => Uttered(f)
    BY <2>1, SaidTaken DEF LoopInv
  <2>3. Deltas' /\ GroundedYet' /\ Spoken'
    BY <2>1, <2>2 DEF LoopInv, Deltas, GroundedYet, Spoken
  <2>4. Owners'
    BY <2>1 DEF LoopInv, Owners
  <2>5. AskLast'
    <3>1. \A i \in DOMAIN bus' : i + 1 \in DOMAIN bus /\ bus'[i] = bus[i + 1]
      BY <2>2
    <3>2. \A i, j \in DOMAIN bus' : bus'[i] = "ask_user" /\ i < j => bus'[j] = "done"
      BY <2>2, <3>1 DEF LoopInv, AskLast
    <3>3. QED
      BY <2>1, <3>1, <3>2 DEF LoopInv, AskLast, Loop!PauseIsLast
  <2>6. QED
    BY <2>3, <2>4, <2>5
<1>3. ASSUME UNCHANGED <<Loop!loopVars, bus, heard, turn, round>>
      PROVE  /\ Deltas' /\ AskLast' /\ GroundedYet' /\ \A f : Uttered(f)' <=> Uttered(f)
             /\ (outcome' # "cancelled" => outcome # "cancelled") => Spoken'
  <2>1. UNCHANGED <<pc, iter, memo, bus, heard, turn, round>>
    BY <1>3 DEF Loop!loopVars
  <2>2. \A f : Uttered(f)' <=> Uttered(f)
    BY <2>1 DEF Uttered, Loop!Heard
  <2>3. QED
    BY <2>1, <2>2 DEF LoopInv, Deltas, AskLast, Loop!PauseIsLast, GroundedYet, Spoken
<1>4. CASE Loop!StreamOver
  BY <1>3, <1>4 DEF Loop!StreamOver, LoopInv, Owners, Loop!Heard, Loop!loopVars
<1>5. CASE Loop!Commit
  BY <1>3, <1>5 DEF Loop!Commit, LoopInv, Owners, Loop!Heard, Loop!loopVars
<1>6. CASE Loop!Cancel
  BY <1>3, <1>6 DEF Loop!Cancel, LoopInv, Owners, Loop!Heard, Loop!loopVars
<1>7. CASE Loop!RollBack \/ Loop!Unbind \/ Loop!CloseSession
  BY <1>3, <1>7 DEF Loop!RollBack, Loop!Unbind, Loop!CloseSession, LoopInv, Owners, Loop!Heard, Loop!loopVars
<1>8. CASE UNCHANGED Loop!vars
  BY <1>3, <1>8 DEF Loop!vars, Loop!ownerVars, LoopInv, Owners, Loop!Heard, Loop!loopVars
<1>9. CASE Loop!Resume
  <2>1. /\ heard' = <<>> /\ bus' = bus /\ outcome' = "open" /\ pc' = "model" /\ owner' = "drain" /\ bound'
        /\ outcome = "saved" /\ owner = "gone" /\ turn.entry = "ws" /\ round' = round + 1
    BY <1>9 DEF Loop!Resume, Loop!Paused
  <2>2. bus = <<>>
    BY <2>1 DEF LoopInv, Owners
  <2>3. \A f : ~Uttered(f)'
    BY <2>1, <2>2 DEF Uttered, Loop!Heard
  <2>4. Deltas' /\ Spoken' /\ GroundedYet' /\ Owners'
    BY <2>1, <2>3 DEF Deltas, Spoken, GroundedYet, Owners
  <2>5. AskLast'
    BY <2>1, <2>2 DEF AskLast, Loop!PauseIsLast
  <2>6. QED
    BY <2>4, <2>5
<1>10. QED
  BY <1>1, <1>2, <1>4, <1>5, <1>6, <1>7, <1>8, <1>9 DEF Loop!OwnerStep

\* A call that still runs when the capability has left only reads.
LEMMA LateCallsRead ==
    ASSUME LoopInv, NEW c \in 1..Len(tools), phase[c] \in {"turn", "own"}, pc = "closed"
    PROVE  tools[c] \in Loop!ReadOnly
<1>1. phase[c] \notin Loop!Ended /\ phase[c] # "waiting" /\ ~Done(c)
  BY DEF Loop!Ended, Done
<1>2. PICK i \in DOMAIN batch : batch[i] = c
  BY <1>1, OnHand
<1>3. Loop!Parallel
  <2> SUFFICES ASSUME ~Loop!Parallel PROVE FALSE
    OBVIOUS
  <2>1. \A j \in DOMAIN batch : j < i => Done(batch[j])
    BY <1>1, <1>2 DEF LoopInv, InOrder
  <2>2. PICK j \in DOMAIN batch : j < i /\ phase[batch[j]] = "failed"
    BY <1>1, <1>2 DEF LoopInv, Stages
  <2>3. QED
    BY <2>1, <2>2 DEF Done
<1>4. QED
  BY <1>2, <1>3 DEF Loop!Parallel

\* An owner that has settled a turn has heard the capability out.
LEMMA SettledIsClosed ==
    ASSUME LoopInv, outcome # "cancelled", owner # "drain"
    PROVE  pc = "closed"
BY DEF LoopInv, Owners

\* Only calls have written.
LEMMA WroteTyped == ASSUME LoopInv PROVE Loop!Wrote \subseteq 1..Len(tools)
BY DEF Loop!Wrote

\* The steps that leave the sessions alone.
LEMMA WritesRest ==
    ASSUME LoopInv, Loop!Wrote' = Loop!Wrote, UNCHANGED <<Loop!ownerVars, Loop!dbVars>>,
           \A c \in 1..Len(tools') : phase'[c] = "own" /\ outcome # "cancelled" => tools'[c] \in Loop!ReadOnly
    PROVE  Writes'
BY DEF LoopInv, Writes, Loop!ownerVars, Loop!dbVars

\* What tools wrote stays accounted for when one starts or fails,
LEMMA WritesOfTool ==
    ASSUME Loop!LoopAssumption, LoopInv, NEW c \in 1..Len(tools),
           Loop!ToolStart(c) \/ Loop!ToolAtOnce(c) \/ Loop!ToolFails(c)
    PROVE  Writes'
<1>1. UNCHANGED <<tools, Loop!ownerVars, Loop!dbVars>> /\ phase \in [1..Len(tools) -> Phase]
  BY DEF Loop!ToolStart, Loop!ToolAtOnce, Loop!ToolFails, LoopInv, Loop!TypeOK, Phase
<1>2. PICK p \in Phase : /\ phase' = [phase EXCEPT ![c] = p]
                         /\ p = "answered" => tools[c] # "write_memory"
                         /\ p = "own" => ~bound /\ Loop!MayStart(c)
  BY DEF Loop!ToolStart, Loop!ToolAtOnce, Loop!ToolFails, Phase, Loop!Ended, Loop!UsesDb
<1>3. phase'[c] = p /\ \A d \in 1..Len(tools) : d # c => phase'[d] = phase[d]
  BY <1>2, PhaseSet DEF LoopInv
<1>4. ~(phase[c] = "answered")
  BY DEF Loop!ToolStart, Loop!ToolAtOnce, Loop!ToolFails, Loop!MayStart
<1>5. Loop!Wrote' = Loop!Wrote
  BY <1>1, <1>2, <1>3, <1>4 DEF Loop!Wrote
<1>6. ASSUME p = "own", outcome # "cancelled" PROVE tools[c] \in Loop!ReadOnly
  <2>1. owner \in {"left", "gone"}
    BY <1>2, <1>6 DEF LoopInv, Owners
  <2>2. pc = "closed"
    BY <1>6, <2>1, SettledIsClosed
  <2>3. QED
    BY <1>2, <1>6, <2>2, Starts
<1>7. \A d \in 1..Len(tools') : phase'[d] = "own" /\ outcome # "cancelled" => tools'[d] \in Loop!ReadOnly
  BY <1>1, <1>3, <1>6 DEF LoopInv, Writes
<1>8. QED
  BY <1>1, <1>5, <1>7, WritesRest

\* when one ends,
LEMMA WritesOfEnd ==
    ASSUME Loop!LoopAssumption, LoopInv, NEW c \in 1..Len(tools), Loop!ToolEnd(c)
    PROVE  Writes'
<1> DEFINE open == IF tools[c] = "write_memory" THEN written \cup {c} ELSE written
<1>1. /\ phase[c] \in {"turn", "own"} /\ phase' = [phase EXCEPT ![c] = "answered"]
      /\ Loop!CommitIfUnbound(c, open)
      /\ UNCHANGED <<tools, owner, outcome, bound>>
  BY DEF Loop!ToolEnd, Loop!ownerVars
<1>2. phase'[c] = "answered" /\ \A d \in 1..Len(tools) : d # c => phase'[d] = phase[d]
  BY <1>1, PhaseSet DEF LoopInv, Phase, Loop!Ended
<1>3. Loop!Wrote' = Loop!Wrote \cup (IF tools[c] = "write_memory" THEN {c} ELSE {}) /\ c \notin Loop!Wrote
  BY <1>1, <1>2 DEF Loop!Wrote
<1>4. written \subseteq Loop!Wrote /\ kept \subseteq Loop!Wrote /\ c \notin written
  BY <1>3 DEF LoopInv, Writes
<1>5. open \subseteq Loop!Wrote' /\ Loop!Wrote \subseteq Loop!Wrote'
  BY <1>3, <1>4
<1>6. kept' = kept /\ written' \subseteq Loop!Wrote'
  BY <1>1, <1>4, <1>5 DEF Loop!CommitIfUnbound
<1>7. \/ tools[c] = "write_memory" /\ Loop!Wrote' = Loop!Wrote \cup {c} /\ open = written \cup {c}
      \/ tools[c] \notin {"write_memory"} /\ Loop!Wrote' = Loop!Wrote /\ open = written
  BY <1>3
<1> HIDE DEF open
<1>12. ASSUME outcome # "cancelled"
      PROVE  /\ loose' = {}
             /\ owner \in {"leave", "left", "gone"} => written' = {}
             /\ outcome \in {"open", "saved"} => Loop!Wrote' \subseteq kept' \cup written'
  <2>1. /\ loose = {}
        /\ owner \in {"leave", "left", "gone"} => written = {}
        /\ outcome \in {"open", "saved"} => Loop!Wrote \subseteq kept \cup written
        /\ phase[c] = "own" => tools[c] \in Loop!ReadOnly
    BY <1>12 DEF LoopInv, Writes
  <2>2. owner \in {"leave", "left", "gone"} => tools[c] \in Loop!ReadOnly
    BY <1>1, <1>12, SettledIsClosed, LateCallsRead
  <2>3. tools[c] \in Loop!ReadOnly => open = written /\ Loop!Wrote' = Loop!Wrote
    BY <1>7 DEF Loop!ReadOnly
  <2>4. ~bound => owner \in {"left", "gone"}
    BY DEF LoopInv, Owners
  <2>5. CASE phase[c] = "turn" /\ bound
    <3>1. written' = open /\ loose' = {}
      BY <1>1, <2>1, <2>5 DEF Loop!CommitIfUnbound
    <3>2. owner \in {"leave", "left", "gone"} => written' = {}
      BY <3>1, <2>1, <2>2, <2>3
    <3>3. outcome \in {"open", "saved"} => Loop!Wrote' \subseteq kept' \cup written'
      BY <3>1, <1>6, <1>7, <2>1
    <3>4. QED
      BY <3>1, <3>2, <3>3
  <2>6. CASE phase[c] = "own"
    <3>1. written' = written /\ loose' = loose \cup (open \cap {c})
      BY <1>1, <2>6 DEF Loop!CommitIfUnbound
    <3>2. open = written /\ Loop!Wrote' = Loop!Wrote
      BY <2>1, <2>3, <2>6
    <3>3. loose' = {}
      BY <3>1, <3>2, <1>4, <2>1
    <3>4. QED
      BY <3>1, <3>2, <3>3, <1>6, <2>1
  <2>7. CASE phase[c] = "turn" /\ ~bound
    <3>1. written' = {} /\ loose' = loose \cup open
      BY <1>1, <2>7 DEF Loop!CommitIfUnbound
    <3>2. open = written /\ written = {} /\ Loop!Wrote' = Loop!Wrote
      BY <2>1, <2>2, <2>3, <2>4, <2>7
    <3>3. QED
      BY <3>1, <3>2, <1>6, <2>1
  <2>8. QED
    BY <1>1, <2>5, <2>6, <2>7
<1>8. \A d \in 1..Len(tools) : phase'[d] = "own" /\ outcome # "cancelled" => tools[d] \in Loop!ReadOnly
  BY <1>2 DEF LoopInv, Writes
<1>9. kept' \subseteq Loop!Wrote'
  BY <1>4, <1>5, <1>6
<1>10. /\ written' \subseteq Loop!Wrote'
       /\ outcome' \in {"open", "saved"} => Loop!Wrote' \subseteq kept' \cup written'
       /\ outcome' # "cancelled" => loose' = {} /\ (owner' \in {"leave", "left", "gone"} => written' = {})
  BY <1>1, <1>6, <1>12
<1>11. QED
  BY <1>1, <1>8, <1>9, <1>10 DEF Writes

\* when the execution is saved or dropped,
LEMMA WritesOfOwner ==
    ASSUME Loop!LoopAssumption, LoopInv, Loop!OwnerStep \/ Loop!Cancel \/ Loop!FindCancelled \/ Loop!Resume \/ UNCHANGED Loop!vars
    PROVE  Writes'
<1>1. UNCHANGED <<tools, phase>> /\ Loop!Wrote' = Loop!Wrote
  BY DEF Loop!OwnerStep, Loop!Cancel, Loop!FindCancelled, Loop!Resume, Loop!vars, Loop!loopVars, Loop!Receive,
     Loop!StreamOver, Loop!Commit,
     Loop!RollBack, Loop!Unbind, Loop!CloseSession, Loop!Wrote
<1>2. CASE Loop!Receive \/ Loop!StreamOver \/ Loop!Cancel \/ Loop!FindCancelled \/ UNCHANGED Loop!vars
  BY <1>1, <1>2 DEF Loop!Receive, Loop!StreamOver, Loop!Cancel, Loop!FindCancelled, Loop!vars, Loop!ownerVars,
     Loop!dbVars, LoopInv, Writes
<1>3. CASE Loop!Commit
  BY <1>1, <1>3 DEF Loop!Commit, LoopInv, Writes, Owners
<1>4. CASE Loop!RollBack \/ Loop!Unbind \/ Loop!CloseSession
  BY <1>1, <1>4 DEF Loop!RollBack, Loop!Unbind, Loop!CloseSession, Loop!dbVars, LoopInv, Writes, Owners
<1>5. CASE Loop!Resume
  BY <1>1, <1>5 DEF Loop!Resume, Loop!Paused, Loop!dbVars, LoopInv, Writes
<1>6. QED
  BY <1>2, <1>3, <1>4, <1>5 DEF Loop!OwnerStep

\* and in every step.
LEMMA WritesStep ==
    ASSUME Loop!LoopAssumption, LoopInv, [Loop!Next]_(Loop!vars)
    PROVE  Writes'
<1>1. CASE Loop!StreamDelta \/ Loop!StreamEnd \/ Loop!ModelAnswers \/ Loop!ModelFails \/ Loop!Collect
  <2>1. UNCHANGED <<tools, phase, Loop!ownerVars, Loop!dbVars>>
    BY <1>1 DEF Loop!StreamDelta, Loop!StreamEnd, Loop!ModelAnswers, Loop!ModelFails, Loop!Collect
  <2>2. Loop!Wrote' = Loop!Wrote
    BY <2>1 DEF Loop!Wrote
  <2>3. QED
    BY <2>1, <2>2, WritesRest DEF LoopInv, Writes
<1>2. CASE Loop!ModelCalls
  <2>1. PICK n \in 1..MaxBatch :
         /\ n \in Nat /\ n >= 1 /\ Len(tools) \in Nat
         /\ Len(tools') = Len(tools) + n
         /\ \A c \in 1..Len(tools) : c \in 1..Len(tools') /\ tools'[c] = tools[c] /\ phase'[c] = phase[c]
         /\ \A i \in 1..n : phase'[Len(tools) + i] = "waiting"
    BY <1>2, Calling DEF LoopInv
  <2>2. \A c \in 1..Len(tools') : c \in 1..Len(tools) \/ phase'[c] = "waiting"
    <3>1. \A c \in 1..Len(tools') : c \in 1..Len(tools) \/ (c - Len(tools) \in 1..n /\ c = Len(tools) + (c - Len(tools)))
      BY <2>1
    <3>2. QED
      BY <2>1, <3>1
  <2>3. Loop!Wrote' = Loop!Wrote
    BY <2>1, <2>2 DEF Loop!Wrote
  <2>4. \A c \in 1..Len(tools') : phase'[c] = "own" /\ outcome # "cancelled" => tools'[c] \in Loop!ReadOnly
    BY <2>1, <2>2 DEF LoopInv, Writes
  <2>5. QED
    BY <1>2, <2>3, <2>4, WritesRest DEF Loop!ModelCalls
<1>3. CASE \E c \in 1..Len(tools) : Loop!ToolStart(c) \/ Loop!ToolEnd(c) \/ Loop!ToolAtOnce(c) \/ Loop!ToolFails(c)
  BY <1>3, WritesOfTool, WritesOfEnd
<1>4. QED
  BY <1>1, <1>2, <1>3, WritesOfOwner DEF Loop!Next, Loop!LoopStep

\* A step that adds to the conversation, or leaves it.
Grows ==
    /\ Len(conv) \in Nat /\ Len(conv') \in Nat /\ Len(conv) <= Len(conv')
    /\ DOMAIN conv = 1..Len(conv) /\ DOMAIN conv' = 1..Len(conv')
    /\ \A k \in DOMAIN conv : k \in DOMAIN conv' /\ conv'[k] = conv[k]
PausesStay == \A c \in 1..Len(tools) : phase[c] = "pauses" => phase'[c] = "pauses"
NoPauseIsNew == \A c \in 1..Len(tools) : phase'[c] = "pauses" => phase[c] = "pauses"
\* What it adds makes no calls.
OnlyAnswers == \A k \in DOMAIN conv' \ DOMAIN conv : DOMAIN conv'[k].calls = {}

\* The calls of a message are numbered from one.
LEMMA CallPlaces ==
    ASSUME Loop!TypeOK, NEW k \in DOMAIN conv, NEW j \in DOMAIN conv[k].calls
    PROVE  j \in Nat /\ j >= 1
<1>1. conv[k] \in Loop!Message
  BY DEF Loop!TypeOK
<1>2. conv[k].calls \in Seq(Loop!Call)
  BY <1>1 DEF Loop!Message
<1>3. QED
  BY <1>2

\* The ways a conversation grows.
LEMMA GrowsAtAll ==
    ASSUME LoopInv
    PROVE  /\ conv' = conv => Grows /\ OnlyAnswers
           /\ \A m \in Loop!Message : conv' = Append(conv, m) =>
                Grows /\ Len(conv') = Len(conv) + 1 /\ conv'[Len(conv) + 1] = m
           /\ \A more \in Seq(Loop!Message) : conv' = conv \o more =>
                /\ Grows /\ Len(conv') = Len(conv) + Len(more) /\ Len(more) \in Nat
                /\ \A j \in 1..Len(more) : conv'[Len(conv) + j] = more[j]
<1>1. Loop!TypeOK
  BY DEF LoopInv
<1>2. conv' = conv => Grows /\ OnlyAnswers
  BY <1>1 DEF Loop!TypeOK, Grows, OnlyAnswers
<1>3. ASSUME NEW m \in Loop!Message, conv' = Append(conv, m)
      PROVE  Grows /\ Len(conv') = Len(conv) + 1 /\ conv'[Len(conv) + 1] = m
  <2>1. /\ conv' \in Seq(Loop!Message) /\ Len(conv') = Len(conv) + 1
        /\ Len(conv) \in Nat
        /\ DOMAIN conv = 1..Len(conv) /\ DOMAIN conv' = 1..(Len(conv) + 1)
        /\ \A k \in DOMAIN conv : k \in DOMAIN conv' /\ conv'[k] = conv[k]
        /\ conv'[Len(conv) + 1] = m
    BY <1>1, <1>3, AppendIsLonger
  <2>2. QED
    BY <2>1 DEF Grows
<1>4. ASSUME NEW more \in Seq(Loop!Message), conv' = conv \o more
      PROVE  /\ Grows /\ Len(conv') = Len(conv) + Len(more) /\ Len(more) \in Nat
             /\ \A j \in 1..Len(more) : conv'[Len(conv) + j] = more[j]
  <2>1. /\ Len(conv') = Len(conv) + Len(more)
        /\ Len(conv) \in Nat /\ Len(more) \in Nat
        /\ DOMAIN conv = 1..Len(conv) /\ DOMAIN conv' = 1..Len(conv') /\ DOMAIN more = 1..Len(more)
        /\ \A k \in DOMAIN conv : k \in DOMAIN conv' /\ conv'[k] = conv[k]
        /\ \A j \in DOMAIN more : conv'[Len(conv) + j] = more[j]
    BY <1>1, <1>4, Longer
  <2>2. QED
    BY <2>1 DEF Grows
<1>5. QED
  BY <1>2, <1>3, <1>4

\* Answers alone add no call.
LEMMA MadeMore ==
    ASSUME LoopInv, Grows, OnlyAnswers, tools' = tools
    PROVE  Made'
<1>1. \A k \in DOMAIN conv' : k \in DOMAIN conv \/ DOMAIN conv'[k].calls = {}
  BY DEF OnlyAnswers
<1>2. \A k \in DOMAIN conv : k \in DOMAIN conv' /\ conv'[k] = conv[k]
  BY DEF Grows
<1>3. Made
  BY DEF LoopInv
<1>4. \A c \in 1..Len(tools) : \E k \in DOMAIN conv' : \E j \in DOMAIN conv'[k].calls : conv'[k].calls[j] = c
  BY <1>2, <1>3 DEF Made
<1>5. \A k \in DOMAIN conv' : \A j \in DOMAIN conv'[k].calls : conv'[k].calls[j] \in 1..Len(tools)
  BY <1>1, <1>2, <1>3 DEF Made
<1>6. \A k, l \in DOMAIN conv' : \A j \in DOMAIN conv'[k].calls, i \in DOMAIN conv'[l].calls :
          conv'[k].calls[j] = conv'[l].calls[i] => k = l /\ j = i
  BY <1>1, <1>2, <1>3 DEF Made
<1>7. QED
  BY <1>4, <1>5, <1>6 DEF Made

\* The message that makes a call is the only one.
LEMMA CallMessageIs ==
    ASSUME Made, NEW k \in DOMAIN conv, NEW j \in DOMAIN conv[k].calls
    PROVE  Loop!CallMessage(conv[k].calls[j]) = k
<1> DEFINE c == conv[k].calls[j]
<1>1. \E i \in DOMAIN conv : \E l \in DOMAIN conv[i].calls : conv[i].calls[l] = c
  OBVIOUS
<1>2. PICK m : m = Loop!CallMessage(c)
  OBVIOUS
<1>3. m \in DOMAIN conv /\ \E l \in DOMAIN conv[m].calls : conv[m].calls[l] = c
  BY <1>1, <1>2 DEF Loop!CallMessage
<1>4. m = k
  BY <1>3 DEF Made
<1>5. QED
  BY <1>2, <1>4

\* The message a call is in is the one that holds it.
LEMMA CallMessageWillBe ==
    ASSUME Made', NEW c, NEW k \in DOMAIN conv', \E j \in DOMAIN conv'[k].calls : conv'[k].calls[j] = c
    PROVE  Loop!CallMessage(c)' = k
<1>1. PICK m : m = CHOOSE i \in DOMAIN conv' : \E l \in DOMAIN conv'[i].calls : conv'[i].calls[l] = c
  OBVIOUS
<1>2. m \in DOMAIN conv' /\ \E l \in DOMAIN conv'[m].calls : conv'[m].calls[l] = c
  BY <1>1
<1>3. m = k
  BY <1>2 DEF Made
<1>4. QED
  BY <1>1, <1>3 DEF Loop!CallMessage

\* Every answer is to a call that was made.
LEMMA AnsweredIsMade ==
    ASSUME LoopInv, NEW i \in DOMAIN conv, conv[i].of # 0
    PROVE  conv[i].of \in 1..Len(tools)
BY DEF LoopInv, AnswersPlaced, Made

\* A call that was made before the execution stays so.
LEMMA MadeBeforeStays ==
    ASSUME LoopInv, Made', Grows, PausesStay, NEW c \in 1..Len(tools), Loop!MadeBefore(c)
    PROVE  Loop!MadeBefore(c)'
<1>1. PICK k \in DOMAIN conv : \E j \in DOMAIN conv[k].calls : conv[k].calls[j] = c
  BY DEF LoopInv, Made
<1>2. PICK j \in DOMAIN conv[k].calls : conv[k].calls[j] = c
  BY <1>1
<1>3. Loop!CallMessage(c) = k
  BY <1>2, CallMessageIs DEF LoopInv
<1>4. k \in DOMAIN conv' /\ conv'[k] = conv[k]
  BY DEF Grows
<1>5. Loop!CallMessage(c)' = k
  BY <1>2, <1>4, CallMessageWillBe
<1>6. PICK i \in DOMAIN conv : i > k /\ conv[i].of # 0 /\ phase[conv[i].of] = "pauses"
  BY <1>3 DEF Loop!MadeBefore
<1>7. i \in DOMAIN conv' /\ conv'[i] = conv[i] /\ phase'[conv[i].of] = "pauses"
  BY <1>6, AnsweredIsMade DEF Grows, PausesStay
<1>8. QED
  BY <1>5, <1>6, <1>7 DEF Loop!MadeBefore

\* What was kept stays kept.
LEMMA KeptStays ==
    ASSUME LoopInv, Made', Grows, PausesStay, kept' = kept,
           outcome' \in {"open", "failed"} => outcome \in {"open", "failed"}
    PROVE  Kept'
<1>1. kept \subseteq 1..Len(tools)
  BY WroteTyped DEF LoopInv, Writes
<1>2. QED
  BY <1>1, MadeBeforeStays DEF LoopInv, Kept

\* A settled message stays settled.
LEMMA SettledStays ==
    ASSUME LoopInv, Grows, PausesStay, NEW k \in DOMAIN conv, Settled(k)
    PROVE  Settled(k)'
<1>1. k \in DOMAIN conv' /\ conv'[k] = conv[k]
  BY DEF Grows
<1>2. ASSUME NEW j \in DOMAIN conv[k].calls
      PROVE  Behind(k, j)' \/ (k + j \in DOMAIN conv' /\ conv'[k + j].of = conv[k].calls[j])
  <2>1. CASE Behind(k, j)
    <3>1. PICK i \in DOMAIN conv[k].calls : i < j /\ phase[conv[k].calls[i]] = "pauses"
      BY <2>1 DEF Behind
    <3>2. phase'[conv[k].calls[i]] = "pauses"
      BY <3>1 DEF PausesStay, LoopInv, Made
    <3>3. QED
      BY <1>1, <3>1, <3>2 DEF Behind
  <2>2. CASE k + j \in DOMAIN conv /\ conv[k + j].of = conv[k].calls[j]
    BY <2>2 DEF Grows
  <2>3. QED
    BY <2>1, <2>2 DEF Settled
<1>3. QED
  BY <1>1, <1>2 DEF Settled

\* An answer stays behind its call.
LEMMA PlacedStays ==
    ASSUME LoopInv, Grows, NoPauseIsNew, NEW i \in DOMAIN conv, conv[i].of # 0
    PROVE  \E k \in DOMAIN conv' : \E j \in DOMAIN conv'[k].calls :
             conv'[k].calls[j] = conv'[i].of /\ i = k + j /\ ~Behind(k, j)'
<1>1. PICK k \in DOMAIN conv : \E j \in DOMAIN conv[k].calls :
             conv[k].calls[j] = conv[i].of /\ i = k + j /\ ~Behind(k, j)
  BY DEF LoopInv, AnswersPlaced
<1>2. PICK j \in DOMAIN conv[k].calls : conv[k].calls[j] = conv[i].of /\ i = k + j /\ ~Behind(k, j)
  BY <1>1
<1>3. k \in DOMAIN conv' /\ conv'[k] = conv[k] /\ conv'[i] = conv[i]
  BY DEF Grows
<1>4. ~Behind(k, j)'
  <2>1. \A l \in DOMAIN conv[k].calls : l < j => phase[conv[k].calls[l]] # "pauses"
    BY <1>2 DEF Behind
  <2>2. \A l \in DOMAIN conv[k].calls : conv[k].calls[l] \in 1..Len(tools)
    BY DEF LoopInv, Made
  <2>3. QED
    BY <1>3, <2>1, <2>2 DEF Behind, NoPauseIsNew
<1>5. QED
  BY <1>2, <1>3, <1>4

Conversation == Made /\ AnswersPlaced /\ AllSettled /\ PauseKept /\ Kept

\* Only what is collected asks.
LEMMA NotAsked ==
    ASSUME LoopInv, pc # "closed", UNCHANGED heard,
           \/ bus' = bus \/ bus' = Append(bus, "delta") \/ Loop!Close(<<>>) \/ Loop!Close(<<"content">>)
           \/ Loop!NextIteration \/ Loop!Raise
    PROVE  ~Uttered("ask_user")'
<1>1. ~Uttered("ask_user")
  BY OpenWhileLooping DEF Loop!Event
<1>2. {"content", "error"} \subseteq Loop!Event /\ Loop!TypeOK
  BY DEF Loop!Event, LoopInv
<1>3. \/ bus' = bus \/ bus' = Append(bus, "delta") \/ Loop!Close(<<>>) \/ Loop!Close(<<"content">>) \/ Loop!Close(<<"error">>)
  BY DEF Loop!NextIteration, Loop!Raise
<1>4. QED
  BY <1>1, <1>2, <1>3, SaidMore

\* A step that leaves conversation and calls alone keeps what is said of them;
LEMMA ConversationRests ==
    ASSUME LoopInv, UNCHANGED <<conv, tools, phase, batch>>,
           pc \in {"tools", "closed"} => pc' \in {"tools", "closed"},
           Uttered("ask_user")' => Uttered("ask_user") /\ (pc = "closed" => pc' = "closed"),
           Kept'
    PROVE  Conversation'
<1>1. Made' /\ AnswersPlaced'
  BY DEF LoopInv, Made, AnswersPlaced, Behind
<1>2. AllSettled'
  BY DEF LoopInv, AllSettled, Settled, Behind
<1>3. PauseKept'
  BY DEF LoopInv, PauseKept, Loop!Pausing, Done
<1>4. QED
  BY <1>1, <1>2, <1>3 DEF Conversation

\* so do the model's reply,
LEMMA ConversationOfModel ==
    ASSUME Loop!LoopAssumption, LoopInv, conv' = conv,
           Loop!StreamDelta \/ Loop!StreamEnd \/ Loop!ModelAnswers \/ Loop!ModelFails
    PROVE  Conversation'
<1>1. /\ UNCHANGED <<tools, phase, batch, heard, outcome, kept>> /\ pc \in {"model", "stream"}
      /\ \/ bus' = bus \/ bus' = Append(bus, "delta") \/ Loop!Close(<<>>) \/ Loop!Close(<<"content">>)
         \/ Loop!NextIteration \/ Loop!Raise
  BY DEF Loop!StreamDelta, Loop!StreamEnd, Loop!ModelAnswers, Loop!ModelFails, Loop!InStream, Loop!ownerVars,
     Loop!dbVars
<1>2. ~Uttered("ask_user")'
  BY <1>1, NotAsked
<1>3. Kept'
  BY ZenonT(40), <1>1 DEF LoopInv, Kept, Loop!MadeBefore, Loop!CallMessage
<1>4. QED
  BY <1>1, <1>2, <1>3, ConversationRests

\* the owner's steps
LEMMA ConversationOfOwner ==
    ASSUME LoopInv, Loop!OwnerStep \/ Loop!Cancel \/ Loop!FindCancelled \/ UNCHANGED Loop!vars
    PROVE  Conversation'
<1>1. UNCHANGED <<conv, tools, phase, batch, pc>>
  BY DEF Loop!OwnerStep, Loop!Receive, Loop!StreamOver, Loop!Commit, Loop!RollBack, Loop!Unbind,
     Loop!CloseSession, Loop!Cancel, Loop!FindCancelled,
     Loop!vars, Loop!loopVars
<1>2. Uttered("ask_user")' => Uttered("ask_user")
  <2>1. CASE Loop!Receive
    BY <2>1, SaidTaken DEF Loop!Receive, LoopInv
  <2>2. CASE Loop!FindCancelled
    BY <2>2, SaidTaken DEF Loop!FindCancelled, LoopInv
  <2>3. CASE Loop!StreamOver \/ Loop!Commit \/ Loop!RollBack \/ Loop!Unbind \/ Loop!CloseSession \/ Loop!Cancel \/ UNCHANGED Loop!vars
    <3>1. UNCHANGED <<bus, heard>>
      BY <2>3 DEF Loop!StreamOver, Loop!Commit, Loop!RollBack, Loop!Unbind, Loop!CloseSession, Loop!Cancel,
         Loop!vars, Loop!ownerVars
    <3>2. QED
      BY <3>1 DEF Uttered, Loop!Heard
  <2>4. QED
    BY <2>1, <2>2, <2>3 DEF Loop!OwnerStep
<1>3. \/ outcome' \in {"saved", "cancelled"}
      \/ kept' = kept /\ (outcome' = outcome \/ outcome = "open")
  <2>1. CASE Loop!Commit
    BY <2>1 DEF Loop!Commit, LoopInv, Owners
  <2>2. CASE ~Loop!Commit
    BY <2>2 DEF Loop!OwnerStep, Loop!Receive, Loop!StreamOver, Loop!RollBack, Loop!Unbind, Loop!CloseSession,
       Loop!Cancel, Loop!FindCancelled,
     Loop!vars, Loop!ownerVars, Loop!dbVars
  <2>3. QED
    BY <2>1, <2>2
<1>4. Kept'
  BY <1>1, <1>3 DEF LoopInv, Kept, Loop!MadeBefore, Loop!CallMessage
<1>5. QED
  BY <1>1, <1>2, <1>4, ConversationRests

\* The model is reminded.
LEMMA ConversationReminded ==
    ASSUME Loop!LoopAssumption, LoopInv, conv' # conv, Loop!ModelAnswers
    PROVE  Conversation'
<1>1. /\ conv' = Append(conv, Loop!Said("system")) /\ Loop!NextIteration /\ pc = "model"
      /\ UNCHANGED <<tools, phase, batch, heard, outcome, kept>>
  BY DEF Loop!ModelAnswers, Loop!ownerVars, Loop!dbVars
<1>2. Grows /\ Len(conv') = Len(conv) + 1 /\ conv'[Len(conv) + 1] = Loop!Said("system")
  BY <1>1, MessagesTyped, GrowsAtAll
<1>3. PausesStay /\ NoPauseIsNew
  BY <1>1 DEF PausesStay, NoPauseIsNew
<1>4. /\ \A k \in DOMAIN conv' : k \in DOMAIN conv \/ k = Len(conv) + 1
      /\ DOMAIN Loop!Said("system").calls = {} /\ Loop!Said("system").of = 0
  BY <1>2 DEF Grows, Loop!Said
<1>5. OnlyAnswers
  BY <1>2, <1>4 DEF OnlyAnswers
<1>6. Made'
  BY <1>1, <1>2, <1>5, MadeMore
<1>7. AnswersPlaced'
  <2> SUFFICES ASSUME NEW i \in DOMAIN conv', conv'[i].of # 0
               PROVE  \E k \in DOMAIN conv' : \E j \in DOMAIN conv'[k].calls :
                        conv'[k].calls[j] = conv'[i].of /\ i = k + j /\ ~Behind(k, j)'
    BY DEF AnswersPlaced
  <2>1. i \in DOMAIN conv /\ conv[i].of # 0
    BY <1>2, <1>4 DEF Grows
  <2>2. QED
    BY <1>2, <1>3, <2>1, PlacedStays
<1>8. AllSettled'
  <2>1. \A k \in DOMAIN conv : Settled(k)
    BY <1>1 DEF LoopInv, AllSettled
  <2>2. \A k \in DOMAIN conv : Settled(k)'
    BY <1>2, <1>3, <2>1, SettledStays
  <2>3. \A k \in DOMAIN conv' : Settled(k)'
    BY <1>2, <1>4, <2>2 DEF Settled
  <2>4. QED
    BY <2>3 DEF AllSettled
<1>9. PauseKept'
  BY <1>1, NotAsked DEF PauseKept
<1>10. Kept'
  BY <1>1, <1>2, <1>3, <1>6, KeptStays
<1>11. QED
  BY <1>6, <1>7, <1>8, <1>9, <1>10 DEF Conversation

\* The model calls.
LEMMA ConversationCalled ==
    ASSUME Loop!LoopAssumption, LoopInv, Loop!ModelCalls
    PROVE  Conversation'
<1>1. PICK n \in 1..MaxBatch :
         /\ n \in Nat /\ n >= 1 /\ Len(tools) \in Nat
         /\ Len(tools') = Len(tools) + n
         /\ \A c \in 1..Len(tools) : c \in 1..Len(tools') /\ tools'[c] = tools[c] /\ phase'[c] = phase[c]
         /\ DOMAIN batch' = 1..n
         /\ \A i \in 1..n : batch'[i] = Len(tools) + i
         /\ conv' = Append(conv, Loop!CallsMade(batch')) /\ Loop!CallsMade(batch') \in Loop!Message
  BY Calling DEF LoopInv
<1>2. Grows /\ Len(conv') = Len(conv) + 1 /\ conv'[Len(conv) + 1] = Loop!CallsMade(batch')
  BY <1>1, GrowsAtAll
<1>3. PausesStay /\ NoPauseIsNew
  BY <1>1 DEF PausesStay, NoPauseIsNew
<1>4. PICK new : new = Len(conv) + 1
  OBVIOUS
<1>5. /\ new \in DOMAIN conv' /\ new \notin DOMAIN conv
      /\ \A k \in DOMAIN conv' : k \in DOMAIN conv \/ k = new
      /\ conv'[new].calls = batch' /\ conv'[new].of = 0
      /\ \A k \in DOMAIN conv : k \in DOMAIN conv' /\ conv'[k] = conv[k]
  BY <1>2, <1>4 DEF Grows, Loop!CallsMade
<1>6. /\ pc = "model" /\ pc' = "tools" /\ bus' = bus
      /\ UNCHANGED <<heard, outcome, kept>>
  BY DEF Loop!ModelCalls, Loop!ownerVars, Loop!dbVars
<1>7. Made'
  <2>0. Made
    BY DEF LoopInv
  <2>1. \A c \in 1..Len(tools') : \E k \in DOMAIN conv' : \E j \in DOMAIN conv'[k].calls : conv'[k].calls[j] = c
    <3> TAKE c \in 1..Len(tools')
    <3>1. CASE c \in 1..Len(tools)
      BY <1>5, <2>0, <3>1 DEF Made
    <3>2. CASE c \notin 1..Len(tools)
      <4>1. PICK i \in 1..n : c = Len(tools) + i
        <5>1. c - Len(tools) \in 1..n /\ c = Len(tools) + (c - Len(tools))
          BY <1>1, <3>2
        <5>2. QED
          BY <5>1
      <4>2. i \in DOMAIN conv'[new].calls /\ conv'[new].calls[i] = c
        BY <1>1, <1>5, <4>1
      <4>3. QED
        BY <1>5, <4>2
    <3>3. QED
      BY <3>1, <3>2
  <2>2. \A k \in DOMAIN conv' : \A j \in DOMAIN conv'[k].calls : conv'[k].calls[j] \in 1..Len(tools')
    <3>1. \A i \in 1..n : batch'[i] \in 1..Len(tools')
      BY <1>1
    <3>2. \A k \in DOMAIN conv : \A j \in DOMAIN conv[k].calls : conv[k].calls[j] \in 1..Len(tools')
      BY <1>1, <2>0 DEF Made
    <3>3. QED
      BY <1>1, <1>5, <3>1, <3>2
  <2>3. \A k, l \in DOMAIN conv' : \A j \in DOMAIN conv'[k].calls, i \in DOMAIN conv'[l].calls :
          conv'[k].calls[j] = conv'[l].calls[i] => k = l /\ j = i
    <3>1. \A i, j \in 1..n : batch'[i] = batch'[j] => i = j
      BY <1>1
    <3>2. \A i \in 1..n : batch'[i] \notin 1..Len(tools)
      BY <1>1
    <3>3. \A k \in DOMAIN conv : \A j \in DOMAIN conv[k].calls : conv[k].calls[j] \in 1..Len(tools)
      BY <2>0 DEF Made
    <3>4. \A k, l \in DOMAIN conv : \A j \in DOMAIN conv[k].calls, i \in DOMAIN conv[l].calls :
          conv[k].calls[j] = conv[l].calls[i] => k = l /\ j = i
      BY <2>0 DEF Made
    <3>5. SUFFICES ASSUME NEW k \in DOMAIN conv', NEW l \in DOMAIN conv', NEW j \in DOMAIN conv'[k].calls,
                          NEW i \in DOMAIN conv'[l].calls, conv'[k].calls[j] = conv'[l].calls[i]
                   PROVE  k = l /\ j = i
      OBVIOUS
    <3>6. CASE k \in DOMAIN conv /\ l \in DOMAIN conv
      BY <1>5, <3>4, <3>5, <3>6
    <3>7. CASE k = new /\ l = new
      BY <1>1, <1>5, <3>1, <3>5, <3>7
    <3>8. CASE k \in DOMAIN conv /\ l = new
      BY <1>1, <1>5, <3>2, <3>3, <3>5, <3>8
    <3>9. CASE k = new /\ l \in DOMAIN conv
      BY <1>1, <1>5, <3>2, <3>3, <3>5, <3>9
    <3>10. QED
      BY <1>5, <3>6, <3>7, <3>8, <3>9
  <2>4. QED
    BY <2>1, <2>2, <2>3 DEF Made
<1>8. AnswersPlaced'
  <2> SUFFICES ASSUME NEW i \in DOMAIN conv', conv'[i].of # 0
               PROVE  \E k \in DOMAIN conv' : \E j \in DOMAIN conv'[k].calls :
                        conv'[k].calls[j] = conv'[i].of /\ i = k + j /\ ~Behind(k, j)'
    BY DEF AnswersPlaced
  <2>1. i \in DOMAIN conv /\ conv[i].of # 0
    BY <1>5
  <2>2. QED
    BY <1>2, <1>3, <2>1, PlacedStays
<1>9. AllSettled'
  <2>1. \A k \in DOMAIN conv : Settled(k)
    BY <1>6 DEF LoopInv, AllSettled
  <2>2. \A k \in DOMAIN conv : Settled(k)'
    BY <1>2, <1>3, <2>1, SettledStays
  <2>3. QED
    BY <1>5, <1>6, <2>2 DEF AllSettled
<1>10. PauseKept'
  BY <1>6, NotAsked DEF PauseKept
<1>11. Kept'
  BY <1>2, <1>3, <1>6, <1>7, KeptStays
<1>12. QED
  BY <1>7, <1>8, <1>9, <1>10, <1>11 DEF Conversation

\* A tool goes on.
LEMMA ConversationOfTool ==
    ASSUME Loop!LoopAssumption, LoopInv, NEW c \in 1..Len(tools),
           Loop!ToolStart(c) \/ Loop!ToolEnd(c) \/ Loop!ToolAtOnce(c) \/ Loop!ToolFails(c)
    PROVE  Conversation'
<1>1. /\ UNCHANGED <<conv, tools, batch, heard, outcome, kept>> /\ ~Done(c)
      /\ bus' = bus \/ (pc = "tools" /\ Loop!Raise)
      /\ pc \in {"tools", "closed"} /\ pc' \in {"tools", "closed"}
  <2>1. /\ UNCHANGED <<conv, tools, batch, heard, outcome, kept>> /\ ~Done(c)
        /\ UNCHANGED <<pc, bus>> \/ (pc = "tools" /\ Loop!Raise)
    BY DEF Loop!ToolStart, Loop!ToolEnd, Loop!ToolAtOnce, Loop!ToolFails, Loop!MayStart, Loop!CommitIfUnbound,
       Loop!ownerVars, Loop!dbVars, Done
  <2>2. pc \in {"tools", "closed"}
    BY <2>1, OnHand
  <2>3. QED
    BY <2>1, <2>2, PcAfter
<1>2. PICK p \in Phase : /\ phase' = [phase EXCEPT ![c] = p]
                         /\ p = "pauses" => Loop!ToolAtOnce(c)
  BY DEF Loop!ToolStart, Loop!ToolEnd, Loop!ToolAtOnce, Loop!ToolFails, Phase, Loop!Ended
<1>3. phase'[c] = p /\ \A d \in 1..Len(tools) : d # c => phase'[d] = phase[d]
  BY <1>2, PhaseSet DEF LoopInv
<1>4. Grows /\ OnlyAnswers /\ PausesStay
  BY <1>1, <1>3, GrowsAtAll DEF PausesStay, Done
<1>5. Made'
  BY <1>1, <1>4, MadeMore
<1>6. PICK at \in DOMAIN batch : batch[at] = c
  BY <1>1, OnHand
<1>7. AnswersPlaced'
  <2> SUFFICES ASSUME NEW i \in DOMAIN conv, conv[i].of # 0
               PROVE  \E k \in DOMAIN conv' : \E j \in DOMAIN conv'[k].calls :
                        conv'[k].calls[j] = conv'[i].of /\ i = k + j /\ ~Behind(k, j)'
    BY <1>1 DEF AnswersPlaced
  <2>1. CASE p # "pauses"
    <3>1. NoPauseIsNew
      BY <1>3, <2>1 DEF NoPauseIsNew
    <3>2. QED
      BY <1>4, <3>1, PlacedStays
  <2>2. CASE p = "pauses"
    <3>1. Loop!MayStart(c) /\ tools[c] \notin Loop!UsesDb
      BY <1>2, <2>2 DEF Loop!ToolAtOnce
    <3>2. pc = "tools"
      BY <3>1, Starts DEF Loop!UsesDb, Loop!ReadOnly
    <3>3. conv[Len(conv)].calls = batch /\ Len(conv) \in DOMAIN conv /\ DOMAIN conv = 1..Len(conv)
      <4>1. conv[Len(conv)].calls = batch
        BY <3>2 DEF LoopInv, Stages
      <4>2. i \in 1..Len(conv) /\ Len(conv) \in Nat
        BY <1>4 DEF Grows
      <4>3. QED
        BY <1>4, <4>1, <4>2 DEF Grows
    <3>4. PICK k \in DOMAIN conv : \E j \in DOMAIN conv[k].calls :
             conv[k].calls[j] = conv[i].of /\ i = k + j /\ ~Behind(k, j)
      BY DEF LoopInv, AnswersPlaced
    <3>5. PICK j \in DOMAIN conv[k].calls : conv[k].calls[j] = conv[i].of /\ i = k + j /\ ~Behind(k, j)
      BY <3>4
    <3>6. k # Len(conv)
      <4>1. j \in Nat /\ j >= 1
        BY CallPlaces DEF LoopInv
      <4>2. Len(conv) \in Nat
        BY <1>4 DEF Grows
      <4>3. QED
        BY <3>3, <3>5, <4>1, <4>2
    <3>7. \A l \in DOMAIN conv[k].calls : conv[k].calls[l] # c
      BY <1>6, <3>3, <3>6 DEF LoopInv, Made
    <3>8. ~Behind(k, j)'
      <4>1. \A l \in DOMAIN conv[k].calls : conv[k].calls[l] \in 1..Len(tools)
        BY DEF LoopInv, Made
      <4>2. QED
        BY <1>1, <1>3, <3>5, <3>7, <4>1 DEF Behind
    <3>9. QED
      BY <1>1, <3>5, <3>8
  <2>3. QED
    BY <2>1, <2>2
<1>8. AllSettled'
  <2>1. \A k \in DOMAIN conv : Settled(k) => Settled(k)'
    BY <1>4, SettledStays
  <2>2. QED
    BY <1>1, <2>1 DEF LoopInv, AllSettled
<1>9. PauseKept'
  <2>1. ~Uttered("ask_user")
    BY <1>1 DEF LoopInv, PauseKept
  <2>2. CASE bus' = bus
    <3>1. ~Uttered("ask_user")'
      BY <1>1, <2>1, <2>2 DEF Uttered, Loop!Heard
    <3>2. QED
      BY <3>1 DEF PauseKept
  <2>3. CASE pc = "tools" /\ Loop!Raise
    BY <1>1, <2>3, NotAsked DEF PauseKept
  <2>4. QED
    BY <1>1, <2>2, <2>3
<1>10. Kept'
  BY <1>1, <1>4, <1>5, KeptStays
<1>11. QED
  BY <1>5, <1>7, <1>8, <1>9, <1>10 DEF Conversation

\* The results are collected: cs are the calls that get an answer.
LEMMA AnswersOf ==
    ASSUME LoopInv, NEW cs \in Seq(Loop!Call)
    PROVE  /\ Loop!AnswersTo(cs) \in Seq(Loop!Message) /\ Len(Loop!AnswersTo(cs)) = Len(cs) /\ Len(cs) \in Nat
           /\ DOMAIN cs = 1..Len(cs)
           /\ \A j \in 1..Len(cs) : Loop!AnswersTo(cs)[j] = Loop!Answer(cs[j])
<1>1. cs \in [1..Len(cs) -> Loop!Call] /\ Len(cs) \in Nat /\ DOMAIN cs = 1..Len(cs)
  OBVIOUS
<1>2. Loop!AnswersTo(cs) \in Seq(Loop!Message)
  BY MessagesTyped
<1>3. DOMAIN Loop!AnswersTo(cs) = 1..Len(cs)
  BY <1>1 DEF Loop!AnswersTo
<1>4. Len(Loop!AnswersTo(cs)) = Len(cs)
  BY <1>1, <1>2, <1>3, LenProperties
<1>5. QED
  BY <1>1, <1>2, <1>4 DEF Loop!AnswersTo

\* and the collection of the results:
LEMMA ConversationCollected ==
    ASSUME Loop!LoopAssumption, LoopInv, Loop!Collect
    PROVE  Conversation'
<1>1. /\ pc = "tools" /\ UNCHANGED <<tools, phase, batch, heard, outcome, kept>>
      /\ conv[Len(conv)].calls = batch /\ batch # <<>>
  BY DEF Loop!Collect, Loop!AllEnded, Loop!ownerVars, Loop!dbVars, LoopInv, Stages
<1>2. batch \in Seq(Loop!Call) /\ DOMAIN batch = 1..Len(batch) /\ Len(batch) \in Nat
  BY DEF LoopInv, Loop!TypeOK
<1>3. PICK cs \in Seq(Loop!Call) :
        /\ conv' = conv \o Loop!AnswersTo(cs) /\ Len(cs) <= Len(batch)
        /\ \A j \in 1..Len(cs) : j \in DOMAIN batch /\ cs[j] = batch[j] /\ j \notin Loop!Pausing
        /\ Loop!Pausing = {} => Len(cs) = Len(batch) /\ Loop!NextIteration
        /\ Loop!Pausing # {} => Len(cs) = Loop!First(Loop!Pausing) - 1 /\ Loop!Close(<<"ask_user">>)
  <2>1. CASE Loop!Pausing = {}
    <3>1. conv' = conv \o Loop!AnswersTo(batch) /\ Loop!NextIteration
      BY <2>1 DEF Loop!Collect
    <3>2. \A j \in 1..Len(batch) : j \in DOMAIN batch /\ batch[j] = batch[j] /\ j \notin Loop!Pausing
      BY <1>2, <2>1
    <3>3. Len(batch) <= Len(batch)
      BY <1>2
    <3>4. QED
      BY <1>2, <2>1, <3>1, <3>2, <3>3
  <2>2. CASE Loop!Pausing # {}
    <3>1. PICK cs : cs = SubSeq(batch, 1, Loop!First(Loop!Pausing) - 1)
      OBVIOUS
    <3>2. /\ cs \in Seq(Loop!Call) /\ Len(cs) = Loop!First(Loop!Pausing) - 1
          /\ DOMAIN cs = 1..(Loop!First(Loop!Pausing) - 1)
          /\ \A i \in DOMAIN cs : i \in DOMAIN batch /\ cs[i] = batch[i]
      BY <2>2, <3>1, FewAnswered DEF LoopInv
    <3>3. \A i \in 1..(Loop!First(Loop!Pausing) - 1) : i \notin Loop!Pausing
      BY <2>2, PausePlaced DEF LoopInv
    <3>4. Loop!First(Loop!Pausing) \in 1..Len(batch)
      BY <2>2, PausePlaced DEF LoopInv
    <3>5. conv' = conv \o Loop!AnswersTo(cs) /\ Loop!Close(<<"ask_user">>)
      BY <2>2, <3>1 DEF Loop!Collect
    <3>6. Len(cs) <= Len(batch)
      BY <1>2, <3>2, <3>4
    <3>7. QED
      BY <2>2, <3>2, <3>3, <3>5, <3>6
  <2>3. QED
    BY <2>1, <2>2
<1>4. /\ Len(cs) \in Nat /\ Len(Loop!AnswersTo(cs)) = Len(cs)
      /\ \A j \in 1..Len(cs) : Loop!AnswersTo(cs)[j] = Loop!Answer(cs[j])
      /\ Loop!AnswersTo(cs) \in Seq(Loop!Message)
  BY AnswersOf
<1>5. /\ Grows /\ Len(conv') = Len(conv) + Len(cs)
      /\ \A j \in 1..Len(cs) : conv'[Len(conv) + j] = Loop!Answer(batch[j])
  BY <1>3, <1>4, GrowsAtAll
<1>6. PICK K : K = Len(conv)
  OBVIOUS
<1>7. /\ K \in Nat /\ DOMAIN conv = 1..K /\ DOMAIN conv' = 1..(K + Len(cs))
      /\ \A k \in DOMAIN conv : k \in DOMAIN conv' /\ conv'[k] = conv[k]
      /\ \A j \in 1..Len(cs) : K + j \in DOMAIN conv' /\ conv'[K + j].of = batch[j] /\ conv'[K + j].calls = <<>>
      /\ \A i \in DOMAIN conv' \ DOMAIN conv : \E j \in 1..Len(cs) : i = K + j
  <2>1. K \in Nat /\ DOMAIN conv = 1..K /\ DOMAIN conv' = 1..(K + Len(cs))
        /\ \A k \in DOMAIN conv : k \in DOMAIN conv' /\ conv'[k] = conv[k]
    BY <1>5, <1>6 DEF Grows
  <2>2. \A j \in 1..Len(cs) : K + j \in DOMAIN conv'
    BY <1>4, <2>1
  <2>3. \A j \in 1..Len(cs) : conv'[K + j].of = batch[j] /\ conv'[K + j].calls = <<>>
    <3>1. \A j \in 1..Len(cs) : conv'[K + j] = Loop!Answer(batch[j])
      BY <1>5, <1>6
    <3>2. \A j : Loop!Answer(batch[j]).of = batch[j] /\ Loop!Answer(batch[j]).calls = <<>>
      BY DEF Loop!Answer
    <3>3. QED
      BY <3>1, <3>2
  <2>4. ASSUME NEW i \in DOMAIN conv' \ DOMAIN conv PROVE \E j \in 1..Len(cs) : i = K + j
    <3>1. i - K \in 1..Len(cs) /\ i = K + (i - K)
      BY <1>4, <2>1
    <3>2. QED
      BY <3>1
  <2>5. QED
    BY <2>1, <2>2, <2>3, <2>4
<1>8. K \in DOMAIN conv /\ conv[K].calls = batch
  <2>0. Len(batch) # 0
    BY <1>1, <1>2
  <2>1. PICK i \in DOMAIN batch : TRUE
    <3>1. 1 \in DOMAIN batch
      BY <1>2, <2>0
    <3>2. QED
      BY <3>1
  <2>2. batch[i] \in 1..Len(tools)
    BY DEF LoopInv, Batches
  <2>3. \E k \in DOMAIN conv : TRUE
    BY <2>2 DEF LoopInv, Made
  <2>4. QED
    BY <1>1, <1>6, <1>7, <2>3
<1>9. OnlyAnswers /\ PausesStay /\ NoPauseIsNew
  BY <1>1, <1>7 DEF OnlyAnswers, PausesStay, NoPauseIsNew
<1>10. Made'
  BY <1>1, <1>5, <1>9, MadeMore
<1>11. \A j \in DOMAIN batch : Behind(K, j)' <=> \E i \in DOMAIN batch : i < j /\ i \in Loop!Pausing
  BY <1>1, <1>7, <1>8 DEF Behind, Loop!Pausing
<1>12. AnswersPlaced'
  <2> SUFFICES ASSUME NEW i \in DOMAIN conv', conv'[i].of # 0
               PROVE  \E k \in DOMAIN conv' : \E j \in DOMAIN conv'[k].calls :
                        conv'[k].calls[j] = conv'[i].of /\ i = k + j /\ ~Behind(k, j)'
    BY DEF AnswersPlaced
  <2>1. CASE i \in DOMAIN conv
    BY <1>5, <1>7, <1>9, <2>1, PlacedStays
  <2>2. CASE i \notin DOMAIN conv
    <3>1. PICK j \in 1..Len(cs) : i = K + j
      BY <1>7, <2>2
    <3>2. j \in DOMAIN batch /\ conv'[i].of = batch[j]
      BY <1>3, <1>7, <3>1
    <3>3. ~Behind(K, j)'
      <4>1. \A l \in DOMAIN batch : l < j => l \in 1..Len(cs)
        BY <1>2, <1>4
      <4>2. QED
        BY <1>3, <1>11, <3>2, <4>1
    <3>4. QED
      BY <1>7, <1>8, <3>1, <3>2, <3>3
  <2>3. QED
    BY <2>1, <2>2
<1>13. \A k \in DOMAIN conv : k # K => Settled(k)'
  <2> SUFFICES ASSUME NEW k \in DOMAIN conv, k # K PROVE Settled(k)'
    OBVIOUS
  <2>1. conv[k].calls # batch
    <3>1. 1 \in DOMAIN batch
      BY <1>1, <1>2
    <3>2. QED
      BY <1>8, <3>1 DEF LoopInv, Made
  <2>2. Settled(k)
    BY <2>1 DEF LoopInv, AllSettled
  <2>3. QED
    BY <1>5, <1>9, <2>2, SettledStays
<1>14. \A k \in DOMAIN conv' \ DOMAIN conv : Settled(k)'
  BY <1>7 DEF Settled
<1>15. CASE Loop!Pausing = {}
  <2>1. Settled(K)'
    <3>1. \A j \in DOMAIN batch : j \in 1..Len(cs)
      BY <1>2, <1>3, <1>15
    <3>2. QED
      BY <1>7, <1>8, <3>1 DEF Settled
  <2>2. AllSettled'
    BY <1>13, <1>14, <2>1 DEF AllSettled
  <2>3. PauseKept'
    BY <1>1, <1>3, <1>15, NotAsked DEF PauseKept
  <2>4. Kept'
    BY <1>1, <1>5, <1>9, <1>10, KeptStays
  <2>5. QED
    BY <1>10, <1>12, <2>2, <2>3, <2>4 DEF Conversation
<1>16. CASE Loop!Pausing # {}
  <2>1. pc' = "closed"
    BY <1>3, <1>16, PcAfter
  <2>2. AllSettled'
    BY <1>1, <1>7, <1>8, <1>13, <1>14, <2>1 DEF AllSettled
  <2>3. Loop!Pausing' = Loop!Pausing /\ \A c \in 1..Len(tools) : Done(c)'
    BY <1>1, AllDone DEF Loop!Pausing, Done, Loop!Collect
  <2>4. PICK f : f = Loop!First(Loop!Pausing)
    OBVIOUS
  <2>5. f \in Nat /\ f >= 1 /\ Len(cs) = f - 1
    BY <1>3, <1>16, <2>4, PausePlaced DEF LoopInv
  <2>6. Len(conv') = K + f - 1 /\ \A j \in 1..(f - 1) : conv'[K + j].of = batch[j]
    BY <1>5, <1>6, <1>7, <2>5
  <2>7. PauseKept'
    BY SMTT(30), <1>1, <1>7, <1>8, <1>16, <2>1, <2>3, <2>4, <2>6 DEF PauseKept
  <2>8. Kept'
    BY <1>1, <1>5, <1>9, <1>10, KeptStays
  <2>9. QED
    BY <1>10, <1>12, <2>2, <2>7, <2>8 DEF Conversation
<1>17. QED
  BY <1>15, <1>16

\* The learner answers.
LEMMA ConversationResumed ==
    ASSUME Loop!LoopAssumption, LoopInv, Loop!Resume
    PROVE  Conversation'
<1>1. /\ Uttered("ask_user") /\ UNCHANGED <<tools, phase, kept, bus>> /\ outcome = "saved" /\ turn.entry = "ws"
      /\ owner = "gone" /\ pc' = "model" /\ heard' = <<>>
      /\ conv' = Append(conv, Loop!Answer(batch[Loop!First(Loop!Pausing)]))
  BY DEF Loop!Resume, Loop!Paused, Uttered, Loop!dbVars
<1>2. Loop!Pausing # {}
  BY <1>1 DEF LoopInv, PauseKept
<1>3. PICK f : f = Loop!First(Loop!Pausing)
  OBVIOUS
<1>4. /\ f \in Nat /\ f >= 1 /\ f \in DOMAIN batch /\ f \in Loop!Pausing
      /\ \A i \in 1..(f - 1) : i \notin Loop!Pausing
      /\ batch[f] \in Loop!Call /\ batch[f] \in 1..Len(tools) /\ phase[batch[f]] = "pauses"
      /\ DOMAIN batch \subseteq Nat /\ \A i \in DOMAIN batch : i >= 1
  <2>1. /\ f \in 1..Len(batch) /\ Len(batch) \in Nat /\ f \in Loop!Pausing
        /\ \A i \in 1..(f - 1) : i \notin Loop!Pausing
    BY <1>2, <1>3, PausePlaced DEF LoopInv
  <2>2. DOMAIN batch = 1..Len(batch) /\ batch[f] \in Loop!Call
    BY <2>1 DEF LoopInv, Loop!TypeOK
  <2>3. batch[f] \in 1..Len(tools) /\ phase[batch[f]] = "pauses"
    BY <2>1, <2>2 DEF LoopInv, Batches, Loop!Pausing
  <2>4. QED
    BY <2>1, <2>2, <2>3
<1>5. PICK k \in DOMAIN conv : /\ conv[k].calls = batch
                               /\ Len(conv) = k + f - 1
                               /\ \A j \in 1..(f - 1) : conv[k + j].of = batch[j]
  BY <1>1, <1>3 DEF LoopInv, PauseKept
<1>6. Grows /\ Len(conv') = Len(conv) + 1 /\ conv'[Len(conv) + 1] = Loop!Answer(batch[f])
  <2>1. Loop!Answer(batch[f]) \in Loop!Message
    BY <1>4, MessagesTyped
  <2>2. QED
    BY <1>1, <1>3, <2>1, GrowsAtAll
<1>7. /\ DOMAIN conv = 1..Len(conv) /\ DOMAIN conv' = 1..(k + f) /\ Len(conv) + 1 = k + f
      /\ k + f \in DOMAIN conv' /\ k + f \notin DOMAIN conv
      /\ \A i \in DOMAIN conv' : i \in DOMAIN conv \/ i = k + f
      /\ conv'[k + f].of = batch[f] /\ conv'[k + f].calls = <<>>
      /\ \A i \in DOMAIN conv : i \in DOMAIN conv' /\ conv'[i] = conv[i]
  <2>1. /\ DOMAIN conv = 1..Len(conv) /\ DOMAIN conv' = 1..(Len(conv) + 1) /\ Len(conv) \in Nat
        /\ \A i \in DOMAIN conv : i \in DOMAIN conv' /\ conv'[i] = conv[i]
    BY <1>6 DEF Grows
  <2>2. Len(conv) + 1 = k + f /\ k \in Nat
    BY <1>4, <1>5, <2>1
  <2>3. conv'[k + f] = Loop!Answer(batch[f])
    BY <1>6, <2>2
  <2>4. Loop!Answer(batch[f]).of = batch[f] /\ Loop!Answer(batch[f]).calls = <<>>
    BY DEF Loop!Answer
  <2>5. QED
    BY <2>1, <2>2, <2>3, <2>4
<1>8. OnlyAnswers /\ PausesStay /\ NoPauseIsNew
  BY <1>1, <1>7 DEF OnlyAnswers, PausesStay, NoPauseIsNew
<1>9. Made'
  BY <1>1, <1>6, <1>8, MadeMore
<1>10. \A j \in DOMAIN batch : Behind(k, j)' <=> \E i \in DOMAIN batch : i < j /\ i \in Loop!Pausing
  BY <1>1, <1>5, <1>7 DEF Behind, Loop!Pausing
<1>11. AnswersPlaced'
  <2> SUFFICES ASSUME NEW i \in DOMAIN conv', conv'[i].of # 0
               PROVE  \E m \in DOMAIN conv' : \E j \in DOMAIN conv'[m].calls :
                        conv'[m].calls[j] = conv'[i].of /\ i = m + j /\ ~Behind(m, j)'
    BY DEF AnswersPlaced
  <2>1. CASE i \in DOMAIN conv
    BY <1>6, <1>7, <1>8, <2>1, PlacedStays
  <2>2. CASE i = k + f
    <3>1. ~Behind(k, f)'
      <4>1. \A l \in DOMAIN batch : l < f => l \in 1..(f - 1)
        BY <1>4
      <4>2. QED
        BY <1>4, <1>10, <4>1
    <3>2. QED
      BY <1>4, <1>5, <1>7, <2>2, <3>1
  <2>3. QED
    BY <1>7, <2>1, <2>2
<1>12. AllSettled'
  <2>1. Settled(k)'
    <3>1. ASSUME NEW j \in DOMAIN batch PROVE Behind(k, j)' \/ (k + j \in DOMAIN conv' /\ conv'[k + j].of = batch[j])
      <4>1. CASE j < f
        <5>1. conv[k + j].of = batch[j] /\ k + j \in DOMAIN conv
          <6>1. j \in 1..(f - 1) /\ k \in Nat /\ k >= 1
            BY <1>4, <1>7, <4>1
          <6>2. k + j \in 1..Len(conv)
            BY <1>4, <1>5, <6>1
          <6>3. QED
            BY <1>5, <1>7, <6>1, <6>2
        <5>2. QED
          BY <1>7, <5>1
      <4>2. CASE j = f
        BY <1>7, <4>2
      <4>3. CASE f < j
        BY <1>4, <1>10, <4>3
      <4>4. QED
        BY <1>4, <4>1, <4>2, <4>3
    <3>2. QED
      BY <1>5, <1>7, <3>1 DEF Settled
  <2>2. ASSUME NEW m \in DOMAIN conv, m # k PROVE Settled(m)'
    <3>1. conv[m].calls # batch
      BY <1>4, <1>5, <2>2 DEF LoopInv, Made
    <3>2. Settled(m)
      BY <3>1 DEF LoopInv, AllSettled
    <3>3. QED
      BY <1>6, <1>8, <3>2, SettledStays
  <2>3. Settled(k + f)'
    BY <1>7 DEF Settled
  <2>4. QED
    BY <1>7, <2>1, <2>2, <2>3 DEF AllSettled
<1>13. PauseKept'
  <2>1. bus = <<>>
    BY <1>1 DEF LoopInv, Owners
  <2>2. ~Uttered("ask_user")'
    BY <1>1, <2>1 DEF Uttered, Loop!Heard
  <2>3. QED
    BY <2>2 DEF PauseKept
<1>14. Kept'
  <2> SUFFICES ASSUME NEW c \in kept PROVE Loop!MadeBefore(c)'
    BY <1>1 DEF Kept
  <2>1. c \in 1..Len(tools)
    BY WroteTyped DEF LoopInv, Writes
  <2>2. PICK m \in DOMAIN conv : \E j \in DOMAIN conv[m].calls : conv[m].calls[j] = c
    BY <2>1 DEF LoopInv, Made
  <2>3. Loop!CallMessage(c)' = m
    BY <1>7, <1>9, <2>2, CallMessageWillBe
  <2>4. k + f > m
    BY <1>7, <1>4, <1>5
  <2>5. conv'[k + f].of # 0 /\ phase'[conv'[k + f].of] = "pauses"
    BY <1>1, <1>4, <1>7
  <2>6. QED
    BY <1>7, <2>3, <2>4, <2>5 DEF Loop!MadeBefore
<1>15. QED
  BY <1>9, <1>11, <1>12, <1>13, <1>14 DEF Conversation

\* every step does.
LEMMA ConversationStep ==
    ASSUME Loop!LoopAssumption, LoopInv, [Loop!Next]_(Loop!vars)
    PROVE  Conversation'
<1>1. CASE Loop!StreamDelta \/ Loop!StreamEnd \/ Loop!ModelFails
  <2>1. conv' = conv
    BY <1>1 DEF Loop!StreamDelta, Loop!StreamEnd, Loop!ModelFails
  <2>2. QED
    BY <1>1, <2>1, ConversationOfModel
<1>2. CASE Loop!ModelAnswers
  BY <1>2, ConversationOfModel, ConversationReminded
<1>3. CASE Loop!ModelCalls
  BY <1>3, ConversationCalled
<1>4. CASE Loop!Collect
  BY <1>4, ConversationCollected
<1>5. CASE \E c \in 1..Len(tools) : Loop!ToolStart(c) \/ Loop!ToolEnd(c) \/ Loop!ToolAtOnce(c) \/ Loop!ToolFails(c)
  BY <1>5, ConversationOfTool
<1>6. CASE Loop!OwnerStep \/ Loop!Cancel \/ Loop!FindCancelled \/ UNCHANGED Loop!vars
  BY <1>6, ConversationOfOwner
<1>7. CASE Loop!Resume
  BY <1>7, ConversationResumed
<1>8. QED
  BY <1>1, <1>2, <1>3, <1>4, <1>5, <1>6, <1>7 DEF Loop!Next, Loop!LoopStep

\* The invariant of the loop holds initially,
LEMMA LoopInitially == Loop!LoopAssumption /\ Loop!Init => LoopInv
<1> SUFFICES ASSUME Loop!LoopAssumption, Loop!Init PROVE LoopInv
  OBVIOUS
<1>1. Loop!TypeOK
  BY LoopTypesInitially
<1>2. /\ tools = <<>> /\ phase = <<>> /\ batch = <<>> /\ bus = <<>> /\ heard = <<>> /\ pc = "model"
      /\ owner = "drain" /\ outcome = "open" /\ bound = TRUE /\ kept = {} /\ written = {} /\ loose = {}
  BY DEF Loop!Init
<1>3. Len(tools) = 0 /\ 1..Len(tools) = {} /\ DOMAIN batch = {} /\ DOMAIN bus = {} /\ DOMAIN heard = {}
  BY <1>2
<1>4. Batches /\ InOrder /\ Stages
  BY <1>2, <1>3 DEF Batches, InOrder, Stages
<1>5. \A e : ~Uttered(e)
  BY <1>3 DEF Uttered, Loop!Heard
<1>6. Deltas /\ AskLast /\ Spoken /\ GroundedYet /\ PauseKept
  BY <1>2, <1>3, <1>5 DEF Deltas, AskLast, Loop!PauseIsLast, Spoken, GroundedYet, PauseKept
<1>7. Owners /\ Writes /\ Kept
  BY <1>2, <1>3 DEF Owners, Writes, Loop!Wrote, Kept
<1>8. DOMAIN conv = {1} /\ conv[1] = Loop!Said("user") /\ DOMAIN conv[1].calls = {} /\ conv[1].of = 0
  <2>1. conv = <<Loop!Said("user")>>
    BY DEF Loop!Init
  <2>2. Loop!Said("user").calls = <<>> /\ Loop!Said("user").of = 0
    BY DEF Loop!Said
  <2>3. QED
    BY <2>1, <2>2
<1>9. Made /\ AnswersPlaced /\ AllSettled
  BY <1>3, <1>8 DEF Made, AnswersPlaced, AllSettled, Settled
<1>10. QED
  BY <1>1, <1>4, <1>6, <1>7, <1>9 DEF LoopInv

\* and every step keeps it.
LEMMA LoopInvStep == Loop!LoopAssumption /\ LoopInv /\ [Loop!Next]_(Loop!vars) => LoopInv'
<1> SUFFICES ASSUME Loop!LoopAssumption, LoopInv, [Loop!Next]_(Loop!vars) PROVE LoopInv'
  OBVIOUS
<1>1. Loop!TypeOK' /\ Batches' /\ InOrder' /\ Stages' /\ Writes' /\ Conversation'
  BY LoopTypesStep, CallsStep, WritesStep, ConversationStep
<1>2. Deltas' /\ AskLast' /\ Spoken' /\ GroundedYet' /\ Owners'
  BY <1>1, EventsOfLoop, EventsOfOwner DEF Loop!Next
<1>3. QED
  BY <1>1, <1>2 DEF LoopInv, Conversation

\* What the invariant says about the conversation a model is sent.
LEMMA LoopInvAnswers == LoopInv => Loop!CallsAnswered /\ Loop!PauseIsLast
<1> SUFFICES ASSUME LoopInv PROVE Loop!CallsAnswered
  BY DEF LoopInv, AskLast
<1> SUFFICES ASSUME pc = "model", NEW c \in 1..Len(tools)
             PROVE  IF Loop!Dropped(c) THEN Loop!AnswersIn(c) = {}
                    ELSE LET cs == conv[Loop!CallMessage(c)].calls
                             at == CHOOSE j \in DOMAIN cs : cs[j] = c
                         IN  Loop!AnswersIn(c) = {Loop!CallMessage(c) + at}
  BY DEF Loop!CallsAnswered
<1>1. PICK k \in DOMAIN conv : \E j \in DOMAIN conv[k].calls : conv[k].calls[j] = c
  BY DEF LoopInv, Made
<1>2. PICK j \in DOMAIN conv[k].calls : conv[k].calls[j] = c
  BY <1>1
<1>3. Loop!CallMessage(c) = k
  BY <1>2, CallMessageIs DEF LoopInv
<1>4. \A l \in DOMAIN conv : \A i \in DOMAIN conv[l].calls : conv[l].calls[i] = c => l = k /\ i = j
  BY <1>2 DEF LoopInv, Made
<1>5. Loop!Dropped(c) <=> Behind(k, j)
  BY <1>2, <1>3, <1>4 DEF Loop!Dropped, Behind
<1>6. c # 0
  BY DEF LoopInv, Loop!TypeOK
<1>7. \A i \in Loop!AnswersIn(c) : i = k + j /\ ~Behind(k, j)
  BY <1>4, <1>6 DEF Loop!AnswersIn, LoopInv, AnswersPlaced
<1>8. Behind(k, j) \/ (k + j \in DOMAIN conv /\ conv[k + j].of = c)
  BY <1>2 DEF LoopInv, AllSettled, Settled
<1>9. CASE Loop!Dropped(c)
  BY <1>5, <1>7, <1>9
<1>10. CASE ~Loop!Dropped(c)
  <2>1. Loop!AnswersIn(c) = {k + j}
    BY <1>5, <1>7, <1>8, <1>10 DEF Loop!AnswersIn
  <2>2. (CHOOSE i \in DOMAIN conv[k].calls : conv[k].calls[i] = c) = j
    BY <1>2, <1>4
  <2>3. QED
    BY <1>3, <1>10, <2>1, <2>2
<1>11. QED
  BY <1>9, <1>10

\* What it says about the writes of the tools.
LEMMA LoopInvKeeps == LoopInv => Loop!AllOrNothing /\ Loop!OwnerDecides
<1> SUFFICES ASSUME LoopInv PROVE Loop!AllOrNothing /\ Loop!OwnerDecides
  OBVIOUS
<1>1. Loop!OwnerDecides
  BY DEF LoopInv, Writes, Loop!OwnerDecides
<1>2. ASSUME outcome = "saved" PROVE Loop!Wrote \subseteq kept
  <2>1. owner \in {"leave", "left", "gone"}
    BY <1>2 DEF LoopInv, Loop!TypeOK, Owners
  <2>2. QED
    BY <1>2, <2>1 DEF LoopInv, Writes
<1>3. QED
  BY <1>1, <1>2 DEF LoopInv, Kept, Loop!AllOrNothing

\* What it says about what the learner hears.
LEMMA LoopInvSpeaks == LoopInv => Loop!Grounded /\ Loop!NoSilentTurn
<1> SUFFICES ASSUME LoopInv PROVE Loop!Grounded /\ Loop!NoSilentTurn
  OBVIOUS
<1>1. Loop!Grounded
  BY DEF LoopInv, GroundedYet, Loop!Grounded, Uttered
<1>2. ASSUME outcome = "saved", ~memo.mute PROVE \E e \in Speaks : Loop!Heard(e)
  <2>1. pc = "closed" /\ (bus = <<>> \/ Loop!Heard("ask_user"))
    BY <1>2 DEF LoopInv, Owners
  <2>2. PICK e \in Speaks : Uttered(e)
    BY <1>2, <2>1 DEF LoopInv, Spoken
  <2>3. CASE bus = <<>>
    BY <2>2, <2>3 DEF Uttered
  <2>4. CASE Loop!Heard("ask_user")
    BY <2>4 DEF Speaks
  <2>5. QED
    BY <2>1, <2>3, <2>4
<1>3. QED
  BY <1>1, <1>2 DEF Loop!NoSilentTurn, Speaks

\* The composition starts where the loop starts,
LEMMA LoopStarts == BothInit => Loop!Init
BY DEF BothInit

\* a step of it is one of the loop or none,
LEMMA LoopOrStutter == [BothNext]_vars => [Loop!Next]_(Loop!vars)
BY DEF BothNext, vars, LoopStep, OwnerStep, LoopOther, ChatStep, TabStep, OnlyLoop, OnlyChat, OnlySession,
   loopVars, Loop!Next, Loop!vars, Loop!loopVars, Loop!ownerVars, Loop!dbVars

\* and the loop's invariant holds in it.
LEMMA LoopInvAlways == BothSpec => []LoopInv
<1>1. BothInit => LoopInv
  BY ChatAndLoopAssumption, LoopStarts, LoopInitially
<1>2. LoopInv /\ [BothNext]_vars => LoopInv'
  BY ChatAndLoopAssumption, LoopOrStutter, LoopInvStep
<1>3. QED
  BY <1>1, <1>2, PTL DEF BothSpec

\* The model is never sent a conversation with a call that has no answer, or
\* with an answer out of place, and a question ends the execution: for every
\* number of calls, iterations, rounds and faults
\* (AgentLoopRunner._execute_tool_calls, submit_user_reply).
THEOREM ConversationIsWholeHolds == BothSpec => []ConversationIsWhole
<1>1. LoopInv => ConversationIsWhole
  BY LoopInvAnswers DEF ConversationIsWhole
<1>2. QED
  BY <1>1, LoopInvAlways, PTL

\* What the tools of a saved execution wrote is kept, a failed one keeps
\* nothing, and only in a cancelled turn does a tool commit by itself
\* (_execute_turn, resolve_agent_db).
THEOREM AllOrNothingHolds == BothSpec => []AllOrNothing
<1>1. LoopInv => AllOrNothing
  BY LoopInvKeeps DEF AllOrNothing
<1>2. QED
  BY <1>1, LoopInvAlways, PTL

\* The learner hears something from every execution that is saved, and an
\* answer about the language that was neither looked up nor sent back only at
\* the limit of iterations (AgentLoopRunner.run).
THEOREM AnswersLearnerHolds == BothSpec => []AnswersLearner
<1>1. LoopInv => AnswersLearner
  BY LoopInvSpeaks DEF AnswersLearner
<1>2. QED
  BY <1>1, LoopInvAlways, PTL

\* Values stay of the right kind in all three, for every bound (AgentLoop,
\* TutorChat, SignIn).
THEOREM BothTypes == BothSpec => []BothTypeOK
<1>1. ChatInv /\ LoopInv /\ TabInv => BothTypeOK
  BY DEF ChatInv, LoopInv, TabInv, BothTypeOK
<1>2. QED
  BY <1>1, ChatInvAlways, LoopInvAlways, TabInvAlways, PTL
=============================================================================
