------------------------------- MODULE SignIn ------------------------------
(***************************************************************************)
(* The session of a browser tab: the token and where it is stored, the     *)
(* query that asks the server whose token it is (AuthContext), the forms   *)
(* and the Google return that bring a token (AuthSection), and the tutor   *)
(* chat kept in the tab. The n-th token signs the n-th user in: that two   *)
(* are of one user is the easier case.                                     *)
(***************************************************************************)
EXTENDS Naturals

CONSTANTS
    MaxTokens,   \* sign-ins, in this tab or another one
    MaxFailures, \* requests that time out or that the server does not answer
    MaxLoads     \* reloads, Google returns and what other tabs do

SignInAssumption == MaxTokens \in Nat \ {0} /\ MaxFailures \in Nat /\ MaxLoads \in Nat

VARIABLES
    store,     \* the token in localStorage and the one in sessionStorage
    token,     \* AuthProvider's state
    query,     \* the query of /auth/me: its status and the user it found
    fetch,     \* its request: state, whose token it carries, failed attempts
    degraded,  \* sessionDegraded
    retrying,  \* a retrySession waits for the query
    forms,     \* sign-ins that wait for the server, with "remember me"
    hash,      \* the token Google's return left in the address
    chat,      \* whose tutor chat sessionStorage keeps
    issued, expired,
    failures, loads,
    mixed      \* another tab changed the storage, or a sign-in was answered over another one

sessionVars == <<store, token, query, fetch, degraded, retrying, forms, hash, chat,
                 issued, expired, failures, loads, mixed>>

Token == 1..MaxTokens
Maybe == 0..MaxTokens   \* 0: none

TypeOK ==
    /\ store \in [local : Maybe, tab : Maybe] /\ token \in Maybe
    /\ query \in [status : {"pending", "success", "error"}, user : Maybe]
    /\ fetch \in [state : {"idle", "sent", "waiting"}, header : Maybe, tries : 0..1]
    /\ degraded \in BOOLEAN /\ retrying \in BOOLEAN /\ mixed \in BOOLEAN
    /\ forms \subseteq [token : Token, remember : BOOLEAN]
    /\ hash \in Maybe /\ chat \in Maybe /\ issued \in Maybe /\ expired \subseteq Token
    /\ failures \in 0..MaxFailures /\ loads \in 0..MaxLoads

----------------------------------------------------------------------------
GetToken(s) == IF s.local # 0 THEN s.local ELSE s.tab
Stored(t, remember) ==
    IF remember THEN [local |-> t, tab |-> 0] ELSE [local |-> 0, tab |-> t]

NoQuery   == [status |-> "pending", user |-> 0]
NoFetch   == [state |-> "idle", header |-> 0, tries |-> 0]
Asking(s) == [state |-> "sent", header |-> GetToken(s), tries |-> 0]

\* What the pages go by: a query that failed leaves the learner inside.
Status ==
    IF token = 0 THEN "unauthenticated"
    ELSE CASE query.status = "pending" -> "loading"
           [] query.status = "error"   -> IF degraded THEN "authenticated" ELSE "loading"
           [] query.status = "success" -> "authenticated"

\* The pages behind the sign-in are shown.
Inside == Status = "authenticated"

Init ==
    /\ store = [local |-> 0, tab |-> 0] /\ token = 0
    /\ query = NoQuery /\ fetch = NoFetch
    /\ degraded = FALSE /\ retrying = FALSE /\ mixed = FALSE
    /\ forms = {} /\ hash = 0 /\ chat = 0
    /\ issued = 0 /\ expired = {} /\ failures = 0 /\ loads = 0

----------------------------------------------------------------------------
\* Coming in

\* A first token enables the query; over another one the query stays, with
\* the user it has, and its error degrades the session once more.
LoginWithToken(t, remember) ==
    /\ store' = Stored(t, remember) /\ token' = t
    /\ fetch' = IF token = 0 THEN Asking(store') ELSE fetch
    /\ degraded' = (token # 0 /\ query.status = "error")
    /\ mixed' = (mixed \/ token # 0)
    /\ UNCHANGED <<query, retrying, chat, expired, failures, loads>>

\* The forms are shown to who is not signed in. The one in the way of another
\* is gone from the page, but goes on.
StartSignIn(remember) ==
    /\ Status = "unauthenticated" /\ hash = 0 /\ issued < MaxTokens
    /\ issued' = issued + 1
    /\ forms' = forms \cup {[token |-> issued', remember |-> remember]}
    /\ UNCHANGED <<store, token, query, fetch, degraded, retrying, hash, chat, expired, failures, loads, mixed>>

SignedIn(form) ==
    /\ form \in forms
    /\ LoginWithToken(form.token, form.remember)
    /\ forms' = forms \ {form}
    /\ UNCHANGED <<hash, issued>>

SignInFailed(form) ==
    /\ form \in forms
    /\ forms' = forms \ {form}
    /\ UNCHANGED <<store, token, query, fetch, degraded, retrying, hash, chat, issued, expired, failures, loads, mixed>>

\* The effect of the sign-in section; the section is there when nobody is
\* signed in, and whoever is goes to the dashboard without it.
TakeHash(remember) ==
    /\ hash # 0 /\ Status = "unauthenticated"
    /\ LoginWithToken(hash, remember)
    /\ hash' = 0
    /\ UNCHANGED <<forms, issued>>

DropHash ==
    /\ hash # 0 /\ Inside
    /\ hash' = 0
    /\ UNCHANGED <<store, token, query, fetch, degraded, retrying, forms, chat, issued, expired, failures, loads, mixed>>

\* The page is loaded: again, or back from Google with a token.
Load(new) ==
    /\ loads < MaxLoads /\ loads' = loads + 1
    /\ token' = GetToken(store)
    /\ query' = NoQuery
    /\ fetch' = IF token' = 0 THEN NoFetch ELSE Asking(store)
    /\ degraded' = FALSE /\ retrying' = FALSE
    /\ forms' = {}
    /\ IF new THEN issued < MaxTokens /\ issued' = issued + 1 /\ hash' = issued'
              ELSE UNCHANGED <<issued, hash>>
    /\ UNCHANGED <<store, chat, expired, failures, mixed>>

\* Another tab signs out, or in and to be remembered.
OtherTab(in) ==
    /\ loads < MaxLoads /\ loads' = loads + 1
    /\ IF in THEN issued < MaxTokens /\ issued' = issued + 1 ELSE UNCHANGED issued
    /\ store' = [store EXCEPT !.local = IF in THEN issued' ELSE 0]
    /\ mixed' = TRUE
    /\ UNCHANGED <<token, query, fetch, degraded, retrying, forms, hash, chat, expired, failures>>

----------------------------------------------------------------------------
\* Whose token is it?

LeaveUnforgotten ==
    /\ store' = [local |-> 0, tab |-> 0] /\ token' = 0 /\ chat' = 0 /\ retrying' = FALSE
    /\ UNCHANGED <<query, fetch>>
\* Everything of the session is dropped, and a request in flight with it: a
\* retrySession that waits for it then calls the session degraded.
Leave ==
    /\ store' = [local |-> 0, tab |-> 0] /\ token' = 0
    /\ query' = NoQuery /\ fetch' = NoFetch
    /\ chat' = 0 /\ retrying' = FALSE

Logout ==
    /\ Inside
    /\ Leave /\ degraded' = retrying
    /\ UNCHANGED <<forms, hash, issued, expired, failures, loads, mixed>>

Found ==
    /\ fetch.state = "sent" /\ fetch.header \notin expired \cup {0}
    /\ query' = [status |-> "success", user |-> fetch.header]
    /\ fetch' = NoFetch
    /\ degraded' = (degraded /\ ~retrying) /\ retrying' = FALSE
    /\ UNCHANGED <<store, token, chat, failures>>

\* Status 401: the effect of the provider signs out.
Unknown ==
    /\ fetch.state = "sent" /\ fetch.header \in expired \cup {0}
    /\ Leave /\ degraded' = FALSE
    /\ UNCHANGED failures

\* A request is tried twice; then the effect degrades the session.
Failed ==
    /\ fetch.state = "sent" /\ failures < MaxFailures
    /\ failures' = failures + 1
    /\ IF fetch.tries = 0
       THEN /\ fetch' = [fetch EXCEPT !.state = "waiting", !.tries = 1]
            /\ UNCHANGED <<query, degraded, retrying>>
       ELSE /\ fetch' = NoFetch
            /\ query' = [query EXCEPT !.status = "error"]
            /\ degraded' = TRUE /\ retrying' = FALSE
    /\ UNCHANGED <<store, token, chat>>

Answer == (Found \/ Unknown \/ Failed) /\ UNCHANGED <<forms, hash, issued, expired, loads, mixed>>

\* Each attempt reads the token from the storage.
Resend ==
    /\ fetch.state = "waiting"
    /\ fetch' = [fetch EXCEPT !.state = "sent", !.header = GetToken(store)]
    /\ UNCHANGED <<store, token, query, degraded, retrying, forms, hash, chat, issued, expired, failures, loads, mixed>>

\* A query that never found a user is pending again while it asks.
AskAgain ==
    /\ fetch' = IF fetch.state = "idle" THEN Asking(store) ELSE fetch
    /\ query' = IF query.user = 0 THEN NoQuery ELSE query

\* The network is back.
Refetch ==
    /\ token # 0 /\ fetch.state = "idle"
    /\ AskAgain
    /\ UNCHANGED <<store, token, degraded, retrying, forms, hash, chat, issued, expired, failures, loads, mixed>>

\* The button of the banner; what was found a moment ago is good enough.
RetrySession ==
    /\ degraded /\ Inside
    /\ degraded' = FALSE
    /\ \/ AskAgain /\ retrying' = TRUE
       \/ query.status = "success" /\ UNCHANGED <<query, fetch, retrying>>
    /\ UNCHANGED <<store, token, forms, hash, chat, issued, expired, failures, loads, mixed>>

StartChat ==
    /\ Inside /\ chat = 0 /\ GetToken(store) # 0
    /\ chat' = GetToken(store)
    /\ UNCHANGED <<store, token, query, fetch, degraded, retrying, forms, hash, issued, expired, failures, loads, mixed>>

Expire(t) ==
    /\ t \in 1..issued /\ t \notin expired
    /\ expired' = expired \cup {t}
    /\ UNCHANGED <<store, token, query, fetch, degraded, retrying, forms, hash, chat, issued, failures, loads, mixed>>

Next ==
    \/ \E yes \in BOOLEAN : StartSignIn(yes) \/ TakeHash(yes) \/ Load(yes) \/ OtherTab(yes)
    \/ \E form \in forms : SignedIn(form) \/ SignInFailed(form)
    \/ DropHash \/ Logout \/ Answer \/ Resend \/ Refetch \/ RetrySession \/ StartChat
    \/ \E t \in Token : Expire(t)

\* A request is answered or aborted after thirty seconds, and retried a
\* second later.
Spec == Init /\ [][Next]_sessionVars /\ WF_sessionVars(Answer) /\ WF_sessionVars(Resend)

----------------------------------------------------------------------------
\* The user shown, the token sent and the chat in the tab are those of one
\* sign-in, whatever was signed in before and whatever is still on its way
\* (logout, useCurrentUserQuery).
OneIdentity ==
    ~mixed =>
      /\ GetToken(store) = token
      /\ query.user \in {0, token}
      /\ chat \in {0, token}

\* The page does not check the session for ever (AuthContext.status).
SessionSettles == (Status = "loading") ~> (Status # "loading")
=============================================================================
