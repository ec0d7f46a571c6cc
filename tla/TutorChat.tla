------------------------------ MODULE TutorChat -----------------------------
(***************************************************************************)
(* The tutor chat in the browser (useTutorChat, TutorWsClient and the      *)
(* panel): what it locks, shows and sends, against a server reduced to the *)
(* frames it answers with (TutorTurns has its inside). A socket may drop   *)
(* with whatever is in flight, the page may be reloaded.                   *)
(***************************************************************************)
EXTENDS Naturals, Sequences, FiniteSets

CONSTANTS
    MaxTurns,     \* turns the learner starts
    MaxDrops,     \* sockets that drop, attempts to reconnect that fail, and reloads
    MaxAttempts,  \* WS_RECONNECT_MAX_ATTEMPTS (10 in the code)
    MaxQueue,     \* frames on their way in one direction
    MaxPauses     \* questions of one turn

ASSUME ChatAssumption ==
    /\ {MaxTurns, MaxQueue, MaxAttempts} \subseteq Nat \ {0} /\ {MaxDrops, MaxPauses} \subseteq Nat

VARIABLES
    conn,     \* state of the socket, as the panel shows it
    tries,    \* reconnectAttempts
    hook,     \* session, active turn, question, card, busy flag
    cache,    \* the session kept in sessionStorage
    outbox,   \* messages on their way to the server
    inbox,    \* frames on their way to the page
    served,   \* what the server knows of each turn
    drops     \* sockets lost so far

chatVars == <<conn, tries, hook, cache, outbox, inbox, served, drops>>

----------------------------------------------------------------------------
Turn    == 1..MaxTurns
Session == 0..MaxTurns          \* 0: none yet; a session is named by its first turn
Hook    == [session : Session, active : Turn \cup {0}, question : BOOLEAN, card : BOOLEAN, busy : BOOLEAN]
Frame   == [type : {"turn_started", "ask_user", "turn_paused", "turn_done", "turn_cancelled", "error"},
            turn : Turn \cup {0}]
Wire    == [type : {"message", "submit_user_reply", "cancel_turn"}, about : Turn \cup {0}]
\* heard: is the socket of the turn still there?
Served  == [status : {"none", "running", "asking", "paused", "over"}, session : Session,
            heard : BOOLEAN, pauses : 0..MaxPauses]

TypeOK ==
    /\ conn \in {"connecting", "open", "closed", "error"}
    /\ tries \in 0..MaxAttempts /\ hook \in Hook /\ cache \in Session
    /\ outbox \in Seq(Wire) /\ inbox \in Seq(Frame)
    /\ served \in [Turn -> Served] /\ drops \in 0..MaxDrops

FreshHook(session) ==
    [session |-> session, active |-> 0, question |-> FALSE, card |-> FALSE, busy |-> FALSE]
Init ==
    /\ conn = "connecting" /\ tries = 0
    /\ hook = FreshHook(0) /\ cache = 0
    /\ outbox = <<>> /\ inbox = <<>>
    /\ served = [t \in Turn |-> [status |-> "none", session |-> 0, heard |-> FALSE, pauses |-> 0]]
    /\ drops = 0

----------------------------------------------------------------------------
\* The socket

Opened ==
    /\ conn = "connecting"
    /\ conn' = "open" /\ tries' = 0
    /\ UNCHANGED <<hook, cache, outbox, inbox, served, drops>>

\* onclose of an open or an opening socket: what is in flight is lost, and
\* after the last attempt an error reaches the hook's listener.
Lost ==
    /\ conn \in {"open", "connecting"} /\ drops < MaxDrops
    /\ drops' = drops + 1
    /\ tries' = tries + 1
    /\ outbox' = <<>> /\ inbox' = <<>>
    /\ served' = [t \in Turn |-> [served[t] EXCEPT !.heard = FALSE]]
    /\ IF tries' < MaxAttempts
       THEN conn' = "closed" /\ UNCHANGED hook
       ELSE conn' = "error" /\ hook' = [hook EXCEPT !.busy = FALSE]
    /\ UNCHANGED cache

Retry ==
    /\ conn = "closed"
    /\ conn' = "connecting"
    /\ UNCHANGED <<tries, hook, cache, outbox, inbox, served, drops>>

\* The session is saved some time after the turn; a reload starts from it.
SaveSession ==
    /\ ~hook.busy /\ cache # hook.session
    /\ cache' = hook.session
    /\ UNCHANGED <<conn, tries, hook, outbox, inbox, served, drops>>

Reload ==
    /\ drops < MaxDrops
    /\ drops' = drops + 1
    /\ conn' = "connecting" /\ tries' = 0
    /\ hook' = FreshHook(cache)
    /\ outbox' = <<>> /\ inbox' = <<>>
    /\ served' = [t \in Turn |-> [served[t] EXCEPT !.heard = FALSE]]
    /\ UNCHANGED cache

----------------------------------------------------------------------------
\* The learner

NewTurns == {t \in Turn : served[t].status = "none"}
AwaitingReply == hook.question \/ hook.card
Post(message) == outbox' = Append(outbox, message)

\* Typed, or the ?prompt= of the page. sendMessage does not lock the input:
\* turn_started will.
SendMessage ==
    /\ conn = "open" /\ ~AwaitingReply /\ ~hook.busy /\ Len(outbox) < MaxQueue
    /\ Cardinality(NewTurns) > Len(SelectSeq(outbox, LAMBDA m : m.type = "message"))
    /\ Post([type |-> "message", about |-> hook.session])
    /\ UNCHANGED <<conn, tries, hook, cache, inbox, served, drops>>

\* The card is disabled while the hook is busy; nothing is sent without a turn.
SendReply ==
    /\ conn = "open" /\ AwaitingReply /\ (hook.card => ~hook.busy) /\ Len(outbox) < MaxQueue
    /\ hook.active # 0
    /\ hook' = [hook EXCEPT !.question = FALSE, !.card = FALSE, !.busy = TRUE]
    /\ Post([type |-> "submit_user_reply", about |-> hook.active])
    /\ UNCHANGED <<conn, tries, cache, inbox, served, drops>>

\* The Stop button is there while the hook is busy; the question stays.
Stop ==
    /\ conn = "open" /\ hook.busy /\ hook.active # 0 /\ Len(outbox) < MaxQueue
    /\ Post([type |-> "cancel_turn", about |-> hook.active])
    /\ hook' = [hook EXCEPT !.busy = FALSE, !.active = 0, !.card = FALSE]
    /\ UNCHANGED <<conn, tries, cache, inbox, served, drops>>

----------------------------------------------------------------------------
\* The server

Tell(frames) == inbox' = inbox \o frames
About(type, t) == [type |-> type, turn |-> t]
Busy(s) == \E t \in Turn : served[t].session = s /\ served[t].status \in {"running", "asking"}

ServeMessage(m) ==
    /\ m.type = "message"
    /\ IF m.about # 0 /\ Busy(m.about)
       THEN Tell(<<About("error", 0)>>) /\ UNCHANGED served
       ELSE \E t \in NewTurns :
              /\ \A u \in NewTurns : t <= u
              /\ served' = [served EXCEPT ![t].status = "running", ![t].heard = TRUE,
                                          ![t].session = IF m.about = 0 THEN t ELSE m.about]
              /\ Tell(<<About("turn_started", t)>>)

ServeReply(m) ==
    /\ m.type = "submit_user_reply"
    /\ IF served[m.about].status = "paused"
       THEN /\ served' = [served EXCEPT ![m.about].status = "running", ![m.about].heard = TRUE]
            /\ UNCHANGED inbox
       ELSE Tell(<<About("error", 0)>>) /\ UNCHANGED served

\* The task tells of its end first if it is still running and the socket that
\* started it is this one, then the handler does.
ServeCancel(m) ==
    /\ m.type = "cancel_turn"
    /\ served' = [served EXCEPT ![m.about].status = "over"]
    /\ Tell((IF served[m.about].status \in {"running", "asking"} /\ served[m.about].heard
             THEN <<About("turn_cancelled", m.about)>> ELSE <<>>)
            \o <<About("turn_cancelled", m.about)>>)

Serve ==
    /\ outbox # <<>> /\ Len(inbox) < MaxQueue
    /\ outbox' = Tail(outbox)
    /\ ServeMessage(Head(outbox)) \/ ServeReply(Head(outbox)) \/ ServeCancel(Head(outbox))
    /\ UNCHANGED <<conn, tries, hook, cache, drops>>

\* The task of a turn: it asks and pauses, ends, or fails. Its frames are lost
\* when its socket is.
Works(t, from, to, type) ==
    /\ served[t].status = from
    /\ Len(inbox) < MaxQueue
    /\ served' = [served EXCEPT ![t].status = to, ![t].pauses = IF to = "asking" THEN @ + 1 ELSE @]
    /\ IF served[t].heard THEN Tell(<<About(type, t)>>) ELSE UNCHANGED inbox
    /\ UNCHANGED <<conn, tries, hook, cache, outbox, drops>>
Work(t) ==
    \/ served[t].pauses < MaxPauses /\ Works(t, "running", "asking", "ask_user")
    \/ Works(t, "asking", "paused", "turn_paused")
    \/ Works(t, "running", "over", "turn_done")
    \/ Works(t, "running", "over", "error") \/ Works(t, "asking", "over", "error")

----------------------------------------------------------------------------
\* The hook's handleInbound

\* Mutant: an end of a turn does not unlock the input if it was not the last
\* one the hook heard of.
HookAfterOwn(f) ==
    CASE f.type = "turn_started" ->
            [hook EXCEPT !.session = served[f.turn].session, !.active = f.turn,
                         !.question = FALSE, !.card = FALSE, !.busy = TRUE]
      [] f.type = "ask_user"    -> [hook EXCEPT !.question = TRUE, !.card = TRUE]
      [] f.type = "turn_paused" -> [hook EXCEPT !.question = TRUE, !.card = TRUE, !.busy = FALSE]
      [] f.type \in {"turn_done", "turn_cancelled"} ->
            [hook EXCEPT !.active = 0, !.card = FALSE, !.busy = @ /\ f.turn # hook.active]
      [] f.type = "error"       -> [hook EXCEPT !.busy = FALSE]
HookAfter(f) ==
    CASE f.type = "turn_started" ->
            [hook EXCEPT !.session = served[f.turn].session, !.active = f.turn,
                         !.question = FALSE, !.card = FALSE, !.busy = TRUE]
      [] f.type = "ask_user"    -> [hook EXCEPT !.question = TRUE, !.card = TRUE]
      [] f.type = "turn_paused" -> [hook EXCEPT !.question = TRUE, !.card = TRUE, !.busy = FALSE]
      [] f.type \in {"turn_done", "turn_cancelled"} ->
            [hook EXCEPT !.active = 0, !.card = FALSE, !.busy = FALSE]
      [] f.type = "error"       -> [hook EXCEPT !.busy = FALSE]

HandleInbound ==
    /\ conn = "open" /\ inbox # <<>>
    /\ hook' = HookAfter(Head(inbox))
    /\ inbox' = Tail(inbox)
    /\ UNCHANGED <<conn, tries, cache, outbox, served, drops>>

----------------------------------------------------------------------------
Next ==
    \/ Opened \/ Lost \/ Retry \/ SaveSession \/ Reload
    \/ SendMessage \/ SendReply \/ Stop
    \/ Serve \/ (\E t \in Turn : Work(t)) \/ HandleInbound

\* Sockets open or fail, the server works, frames are handled; a learner who
\* keeps seeing a locked input presses Stop in the end.
Fairness ==
    /\ WF_chatVars(Opened) /\ WF_chatVars(Retry) /\ WF_chatVars(Serve) /\ WF_chatVars(HandleInbound)
    /\ \A t \in Turn : WF_chatVars(Work(t))
    /\ SF_chatVars(Stop)
Spec == Init /\ [][Next]_chatVars /\ Fairness

----------------------------------------------------------------------------
(* Properties.                                                             *)

\* While the input is locked the Stop button works: the hook knows the turn
\* it waits for, whatever frames came in whatever order (handleInbound,
\* sendPausedReply, cancelTurn).
StopWorks == hook.busy => hook.active # 0

\* On a socket that did not drop, an input that is locked when nothing is on
\* its way waits for a turn that is running and will tell (useTutorChat's
\* isBusy against the runtime's turns).
AtRest == conn = "open" /\ inbox = <<>> /\ outbox = <<>>
LockedMeansRunning ==
    AtRest /\ drops = 0 /\ hook.busy =>
        served[hook.active].status \in {"running", "asking"} /\ served[hook.active].heard

\* The input is unlocked in the end, though the socket may drop while a turn
\* runs and the frame that would unlock it is lost with it.
InputUnlocks == hook.busy ~> ~hook.busy
=============================================================================
