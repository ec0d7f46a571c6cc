----------------------------- MODULE TutorTurns -----------------------------
(***************************************************************************)
(* The websocket tutor turn: TutorTurnRuntime (one per worker process),    *)
(* the Redis turn store all workers share, the websocket handlers that     *)
(* start, resume and cancel turns, the asyncio tasks that execute them and *)
(* the database row each turn leaves behind.                               *)
(*                                                                         *)
(* An action is one awaited command (a Redis command, a database           *)
(* transaction, the next orchestrator event) with the code that runs up to *)
(* the next await: exactly what other coroutines and workers cannot        *)
(* interleave with.                                                        *)
(***************************************************************************)
EXTENDS Naturals, Sequences, FiniteSets

CONSTANTS
    Turn,           \* turn ids (uuid4, never reused)
    Session,        \* chat sessions
    Conn,           \* websocket connections; each handles one message at a time
    Worker,         \* backend worker processes
    Reach,          \* [Conn -> SUBSET Session]: sessions of the connection's user
    MaxFragments,   \* bound: executions of one turn (first run and resumptions)
    MaxEvents,      \* bound: stream events of one turn
    MaxCrashes,     \* bound: worker crashes
    Roaming,        \* may a reconnecting client land on another worker?
    SlowTurns,      \* may a turn outlive TUTOR_TURN_RUNNING_TTL_SECONDS?
    NoTurn, NoSession

Fragment == 1..MaxFragments
Task     == Turn \X Fragment      \* <<t, n>>: the n-th execution of turn t

ASSUME BoundsAssumption ==
    /\ MaxFragments \in Nat /\ MaxEvents \in Nat /\ MaxCrashes \in Nat
    /\ Roaming \in BOOLEAN /\ SlowTurns \in BOOLEAN
ASSUME NamesAssumption ==
    /\ NoTurn \notin Turn /\ NoSession \notin Session
    /\ Reach \in [Conn -> SUBSET Session]

VARIABLES
    rec,      \* Redis tutor:turn:<id>; status "none" is a missing key
    key,      \* Redis tutor:session:<id>
    home,     \* the session a turn was started in
    conn,     \* each websocket handler: where it is, what it has read
    task,     \* each _execute_turn coroutine and its local TurnRecord
    local,    \* _local_tasks of each worker: fragment number, 0 = no entry
    row,      \* the tutor_chat_turns row
    started,  \* turns whose turn_started frame gave the client their id
    dead,     \* turns with a tutor_turn_persistence dead letter
    orphan,   \* turns whose task or handler died with its worker
    crashes

vars == <<rec, key, home, conn, task, local, row, started, dead, orphan, crashes>>
store == <<rec, key>>

----------------------------------------------------------------------------
Status  == {"running", "paused", "completed", "cancelled", "error"}
ConnPC  == {"idle", "lookKey", "lookRec", "acquire", "getExisting",
            "getExistingRec", "overwrite", "startSaveTurn", "startSaveSession",
            "startSend", "replySaveTurn", "replySaveSession", "cancelSaveTurn",
            "cancelSaveSession", "cancelTask", "cancelWait", "releaseGet",
            "releaseDel"}
TaskPC  == {"unborn", "new", "stream", "saveTurn", "saveSession", "persist",
            "commit", "releaseGet", "releaseDel", "done", "lost"}

Record    == [status : Status \cup {"none"}, seq : 0..MaxEvents]
Row       == [status : Status \cup {"none"}, events : Seq(Nat)]
ConnState == [pc : ConnPC, at : Worker, turn : Turn \cup {NoTurn},
              session : Session \cup {NoSession}, seq : 0..MaxEvents,
              frag : 0..MaxFragments]
TaskState == [pc : TaskPC, at : Worker, status : Status, seq : 0..MaxEvents,
              from : 0..MaxEvents, asked : BOOLEAN, handler : BOOLEAN]

NoRec   == [status |-> "none", seq |-> 0]
IdleAt(w) == [pc |-> "idle", at |-> w, turn |-> NoTurn, session |-> NoSession,
              seq |-> 0, frag |-> 0]
Unborn(w) == [pc |-> "unborn", at |-> w, status |-> "running", seq |-> 0,
              from |-> 0, asked |-> FALSE, handler |-> FALSE]

TypeOK ==
    /\ rec \in [Turn -> Record]
    /\ key \in [Session -> Turn \cup {NoTurn}]
    /\ home \in [Turn -> Session \cup {NoSession}]
    /\ conn \in [Conn -> ConnState]
    /\ task \in [Task -> TaskState]
    /\ local \in [Worker -> [Turn -> 0..MaxFragments]]
    /\ row \in [Turn -> Row]
    /\ started \subseteq Turn
    /\ dead \subseteq Turn
    /\ orphan \subseteq Turn
    /\ crashes \in 0..MaxCrashes

Init ==
    /\ rec  = [t \in Turn |-> NoRec]
    /\ key  = [s \in Session |-> NoTurn]
    /\ home = [t \in Turn |-> NoSession]
    /\ conn \in [Conn -> {IdleAt(w) : w \in Worker}]
    /\ \E w \in Worker : task = [k \in Task |-> Unborn(w)]
    /\ local = [w \in Worker |-> [t \in Turn |-> 0]]
    /\ row  = [t \in Turn |-> [status |-> "none", events |-> <<>>]]
    /\ started = {} /\ dead = {} /\ orphan = {} /\ crashes = 0

----------------------------------------------------------------------------
\* Where tasks and handlers stand.

Live(k)   == task[k].pc \notin {"unborn", "done", "lost"}
\* The task still runs the agent, or is about to publish its pause.
Active(k) == \/ task[k].pc \in {"new", "stream"}
             \/ task[k].pc = "saveTurn" /\ task[k].status = "paused"
LiveTurn(t) == \E n \in Fragment : Live(<<t, n>>)
\* A handler works on the turn; one that only looks at the turn a session
\* key names does not.
WorkPC == {"startSaveTurn", "startSaveSession", "startSend", "replySaveTurn",
           "replySaveSession", "cancelSaveTurn", "cancelSaveSession", "cancelTask",
           "cancelWait", "releaseGet", "releaseDel"}
Handling(c, t) == conn[c].turn = t /\ conn[c].pc \in WorkPC
AtRest(t) == ~LiveTurn(t) /\ \A c \in Conn : ~Handling(c, t)

Goto(c, pc) == conn' = [conn EXCEPT ![c].pc = pc]
ConnIdle(c) == conn' = [conn EXCEPT ![c] = IdleAt(conn[c].at)]

\* save_turn is two commands: SET tutor:turn, then SET tutor:session.
SaveTurnKey(t, status, seq) == rec' = [rec EXCEPT ![t] = [status |-> status, seq |-> seq]]
\* Mutant: key and value of the SET swapped.
SaveSessionKeySwapped(t) == key' = [key EXCEPT ![home[t]] = home[t]]
SaveSessionKey(t) == key' = [key EXCEPT ![home[t]] = t]

\* asyncio.create_task(_execute_turn) and its entry in _local_tasks.
\* Mutant: the task is not entered into _local_tasks.
CreateTaskUnregistered(c, t, seq) ==
    \E n \in Fragment :
        /\ task[<<t, n>>].pc = "unborn"
        /\ \A m \in 1..(n - 1) : task[<<t, m>>].pc # "unborn"
        /\ task' = [task EXCEPT ![<<t, n>>] =
                      [Unborn(conn[c].at) EXCEPT !.pc = "new", !.seq = seq,
                                                 !.from = seq]]
        /\ UNCHANGED local
CreateTask(c, t, seq) ==
    \E n \in Fragment :
        /\ task[<<t, n>>].pc = "unborn"
        /\ \A m \in 1..(n - 1) : task[<<t, m>>].pc # "unborn"
        /\ task' = [task EXCEPT ![<<t, n>>] =
                      [Unborn(conn[c].at) EXCEPT !.pc = "new", !.seq = seq,
                                                 !.from = seq]]
        /\ local' = [local EXCEPT ![conn[c].at][t] = n]

----------------------------------------------------------------------------
\* start_turn

StartPC == {"lookKey", "lookRec", "acquire", "getExisting", "getExistingRec", "overwrite"}
Starting == {c \in Conn : conn[c].pc \in StartPC}
TurnsLeft == Cardinality({t \in Turn : home[t] = NoSession}) > Cardinality(Starting)

ReceiveMessage(c) ==
    /\ conn[c].pc = "idle"
    /\ TurnsLeft
    /\ \E s \in Reach[c] :
         conn' = [conn EXCEPT ![c].pc = "lookKey", ![c].session = s]
    /\ UNCHANGED <<store, home, task, local, row, started, dead, orphan, crashes>>

LookUpSession(c) ==
    /\ conn[c].pc = "lookKey"
    /\ LET t == key[conn[c].session] IN
         conn' = IF t = NoTurn
                 THEN [conn EXCEPT ![c].pc = "acquire"]
                 ELSE [conn EXCEPT ![c].pc = "lookRec", ![c].turn = t]
    /\ UNCHANGED <<store, home, task, local, row, started, dead, orphan, crashes>>

\* turn_busy, or go on to acquire_session.
LookUpActive(c) ==
    /\ conn[c].pc = "lookRec"
    /\ IF rec[conn[c].turn].status = "running"
       THEN ConnIdle(c)
       ELSE conn' = [conn EXCEPT ![c].pc = "acquire", ![c].turn = NoTurn]
    /\ UNCHANGED <<store, home, task, local, row, started, dead, orphan, crashes>>

\* The session key now names the new turn; its record does not exist yet.
Take(c, t) ==
    /\ home[t] = NoSession
    /\ home' = [home EXCEPT ![t] = conn[c].session]
    /\ key' = [key EXCEPT ![conn[c].session] = t]
    /\ conn' = [conn EXCEPT ![c].pc = "startSaveTurn", ![c].turn = t]

\* SET NX EX.
Acquire(c) ==
    /\ conn[c].pc = "acquire"
    /\ \/ /\ key[conn[c].session] = NoTurn
          /\ \E t \in Turn : Take(c, t)
       \/ /\ key[conn[c].session] # NoTurn
          /\ Goto(c, "getExisting")
          /\ UNCHANGED <<key, home>>
    /\ UNCHANGED <<rec, task, local, row, started, dead, orphan, crashes>>

GetExisting(c) ==
    /\ conn[c].pc = "getExisting"
    /\ LET t == key[conn[c].session] IN
         conn' = IF t = NoTurn
                 THEN [conn EXCEPT ![c].pc = "acquire"]
                 ELSE [conn EXCEPT ![c].pc = "getExistingRec", ![c].turn = t]
    /\ UNCHANGED <<store, home, task, local, row, started, dead, orphan, crashes>>

GetExistingRecord(c) ==
    /\ conn[c].pc = "getExistingRec"
    /\ IF rec[conn[c].turn].status = "running"
       THEN ConnIdle(c)
       ELSE conn' = [conn EXCEPT ![c].pc = "overwrite", ![c].turn = NoTurn]
    /\ UNCHANGED <<store, home, task, local, row, started, dead, orphan, crashes>>

\* The unconditional SET: whatever the key names by now is replaced.
Overwrite(c) ==
    /\ conn[c].pc = "overwrite"
    /\ \E t \in Turn : Take(c, t)
    /\ UNCHANGED <<rec, task, local, row, started, dead, orphan, crashes>>

StartSaveTurn(c) ==
    /\ conn[c].pc = "startSaveTurn"
    /\ SaveTurnKey(conn[c].turn, "running", 0)
    /\ Goto(c, "startSaveSession")
    /\ UNCHANGED <<key, home, task, local, row, started, dead, orphan, crashes>>

StartSaveSession(c) ==
    /\ conn[c].pc = "startSaveSession"
    /\ SaveSessionKey(conn[c].turn)
    /\ started' = started \cup {conn[c].turn}
    /\ Goto(c, "startSend")
    /\ UNCHANGED <<rec, home, task, local, row, dead, orphan, crashes>>

StartCreateTask(c) ==
    /\ conn[c].pc = "startSend"
    /\ CreateTask(c, conn[c].turn, 0)
    /\ ConnIdle(c)
    /\ UNCHANGED <<store, home, row, started, dead, orphan, crashes>>

----------------------------------------------------------------------------
\* submit_user_reply

LocalBusy(w, t) == local[w][t] # 0 /\ Live(<<t, local[w][t]>>)
Known(c, t) == home[t] \in Reach[c] /\ t \in started
Resuming(t) == {c \in Conn : Handling(c, t) /\ conn[c].pc \in {"replySaveTurn", "replySaveSession"}}
FragmentsLeft(t) ==
    Cardinality({n \in Fragment : task[<<t, n>>].pc # "unborn"}) + Cardinality(Resuming(t)) < MaxFragments

\* Every failed check answers with an error frame and changes nothing.
\* Mutant: the record's status is not checked.
ReceiveReplyUnchecked(c) ==
    /\ conn[c].pc = "idle"
    /\ \E t \in Turn :
         /\ Known(c, t)
         /\ rec[t].status # "none"
         /\ ~LocalBusy(conn[c].at, t)
         /\ FragmentsLeft(t)
         /\ conn' = [conn EXCEPT ![c].pc = "replySaveTurn", ![c].turn = t,
                                 ![c].seq = rec[t].seq]
    /\ UNCHANGED <<store, home, task, local, row, started, dead, orphan, crashes>>

ReceiveReply(c) ==
    /\ conn[c].pc = "idle"
    /\ \E t \in Turn :
         /\ Known(c, t)
         /\ rec[t].status = "paused"
         /\ ~LocalBusy(conn[c].at, t)
         /\ FragmentsLeft(t)
         /\ conn' = [conn EXCEPT ![c].pc = "replySaveTurn", ![c].turn = t,
                                 ![c].seq = rec[t].seq]
    /\ UNCHANGED <<store, home, task, local, row, started, dead, orphan, crashes>>

ReplySaveTurn(c) ==
    /\ conn[c].pc = "replySaveTurn"
    /\ SaveTurnKey(conn[c].turn, "running", conn[c].seq)
    /\ Goto(c, "replySaveSession")
    /\ UNCHANGED <<key, home, task, local, row, started, dead, orphan, crashes>>

\* SET tutor:session, then create_task without another await.
ReplySaveSession(c) ==
    /\ conn[c].pc = "replySaveSession"
    /\ SaveSessionKey(conn[c].turn)
    /\ CreateTask(c, conn[c].turn, conn[c].seq)
    /\ ConnIdle(c)
    /\ UNCHANGED <<rec, home, row, started, dead, orphan, crashes>>

----------------------------------------------------------------------------
\* A task whose local record no longer matters.
Gone(k, pc) == [Unborn(task[k].at) EXCEPT !.pc = pc]

\* The finally block of _execute_turn up to its first await: forget the task,
\* then release the session unless the turn paused.
\* Mutant: only a completed turn gives its session back.
FinallyCompletedOnly(k, status) ==
    /\ task' = [task EXCEPT ![k] = Gone(k, IF status # "completed" THEN "done" ELSE "releaseGet")]
    /\ local' = [local EXCEPT ![task[k].at][k[1]] = 0]
Finally(k, status) ==
    /\ task' = [task EXCEPT ![k] = Gone(k, IF status = "paused" THEN "done" ELSE "releaseGet")]
    /\ local' = [local EXCEPT ![task[k].at][k[1]] = 0]

\* task.cancel(): CancelledError is raised at the task's current await.
\* A task that never ran just ends; one inside its try body goes to the
\* CancelledError handler; one already in a handler leaves through finally.
Interrupt(k) ==
    \/ /\ task[k].pc = "new"
       /\ task' = [task EXCEPT ![k] = Gone(k, "done")]
       /\ UNCHANGED local
    \/ /\ task[k].pc # "new" /\ ~task[k].handler
       /\ task' = [task EXCEPT ![k].pc = "saveTurn", ![k].status = "cancelled",
                               ![k].handler = TRUE]
       /\ UNCHANGED local
    \/ /\ task[k].pc # "new" /\ task[k].handler
       /\ Finally(k, task[k].status)

\* cancel_turn: no check of the loaded status.
ReceiveCancel(c) ==
    /\ conn[c].pc = "idle"
    /\ \E t \in Turn :
         /\ Known(c, t)
         /\ rec[t].status # "none"
         /\ conn' = [conn EXCEPT ![c].pc = "cancelSaveTurn", ![c].turn = t,
                                 ![c].seq = rec[t].seq]
    /\ UNCHANGED <<store, home, task, local, row, started, dead, orphan, crashes>>

CancelSaveTurn(c) ==
    /\ conn[c].pc = "cancelSaveTurn"
    /\ SaveTurnKey(conn[c].turn, "cancelled", conn[c].seq)
    /\ Goto(c, "cancelSaveSession")
    /\ UNCHANGED <<key, home, task, local, row, started, dead, orphan, crashes>>

CancelSaveSession(c) ==
    /\ conn[c].pc = "cancelSaveSession"
    /\ SaveSessionKey(conn[c].turn)
    /\ Goto(c, "cancelTask")
    /\ UNCHANGED <<rec, home, task, local, row, started, dead, orphan, crashes>>

CancelLocalTask(c) ==
    /\ conn[c].pc = "cancelTask"
    /\ LET t == conn[c].turn
           n == local[conn[c].at][t]
       IN  \/ /\ LocalBusy(conn[c].at, t)
              /\ Interrupt(<<t, n>>)
              /\ conn' = [conn EXCEPT ![c].pc = "cancelWait", ![c].frag = n]
           \/ /\ ~LocalBusy(conn[c].at, t)
              /\ Goto(c, "releaseGet")
              /\ UNCHANGED <<task, local>>
    /\ UNCHANGED <<store, home, row, started, dead, orphan, crashes>>

\* await local_task
\* Mutant: poll _local_tasks until the task has left it, which one that
\* never started does not do.
CancelWaitEntry(c) ==
    /\ conn[c].pc = "cancelWait"
    /\ IF local[conn[c].at][conn[c].turn] = 0 THEN Goto(c, "releaseGet") ELSE UNCHANGED conn
    /\ UNCHANGED <<store, home, task, local, row, started, dead, orphan, crashes>>
CancelWait(c) ==
    /\ conn[c].pc = "cancelWait"
    /\ ~Live(<<conn[c].turn, conn[c].frag>>)
    /\ Goto(c, "releaseGet")
    /\ UNCHANGED <<store, home, task, local, row, started, dead, orphan, crashes>>

\* release_session is GET, compare, DELETE.
CancelReleaseGet(c) ==
    /\ conn[c].pc = "releaseGet"
    /\ LET t == conn[c].turn IN
         IF key[home[t]] = t THEN Goto(c, "releaseDel") ELSE ConnIdle(c)
    /\ UNCHANGED <<store, home, task, local, row, started, dead, orphan, crashes>>

CancelReleaseDelete(c) ==
    /\ conn[c].pc = "releaseDel"
    /\ key' = [key EXCEPT ![home[conn[c].turn]] = NoTurn]
    /\ ConnIdle(c)
    /\ UNCHANGED <<rec, home, task, local, row, started, dead, orphan, crashes>>

----------------------------------------------------------------------------
\* _execute_turn

TaskBegin(k) ==
    /\ task[k].pc = "new"
    /\ task' = [task EXCEPT ![k].pc = "stream"]
    /\ UNCHANGED <<store, home, conn, local, row, started, dead, orphan, crashes>>

\* An orchestrator event has arrived; the action is the GET of
\* _is_turn_cancelled and what follows it.
TaskEvent(k) ==
    /\ task[k].pc = "stream"
    /\ \/ /\ rec[k[1]].status = "cancelled"
          /\ task' = [task EXCEPT ![k].pc = "saveTurn", ![k].status = "cancelled"]
       \/ /\ rec[k[1]].status # "cancelled"
          /\ task[k].seq < MaxEvents
          /\ \E ask \in BOOLEAN :
               task' = [task EXCEPT ![k].seq = @ + 1, ![k].asked = @ \/ ask]
    /\ UNCHANGED <<store, home, conn, local, row, started, dead, orphan, crashes>>

\* The stream is exhausted: publish the pause or the completion.
TaskStreamEnd(k) ==
    /\ task[k].pc = "stream"
    /\ task[k].seq > task[k].from
    /\ task' = [task EXCEPT ![k].pc = "saveTurn",
                            ![k].status = IF task[k].asked THEN "paused" ELSE "completed"]
    /\ UNCHANGED <<store, home, conn, local, row, started, dead, orphan, crashes>>

\* Any exception inside the try body before the record is saved.
\* Mutant: the handler persists the error but does not save the record.
TaskStreamErrorUnsaved(k) ==
    /\ task[k].pc = "stream"
    /\ task' = [task EXCEPT ![k].pc = "persist", ![k].status = "error",
                            ![k].handler = TRUE]
    /\ UNCHANGED <<store, home, conn, local, row, started, dead, orphan, crashes>>

TaskStreamError(k) ==
    /\ task[k].pc = "stream"
    /\ task' = [task EXCEPT ![k].pc = "saveTurn", ![k].status = "error",
                            ![k].handler = TRUE]
    /\ UNCHANGED <<store, home, conn, local, row, started, dead, orphan, crashes>>

TaskSaveTurn(k) ==
    /\ task[k].pc = "saveTurn"
    /\ SaveTurnKey(k[1], task[k].status, task[k].seq)
    /\ task' = [task EXCEPT ![k].pc = "saveSession"]
    /\ UNCHANGED <<key, home, conn, local, row, started, dead, orphan, crashes>>

\* A cancellation seen at an event returns without persisting anything.
TaskSaveSession(k) ==
    /\ task[k].pc = "saveSession"
    /\ SaveSessionKey(k[1])
    /\ IF task[k].status = "cancelled" /\ ~task[k].handler
       THEN Finally(k, "cancelled")
       ELSE /\ task' = [task EXCEPT ![k].pc = "persist"]
            /\ UNCHANGED local
    /\ UNCHANGED <<rec, home, conn, row, started, dead, orphan, crashes>>

\* The events of this execution that the fragment holds.
\* Mutant: a resumed execution hands over the events of the earlier ones too.
FragmentEventsAll(k) == [i \in 1..task[k].seq |-> i]
FragmentEvents(k) == [i \in 1..(task[k].seq - task[k].from) |-> task[k].from + i]

\* persist_tutor_turn: the upsert commits, or all attempts fail.
TaskPersist(k) ==
    /\ task[k].pc = "persist"
    /\ \/ /\ row' = [row EXCEPT ![k[1]] = [status |-> task[k].status,
                                           events |-> @.events \o FragmentEvents(k)]]
          /\ UNCHANGED dead
       \/ /\ dead' = dead \cup {k[1]}
          /\ UNCHANGED row
    /\ IF task[k].handler
       THEN Finally(k, task[k].status)
       ELSE /\ task' = [task EXCEPT ![k].pc = "commit"]
            /\ UNCHANGED local
    /\ UNCHANGED <<store, home, conn, started, orphan, crashes>>

\* record_chat_memory and the commit of the tools' own session.
TaskCommit(k) ==
    /\ task[k].pc = "commit"
    /\ \/ Finally(k, task[k].status)
       \/ /\ task' = [task EXCEPT ![k].pc = "saveTurn", ![k].status = "error",
                                  ![k].handler = TRUE]
          /\ UNCHANGED local
    /\ UNCHANGED <<store, home, conn, row, started, dead, orphan, crashes>>

TaskReleaseGet(k) ==
    /\ task[k].pc = "releaseGet"
    /\ task' = [task EXCEPT ![k].pc = IF key[home[k[1]]] = k[1] THEN "releaseDel" ELSE "done"]
    /\ UNCHANGED <<store, home, conn, local, row, started, dead, orphan, crashes>>

TaskReleaseDelete(k) ==
    /\ task[k].pc = "releaseDel"
    /\ key' = [key EXCEPT ![home[k[1]]] = NoTurn]
    /\ task' = [task EXCEPT ![k].pc = "done"]
    /\ UNCHANGED <<rec, home, conn, local, row, started, dead, orphan, crashes>>

----------------------------------------------------------------------------
\* Redis expiry. Unless SlowTurns, a TTL only runs out once nothing touches
\* the turn any more.
MayExpire(t) == SlowTurns \/ AtRest(t)

ExpireTurn(t) ==
    /\ rec[t].status # "none"
    /\ MayExpire(t)
    /\ rec' = [rec EXCEPT ![t] = NoRec]
    /\ UNCHANGED <<key, home, conn, task, local, row, started, dead, orphan, crashes>>

ExpireSession(s) ==
    /\ key[s] # NoTurn
    /\ MayExpire(key[s])
    /\ key' = [key EXCEPT ![s] = NoTurn]
    /\ UNCHANGED <<rec, home, conn, task, local, row, started, dead, orphan, crashes>>

\* A worker dies with its tasks, its _local_tasks and its websockets, whose
\* clients reconnect (wsReconnect.ts).
Crash(w) ==
    /\ crashes < MaxCrashes
    /\ crashes' = crashes + 1
    /\ task' = [k \in Task |-> IF Live(k) /\ task[k].at = w
                               THEN Gone(k, "lost") ELSE task[k]]
    /\ local' = [local EXCEPT ![w] = [t \in Turn |-> 0]]
    /\ orphan' = orphan \cup {t \in Turn :
                                \/ \E n \in Fragment : Live(<<t, n>>) /\ task[<<t, n>>].at = w
                                \/ \E c \in Conn : Handling(c, t) /\ conn[c].at = w}
    /\ conn' = [c \in Conn |-> IF conn[c].at = w THEN IdleAt(w) ELSE conn[c]]
    /\ UNCHANGED <<store, home, row, started, dead>>

\* The client of an idle connection opens a new one.
Reconnect(c) ==
    /\ conn[c].pc = "idle"
    /\ \E w \in IF Roaming THEN Worker ELSE {conn[c].at} :
         conn' = [conn EXCEPT ![c] = IdleAt(w)]
    /\ UNCHANGED <<store, home, task, local, row, started, dead, orphan, crashes>>

----------------------------------------------------------------------------
Request(c) == ReceiveMessage(c) \/ ReceiveReply(c) \/ ReceiveCancel(c)

HandlerStep(c) ==
    \/ LookUpSession(c) \/ LookUpActive(c) \/ Acquire(c) \/ GetExisting(c)
    \/ GetExistingRecord(c) \/ Overwrite(c) \/ StartSaveTurn(c)
    \/ StartSaveSession(c) \/ StartCreateTask(c)
    \/ ReplySaveTurn(c) \/ ReplySaveSession(c)
    \/ CancelSaveTurn(c) \/ CancelSaveSession(c) \/ CancelLocalTask(c)
    \/ CancelWait(c) \/ CancelReleaseGet(c) \/ CancelReleaseDelete(c)

TaskStep(k) ==
    \/ TaskBegin(k) \/ TaskEvent(k) \/ TaskStreamEnd(k) \/ TaskStreamError(k)
    \/ TaskSaveTurn(k) \/ TaskSaveSession(k) \/ TaskPersist(k) \/ TaskCommit(k)
    \/ TaskReleaseGet(k) \/ TaskReleaseDelete(k)

Next ==
    \/ \E c \in Conn : Request(c) \/ HandlerStep(c) \/ Reconnect(c)
    \/ \E k \in Task : TaskStep(k)
    \/ \E t \in Turn : ExpireTurn(t)
    \/ \E s \in Session : ExpireSession(s)
    \/ \E w \in Worker : Crash(w)

Spec == Init /\ [][Next]_vars

\* asyncio runs every ready coroutine, every awaited command completes, the
\* agent loop ends a stream (it is bounded by its iteration limit), and Redis
\* drops a record whose time to live has run out.
FairSpec ==
    /\ Spec
    /\ \A c \in Conn : WF_vars(HandlerStep(c))
    /\ \A k \in Task : WF_vars(TaskStep(k))
    /\ \A t \in Turn : WF_vars(t \in orphan /\ ExpireTurn(t))
----------------------------------------------------------------------------
(* Properties.                                                             *)

\* Who may send the messages of a session: no two connections at once.
Exclusive == \A c, d \in Conn : c # d => Reach[c] \cap Reach[d] = {}

\* What has become of the turns. One whose pause has a reply under way waits
\* until the task of the reply is created.
Executions == [t \in Turn |-> {n \in Fragment : task[<<t, n>>].pc # "unborn"}]
Executed(t) == \E n \in Fragment : Active(<<t, n>>)
Waits(t)    == rec[t].status = "paused" \/ Resuming(t) # {}
Phase ==
    [t \in Turn |->
        CASE Executions[t] = {} -> "new"
          [] Executions[t] # {} /\ Executed(t) -> "running"
          [] Executions[t] # {} /\ ~Executed(t) /\ Waits(t) -> "waiting"
          [] Executions[t] # {} /\ ~Executed(t) /\ ~Waits(t) -> "over"]
Life == INSTANCE TurnLife WITH Execution <- Fragment, phase <- Phase, executions <- Executions

\* A turn lives as TurnLife says, over pauses, cancellations that overtake a
\* task, expired records and dead workers: an execution begins only when no
\* other one runs, after a pause that still waits for its reply, and what is
\* over stays over (submit_user_reply and cancel_turn against _execute_turn).
TurnsLive == Life!Spec

\* A turn is executed by at most one task at a time: a reply accepted while an
\* execution is still running would number and answer the same events twice
\* (submit_user_reply's checks of the record and of _local_tasks).
OneExecutor ==
    \A t \in Turn : \A m, n \in Fragment :
        Active(<<t, m>>) /\ Active(<<t, n>>) => m = n

\* A record that says "running" is about to be settled by someone: a task that
\* has yet to save its outcome, or the handler about to create one. Otherwise
\* the session answers turn_busy until the record expires (start_turn,
\* submit_user_reply, cancel_turn and every exit of _execute_turn together).
Settles(k) == task[k].pc \in {"new", "stream", "saveTurn"}
Beginning(c, t) ==
    Handling(c, t) /\ conn[c].pc \in {"startSaveSession", "startSend", "replySaveSession"}
RunningIsServed ==
    \A t \in Turn : rec[t].status = "running" /\ t \notin orphan =>
        \/ \E n \in Fragment : Settles(<<t, n>>)
        \/ \E c \in Conn : Beginning(c, t)

\* Once cancel_turn has waited for the local task, nothing of the turn runs
\* the agent on that worker any more, whatever the task was doing when the
\* cancellation reached it (cancel_turn, _local_tasks).
CancelStopsLocalTask ==
    \A c \in Conn : conn[c].pc \in {"releaseGet", "releaseDel"} =>
        \A n \in Fragment : LET k == <<conn[c].turn, n>> IN
            task[k].at = conn[c].at => ~Active(k)

\* When everything about a turn has come to rest, the row in the database
\* agrees with the outcome in Redis, and a turn that paused or completed has
\* every event exactly once and in order (persist_tutor_turn against
\* save_turn, over pauses, resumptions, failed commits and cancellations).
RowMatchesRecord ==
    \A t \in Turn :
        AtRest(t) /\ t \notin dead /\ t \notin orphan
            /\ rec[t].status \in {"paused", "completed"} =>
        row[t] = [status |-> rec[t].status, events |-> [i \in 1..rec[t].seq |-> i]]

\* When nothing happens in a session any more, its key is gone unless the turn
\* it names waits for a reply or has expired (release_session against the
\* session SETs of save_turn and acquire_session).
SessionsReleased ==
    (\A t \in Turn : AtRest(t)) /\ orphan = {} =>
        \A s \in Session : key[s] # NoTurn => rec[key[s]].status \in {"paused", "none"}

\* What the turn_busy message says: "A turn is already running for this
\* session." A running turn keeps a second one from running (submit_user_reply
\* and cancel_turn against acquire_session).
OneTurnPerSession ==
    \A t, u \in Turn : \A m, n \in Fragment :
        Active(<<t, m>>) /\ Active(<<u, n>>) /\ home[t] = home[u] => t = u

\* Every message a client sends is answered: no handler waits for ever.
RequestsEnd == \A c \in Conn : conn[c].pc # "idle" ~> conn[c].pc = "idle"

\* A session never stays busy: its running turn ends, or its record expires
\* after the worker that ran it died.
Busy(s) == key[s] # NoTurn /\ rec[key[s]].status = "running"
SessionFreed == \A s \in Session : Busy(s) ~> ~Busy(s)

=============================================================================
