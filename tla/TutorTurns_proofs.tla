------------------------ MODULE TutorTurns_proofs -----------------------
(***************************************************************************)
(* Type correctness and safety of TutorTurns. First TypeCorrect, by        *)
(* induction: TypeOK alone is not inductive, as a handler's "turn" may be  *)
(* NoTurn and a look-up uses it as a turn; InHand says which handlers hold *)
(* a session and which a turn. Then OneExecutor, RunningIsServed and       *)
(* CancelStopsLocalTask for every number of turns, sessions, connections,  *)
(* workers, executions, events and crashes, with records that may expire   *)
(* at any time, provided a session's messages come from one connection     *)
(* (Inv). Then RowMatchesRecord and SessionsReleased, provided also that   *)
(* a reconnecting client lands on the worker it came from (OutcomeInv).    *)
(* Last, TutorTurns implements TurnLife (TurnsLive), from Inv again.       *)
(***************************************************************************)
EXTENDS TutorTurns, SequenceTheorems, TLAPS


(* How the building blocks of the actions keep the types. *)

\* The program counters used below are ones.
LEMMA PCs == /\ {"idle", "lookKey", "lookRec", "acquire", "getExisting",
                 "getExistingRec", "overwrite", "startSaveTurn", "startSaveSession",
                 "startSend", "replySaveTurn", "replySaveSession", "cancelSaveTurn",
                 "cancelSaveSession", "cancelTask", "cancelWait", "releaseGet",
                 "releaseDel"} \subseteq ConnPC
             /\ {"unborn", "new", "stream", "saveTurn", "saveSession", "persist",
                 "commit", "releaseGet", "releaseDel", "done", "lost"} \subseteq TaskPC
             /\ {"running", "paused", "completed", "cancelled", "error"} \subseteq Status
BY DEF ConnPC, TaskPC, Status

\* Goto keeps the handlers' type.
LEMMA GotoType ==
    ASSUME conn \in [Conn -> ConnState], NEW c \in Conn, NEW p \in ConnPC, Goto(c, p)
    PROVE  conn' \in [Conn -> ConnState]
BY DEF Goto, ConnState

\* So does going idle,
LEMMA ConnIdleType ==
    ASSUME conn \in [Conn -> ConnState], NEW c \in Conn, ConnIdle(c)
    PROVE  conn' \in [Conn -> ConnState]
<1>1. IdleAt(conn[c].at) \in ConnState
  BY BoundsAssumption, PCs DEF IdleAt, ConnState
<1> QED BY <1>1 DEF ConnIdle

\* looking at the turn a key names,
LEMMA ConnLookType ==
    ASSUME conn \in [Conn -> ConnState], NEW c \in Conn, NEW p \in ConnPC,
           NEW t \in Turn \cup {NoTurn},
           conn' = [conn EXCEPT ![c].pc = p, ![c].turn = t]
    PROVE  conn' \in [Conn -> ConnState]
BY ZenonT(40) DEF ConnState

\* and loading a turn with its record.
LEMMA ConnLoadType ==
    ASSUME conn \in [Conn -> ConnState], NEW c \in Conn, NEW p \in ConnPC,
           NEW t \in Turn, NEW q \in 0..MaxEvents,
           conn' = [conn EXCEPT ![c].pc = p, ![c].turn = t, ![c].seq = q]
    PROVE  conn' \in [Conn -> ConnState]
BY ZenonT(40) DEF ConnState

\* The fields of a handler's state have their types.
LEMMA ConnFields ==
    ASSUME TypeOK, NEW c \in Conn
    PROVE  /\ conn \in [Conn -> ConnState]
           /\ conn[c].at \in Worker
           /\ conn[c].turn \in Turn \cup {NoTurn}
           /\ conn[c].session \in Session \cup {NoSession}
           /\ conn[c].seq \in 0..MaxEvents
           /\ conn[c].pc \in ConnPC
<1>1. conn \in [Conn -> ConnState]
  BY DEF TypeOK
<1> QED BY <1>1 DEF ConnState

\* The fields of a task's state have their types.
LEMMA TaskFields ==
    ASSUME TypeOK, NEW k \in Task
    PROVE  /\ task \in [Task -> TaskState]
           /\ task[k].at \in Worker
           /\ task[k].status \in Status
           /\ task[k].seq \in 0..MaxEvents
           /\ task[k].from \in 0..MaxEvents
           /\ k[1] \in Turn
<1>1. task \in [Task -> TaskState]
  BY DEF TypeOK
<1> QED BY <1>1 DEF TaskState, Task

\* acquire_session keeps the types it touches.
LEMMA TakeType ==
    ASSUME TypeOK, NEW c \in Conn, NEW t \in Turn, Take(c, t)
    PROVE  /\ conn' \in [Conn -> ConnState]
           /\ home' \in [Turn -> Session \cup {NoSession}]
           /\ key' \in [Session -> Turn \cup {NoTurn}]
<1>1. conn' \in [Conn -> ConnState]
  BY ConnFields, ConnLookType, PCs DEF Take
<1>2. home' \in [Turn -> Session \cup {NoSession}]
  BY ConnFields DEF Take, TypeOK
<1>3. key' \in [Session -> Turn \cup {NoTurn}]
  BY DEF Take, TypeOK
<1> QED BY <1>1, <1>2, <1>3

\* SET tutor:turn writes a record.
LEMMA SaveTurnKeyType ==
    ASSUME rec \in [Turn -> Record], NEW t \in Turn \cup {NoTurn},
           NEW st \in Status, NEW q \in 0..MaxEvents, SaveTurnKey(t, st, q)
    PROVE  rec' \in [Turn -> Record]
BY DEF SaveTurnKey, Record

\* SET tutor:session writes a turn id.
LEMMA SaveSessionKeyType ==
    ASSUME key \in [Session -> Turn \cup {NoTurn}], NEW t \in Turn \cup {NoTurn},
           SaveSessionKey(t)
    PROVE  key' \in [Session -> Turn \cup {NoTurn}]
BY DEF SaveSessionKey

\* create_task keeps the types of tasks and _local_tasks.
LEMMA CreateTaskType ==
    ASSUME TypeOK, NEW c \in Conn, NEW t \in Turn \cup {NoTurn}, NEW q \in 0..MaxEvents,
           CreateTask(c, t, q)
    PROVE  /\ task' \in [Task -> TaskState]
           /\ local' \in [Worker -> [Turn -> 0..MaxFragments]]
<1>1. /\ task \in [Task -> TaskState]
      /\ local \in [Worker -> [Turn -> 0..MaxFragments]]
      /\ conn[c].at \in Worker
  BY DEF TypeOK, ConnState
<1>2. PICK n \in Fragment :
        /\ task' = [task EXCEPT ![<<t, n>>] =
                      [Unborn(conn[c].at) EXCEPT !.pc = "new", !.seq = q, !.from = q]]
        /\ local' = [local EXCEPT ![conn[c].at][t] = n]
  BY DEF CreateTask
<1>3. [Unborn(conn[c].at) EXCEPT !.pc = "new", !.seq = q, !.from = q] \in TaskState
  BY <1>1, PCs DEF Unborn, TaskState
<1>4. task' \in [Task -> TaskState]
  BY <1>1, <1>2, <1>3
<1>5. n \in 0..MaxFragments
  BY BoundsAssumption DEF Fragment
<1> QED BY <1>1, <1>2, <1>4, <1>5

\* A task that is gone is in a task state.
LEMMA GoneType ==
    ASSUME task \in [Task -> TaskState], NEW k \in Task, NEW p \in TaskPC
    PROVE  Gone(k, p) \in TaskState
<1>1. task[k].at \in Worker
  BY DEF TaskState
<1>2. Unborn(task[k].at) \in TaskState
  BY <1>1, BoundsAssumption, PCs DEF Unborn, TaskState
<1> QED BY <1>2 DEF Gone, TaskState

\* The finally block keeps the types of tasks and _local_tasks.
LEMMA FinallyType ==
    ASSUME TypeOK, NEW k \in Task, NEW st, Finally(k, st)
    PROVE  /\ task' \in [Task -> TaskState]
           /\ local' \in [Worker -> [Turn -> 0..MaxFragments]]
<1>1. /\ task \in [Task -> TaskState]
      /\ local \in [Worker -> [Turn -> 0..MaxFragments]]
  BY DEF TypeOK
<1>2. /\ task[k].at \in Worker
      /\ 0 \in 0..MaxFragments
  BY <1>1, BoundsAssumption DEF TaskState
<1>3. PICK p \in TaskPC : task' = [task EXCEPT ![k] = Gone(k, p)]
  BY PCs DEF Finally
<1>4. task' \in [Task -> TaskState]
  BY <1>1, <1>3, GoneType
<1> QED BY <1>1, <1>2, <1>4 DEF Finally

\* task.cancel() keeps the types of tasks and _local_tasks.
LEMMA InterruptType ==
    ASSUME TypeOK, NEW k \in Task, Interrupt(k)
    PROVE  /\ task' \in [Task -> TaskState]
           /\ local' \in [Worker -> [Turn -> 0..MaxFragments]]
<1>1. /\ task \in [Task -> TaskState]
      /\ local \in [Worker -> [Turn -> 0..MaxFragments]]
  BY DEF TypeOK
<1>2. CASE task' = [task EXCEPT ![k] = Gone(k, "done")] /\ UNCHANGED local
  BY <1>1, <1>2, GoneType, PCs
<1>3. CASE /\ task' = [task EXCEPT ![k].pc = "saveTurn", ![k].status = "cancelled",
                                   ![k].handler = TRUE]
           /\ UNCHANGED local
  <2>1. task' \in [Task -> TaskState]
    BY ZenonT(40), <1>1, <1>3, PCs DEF TaskState
  <2> QED BY <1>1, <1>3, <2>1
<1>4. CASE Finally(k, task[k].status)
  BY <1>4, FinallyType
<1> QED BY <1>2, <1>3, <1>4 DEF Interrupt

----------------------------------------------------------------------------
\* A starting handler has a session in hand, a working one a turn.
InHand ==
    \A c \in Conn : /\ conn[c].pc \in StartPC => conn[c].session \in Session
                    /\ conn[c].pc \in WorkPC => conn[c].turn \in Turn
TypeInv == TypeOK /\ InHand

\* A handler starts a turn or works on one, or is idle.
LEMMA DisjointPCs == StartPC \cap WorkPC = {} /\ "idle" \notin StartPC \cup WorkPC
BY DEF StartPC, WorkPC

\* The handler's new state is a state, and only a starting one keeps a session.
ConnMoves(c) ==
    /\ conn' \in [Conn -> ConnState]
    /\ \A d \in Conn \ {c} : conn'[d] = conn[d]
    /\ conn'[c].pc \in StartPC => conn'[c].session \in Session
    /\ conn'[c].pc \in WorkPC => conn'[c].turn \in Turn

\* A handler's step keeps what is in the handlers' hands.
LEMMA InHandKept ==
    ASSUME TypeInv, NEW c \in Conn, ConnMoves(c)
    PROVE  InHand'
BY DEF TypeInv, InHand, ConnMoves

\* The forms a handler's step takes: move on with what it has,
LEMMA GotoMoves ==
    ASSUME TypeInv, NEW c \in Conn, NEW p \in ConnPC, Goto(c, p),
           p \in StartPC => conn[c].pc \in StartPC,
           p \in WorkPC => conn[c].pc \in WorkPC
    PROVE  ConnMoves(c)
<1>1. conn' \in [Conn -> ConnState] /\ conn \in [Conn -> ConnState]
  BY GotoType, ConnFields DEF TypeInv
<1>2. conn' = [conn EXCEPT ![c].pc = p]
  BY DEF Goto
<1>3. conn'[c].pc = p /\ conn'[c].session = conn[c].session /\ conn'[c].turn = conn[c].turn
  BY <1>1, <1>2 DEF ConnState
<1> QED BY <1>1, <1>2, <1>3 DEF ConnMoves, TypeInv, InHand

\* go idle,
LEMMA IdleMoves ==
    ASSUME TypeInv, NEW c \in Conn, ConnIdle(c)
    PROVE  ConnMoves(c)
<1>1. conn' \in [Conn -> ConnState] /\ conn \in [Conn -> ConnState]
  BY ConnIdleType, ConnFields DEF TypeInv
<1>2. conn'[c].pc = "idle"
  BY <1>1 DEF ConnIdle, IdleAt
<1> QED BY <1>1, <1>2 DEF ConnIdle, ConnMoves, StartPC, WorkPC

\* look at a turn,
LEMMA LookMoves ==
    ASSUME TypeInv, NEW c \in Conn, NEW p \in ConnPC, NEW t \in Turn \cup {NoTurn},
           conn' = [conn EXCEPT ![c].pc = p, ![c].turn = t],
           p \in StartPC => conn[c].pc \in StartPC,
           p \in WorkPC => t \in Turn
    PROVE  ConnMoves(c)
<1>1. conn' \in [Conn -> ConnState] /\ conn \in [Conn -> ConnState]
  BY ConnLookType, ConnFields DEF TypeInv
<1>2. conn'[c].pc = p /\ conn'[c].session = conn[c].session /\ conn'[c].turn = t
  BY <1>1 DEF ConnState
<1> QED BY <1>1, <1>2 DEF ConnMoves, TypeInv, InHand

\* load a turn with its record.
LEMMA LoadMoves ==
    ASSUME TypeInv, NEW c \in Conn, NEW p \in ConnPC, NEW t \in Turn,
           conn' = [conn EXCEPT ![c].pc = p, ![c].turn = t, ![c].seq = rec[t].seq],
           p \notin StartPC
    PROVE  ConnMoves(c)
<1>1. rec[t].seq \in 0..MaxEvents
  BY DEF TypeInv, TypeOK, Record
<1>2. conn' \in [Conn -> ConnState] /\ conn \in [Conn -> ConnState]
  BY <1>1, ConnLoadType, ConnFields DEF TypeInv
<1>3. conn'[c].pc = p /\ conn'[c].turn = t
  BY <1>2 DEF ConnState
<1> QED BY <1>2, <1>3 DEF ConnMoves

\* Receiving a message is a step of one handler.
LEMMA RequestMoves == ASSUME TypeInv, NEW c \in Conn, Request(c) PROVE ConnMoves(c)
<1>1. CASE ReceiveMessage(c)
  <2>0. conn \in [Conn -> ConnState]
    BY ConnFields DEF TypeInv
  <2>1. PICK s \in Reach[c] : conn' = [conn EXCEPT ![c].pc = "lookKey", ![c].session = s]
    BY <1>1 DEF ReceiveMessage
  <2>2. s \in Session
    BY NamesAssumption
  <2>3. "lookKey" \in ConnPC
    BY PCs
  <2>4. conn' \in [Conn -> ConnState]
    <3>1. [conn[c] EXCEPT !.pc = "lookKey", !.session = s] \in ConnState
      BY <2>0, <2>2, <2>3 DEF ConnState
    <3>2. conn' = [conn EXCEPT ![c] = [conn[c] EXCEPT !.pc = "lookKey", !.session = s]]
      BY <2>0, <2>1
    <3> QED BY <2>0, <3>1, <3>2
  <2>5. conn'[c].session = s /\ conn'[c].pc = "lookKey"
    BY <2>0, <2>1 DEF ConnState
  <2> QED BY <2>1, <2>2, <2>4, <2>5 DEF ConnMoves, WorkPC
<1>2. CASE ReceiveReply(c)
  <2>1. PICK t \in Turn :
          conn' = [conn EXCEPT ![c].pc = "replySaveTurn", ![c].turn = t, ![c].seq = rec[t].seq]
    BY <1>2 DEF ReceiveReply
  <2>2. "replySaveTurn" \in ConnPC \ StartPC
    BY PCs DEF StartPC
  <2> QED BY <2>1, <2>2, LoadMoves
<1>3. CASE ReceiveCancel(c)
  <2>1. PICK t \in Turn :
          conn' = [conn EXCEPT ![c].pc = "cancelSaveTurn", ![c].turn = t, ![c].seq = rec[t].seq]
    BY <1>3 DEF ReceiveCancel
  <2>2. "cancelSaveTurn" \in ConnPC \ StartPC
    BY PCs DEF StartPC
  <2> QED BY <2>1, <2>2, LoadMoves
<1> QED BY <1>1, <1>2, <1>3 DEF Request

\* So is looking up a session or a record,
LEMMA LookUpMoves ==
    ASSUME TypeInv, NEW c \in Conn,
           LookUpSession(c) \/ LookUpActive(c) \/ GetExisting(c) \/ GetExistingRecord(c)
    PROVE  ConnMoves(c)
<1>1. {"acquire", "lookRec", "overwrite", "getExistingRec", "lookKey", "getExisting"} \subseteq ConnPC \cap StartPC
  BY DEF StartPC, ConnPC
<1>2. conn[c].pc \in StartPC => key[conn[c].session] \in Turn \cup {NoTurn}
  BY DEF TypeInv, TypeOK, InHand
<1>3. ASSUME NEW p \in {"acquire", "lookRec", "overwrite", "getExistingRec"}, conn[c].pc \in StartPC,
             NEW t \in Turn \cup {NoTurn}, conn' = [conn EXCEPT ![c].pc = p, ![c].turn = t]
      PROVE  ConnMoves(c)
  BY <1>1, <1>3, LookMoves, DisjointPCs
<1>4. ASSUME conn' = [conn EXCEPT ![c].pc = "acquire"], conn[c].pc \in StartPC PROVE ConnMoves(c)
  BY <1>1, <1>4, GotoMoves, DisjointPCs DEF Goto
<1>5. CASE LookUpSession(c)
  BY <1>1, <1>2, <1>3, <1>4, <1>5 DEF LookUpSession
<1>6. CASE LookUpActive(c)
  BY <1>1, <1>3, <1>6, IdleMoves DEF LookUpActive
<1>7. CASE GetExisting(c)
  BY <1>1, <1>2, <1>3, <1>4, <1>7 DEF GetExisting
<1>8. CASE GetExistingRecord(c)
  BY <1>1, <1>3, <1>8, IdleMoves DEF GetExistingRecord
<1> QED BY <1>5, <1>6, <1>7, <1>8

\* and taking the session key.
LEMMA TakeMoves ==
    ASSUME TypeInv, NEW c \in Conn, NEW t \in Turn, Take(c, t)
    PROVE  ConnMoves(c)
BY LookMoves, PCs DEF Take, StartPC

\* Everything but the handlers' own state: a step of one handler.
LEMMA RequestType == ASSUME TypeInv, NEW c \in Conn, Request(c) PROVE TypeInv'
<1>1. UNCHANGED <<store, home, task, local, row, started, dead, orphan, crashes>>
  BY DEF Request, ReceiveMessage, ReceiveReply, ReceiveCancel
<1>2. ConnMoves(c)
  BY RequestMoves
<1> QED BY <1>1, <1>2, InHandKept DEF TypeInv, TypeOK, store, ConnMoves

\* The look-ups of start_turn keep the types.
LEMMA StartType ==
    ASSUME TypeInv, NEW c \in Conn,
           \/ LookUpSession(c) \/ LookUpActive(c) \/ Acquire(c)
           \/ GetExisting(c) \/ GetExistingRecord(c) \/ Overwrite(c)
    PROVE  TypeInv'
<1>1. CASE LookUpSession(c) \/ LookUpActive(c) \/ GetExisting(c) \/ GetExistingRecord(c)
  <2>1. UNCHANGED <<store, home, task, local, row, started, dead, orphan, crashes>>
    BY <1>1 DEF LookUpSession, LookUpActive, GetExisting, GetExistingRecord
  <2> QED BY <1>1, <2>1, LookUpMoves, InHandKept DEF TypeInv, TypeOK, store, ConnMoves
<1>2. CASE Acquire(c) \/ Overwrite(c)
  <2>1. UNCHANGED <<rec, task, local, row, started, dead, orphan, crashes>>
    BY <1>2 DEF Acquire, Overwrite
  <2>2. ConnMoves(c)
    <3>1. CASE Goto(c, "getExisting") /\ conn[c].pc = "acquire"
      BY <3>1, GotoMoves, PCs DEF StartPC, WorkPC
    <3> QED BY <1>2, <3>1, TakeMoves DEF Acquire, Overwrite
  <2>3. /\ home' \in [Turn -> Session \cup {NoSession}]
        /\ key' \in [Session -> Turn \cup {NoTurn}]
    <3>1. CASE UNCHANGED <<key, home>>
      BY <3>1 DEF TypeInv, TypeOK
    <3> QED BY <1>2, <3>1, TakeType DEF Acquire, Overwrite, TypeInv
  <2> QED BY <2>1, <2>2, <2>3, InHandKept DEF TypeInv, TypeOK, ConnMoves
<1> QED BY <1>1, <1>2

\* The SETs of the handlers keep the types.
LEMMA SaveType ==
    ASSUME TypeInv, NEW c \in Conn,
           \/ StartSaveTurn(c) \/ StartSaveSession(c) \/ ReplySaveTurn(c)
           \/ CancelSaveTurn(c) \/ CancelSaveSession(c)
    PROVE  TypeInv'
<1>0. /\ conn[c].turn \in Turn \cup {NoTurn} /\ conn[c].seq \in 0..MaxEvents
      /\ 0 \in 0..MaxEvents
  BY ConnFields, BoundsAssumption DEF TypeInv
<1>1. ConnMoves(c)
  BY GotoMoves, PCs DEF StartSaveTurn, StartSaveSession, ReplySaveTurn, CancelSaveTurn, CancelSaveSession,
     StartPC, WorkPC
<1>2. rec' \in [Turn -> Record]
  <2>1. rec \in [Turn -> Record]
    BY DEF TypeInv, TypeOK
  <2> QED BY <1>0, <2>1, SaveTurnKeyType, PCs
       DEF StartSaveTurn, StartSaveSession, ReplySaveTurn, CancelSaveTurn, CancelSaveSession
<1>3. key' \in [Session -> Turn \cup {NoTurn}]
  <2>1. key \in [Session -> Turn \cup {NoTurn}]
    BY DEF TypeInv, TypeOK
  <2> QED BY <1>0, <2>1, SaveSessionKeyType
       DEF StartSaveTurn, StartSaveSession, ReplySaveTurn, CancelSaveTurn, CancelSaveSession
<1>4. started' \subseteq Turn
  BY DEF StartSaveTurn, StartSaveSession, ReplySaveTurn, CancelSaveTurn, CancelSaveSession,
         TypeInv, TypeOK, InHand, WorkPC
<1>5. UNCHANGED <<home, task, local, row, dead, orphan, crashes>>
  BY DEF StartSaveTurn, StartSaveSession, ReplySaveTurn, CancelSaveTurn, CancelSaveSession
<1> QED BY <1>1, <1>2, <1>3, <1>4, <1>5, InHandKept DEF TypeInv, TypeOK, ConnMoves

\* Creating a task keeps the types.
LEMMA CreateType ==
    ASSUME TypeInv, NEW c \in Conn, StartCreateTask(c) \/ ReplySaveSession(c)
    PROVE  TypeInv'
<1>0. /\ conn[c].turn \in Turn \cup {NoTurn} /\ conn[c].seq \in 0..MaxEvents
      /\ 0 \in 0..MaxEvents
  BY ConnFields, BoundsAssumption DEF TypeInv
<1>1. ConnMoves(c)
  BY IdleMoves DEF StartCreateTask, ReplySaveSession
<1>2. /\ task' \in [Task -> TaskState]
      /\ local' \in [Worker -> [Turn -> 0..MaxFragments]]
  BY <1>0, CreateTaskType DEF StartCreateTask, ReplySaveSession, TypeInv
<1>3. key' \in [Session -> Turn \cup {NoTurn}]
  <2>1. key \in [Session -> Turn \cup {NoTurn}]
    BY DEF TypeInv, TypeOK
  <2> QED BY <1>0, <2>1, SaveSessionKeyType DEF StartCreateTask, ReplySaveSession, store
<1>4. UNCHANGED <<rec, home, row, started, dead, orphan, crashes>>
  BY DEF StartCreateTask, ReplySaveSession, store
<1> QED BY <1>1, <1>2, <1>3, <1>4, InHandKept DEF TypeInv, TypeOK, ConnMoves

\* The steps of cancel_turn after its SETs keep the types.
LEMMA CancelType ==
    ASSUME TypeInv, NEW c \in Conn,
           \/ CancelLocalTask(c) \/ CancelWait(c)
           \/ CancelReleaseGet(c) \/ CancelReleaseDelete(c)
    PROVE  TypeInv'
<1>1. CASE CancelLocalTask(c)
  <2>1. UNCHANGED <<rec, key, home, row, started, dead, orphan, crashes>>
    BY <1>1 DEF CancelLocalTask, store
  <2>2. conn[c].turn \in Turn /\ conn[c].at \in Worker
    BY <1>1, ConnFields DEF CancelLocalTask, TypeInv, InHand, WorkPC
  <2>3. CASE /\ LocalBusy(conn[c].at, conn[c].turn)
             /\ Interrupt(<<conn[c].turn, local[conn[c].at][conn[c].turn]>>)
             /\ conn' = [conn EXCEPT ![c].pc = "cancelWait",
                                     ![c].frag = local[conn[c].at][conn[c].turn]]
    <3>1. local[conn[c].at][conn[c].turn] \in Fragment
      BY <2>2, <2>3, BoundsAssumption DEF TypeInv, TypeOK, LocalBusy, Fragment
    <3>2. local[conn[c].at][conn[c].turn] \in 0..MaxFragments
      BY <2>2 DEF TypeInv, TypeOK
    <3>3. <<conn[c].turn, local[conn[c].at][conn[c].turn]>> \in Task
      BY <2>2, <3>1 DEF Task
    <3>4. /\ task' \in [Task -> TaskState]
          /\ local' \in [Worker -> [Turn -> 0..MaxFragments]]
      BY <2>3, <3>3, InterruptType DEF TypeInv
    <3>5. ConnMoves(c)
      <4>1. conn \in [Conn -> ConnState]
        BY ConnFields DEF TypeInv
      <4>2. "cancelWait" \in ConnPC
        BY PCs
      <4>3. conn' \in [Conn -> ConnState]
        BY ZenonT(40), <2>3, <3>2, <4>1, <4>2 DEF ConnState
      <4>4. conn'[c].pc = "cancelWait" /\ conn'[c].turn = conn[c].turn
        BY <2>3, <4>1 DEF ConnState
      <4> QED BY <2>2, <2>3, <4>3, <4>4 DEF ConnMoves, StartPC
    <3> QED BY <2>1, <3>4, <3>5, InHandKept DEF TypeInv, TypeOK, ConnMoves
  <2>4. CASE Goto(c, "releaseGet") /\ UNCHANGED <<task, local>>
    <3>1. ConnMoves(c)
      BY <1>1, <2>4, GotoMoves, PCs DEF CancelLocalTask, StartPC, WorkPC
    <3> QED BY <2>1, <2>4, <3>1, InHandKept DEF TypeInv, TypeOK, ConnMoves
  <2> QED BY <1>1, <2>3, <2>4 DEF CancelLocalTask
<1>2. CASE CancelWait(c)
  <2>1. ConnMoves(c)
    BY <1>2, GotoMoves, PCs DEF CancelWait, StartPC, WorkPC
  <2> QED BY <1>2, <2>1, InHandKept DEF CancelWait, TypeInv, TypeOK, ConnMoves, store
<1>3. CASE CancelReleaseGet(c)
  <2>1. ConnMoves(c)
    BY <1>3, GotoMoves, IdleMoves, PCs DEF CancelReleaseGet, StartPC, WorkPC
  <2> QED BY <1>3, <2>1, InHandKept DEF CancelReleaseGet, TypeInv, TypeOK, ConnMoves, store
<1>4. CASE CancelReleaseDelete(c)
  <2>1. ConnMoves(c)
    BY <1>4, IdleMoves DEF CancelReleaseDelete
  <2>2. key' \in [Session -> Turn \cup {NoTurn}]
    BY <1>4 DEF CancelReleaseDelete, TypeInv, TypeOK
  <2> QED BY <1>4, <2>1, <2>2, InHandKept DEF CancelReleaseDelete, TypeInv, TypeOK, ConnMoves
<1> QED BY <1>1, <1>2, <1>3, <1>4

----------------------------------------------------------------------------
\* The tasks.

\* A task's new state, put in place.
LEMMA TaskSetType ==
    ASSUME task \in [Task -> TaskState], NEW k \in Task, NEW p \in TaskPC, NEW st \in Status,
           \/ task' = [task EXCEPT ![k].pc = p]
           \/ task' = [task EXCEPT ![k].pc = p, ![k].status = st]
           \/ task' = [task EXCEPT ![k].pc = p, ![k].status = st, ![k].handler = TRUE]
    PROVE  task' \in [Task -> TaskState]
BY DEF TaskState

\* The steps of _execute_turn keep the types.
LEMMA TaskType == ASSUME TypeInv, NEW k \in Task, TaskStep(k) PROVE TypeInv'
<1>0. /\ task \in [Task -> TaskState] /\ k[1] \in Turn
      /\ task[k].status \in Status /\ task[k].seq \in 0..MaxEvents /\ task[k].from \in 0..MaxEvents
  BY TaskFields DEF TypeInv
<1>1. UNCHANGED <<home, conn, started, orphan, crashes>>
  BY DEF TaskStep, TaskBegin, TaskEvent, TaskStreamEnd, TaskStreamError, TaskSaveTurn,
         TaskSaveSession, TaskPersist, TaskCommit, TaskReleaseGet, TaskReleaseDelete
<1>2. rec' \in [Turn -> Record] /\ key' \in [Session -> Turn \cup {NoTurn}]
  <2>0. rec \in [Turn -> Record] /\ key \in [Session -> Turn \cup {NoTurn}]
    BY DEF TypeInv, TypeOK
  <2>1. CASE TaskSaveTurn(k)
    BY <1>0, <2>0, <2>1, SaveTurnKeyType DEF TaskSaveTurn
  <2>2. CASE TaskSaveSession(k)
    BY <1>0, <2>0, <2>2, SaveSessionKeyType DEF TaskSaveSession
  <2>3. CASE TaskReleaseDelete(k)
    BY <2>0, <2>3 DEF TaskReleaseDelete
  <2>4. CASE UNCHANGED store
    BY <2>0, <2>4 DEF store
  <2> QED BY <2>1, <2>2, <2>3, <2>4 DEF TaskStep, TaskBegin, TaskEvent, TaskStreamEnd,
               TaskStreamError, TaskPersist, TaskCommit, TaskReleaseGet
<1>3. row' \in [Turn -> Row] /\ dead' \subseteq Turn
  <2>0. row \in [Turn -> Row] /\ dead \subseteq Turn
    BY DEF TypeInv, TypeOK
  <2>1. CASE TaskPersist(k)
    <3>1. FragmentEvents(k) \in Seq(Nat)
      <4>1. /\ \A i \in 1..(task[k].seq - task[k].from) : task[k].from + i \in Nat
            /\ task[k].seq \in Nat /\ task[k].from \in Nat
        BY <1>0
      <4> QED BY <4>1 DEF FragmentEvents
    <3>2. row[k[1]].events \in Seq(Nat)
      BY <1>0, <2>0 DEF Row
    <3>3. row[k[1]].events \o FragmentEvents(k) \in Seq(Nat)
      BY <3>1, <3>2
    <3>4. [status |-> task[k].status, events |-> row[k[1]].events \o FragmentEvents(k)] \in Row
      BY <1>0, <3>3 DEF Row
    <3> QED BY <1>0, <2>0, <2>1, <3>4 DEF TaskPersist
  <2> QED BY <2>0, <2>1 DEF TaskStep, TaskBegin, TaskEvent, TaskStreamEnd, TaskStreamError,
               TaskSaveTurn, TaskSaveSession, TaskCommit, TaskReleaseGet, TaskReleaseDelete
<1>4. /\ task' \in [Task -> TaskState]
      /\ local' \in [Worker -> [Turn -> 0..MaxFragments]]
  <2>0. local \in [Worker -> [Turn -> 0..MaxFragments]]
    BY DEF TypeInv, TypeOK
  <2>1. ASSUME NEW st, Finally(k, st)
        PROVE  task' \in [Task -> TaskState] /\ local' \in [Worker -> [Turn -> 0..MaxFragments]]
    BY <2>1, FinallyType DEF TypeInv
  <2>2. CASE TaskBegin(k) \/ TaskSaveTurn(k) \/ TaskReleaseGet(k) \/ TaskReleaseDelete(k)
    <3>1. PICK p \in TaskPC : task' = [task EXCEPT ![k].pc = p]
      BY <2>2, PCs DEF TaskBegin, TaskSaveTurn, TaskReleaseGet, TaskReleaseDelete
    <3>2. local' = local
      BY <2>2 DEF TaskBegin, TaskSaveTurn, TaskReleaseGet, TaskReleaseDelete
    <3> QED BY <1>0, <2>0, <3>1, <3>2, TaskSetType
  <2>3. CASE TaskStreamEnd(k) \/ TaskStreamError(k)
    <3>1. local' = local
      BY <2>3 DEF TaskStreamEnd, TaskStreamError
    <3>2. "saveTurn" \in TaskPC /\ {"paused", "completed", "error"} \subseteq Status
      BY PCs
    <3>3. PICK st \in Status :
             \/ task' = [task EXCEPT ![k].pc = "saveTurn", ![k].status = st]
             \/ task' = [task EXCEPT ![k].pc = "saveTurn", ![k].status = st, ![k].handler = TRUE]
      BY <2>3, <3>2 DEF TaskStreamEnd, TaskStreamError
    <3> QED BY <1>0, <2>0, <3>1, <3>2, <3>3, TaskSetType
  <2>4. CASE TaskEvent(k)
    <3>1. local' = local
      BY <2>4 DEF TaskEvent
    <3>2. CASE task' = [task EXCEPT ![k].pc = "saveTurn", ![k].status = "cancelled"]
      BY <1>0, <2>0, <3>1, <3>2, TaskSetType, PCs
    <3>3. ASSUME NEW ask \in BOOLEAN, task[k].seq < MaxEvents,
                 task' = [task EXCEPT ![k].seq = @ + 1, ![k].asked = @ \/ ask]
          PROVE  task' \in [Task -> TaskState]
      <4>1. task[k].seq + 1 \in 0..MaxEvents
        BY <1>0, <3>3, BoundsAssumption
      <4>2. (task[k].asked \/ ask) \in BOOLEAN
        OBVIOUS
      <4>3. task' = [task EXCEPT ![k].seq = task[k].seq + 1, ![k].asked = task[k].asked \/ ask]
        BY <3>3
      <4> QED BY ZenonT(40), <1>0, <4>1, <4>2, <4>3 DEF TaskState
    <3> QED BY <2>0, <2>4, <3>1, <3>2, <3>3 DEF TaskEvent
  <2>5. CASE TaskSaveSession(k)
    <3>1. CASE task' = [task EXCEPT ![k].pc = "persist"] /\ UNCHANGED local
      BY <1>0, <2>0, <3>1, TaskSetType, PCs
    <3> QED BY <2>1, <2>5, <3>1 DEF TaskSaveSession
  <2>6. CASE TaskPersist(k)
    <3>1. CASE task' = [task EXCEPT ![k].pc = "commit"] /\ UNCHANGED local
      BY <1>0, <2>0, <3>1, TaskSetType, PCs
    <3> QED BY <2>1, <2>6, <3>1 DEF TaskPersist
  <2>7. CASE TaskCommit(k)
    <3>1. CASE /\ task' = [task EXCEPT ![k].pc = "saveTurn", ![k].status = "error",
                                       ![k].handler = TRUE]
               /\ UNCHANGED local
      BY <1>0, <2>0, <3>1, TaskSetType, PCs
    <3> QED BY <2>1, <2>7, <3>1 DEF TaskCommit
  <2> QED BY <2>2, <2>3, <2>4, <2>5, <2>6, <2>7 DEF TaskStep
<1> QED BY <1>1, <1>2, <1>3, <1>4 DEF TypeInv, TypeOK, InHand
----------------------------------------------------------------------------

\* The types hold initially,
LEMMA TypeInit == Init => TypeInv
<1> SUFFICES ASSUME Init PROVE TypeInv
  OBVIOUS
<1>1. rec \in [Turn -> Record]
  BY BoundsAssumption DEF Init, NoRec, Record
<1>2. conn \in [Conn -> ConnState] /\ \A c \in Conn : conn[c].pc = "idle"
  <2>1. \A w \in Worker : IdleAt(w) \in ConnState /\ IdleAt(w).pc = "idle"
    BY BoundsAssumption, PCs DEF IdleAt, ConnState
  <2>2. conn \in [Conn -> {IdleAt(w) : w \in Worker}]
    BY DEF Init
  <2> QED BY <2>1, <2>2
<1>3. task \in [Task -> TaskState]
  <2>1. \A w \in Worker : Unborn(w) \in TaskState
    BY BoundsAssumption, PCs DEF Unborn, TaskState
  <2> QED BY <2>1 DEF Init
<1>4. row \in [Turn -> Row]
  BY DEF Init, Row
<1>5. /\ key \in [Session -> Turn \cup {NoTurn}]
      /\ home \in [Turn -> Session \cup {NoSession}]
  BY DEF Init
<1>6. local \in [Worker -> [Turn -> 0..MaxFragments]]
  BY BoundsAssumption DEF Init
<1>7. started \subseteq Turn /\ dead \subseteq Turn /\ orphan \subseteq Turn /\ crashes \in 0..MaxCrashes
  BY BoundsAssumption DEF Init
<1>8. InHand
  BY <1>2, DisjointPCs DEF InHand
<1> QED BY <1>1, <1>2, <1>3, <1>4, <1>5, <1>6, <1>7, <1>8 DEF TypeInv, TypeOK

\* A worker's crash keeps the types.
LEMMA CrashType == ASSUME TypeInv, NEW w \in Worker, Crash(w) PROVE TypeInv'
<1>1. task' \in [Task -> TaskState]
  <2>1. \A k \in Task : Gone(k, "lost") \in TaskState
    BY GoneType, PCs DEF TypeInv, TypeOK
  <2> QED BY <2>1 DEF Crash, TypeInv, TypeOK
<1>2. local' \in [Worker -> [Turn -> 0..MaxFragments]]
  BY BoundsAssumption DEF Crash, TypeInv, TypeOK
<1>3. conn' \in [Conn -> ConnState] /\ InHand'
  <2>1. IdleAt(w) \in ConnState /\ IdleAt(w).pc = "idle"
    BY BoundsAssumption, PCs DEF IdleAt, ConnState
  <2>2. conn \in [Conn -> ConnState] /\ InHand
    BY DEF TypeInv, TypeOK
  <2>3. conn' = [c \in Conn |-> IF conn[c].at = w THEN IdleAt(w) ELSE conn[c]]
    BY DEF Crash
  <2>4. conn' \in [Conn -> ConnState]
    BY <2>1, <2>2, <2>3
  <2> QED BY <2>1, <2>2, <2>3, <2>4, DisjointPCs DEF InHand
<1>4. /\ orphan' \subseteq Turn
      /\ crashes' \in 0..MaxCrashes
  BY BoundsAssumption DEF Crash, TypeInv, TypeOK
<1>5. UNCHANGED <<rec, key, home, row, started, dead>>
  BY DEF Crash, store
<1> QED BY <1>1, <1>2, <1>3, <1>4, <1>5 DEF TypeInv, TypeOK

\* A reconnecting client keeps the types.
LEMMA ReconnectType == ASSUME TypeInv, NEW c \in Conn, Reconnect(c) PROVE TypeInv'
<1>1. PICK w \in Worker : conn' = [conn EXCEPT ![c] = IdleAt(w)]
  BY ConnFields DEF Reconnect, TypeInv
<1>2. IdleAt(w) \in ConnState /\ IdleAt(w).pc = "idle"
  BY BoundsAssumption, PCs DEF IdleAt, ConnState
<1>3. conn \in [Conn -> ConnState]
  BY ConnFields DEF TypeInv
<1>4. ConnMoves(c)
  BY <1>1, <1>2, <1>3, DisjointPCs DEF ConnMoves
<1> QED BY <1>4, InHandKept DEF Reconnect, TypeInv, TypeOK, ConnMoves, store

\* and every step keeps them.
LEMMA TypeStep == TypeInv /\ [Next]_vars => TypeInv'
<1> SUFFICES ASSUME TypeInv, [Next]_vars PROVE TypeInv'
  OBVIOUS
<1>1. ASSUME NEW c \in Conn, HandlerStep(c) PROVE TypeInv'
  BY <1>1, StartType, SaveType, CreateType, CancelType DEF HandlerStep
<1>2. ASSUME NEW t \in Turn, ExpireTurn(t) PROVE TypeInv'
  <2>1. NoRec \in Record
    BY BoundsAssumption DEF NoRec, Record
  <2>2. rec' \in [Turn -> Record]
    BY <1>2, <2>1 DEF ExpireTurn, TypeInv, TypeOK
  <2> QED BY <1>2, <2>2 DEF ExpireTurn, TypeInv, TypeOK, InHand
<1>3. ASSUME NEW s \in Session, ExpireSession(s) PROVE TypeInv'
  BY <1>3 DEF ExpireSession, TypeInv, TypeOK, InHand
<1>4. CASE UNCHANGED vars
  BY <1>4 DEF vars, TypeInv, TypeOK, InHand
<1> QED BY <1>1, <1>2, <1>3, <1>4, RequestType, TaskType, CrashType, ReconnectType DEF Next

\* The records of Redis, of the handlers and of the tasks keep their types,
\* whatever the clients send and whenever workers die.
THEOREM TypeCorrect == Spec => []TypeOK
<1>1. Spec => []TypeInv
  BY TypeInit, TypeStep, PTL DEF Spec
<1>2. TypeInv => TypeOK
  BY DEF TypeInv
<1> QED BY <1>1, <1>2, PTL


----------------------------------------------------------------------------
(* The inductive invariant behind OneExecutor, RunningIsServed and         *)
(* CancelStopsLocalTask. It needs Exclusive: a session's messages come     *)
(* from one connection at a time, so that a record a handler has checked   *)
(* is not changed by another handler before it is written back.            *)

BeginPC  == {"startSaveSession", "startSend", "replySaveSession"}
BeforePC == {"startSaveTurn", "startSaveSession", "startSend", "replySaveTurn",
             "replySaveSession"}
\* The task has its entry in _local_tasks.
Registered(k) ==
    task[k].pc \in {"new", "stream", "saveTurn", "saveSession", "persist", "commit"}

\* A handler works in a session of its own connection.
HomeOK(c) ==
    /\ conn[c].pc \in StartPC => conn[c].session \in Reach[c]
    /\ conn[c].pc \in WorkPC => home[conn[c].turn] \in Reach[c]
\* A handler that will create a task finds the turn unexecuted.
BeforeOK(c) ==
    conn[c].pc \in BeforePC =>
        \A n \in Fragment :
            /\ ~Active(<<conn[c].turn, n>>)
            /\ task[<<conn[c].turn, n>>].at = conn[c].at => ~Registered(<<conn[c].turn, n>>)
\* Until the cancelling handler has reached the task, nothing says "running".
SavedOK(c) ==
    conn[c].pc \in {"cancelSaveSession", "cancelTask"} => rec[conn[c].turn].status # "running"
\* Afterwards nothing of the turn runs on the handler's worker.
DoneOK(c) ==
    conn[c].pc \in {"cancelWait", "releaseGet", "releaseDel"} =>
        \A n \in Fragment :
            task[<<conn[c].turn, n>>].at = conn[c].at => ~Active(<<conn[c].turn, n>>)
Handlers == \A c \in Conn : HomeOK(c) /\ BeforeOK(c) /\ SavedOK(c) /\ DoneOK(c)

\* A turn nobody has started has no task.
FreshTurns ==
    \A t \in Turn : home[t] = NoSession => \A n \in Fragment : task[<<t, n>>].pc = "unborn"
\* A paused turn is not being executed, and nobody is about to.
PausedIsQuiet ==
    \A t \in Turn : rec[t].status = "paused" =>
        /\ \A n \in Fragment : ~Active(<<t, n>>)
        /\ \A c \in Conn : ~(conn[c].pc \in BeginPC /\ conn[c].turn = t)
\* _local_tasks finds every task that has not reached its finally block.
Registry == \A t \in Turn, n \in Fragment :
    Registered(<<t, n>>) => local[task[<<t, n>>].at][t] = n
\* An entry of _local_tasks names a task of this worker that has not been
\* through its finally block, unless it has ended.
Entries == \A w \in Worker, t \in Turn, n \in Fragment :
    local[w][t] = n =>
        /\ task[<<t, n>>].pc # "unborn" /\ task[<<t, n>>].at = w
        /\ Live(<<t, n>>) => Registered(<<t, n>>)
\* What a task saves is an outcome.
Outcome == \A k \in Task : task[k].pc = "saveTurn" => task[k].status # "running"

Inv == /\ Handlers /\ FreshTurns /\ PausedIsQuiet /\ Registry /\ Entries
       /\ Outcome /\ OneExecutor /\ RunningIsServed

\* No two handlers work on the same turn.
LEMMA OneHandler ==
    ASSUME Exclusive, Handlers, NEW c \in Conn, NEW d \in Conn,
           conn[c].pc \in WorkPC, conn[d].pc \in WorkPC, conn[c].turn = conn[d].turn
    PROVE  c = d
BY DEF Exclusive, Handlers, HomeOK

\* The invariant holds initially.
LEMMA InvInit == Init => Inv
<1> SUFFICES ASSUME Init PROVE Inv
  OBVIOUS
<1>1. /\ \A c \in Conn : conn[c].pc = "idle"
      /\ \A k \in Task : task[k].pc = "unborn"
      /\ \A t \in Turn : rec[t].status = "none"
      /\ \A w \in Worker, t \in Turn : local[w][t] = 0
  <2>1. \A w \in Worker : IdleAt(w).pc = "idle" /\ Unborn(w).pc = "unborn"
    BY DEF IdleAt, Unborn
  <2> QED BY <2>1 DEF Init, NoRec
<1>2. \A t \in Turn, n \in Fragment : <<t, n>> \in Task
  BY DEF Task
<1>3. Handlers
  BY <1>1 DEF Handlers, HomeOK, BeforeOK, SavedOK, DoneOK, StartPC, WorkPC, BeforePC
<1>4. FreshTurns /\ PausedIsQuiet /\ Registry /\ Outcome /\ OneExecutor /\ RunningIsServed
  BY <1>1, <1>2 DEF FreshTurns, PausedIsQuiet, Registry, Registered, Outcome, OneExecutor,
       RunningIsServed, Active
<1>5. Entries
  BY <1>1, BoundsAssumption DEF Entries, Fragment
<1> QED BY <1>3, <1>4, <1>5 DEF Inv

\* A step of one handler that leaves the store's records and the tasks alone.
LEMMA HandlerMoves ==
    ASSUME TypeInv, Inv, NEW c \in Conn, ConnMoves(c),
           UNCHANGED <<rec, home, task, local, orphan>>,
           HomeOK(c)', BeforeOK(c)', SavedOK(c)', DoneOK(c)',
           conn[c].pc \in BeginPC <=> conn'[c].pc \in BeginPC,
           conn[c].pc \in BeginPC => conn'[c].turn = conn[c].turn
    PROVE  Inv'
<1>1. \A k : /\ (Active(k)' <=> Active(k)) /\ (Registered(k)' <=> Registered(k))
            /\ (Settles(k)' <=> Settles(k)) /\ (Live(k)' <=> Live(k))
  BY DEF Active, Registered, Settles, Live
<1>2. Handlers'
  <2> SUFFICES ASSUME NEW d \in Conn, d # c
               PROVE  (HomeOK(d) /\ BeforeOK(d) /\ SavedOK(d) /\ DoneOK(d))'
    BY DEF Handlers
  <2>1. conn'[d] = conn[d]
    BY DEF ConnMoves
  <2> QED BY <1>1, <2>1 DEF Inv, Handlers, HomeOK, BeforeOK, SavedOK, DoneOK
<1>3. \A d \in Conn, t \in Turn : (conn'[d].pc \in BeginPC /\ conn'[d].turn = t) <=> (conn[d].pc \in BeginPC /\ conn[d].turn = t)
  BY DEF ConnMoves
<1>4. PausedIsQuiet'
  BY <1>1, <1>3 DEF Inv, PausedIsQuiet
<1>5. RunningIsServed'
  BY <1>1, <1>3 DEF Inv, RunningIsServed, Beginning, Handling, BeginPC, WorkPC
<1>6. FreshTurns' /\ Registry' /\ Outcome' /\ OneExecutor'
  BY <1>1 DEF Inv, FreshTurns, Registry, Outcome, OneExecutor
<1>7. Entries'
  BY <1>1 DEF Inv, Entries
<1> QED BY <1>2, <1>4, <1>5, <1>6, <1>7 DEF Inv

\* Where a handler stands after moving on.
LEMMA GotoFields ==
    ASSUME TypeInv, NEW c \in Conn, NEW p \in ConnPC, Goto(c, p)
    PROVE  /\ conn'[c].pc = p /\ conn'[c].turn = conn[c].turn
           /\ conn'[c].session = conn[c].session /\ conn'[c].at = conn[c].at
<1>1. conn \in [Conn -> ConnState]
  BY ConnFields DEF TypeInv
<1>2. conn' = [conn EXCEPT ![c].pc = p]
  BY DEF Goto
<1> QED BY <1>1, <1>2 DEF ConnState

\* ... after going idle,
LEMMA IdleFields ==
    ASSUME TypeInv, NEW c \in Conn, ConnIdle(c)
    PROVE  conn'[c].pc = "idle"
<1>1. conn \in [Conn -> ConnState]
  BY ConnFields DEF TypeInv
<1> QED BY <1>1 DEF ConnIdle, IdleAt

\* ... after looking at a turn,
LEMMA LookFields ==
    ASSUME TypeInv, NEW c \in Conn, NEW p, NEW t,
           conn' = [conn EXCEPT ![c].pc = p, ![c].turn = t]
    PROVE  /\ conn'[c].pc = p /\ conn'[c].turn = t
           /\ conn'[c].session = conn[c].session /\ conn'[c].at = conn[c].at
<1>1. conn \in [Conn -> ConnState]
  BY ConnFields DEF TypeInv
<1> QED BY <1>1 DEF ConnState

\* ... after loading a turn.
LEMMA LoadFields ==
    ASSUME TypeInv, NEW c \in Conn, NEW p, NEW t, NEW q,
           conn' = [conn EXCEPT ![c].pc = p, ![c].turn = t, ![c].seq = q]
    PROVE  /\ conn'[c].pc = p /\ conn'[c].turn = t /\ conn'[c].at = conn[c].at
<1>1. conn \in [Conn -> ConnState]
  BY ConnFields DEF TypeInv
<1> QED BY <1>1 DEF ConnState

\* A handler that goes idle or keeps looking owes nothing to the invariant.
LEMMA FreeHandler ==
    ASSUME NEW c \in Conn, conn'[c].pc \notin WorkPC,
           conn'[c].pc \in StartPC => conn'[c].session \in Reach[c]
    PROVE  HomeOK(c)' /\ BeforeOK(c)' /\ SavedOK(c)' /\ DoneOK(c)'
BY DEF HomeOK, BeforeOK, SavedOK, DoneOK, WorkPC, BeforePC

\* Receiving a message keeps the invariant: a reply's checks of the record
\* and of _local_tasks are what BeforeOK asks for.
LEMMA RequestInv == ASSUME TypeInv, Inv, NEW c \in Conn, Request(c) PROVE Inv'
<1>1. ConnMoves(c)
  BY RequestMoves
<1>2. UNCHANGED <<rec, home, task, local, orphan>> /\ conn[c].pc = "idle"
  BY DEF Request, ReceiveMessage, ReceiveReply, ReceiveCancel, store
<1>3. CASE ReceiveMessage(c)
  <2>1. PICK s \in Reach[c] : conn' = [conn EXCEPT ![c].pc = "lookKey", ![c].session = s]
    BY <1>3 DEF ReceiveMessage
  <2>2. conn \in [Conn -> ConnState]
    BY ConnFields DEF TypeInv
  <2>3. conn'[c].pc = "lookKey" /\ conn'[c].session = s
    BY <2>1, <2>2 DEF ConnState
  <2> QED BY <1>1, <1>2, <2>3, HandlerMoves, FreeHandler DEF WorkPC, BeginPC
<1>4. CASE ReceiveReply(c)
  <2>1. PICK t \in Turn :
          /\ Known(c, t) /\ rec[t].status = "paused" /\ ~LocalBusy(conn[c].at, t)
          /\ conn' = [conn EXCEPT ![c].pc = "replySaveTurn", ![c].turn = t, ![c].seq = rec[t].seq]
    BY <1>4 DEF ReceiveReply
  <2>2. conn'[c].pc = "replySaveTurn" /\ conn'[c].turn = t /\ conn'[c].at = conn[c].at
    BY <2>1, LoadFields
  <2>3. \A n \in Fragment : ~Active(<<t, n>>)
    BY <2>1 DEF Inv, PausedIsQuiet
  <2>4. ASSUME NEW n \in Fragment, task[<<t, n>>].at = conn[c].at, Registered(<<t, n>>) PROVE FALSE
    <3>1. local[conn[c].at][t] = n
      BY <2>4 DEF Inv, Registry
    <3>2. n # 0 /\ Live(<<t, n>>)
      BY <2>4, BoundsAssumption DEF Fragment, Registered, Live
    <3> QED BY <2>1, <3>1, <3>2 DEF LocalBusy
  <2>5. HomeOK(c)' /\ SavedOK(c)' /\ DoneOK(c)'
    BY <1>2, <2>1, <2>2 DEF HomeOK, SavedOK, DoneOK, Known, StartPC
  <2>6. BeforeOK(c)'
    BY <1>2, <2>2, <2>3, <2>4 DEF BeforeOK, Active, Registered
  <2> QED BY <1>1, <1>2, <2>2, <2>5, <2>6, HandlerMoves DEF BeginPC
<1>5. CASE ReceiveCancel(c)
  <2>1. PICK t \in Turn :
          /\ Known(c, t)
          /\ conn' = [conn EXCEPT ![c].pc = "cancelSaveTurn", ![c].turn = t, ![c].seq = rec[t].seq]
    BY <1>5 DEF ReceiveCancel
  <2>2. conn'[c].pc = "cancelSaveTurn" /\ conn'[c].turn = t
    <3>1. conn' = [conn EXCEPT ![c].pc = "cancelSaveTurn", ![c].turn = t, ![c].seq = rec[t].seq]
      BY <2>1
    <3>2. conn \in [Conn -> ConnState]
      BY ConnFields DEF TypeInv
    <3> QED BY <3>1, <3>2 DEF ConnState
  <2>3. HomeOK(c)' /\ BeforeOK(c)' /\ SavedOK(c)' /\ DoneOK(c)'
    BY <1>2, <2>1, <2>2 DEF HomeOK, BeforeOK, SavedOK, DoneOK, Known, StartPC, BeforePC
  <2> QED BY <1>1, <1>2, <2>2, <2>3, HandlerMoves DEF BeginPC
<1> QED BY <1>3, <1>4, <1>5 DEF Request

\* The look-ups of start_turn keep it.
LEMMA LookUpInv ==
    ASSUME TypeInv, Inv, NEW c \in Conn,
           LookUpSession(c) \/ LookUpActive(c) \/ GetExisting(c) \/ GetExistingRecord(c)
    PROVE  Inv'
<1>1. ConnMoves(c)
  BY LookUpMoves
<1>2. UNCHANGED <<rec, home, task, local, orphan>>
  BY DEF LookUpSession, LookUpActive, GetExisting, GetExistingRecord, store
<1>3. conn[c].pc \in StartPC /\ conn[c].session \in Reach[c]
  BY DEF LookUpSession, LookUpActive, GetExisting, GetExistingRecord, StartPC, Inv, Handlers, HomeOK
<1>4. \/ conn'[c].pc = "idle"
      \/ conn'[c].pc \in StartPC /\ conn'[c].session = conn[c].session
  <2>1. "acquire" \in StartPC \cap ConnPC /\ {"lookRec", "overwrite", "getExistingRec"} \subseteq StartPC
    BY DEF StartPC, ConnPC
  <2>2. ASSUME NEW p \in StartPC, NEW t, conn' = [conn EXCEPT ![c].pc = p, ![c].turn = t]
        PROVE  conn'[c].pc \in StartPC /\ conn'[c].session = conn[c].session
    BY <2>2, LookFields
  <2>3. ASSUME conn' = [conn EXCEPT ![c].pc = "acquire"]
        PROVE  conn'[c].pc \in StartPC /\ conn'[c].session = conn[c].session
    BY <2>1, <2>3, GotoFields DEF Goto
  <2> QED BY <2>1, <2>2, <2>3, IdleFields DEF LookUpSession, LookUpActive, GetExisting, GetExistingRecord
<1>5. conn'[c].pc \notin WorkPC /\ conn'[c].pc \notin BeginPC /\ conn[c].pc \notin BeginPC
  BY <1>3, <1>4 DEF StartPC, WorkPC, BeginPC
<1> QED BY <1>1, <1>2, <1>3, <1>4, <1>5, HandlerMoves, FreeHandler, DisjointPCs

\* Taking the session key for a fresh turn keeps it,
LEMMA TakeInv ==
    ASSUME TypeInv, Inv, NEW c \in Conn, NEW t \in Turn, Take(c, t),
           conn[c].pc \in {"acquire", "overwrite"}, UNCHANGED <<rec, task, local, orphan>>
    PROVE  Inv'
<1>1. ConnMoves(c)
  BY TakeMoves DEF StartPC
<1>2. /\ conn'[c].pc = "startSaveTurn" /\ conn'[c].turn = t /\ conn'[c].at = conn[c].at
      /\ home[t] = NoSession /\ home'[t] = conn[c].session
      /\ \A u \in Turn \ {t} : home'[u] = home[u]
  <2>1. home[t] = NoSession /\ home' = [home EXCEPT ![t] = conn[c].session]
    BY DEF Take
  <2>2. conn' = [conn EXCEPT ![c].pc = "startSaveTurn", ![c].turn = t]
    BY DEF Take
  <2>3. conn'[c].pc = "startSaveTurn" /\ conn'[c].turn = t /\ conn'[c].at = conn[c].at
    BY ZenonT(40), <2>2, LookFields
  <2> QED BY <2>1, <2>3 DEF TypeInv, TypeOK
<1>3. \A k : /\ (Active(k)' <=> Active(k)) /\ (Registered(k)' <=> Registered(k))
            /\ (Settles(k)' <=> Settles(k)) /\ (Live(k)' <=> Live(k))
  BY DEF Active, Registered, Settles, Live
<1>4. \A n \in Fragment : task[<<t, n>>].pc = "unborn"
  BY <1>2 DEF Inv, FreshTurns
<1>5. conn[c].session \in Reach[c] /\ conn[c].session \in Session
  BY NamesAssumption DEF Inv, Handlers, HomeOK, StartPC
<1>6. Handlers'
  <2>1. HomeOK(c)' /\ SavedOK(c)' /\ DoneOK(c)'
    BY <1>2, <1>5 DEF HomeOK, SavedOK, DoneOK, StartPC
  <2>2. BeforeOK(c)'
    BY <1>2, <1>3, <1>4 DEF BeforeOK, Active, Registered
  <2>3. ASSUME NEW d \in Conn, d # c PROVE (HomeOK(d) /\ BeforeOK(d) /\ SavedOK(d) /\ DoneOK(d))'
    <3>1. conn'[d] = conn[d]
      BY <1>1, <2>3 DEF ConnMoves
    <3>2. HomeOK(d)'
      <4>1. conn[d].pc \in WorkPC => conn[d].turn # t /\ conn[d].turn \in Turn
        BY <1>2, NamesAssumption DEF Inv, Handlers, HomeOK, TypeInv, InHand
      <4> QED BY <1>2, <3>1, <4>1 DEF Inv, Handlers, HomeOK
    <3> QED BY <1>3, <3>1, <3>2 DEF Inv, Handlers, BeforeOK, SavedOK, DoneOK
  <2> QED BY <2>1, <2>2, <2>3 DEF Handlers
<1>7. \A d \in Conn, u \in Turn : (conn'[d].pc \in BeginPC /\ conn'[d].turn = u) <=> (conn[d].pc \in BeginPC /\ conn[d].turn = u)
  BY <1>1, <1>2 DEF ConnMoves, BeginPC
<1>8. PausedIsQuiet'
  BY <1>3, <1>7 DEF Inv, PausedIsQuiet
<1>9. RunningIsServed'
  BY <1>3, <1>7 DEF Inv, RunningIsServed, Beginning, Handling, BeginPC, WorkPC
<1>10. FreshTurns'
  BY <1>2, <1>5, NamesAssumption DEF Inv, FreshTurns
<1>11. Registry' /\ Outcome' /\ OneExecutor'
  BY <1>3 DEF Inv, Registry, Outcome, OneExecutor
<1>12. Entries'
  BY <1>3 DEF Inv, Entries
<1> QED BY <1>6, <1>8, <1>9, <1>10, <1>11, <1>12 DEF Inv

\* with SET NX or with the unconditional SET.
LEMMA AcquireInv == ASSUME TypeInv, Inv, NEW c \in Conn, Acquire(c) \/ Overwrite(c) PROVE Inv'
<1>1. UNCHANGED <<rec, task, local, orphan>> /\ conn[c].pc \in {"acquire", "overwrite"}
  BY DEF Acquire, Overwrite
<1>2. CASE Goto(c, "getExisting") /\ UNCHANGED home /\ conn[c].pc = "acquire"
  <2>1. ConnMoves(c)
    BY <1>2, GotoMoves, PCs DEF StartPC, WorkPC
  <2>2. conn'[c].pc = "getExisting" /\ conn'[c].session = conn[c].session
    BY <1>2, GotoFields, PCs
  <2>3. conn[c].session \in Reach[c]
    BY <1>2 DEF Inv, Handlers, HomeOK, StartPC
  <2> QED BY <1>1, <1>2, <2>1, <2>2, <2>3, HandlerMoves, FreeHandler DEF WorkPC, BeginPC
<1> QED BY <1>1, <1>2, TakeInv DEF Acquire, Overwrite

\* The handler steps that neither write a record nor touch a task.
LEMMA QuietInv ==
    ASSUME TypeInv, Inv, NEW c \in Conn,
           \/ StartSaveSession(c) \/ CancelSaveSession(c) \/ CancelWait(c)
           \/ CancelReleaseGet(c) \/ CancelReleaseDelete(c) \/ Reconnect(c)
    PROVE  Inv'
<1>1. UNCHANGED <<rec, home, task, local, orphan>>
  BY DEF StartSaveSession, CancelSaveSession, CancelWait, CancelReleaseGet,
         CancelReleaseDelete, Reconnect, store
<1>2. CASE conn'[c].pc = "idle" /\ conn[c].pc \notin BeginPC /\ ConnMoves(c)
  BY <1>1, <1>2, HandlerMoves, FreeHandler, DisjointPCs DEF BeginPC
<1>3. ASSUME NEW p \in ConnPC, Goto(c, p),
             \/ conn[c].pc = "startSaveSession" /\ p = "startSend"
             \/ conn[c].pc = "cancelSaveSession" /\ p = "cancelTask"
             \/ conn[c].pc \in {"cancelWait", "releaseGet"} /\ p \in {"releaseGet", "releaseDel"}
      PROVE  Inv'
  <2>1. /\ conn'[c].pc = p /\ conn'[c].turn = conn[c].turn
        /\ conn'[c].session = conn[c].session /\ conn'[c].at = conn[c].at
    BY <1>3, GotoFields
  <2>2. ConnMoves(c)
    BY <1>3, GotoMoves DEF StartPC, WorkPC
  <2>3. HomeOK(c) /\ BeforeOK(c) /\ SavedOK(c) /\ DoneOK(c)
    BY DEF Inv, Handlers
  <2>4. \A k : (Active(k)' <=> Active(k)) /\ (Registered(k)' <=> Registered(k))
    BY <1>1 DEF Active, Registered
  <2>5. HomeOK(c)'
    BY <1>1, <1>3, <2>1, <2>3 DEF HomeOK, StartPC, WorkPC
  <2>6. BeforeOK(c)'
    BY <1>1, <1>3, <2>1, <2>3, <2>4 DEF BeforeOK, BeforePC
  <2>7. SavedOK(c)' /\ DoneOK(c)'
    BY <1>1, <1>3, <2>1, <2>3, <2>4 DEF SavedOK, DoneOK
  <2>8. conn[c].pc \in BeginPC <=> conn'[c].pc \in BeginPC
    BY <1>3, <2>1 DEF BeginPC
  <2> QED BY <1>1, <2>1, <2>2, <2>5, <2>6, <2>7, <2>8, HandlerMoves
<1>4. CASE (CancelReleaseGet(c) /\ ConnIdle(c)) \/ CancelReleaseDelete(c)
  BY <1>2, <1>4, IdleMoves, IdleFields DEF CancelReleaseGet, CancelReleaseDelete, BeginPC
<1>5. CASE Reconnect(c)
  <2>1. PICK w \in Worker : conn' = [conn EXCEPT ![c] = IdleAt(w)]
    BY <1>5, ConnFields DEF Reconnect, TypeInv
  <2>2. IdleAt(w) \in ConnState /\ IdleAt(w).pc = "idle"
    BY BoundsAssumption, PCs DEF IdleAt, ConnState
  <2>3. conn \in [Conn -> ConnState]
    BY ConnFields DEF TypeInv
  <2> QED BY <1>2, <1>5, <2>1, <2>2, <2>3, DisjointPCs DEF Reconnect, ConnMoves, BeginPC
<1> QED BY <1>3, <1>4, <1>5, PCs
      DEF StartSaveSession, CancelSaveSession, CancelWait, CancelReleaseGet

\* A handler that writes its own turn's record.
LEMMA RecordMoves ==
    ASSUME Exclusive, TypeInv, Inv, NEW c \in Conn, NEW st, NEW q, ConnMoves(c),
           conn[c].pc \in WorkPC, conn'[c].turn = conn[c].turn,
           SaveTurnKey(conn[c].turn, st, q), st # "paused",
           UNCHANGED <<home, task, local, orphan>>,
           st = "running" => conn'[c].pc \in BeginPC,
           st # "running" => conn[c].pc \notin BeginPC /\ conn'[c].pc \notin BeginPC,
           HomeOK(c)', BeforeOK(c)', SavedOK(c)', DoneOK(c)'
    PROVE  Inv'
<1> DEFINE t == conn[c].turn
<1>1. t \in Turn
  BY DEF TypeInv, InHand
<1>2. rec'[t].status = st /\ \A u \in Turn \ {t} : rec'[u] = rec[u]
  BY <1>1 DEF SaveTurnKey, TypeInv, TypeOK
<1>3. \A k : /\ (Active(k)' <=> Active(k)) /\ (Registered(k)' <=> Registered(k))
            /\ (Settles(k)' <=> Settles(k)) /\ (Live(k)' <=> Live(k))
  BY DEF Active, Registered, Settles, Live
<1>4. \A d \in Conn \ {c} : conn'[d] = conn[d] /\ (conn[d].pc \in WorkPC => conn[d].turn # t)
  BY OneHandler DEF ConnMoves, Inv
<1>5. Handlers'
  <2> SUFFICES ASSUME NEW d \in Conn, d # c
               PROVE  (HomeOK(d) /\ BeforeOK(d) /\ SavedOK(d) /\ DoneOK(d))'
    BY DEF Handlers
  <2>1. conn'[d] = conn[d]
    BY <1>4
  <2>2. HomeOK(d)' /\ BeforeOK(d)' /\ DoneOK(d)'
    BY <1>3, <2>1 DEF Inv, Handlers, HomeOK, BeforeOK, DoneOK
  <2>3. SavedOK(d)'
    <3> SUFFICES ASSUME conn[d].pc \in {"cancelSaveSession", "cancelTask"}
                 PROVE  rec'[conn[d].turn].status # "running"
      BY <2>1 DEF SavedOK
    <3>1. conn[d].pc \in WorkPC
      BY DEF WorkPC
    <3>2. conn[d].turn \in Turn \ {t}
      BY <1>4, <3>1 DEF TypeInv, InHand
    <3> QED BY <1>2, <3>2 DEF Inv, Handlers, SavedOK
  <2> QED BY <2>2, <2>3
<1>6. \A d \in Conn, u \in Turn \ {t} : (conn'[d].pc \in BeginPC /\ conn'[d].turn = u) <=> (conn[d].pc \in BeginPC /\ conn[d].turn = u)
  BY <1>4
<1>7. PausedIsQuiet'
  BY <1>1, <1>2, <1>3, <1>6 DEF Inv, PausedIsQuiet
<1>8. RunningIsServed'
  <2> SUFFICES ASSUME NEW u \in Turn, rec'[u].status = "running", u \notin orphan
               PROVE  (\E n \in Fragment : Settles(<<u, n>>)) \/ (\E d \in Conn : Beginning(d, u)')
    BY <1>3 DEF RunningIsServed
  <2>1. CASE u = t
    BY <1>2, <2>1 DEF Beginning, Handling, BeginPC, WorkPC
  <2>2. CASE u # t
    BY <1>2, <1>6, <2>2 DEF Inv, RunningIsServed, Beginning, Handling, BeginPC, WorkPC
  <2> QED BY <2>1, <2>2
<1>9. FreshTurns' /\ Registry' /\ Outcome' /\ OneExecutor'
  BY <1>3 DEF Inv, FreshTurns, Registry, Outcome, OneExecutor
<1>10. Entries'
  BY <1>3 DEF Inv, Entries
<1> QED BY <1>5, <1>7, <1>8, <1>9, <1>10 DEF Inv

\* save_turn in start_turn, submit_user_reply and cancel_turn keeps it.
LEMMA SaveRecordInv ==
    ASSUME Exclusive, TypeInv, Inv, NEW c \in Conn,
           StartSaveTurn(c) \/ ReplySaveTurn(c) \/ CancelSaveTurn(c)
    PROVE  Inv'
<1>1. UNCHANGED <<home, task, local, orphan>>
  BY DEF StartSaveTurn, ReplySaveTurn, CancelSaveTurn
<1>2. ASSUME NEW p \in ConnPC, NEW st, NEW q, Goto(c, p), SaveTurnKey(conn[c].turn, st, q),
             \/ conn[c].pc = "startSaveTurn" /\ p = "startSaveSession" /\ st = "running"
             \/ conn[c].pc = "replySaveTurn" /\ p = "replySaveSession" /\ st = "running"
             \/ conn[c].pc = "cancelSaveTurn" /\ p = "cancelSaveSession" /\ st = "cancelled"
      PROVE  Inv'
  <2>1. conn'[c].pc = p /\ conn'[c].turn = conn[c].turn /\ conn'[c].at = conn[c].at
    BY <1>2, GotoFields
  <2>2. ConnMoves(c) /\ conn[c].pc \in WorkPC
    BY <1>2, GotoMoves DEF StartPC, WorkPC
  <2>3. HomeOK(c) /\ BeforeOK(c) /\ conn[c].turn \in Turn
    BY <2>2 DEF Inv, Handlers, TypeInv, InHand
  <2>4. \A k : (Active(k)' <=> Active(k)) /\ (Registered(k)' <=> Registered(k))
    BY <1>1 DEF Active, Registered
  <2>5. HomeOK(c)' /\ DoneOK(c)'
    BY <1>1, <1>2, <2>1, <2>2, <2>3 DEF HomeOK, DoneOK, StartPC
  <2>6. BeforeOK(c)'
    BY <1>1, <1>2, <2>1, <2>3, <2>4 DEF BeforeOK, BeforePC
  <2>7. SavedOK(c)'
    BY <1>2, <2>1, <2>3 DEF SavedOK, SaveTurnKey, TypeInv, TypeOK
  <2> QED BY <1>1, <1>2, <2>1, <2>2, <2>5, <2>6, <2>7, RecordMoves DEF BeginPC
<1> QED BY <1>2, PCs DEF StartSaveTurn, ReplySaveTurn, CancelSaveTurn

\* Creating a task for a turn nobody executes.
LEMMA CreateInv ==
    ASSUME Exclusive, TypeInv, Inv, NEW c \in Conn, StartCreateTask(c) \/ ReplySaveSession(c)
    PROVE  Inv'
<1> DEFINE t == conn[c].turn
<1> DEFINE w == conn[c].at
<1>1. /\ conn[c].pc \in BeforePC /\ conn[c].pc \in BeginPC /\ conn[c].pc \in WorkPC
      /\ UNCHANGED <<rec, home, orphan>> /\ ConnIdle(c)
      /\ \E q : CreateTask(c, t, q)
  BY DEF StartCreateTask, ReplySaveSession, store, BeforePC, BeginPC, WorkPC
<1>2. t \in Turn /\ w \in Worker
  BY <1>1, ConnFields DEF TypeInv, InHand
<1>3. PICK n \in Fragment :
        /\ task[<<t, n>>].pc = "unborn"
        /\ \E x : task' = [task EXCEPT ![<<t, n>>] = x] /\ x.pc = "new" /\ x.at = w
        /\ local' = [local EXCEPT ![w][t] = n]
  <2>1. PICK q : CreateTask(c, t, q)
    BY <1>1
  <2>2. PICK n \in Fragment :
          /\ task[<<t, n>>].pc = "unborn"
          /\ task' = [task EXCEPT ![<<t, n>>] =
                        [Unborn(w) EXCEPT !.pc = "new", !.seq = q, !.from = q]]
          /\ local' = [local EXCEPT ![w][t] = n]
    BY <2>1 DEF CreateTask
  <2>3. /\ [Unborn(w) EXCEPT !.pc = "new", !.seq = q, !.from = q].pc = "new"
        /\ [Unborn(w) EXCEPT !.pc = "new", !.seq = q, !.from = q].at = w
    BY DEF Unborn
  <2> QED BY <2>2, <2>3
<1>4. <<t, n>> \in Task /\ n # 0 /\ \A u \in Turn, m \in Fragment : <<u, m>> \in Task
  BY <1>2, BoundsAssumption DEF Task, Fragment
<1>5. /\ task'[<<t, n>>].pc = "new" /\ task'[<<t, n>>].at = w
      /\ \A j \in Task \ {<<t, n>>} : task'[j] = task[j]
  BY <1>3, <1>4 DEF TypeInv, TypeOK
<1>6. /\ local'[w][t] = n
      /\ \A v \in Worker, u \in Turn : v # w \/ u # t => local'[v][u] = local[v][u]
  BY <1>2, <1>3 DEF TypeInv, TypeOK
<1>7. \A u \in Turn, m \in Fragment : u # t \/ m # n =>
        /\ <<u, m>> # <<t, n>> /\ task'[<<u, m>>] = task[<<u, m>>]
        /\ Active(<<u, m>>)' <=> Active(<<u, m>>)
        /\ Registered(<<u, m>>)' <=> Registered(<<u, m>>)
        /\ Settles(<<u, m>>)' <=> Settles(<<u, m>>)
        /\ Live(<<u, m>>)' <=> Live(<<u, m>>)
  BY <1>4, <1>5 DEF Active, Registered, Settles, Live
<1>8. \A m \in Fragment : /\ ~Active(<<t, m>>)
                          /\ task[<<t, m>>].at = w => ~Registered(<<t, m>>)
  BY <1>1 DEF Inv, Handlers, BeforeOK
<1>9. conn'[c].pc = "idle" /\ \A d \in Conn \ {c} : conn'[d] = conn[d]
  BY <1>1, IdleFields, IdleMoves DEF ConnMoves
<1>10. Handlers'
  <2>1. (HomeOK(c) /\ BeforeOK(c) /\ SavedOK(c) /\ DoneOK(c))'
    BY <1>9, FreeHandler, DisjointPCs
  <2>2. ASSUME NEW d \in Conn, d # c PROVE (HomeOK(d) /\ BeforeOK(d) /\ SavedOK(d) /\ DoneOK(d))'
    <3>1. conn'[d] = conn[d] /\ (conn[d].pc \in WorkPC => conn[d].turn \in Turn \ {t})
      BY <1>1, <1>9, <2>2, OneHandler DEF TypeInv, InHand, Inv
    <3>2. HomeOK(d)' /\ SavedOK(d)'
      BY <1>1, <3>1 DEF Inv, Handlers, HomeOK, SavedOK
    <3>3. BeforeOK(d)'
      BY <1>7, <3>1 DEF Inv, Handlers, BeforeOK, BeforePC, WorkPC
    <3>4. DoneOK(d)'
      BY <1>7, <3>1 DEF Inv, Handlers, DoneOK, WorkPC
    <3> QED BY <3>2, <3>3, <3>4
  <2> QED BY <2>1, <2>2 DEF Handlers
<1>11. FreshTurns'
  <2>1. home[t] # NoSession
    BY <1>1, NamesAssumption DEF Inv, Handlers, HomeOK
  <2> QED BY <1>1, <1>7, <2>1 DEF Inv, FreshTurns
<1>12. PausedIsQuiet'
  <2>1. rec[t].status # "paused"
    BY <1>1, <1>2 DEF Inv, PausedIsQuiet
  <2>2. \A d \in Conn : conn'[d].pc \in BeginPC => conn'[d] = conn[d]
    BY <1>9 DEF BeginPC
  <2> QED BY <1>1, <1>7, <2>1, <2>2 DEF Inv, PausedIsQuiet
<1>13. Registry'
  <2> SUFFICES ASSUME NEW u \in Turn, NEW m \in Fragment, Registered(<<u, m>>)'
               PROVE  local'[task'[<<u, m>>].at][u] = m
    BY DEF Registry
  <2>1. CASE u = t /\ m = n
    BY <1>5, <1>6, <2>1
  <2>2. CASE u # t \/ m # n
    <3>1. Registered(<<u, m>>) /\ task'[<<u, m>>] = task[<<u, m>>]
      BY <1>7, <2>2
    <3>2. task[<<u, m>>].at \in Worker
      BY <1>4, TaskFields DEF TypeInv
    <3>3. task[<<u, m>>].at # w \/ u # t
      BY <1>8, <3>1
    <3> QED BY <1>6, <3>1, <3>2, <3>3 DEF Inv, Registry
  <2> QED BY <2>1, <2>2
<1>14. Entries'
  <2> SUFFICES ASSUME NEW v \in Worker, NEW u \in Turn, NEW m \in Fragment, local'[v][u] = m
               PROVE  /\ task'[<<u, m>>].pc # "unborn" /\ task'[<<u, m>>].at = v
                      /\ Live(<<u, m>>)' => Registered(<<u, m>>)'
    BY DEF Entries
  <2>1. CASE v = w /\ u = t
    BY <1>5, <1>6, <2>1 DEF Registered
  <2>2. CASE v # w \/ u # t
    <3>1. /\ task[<<u, m>>].pc # "unborn" /\ task[<<u, m>>].at = v
          /\ Live(<<u, m>>) => Registered(<<u, m>>)
      BY <1>6, <2>2 DEF Inv, Entries
    <3>2. u # t \/ m # n
      BY <1>3, <3>1
    <3> QED BY <1>7, <3>1, <3>2
  <2> QED BY <2>1, <2>2
<1>15. Outcome'
  BY <1>5 DEF Inv, Outcome
<1>16. OneExecutor'
  BY <1>7, <1>8 DEF Inv, OneExecutor
<1>17. RunningIsServed'
  <2> SUFFICES ASSUME NEW u \in Turn, rec[u].status = "running", u \notin orphan
               PROVE  (\E m \in Fragment : Settles(<<u, m>>)') \/ (\E d \in Conn : Beginning(d, u)')
    BY <1>1 DEF RunningIsServed
  <2>1. CASE u = t
    BY <1>5, <2>1 DEF Settles
  <2>2. CASE u # t
    <3>1. ASSUME NEW d \in Conn, Beginning(d, u) PROVE Beginning(d, u)'
      BY <1>9, <2>2, <3>1 DEF Beginning, Handling
    <3> QED BY <1>7, <2>2, <3>1 DEF Inv, RunningIsServed
  <2> QED BY <2>1, <2>2
<1> QED BY <1>10, <1>11, <1>12, <1>13, <1>14, <1>15, <1>16, <1>17 DEF Inv

\* One task moves on towards its end, and may save its outcome on the way.
TaskMoves(k) ==
    /\ \A j \in Task \ {k} : task'[j] = task[j]
    /\ task[k].pc # "unborn" /\ task'[k].pc # "unborn" /\ task'[k].at = task[k].at
    /\ Active(k)' => Active(k)
    /\ Registered(k)' => Registered(k)
    /\ \/ local' = local /\ (Registered(k) /\ Live(k)' => Registered(k)')
                         /\ (~Registered(k) /\ Live(k)' => Live(k))
       \/ Registered(k) /\ ~Registered(k)' /\ local' = [local EXCEPT ![task[k].at][k[1]] = 0]
    /\ \A u \in Turn \ {k[1]} : rec'[u] = rec[u]
    /\ rec'[k[1]] # rec[k[1]] => /\ rec'[k[1]].status # "running"
                                 /\ rec'[k[1]].status = "paused" => Active(k) /\ ~Active(k)'
    /\ Settles(k) => Settles(k)' \/ rec'[k[1]].status # "running"
    /\ task'[k].pc = "saveTurn" => task'[k].status # "running"
    /\ UNCHANGED <<home, orphan>>

\* ... then only the handlers are left to look at.
LEMMA TaskMovesInv ==
    ASSUME TypeInv, Inv, NEW t \in Turn, NEW n \in Fragment, TaskMoves(<<t, n>>), Handlers',
           \A d \in Conn, u \in Turn :
               (conn'[d].pc \in BeginPC /\ conn'[d].turn = u) <=> (conn[d].pc \in BeginPC /\ conn[d].turn = u)
    PROVE  Inv'
<1>1. /\ \A u \in Turn, m \in Fragment : <<u, m>> \in Task
      /\ <<t, n>>[1] = t /\ n # 0 /\ task[<<t, n>>].at \in Worker
  BY TaskFields, BoundsAssumption DEF Task, Fragment, TypeInv
<1>0. /\ local \in [Worker -> [Turn -> 0..MaxFragments]]
      /\ \/ local' = local
         \/ local' = [local EXCEPT ![task[<<t, n>>].at][t] = 0]
  BY <1>1 DEF TypeInv, TypeOK, TaskMoves
<1>2. \A u \in Turn, m \in Fragment : u # t \/ m # n =>
        /\ <<u, m>> # <<t, n>> /\ task'[<<u, m>>] = task[<<u, m>>]
        /\ Active(<<u, m>>)' <=> Active(<<u, m>>)
        /\ Registered(<<u, m>>)' <=> Registered(<<u, m>>)
        /\ Settles(<<u, m>>)' <=> Settles(<<u, m>>)
        /\ Live(<<u, m>>)' <=> Live(<<u, m>>)
  BY <1>1 DEF Active, Registered, Settles, Live, TaskMoves
<1>3. \A u \in Turn, m \in Fragment : /\ Active(<<u, m>>)' => Active(<<u, m>>)
                                      /\ Registered(<<u, m>>)' => Registered(<<u, m>>)
  BY <1>2 DEF TaskMoves
<1>4. FreshTurns'
  BY <1>2 DEF TaskMoves, Inv, FreshTurns
<1>5. OneExecutor'
  BY <1>3 DEF Inv, OneExecutor
<1>6. PausedIsQuiet'
  <2> SUFFICES ASSUME NEW u \in Turn, rec'[u].status = "paused"
               PROVE  /\ \A m \in Fragment : ~Active(<<u, m>>)'
                      /\ \A d \in Conn : ~(conn[d].pc \in BeginPC /\ conn[d].turn = u)
    BY DEF PausedIsQuiet
  <2>1. CASE rec'[u] = rec[u]
    BY <1>3, <2>1 DEF Inv, PausedIsQuiet
  <2>2. CASE u = t /\ rec'[t] # rec[t]
    <3>1. Active(<<t, n>>) /\ ~Active(<<t, n>>)'
      BY <1>1, <2>2 DEF TaskMoves
    <3>2. \A m \in Fragment : Active(<<t, m>>) => m = n
      BY <3>1 DEF Inv, OneExecutor
    <3>3. \A d \in Conn : ~(conn[d].pc \in BeginPC /\ conn[d].turn = t)
      BY <3>1 DEF Inv, Handlers, BeforeOK, BeginPC, BeforePC
    <3> QED BY <1>3, <2>2, <3>1, <3>2, <3>3
  <2> QED BY <1>1, <2>1, <2>2 DEF TaskMoves
<1>7. Registry'
  <2> SUFFICES ASSUME NEW u \in Turn, NEW m \in Fragment, Registered(<<u, m>>)'
               PROVE  local'[task'[<<u, m>>].at][u] = m
    BY DEF Registry
  <2>1. Registered(<<u, m>>) /\ task'[<<u, m>>].at = task[<<u, m>>].at
    BY <1>2, <1>3 DEF TaskMoves
  <2>2. local[task[<<u, m>>].at][u] = m /\ task[<<u, m>>].at \in Worker
    BY <1>1, <2>1, TaskFields DEF Inv, Registry, TypeInv
  <2>3. CASE local' = local
    BY <2>1, <2>2, <2>3
  <2>4. CASE Registered(<<t, n>>) /\ ~Registered(<<t, n>>)' /\ local' = [local EXCEPT ![task[<<t, n>>].at][t] = 0]
    <3>1. local[task[<<t, n>>].at][t] = n
      BY <2>4 DEF Inv, Registry
    <3>2. u # t \/ task[<<u, m>>].at # task[<<t, n>>].at
      BY <2>2, <2>4, <3>1
    <3> QED BY <1>1, <2>1, <2>2, <2>4, <3>2 DEF TypeInv, TypeOK
  <2> QED BY <1>1, <2>3, <2>4 DEF TaskMoves
<1>8. Entries'
  <2> SUFFICES ASSUME NEW v \in Worker, NEW u \in Turn, NEW m \in Fragment, local'[v][u] = m
               PROVE  /\ task'[<<u, m>>].pc # "unborn" /\ task'[<<u, m>>].at = v
                      /\ Live(<<u, m>>)' => Registered(<<u, m>>)'
    BY DEF Entries
  <2>1. m # 0
    BY BoundsAssumption DEF Fragment
  <2>2. local[v][u] = m
    <3>1. CASE local' = [local EXCEPT ![task[<<t, n>>].at][t] = 0]
      <4>1. local'[v] = IF v = task[<<t, n>>].at THEN [local[v] EXCEPT ![t] = 0] ELSE local[v]
        BY <1>0, <1>1, <3>1
      <4>2. local[v] \in [Turn -> 0..MaxFragments]
        BY <1>0
      <4> QED BY <2>1, <4>1, <4>2
    <3> QED BY <1>0, <3>1
  <2>3. /\ task[<<u, m>>].pc # "unborn" /\ task[<<u, m>>].at = v
        /\ Live(<<u, m>>) => Registered(<<u, m>>)
    BY <2>2 DEF Inv, Entries
  <2>4. CASE u = t /\ m = n
    <3>1. local' = local
      BY <1>1, <2>1, <2>3, <2>4 DEF TaskMoves, TypeInv, TypeOK
    <3>2. Live(<<t, n>>)' => Registered(<<t, n>>)'
      <4>1. CASE Registered(<<t, n>>) /\ Live(<<t, n>>)' => Registered(<<t, n>>)'
        BY <2>3, <2>4, <4>1, <3>1 DEF TaskMoves, Registered, Live
      <4>2. CASE ~Registered(<<t, n>>)'  /\ Registered(<<t, n>>) /\ Live(<<t, n>>)'
        <5>1. local'[task[<<t, n>>].at][t] = 0
          BY <1>1, <4>2 DEF TaskMoves, TypeInv, TypeOK
        <5> QED BY <2>1, <2>2, <2>3, <2>4, <3>1, <5>1
      <4> QED BY <4>1, <4>2
    <3> QED BY <2>3, <2>4, <3>2 DEF TaskMoves
  <2>5. CASE u # t \/ m # n
    BY <1>2, <2>3, <2>5
  <2> QED BY <2>4, <2>5
<1>9. Outcome'
  BY <1>1 DEF TaskMoves, Inv, Outcome
<1>10. RunningIsServed'
  <2> SUFFICES ASSUME NEW u \in Turn, rec'[u].status = "running", u \notin orphan
               PROVE  (\E m \in Fragment : Settles(<<u, m>>)') \/ (\E d \in Conn : Beginning(d, u)')
    BY DEF RunningIsServed, TaskMoves
  <2>1. rec'[u] = rec[u]
    BY <1>1 DEF TaskMoves
  <2>2. \A m \in Fragment : Settles(<<u, m>>) => Settles(<<u, m>>)'
    BY <1>1, <1>2 DEF TaskMoves
  <2>3. \A d \in Conn : Beginning(d, u) => Beginning(d, u)'
    BY DEF Beginning, Handling, BeginPC, WorkPC
  <2> QED BY <2>1, <2>2, <2>3 DEF Inv, RunningIsServed
<1> QED BY <1>4, <1>5, <1>6, <1>7, <1>8, <1>9, <1>10 DEF Inv

\* A task's own step leaves the handlers' obligations as they are.
LEMMA TaskKeepsHandlers ==
    ASSUME TypeInv, Inv, NEW t \in Turn, NEW n \in Fragment, TaskMoves(<<t, n>>), conn' = conn
    PROVE  Inv'
<1>1. \A u \in Turn, m \in Fragment : <<u, m>> \in Task /\ <<t, n>>[1] = t
  BY DEF Task
<1>2. \A u \in Turn, m \in Fragment :
        /\ task'[<<u, m>>].at = task[<<u, m>>].at
        /\ Active(<<u, m>>)' => Active(<<u, m>>)
        /\ Registered(<<u, m>>)' => Registered(<<u, m>>)
  BY <1>1 DEF Active, Registered, TaskMoves
<1>3. \A u \in Turn : rec[u].status # "running" => rec'[u].status # "running"
  BY <1>1 DEF TaskMoves
<1>4. ASSUME NEW c \in Conn PROVE (HomeOK(c) /\ BeforeOK(c) /\ SavedOK(c) /\ DoneOK(c))'
  <2>1. HomeOK(c) /\ BeforeOK(c) /\ SavedOK(c) /\ DoneOK(c)
    BY DEF Inv, Handlers
  <2>2. conn[c].pc \in WorkPC => conn[c].turn \in Turn
    BY DEF TypeInv, InHand
  <2>3. HomeOK(c)'
    BY <2>1 DEF HomeOK, TaskMoves
  <2>4. BeforeOK(c)'
    BY <1>2, <2>1, <2>2 DEF BeforeOK, BeforePC, WorkPC
  <2>5. SavedOK(c)'
    BY <1>3, <2>1, <2>2 DEF SavedOK, WorkPC
  <2>6. DoneOK(c)'
    BY <1>2, <2>1, <2>2 DEF DoneOK, WorkPC
  <2> QED BY <2>3, <2>4, <2>5, <2>6
<1>5. Handlers'
  BY <1>4 DEF Handlers
<1> QED BY <1>5, TaskMovesInv

\* The finally block.
LEMMA FinallyMoves ==
    ASSUME TypeInv, NEW k \in Task, NEW st, Finally(k, st), Registered(k),
           ~Settles(k) \/ rec[k[1]].status # "running",
           UNCHANGED <<rec, home, orphan>>
    PROVE  TaskMoves(k)
<1>1. task \in [Task -> TaskState]
  BY DEF TypeInv, TypeOK
<1>2. /\ \A j \in Task \ {k} : task'[j] = task[j]
      /\ task'[k].pc \in {"done", "releaseGet"} /\ task'[k].at = task[k].at
  BY <1>1 DEF Finally, Gone, Unborn
<1>3. ~Active(k)' /\ ~Registered(k)' /\ task[k].pc # "unborn"
  BY <1>2 DEF Active, Registered
<1> QED BY <1>2, <1>3 DEF TaskMoves, Finally

\* A step of the task that changes fields of its state, and keeps its entry.
LEMMA FieldMoves ==
    ASSUME TypeInv, NEW k \in Task, NEW p, NEW st,
           \A j \in Task \ {k} : task'[j] = task[j],
           task'[k].pc = p, task'[k].status = st, task'[k].at = task[k].at,
           \/ /\ p \in {"new", "stream", "saveTurn", "saveSession", "persist", "commit"}
              /\ task[k].pc \in {"new", "stream", "saveTurn", "saveSession", "persist", "commit"}
           \/ /\ p \in {"releaseDel", "done"} /\ task[k].pc \in {"releaseGet", "releaseDel"}
           \/ p = "done" /\ task[k].pc = "new" /\ rec[k[1]].status # "running",
           \/ p \notin {"new", "stream", "saveTurn"}
           \/ p = "stream" /\ task[k].pc \in {"new", "stream"}
           \/ p = "saveTurn" /\ st = "paused" /\ task[k].pc = "stream"
           \/ p = "saveTurn" /\ st \notin {"running", "paused"},
           task[k].pc \in {"new", "stream"} => p \in {"stream", "saveTurn", "done"},
           \/ rec' = rec /\ (task[k].pc = "saveTurn" => p = "saveTurn" \/ rec[k[1]].status # "running")
           \/ /\ \A u \in Turn \ {k[1]} : rec'[u] = rec[u]
              /\ rec'[k[1]].status # "running"
              /\ rec'[k[1]].status = "paused" => Active(k)
              /\ p = "saveSession",
           UNCHANGED <<local, home, orphan>>
    PROVE  TaskMoves(k)
<1>1. Active(k)' => Active(k)
  BY DEF Active
<1>2. /\ task[k].pc # "unborn" /\ p # "unborn"
      /\ Registered(k)' => Registered(k)
      /\ Registered(k) /\ Live(k)' => Registered(k)'
      /\ ~Registered(k) /\ Live(k)' => Live(k)
  BY DEF Registered, Live
<1>3. Settles(k) => Settles(k)' \/ rec'[k[1]].status # "running"
  BY DEF Settles
<1>4. p = "saveSession" => ~Active(k)'
  BY DEF Active
<1>5. rec'[k[1]] # rec[k[1]] => /\ rec'[k[1]].status # "running"
                                /\ rec'[k[1]].status = "paused" => Active(k) /\ ~Active(k)'
  BY <1>4
<1>6. p = "saveTurn" => st # "running"
  OBVIOUS
<1>7. \A u \in Turn \ {k[1]} : rec'[u] = rec[u]
  OBVIOUS
<1> QED BY <1>1, <1>2, <1>3, <1>5, <1>6, <1>7 DEF TaskMoves

\* Every step of _execute_turn is one,
LEMMA TaskStepMoves ==
    ASSUME TypeInv, Inv, NEW k \in Task, TaskStep(k)
    PROVE  TaskMoves(k) /\ UNCHANGED <<home, conn, orphan>>
<1>1. PICK t \in Turn, n \in Fragment : k = <<t, n>>
  BY DEF Task
<1>2. task \in [Task -> TaskState] /\ k[1] = t /\ rec \in [Turn -> Record]
  BY <1>1 DEF TypeInv, TypeOK
<1>3. UNCHANGED <<home, conn, orphan>>
  BY DEF TaskStep, TaskBegin, TaskEvent, TaskStreamEnd, TaskStreamError, TaskSaveTurn,
         TaskSaveSession, TaskPersist, TaskCommit, TaskReleaseGet, TaskReleaseDelete
<1> SUFFICES TaskMoves(k)
  BY <1>3
<1>4. CASE TaskBegin(k)
  <2>1. task' = [task EXCEPT ![k].pc = "stream"] /\ task[k].pc = "new" /\ UNCHANGED <<rec, local>>
    BY <1>4 DEF TaskBegin, store
  <2>2. /\ \A j \in Task \ {k} : task'[j] = task[j]
        /\ task'[k].pc = "stream" /\ task'[k].at = task[k].at
    BY <1>2, <2>1 DEF TaskState
  <2> QED BY <1>3, <2>1, <2>2, FieldMoves
<1>5. CASE TaskEvent(k)
  <2>1. task[k].pc = "stream" /\ UNCHANGED <<rec, local>>
    BY <1>5 DEF TaskEvent, store
  <2>2. CASE task' = [task EXCEPT ![k].pc = "saveTurn", ![k].status = "cancelled"]
    <3>1. /\ \A j \in Task \ {k} : task'[j] = task[j]
          /\ task'[k].pc = "saveTurn" /\ task'[k].status = "cancelled" /\ task'[k].at = task[k].at
      BY <1>2, <2>2 DEF TaskState
    <3> QED BY <1>3, <2>1, <3>1, FieldMoves
  <2>3. ASSUME NEW ask \in BOOLEAN, task' = [task EXCEPT ![k].seq = @ + 1, ![k].asked = @ \/ ask]
        PROVE  TaskMoves(k)
    <3>1. /\ \A j \in Task \ {k} : task'[j] = task[j]
          /\ task'[k].pc = task[k].pc /\ task'[k].at = task[k].at
      BY <1>2, <2>3 DEF TaskState
    <3> QED BY <1>3, <2>1, <3>1, FieldMoves
  <2> QED BY <1>5, <2>2, <2>3 DEF TaskEvent
<1>6. CASE TaskStreamEnd(k)
  <2>1. PICK st \in {"paused", "completed"} :
          /\ task' = [task EXCEPT ![k].pc = "saveTurn", ![k].status = st]
          /\ task[k].pc = "stream" /\ UNCHANGED <<rec, local>>
    BY <1>6 DEF TaskStreamEnd, store
  <2>2. /\ \A j \in Task \ {k} : task'[j] = task[j]
        /\ task'[k].pc = "saveTurn" /\ task'[k].status = st /\ task'[k].at = task[k].at
    BY <1>2, <2>1 DEF TaskState
  <2> QED BY <1>3, <2>1, <2>2, FieldMoves
<1>7. ASSUME task[k].pc \in {"stream", "commit"}, UNCHANGED <<rec, local>>,
             task' = [task EXCEPT ![k].pc = "saveTurn", ![k].status = "error", ![k].handler = TRUE]
      PROVE  TaskMoves(k)
  <2>1. /\ \A j \in Task \ {k} : task'[j] = task[j]
        /\ task'[k].pc = "saveTurn" /\ task'[k].status = "error" /\ task'[k].at = task[k].at
    BY <1>2, <1>7 DEF TaskState
  <2> QED BY <1>3, <1>7, <2>1, FieldMoves
<1>8. CASE TaskStreamError(k)
  BY <1>7, <1>8 DEF TaskStreamError, store
<1>9. CASE TaskSaveTurn(k)
  <2>1. /\ task[k].pc = "saveTurn" /\ task' = [task EXCEPT ![k].pc = "saveSession"]
        /\ rec' = [rec EXCEPT ![t] = [status |-> task[k].status, seq |-> task[k].seq]]
        /\ UNCHANGED local
    BY <1>2, <1>9 DEF TaskSaveTurn, SaveTurnKey
  <2>2. /\ \A j \in Task \ {k} : task'[j] = task[j]
        /\ task'[k].pc = "saveSession" /\ task'[k].at = task[k].at
    BY <1>2, <2>1 DEF TaskState
  <2>3. rec'[t].status = task[k].status /\ \A u \in Turn \ {t} : rec'[u] = rec[u]
    BY <1>2, <2>1
  <2>4. task[k].status # "running"
    BY <2>1 DEF Inv, Outcome
  <2>5. task[k].status = "paused" => Active(k)
    BY <2>1 DEF Active
  <2> QED BY <1>2, <1>3, <2>1, <2>2, <2>3, <2>4, <2>5, FieldMoves
<1>10. ASSUME NEW p \in {"persist", "commit"}, task' = [task EXCEPT ![k].pc = p],
              task[k].pc \in {"saveSession", "persist"}, UNCHANGED <<rec, local>>
       PROVE  TaskMoves(k)
  <2>1. /\ \A j \in Task \ {k} : task'[j] = task[j]
        /\ task'[k].pc = p /\ task'[k].at = task[k].at
    BY <1>2, <1>10 DEF TaskState
  <2> QED BY <1>3, <1>10, <2>1, FieldMoves
<1>11. ASSUME NEW st, Finally(k, st), task[k].pc \in {"saveSession", "persist", "commit"}, UNCHANGED rec
       PROVE  TaskMoves(k)
  BY <1>3, <1>11, FinallyMoves DEF Registered, Settles
<1>12. CASE TaskSaveSession(k)
  BY <1>10, <1>11, <1>12 DEF TaskSaveSession
<1>13. CASE TaskPersist(k)
  BY <1>10, <1>11, <1>13 DEF TaskPersist, store
<1>14. CASE TaskCommit(k)
  BY <1>7, <1>11, <1>14 DEF TaskCommit, store
<1>15. CASE TaskReleaseGet(k) \/ TaskReleaseDelete(k)
  <2>1. PICK p \in {"releaseDel", "done"} :
          /\ task' = [task EXCEPT ![k].pc = p]
          /\ task[k].pc \in {"releaseGet", "releaseDel"} /\ UNCHANGED <<rec, local>>
    BY <1>15 DEF TaskReleaseGet, TaskReleaseDelete, store
  <2>2. /\ \A j \in Task \ {k} : task'[j] = task[j]
        /\ task'[k].pc = p /\ task'[k].at = task[k].at
    BY <1>2, <2>1 DEF TaskState
  <2> QED BY <1>3, <2>1, <2>2, FieldMoves
<1> QED BY <1>4, <1>5, <1>6, <1>8, <1>9, <1>12, <1>13, <1>14, <1>15 DEF TaskStep

\* and keeps the invariant.
LEMMA TaskInv == ASSUME TypeInv, Inv, NEW k \in Task, TaskStep(k) PROVE Inv'
<1>1. PICK t \in Turn, n \in Fragment : k = <<t, n>>
  BY DEF Task
<1> QED BY <1>1, TaskStepMoves, TaskKeepsHandlers

\* What task.cancel() does to a task the registry knows.
LEMMA InterruptMoves ==
    ASSUME TypeInv, Inv, NEW k \in Task, Interrupt(k), Registered(k), rec[k[1]].status # "running",
           UNCHANGED <<rec, home, orphan>>
    PROVE  TaskMoves(k) /\ ~Active(k)'
<1>1. task \in [Task -> TaskState]
  BY DEF TypeInv, TypeOK
<1>2. CASE task[k].pc = "new" /\ task' = [task EXCEPT ![k] = Gone(k, "done")] /\ UNCHANGED local
  <2>1. /\ \A j \in Task \ {k} : task'[j] = task[j]
        /\ task'[k].pc = "done" /\ task'[k].at = task[k].at
    BY <1>1, <1>2 DEF Gone, Unborn
  <2> QED BY <1>2, <2>1, FieldMoves DEF Active
<1>3. CASE /\ task[k].pc # "new" /\ UNCHANGED local
           /\ task' = [task EXCEPT ![k].pc = "saveTurn", ![k].status = "cancelled", ![k].handler = TRUE]
  <2>1. /\ \A j \in Task \ {k} : task'[j] = task[j]
        /\ task'[k].pc = "saveTurn" /\ task'[k].status = "cancelled" /\ task'[k].at = task[k].at
    BY <1>1, <1>3 DEF TaskState
  <2> QED BY <1>3, <2>1, FieldMoves DEF Active, Registered
<1>4. CASE task[k].pc # "new" /\ task[k].handler /\ Finally(k, task[k].status)
  <2>1. task'[k].pc \in {"done", "releaseGet"}
    BY <1>1, <1>4 DEF Finally, Gone, Unborn
  <2> QED BY <1>4, <2>1, FinallyMoves DEF Active
<1> QED BY <1>2, <1>3, <1>4 DEF Interrupt

\* cancel_turn's task.cancel() keeps it, with or without a local task.
LEMMA CancelLocalInv == ASSUME Exclusive, TypeInv, Inv, NEW c \in Conn, CancelLocalTask(c) PROVE Inv'
<1>0. PICK t, w, n : t = conn[c].turn /\ w = conn[c].at /\ n = local[w][t]
  OBVIOUS
<1>1. /\ conn[c].pc = "cancelTask" /\ conn[c].pc \in WorkPC /\ t \in Turn /\ w \in Worker
      /\ UNCHANGED <<rec, home, orphan>>
  BY <1>0, ConnFields DEF CancelLocalTask, store, WorkPC, TypeInv, InHand
<1>2. rec[t].status # "running" /\ home[t] \in Reach[c]
  BY <1>0, <1>1 DEF Inv, Handlers, SavedOK, HomeOK
<1>3. \A m \in Fragment : task[<<t, m>>].at = w /\ Active(<<t, m>>) => n = m /\ LocalBusy(w, t)
  <2>1. \A m \in Fragment : Active(<<t, m>>) => Registered(<<t, m>>) /\ Live(<<t, m>>) /\ m # 0
    BY BoundsAssumption DEF Active, Registered, Live, Fragment
  <2> QED BY <1>0, <1>1, <2>1 DEF Inv, Registry, LocalBusy
<1>4. CASE ~LocalBusy(w, t) /\ Goto(c, "releaseGet") /\ UNCHANGED <<task, local>>
  <2>1. conn'[c].pc = "releaseGet" /\ conn'[c].turn = t /\ conn'[c].at = w
    BY <1>0, <1>4, GotoFields, PCs
  <2>2. ConnMoves(c)
    BY <1>1, <1>4, GotoMoves, PCs DEF StartPC
  <2>3. HomeOK(c)' /\ BeforeOK(c)' /\ SavedOK(c)'
    BY <1>1, <1>2, <2>1 DEF HomeOK, BeforeOK, SavedOK, StartPC, BeforePC
  <2>4. DoneOK(c)'
    BY <1>3, <1>4, <2>1 DEF DoneOK, Active
  <2> QED BY <1>1, <1>4, <2>1, <2>2, <2>3, <2>4, HandlerMoves DEF BeginPC
<1>5. CASE /\ LocalBusy(w, t) /\ Interrupt(<<t, n>>)
           /\ conn' = [conn EXCEPT ![c].pc = "cancelWait", ![c].frag = n]
  <2>1. /\ conn'[c].pc = "cancelWait" /\ conn'[c].turn = t /\ conn'[c].at = w
        /\ \A d \in Conn \ {c} : conn'[d] = conn[d]
    <3>1. conn \in [Conn -> ConnState]
      BY ConnFields DEF TypeInv
    <3> QED BY <1>0, <1>5, <3>1 DEF ConnState
  <2>2. n \in Fragment
    <3>1. n \in 0..MaxFragments /\ n # 0
      BY <1>0, <1>1, <1>5 DEF LocalBusy, TypeInv, TypeOK
    <3> QED BY <3>1, BoundsAssumption DEF Fragment
  <2>3. Registered(<<t, n>>) /\ <<t, n>> \in Task /\ <<t, n>>[1] = t
    BY <1>0, <1>1, <1>5, <2>2 DEF LocalBusy, Inv, Entries, Task
  <2>4. TaskMoves(<<t, n>>) /\ ~Active(<<t, n>>)'
    BY <1>1, <1>2, <1>5, <2>3, InterruptMoves
  <2>5. \A u \in Turn, m \in Fragment :
          /\ task'[<<u, m>>].at = task[<<u, m>>].at
          /\ Active(<<u, m>>)' => Active(<<u, m>>)
          /\ Registered(<<u, m>>)' => Registered(<<u, m>>)
    <3>1. \A u \in Turn, m \in Fragment : <<u, m>> \in Task
      BY DEF Task
    <3> QED BY <2>4, <3>1 DEF Active, Registered, TaskMoves
  <2>6. (HomeOK(c) /\ BeforeOK(c) /\ SavedOK(c) /\ DoneOK(c))'
    <3>1. HomeOK(c)' /\ BeforeOK(c)' /\ SavedOK(c)'
      BY <1>1, <1>2, <2>1 DEF HomeOK, BeforeOK, SavedOK, StartPC, BeforePC
    <3>2. DoneOK(c)'
      BY <1>1, <1>3, <2>1, <2>4, <2>5 DEF DoneOK
    <3> QED BY <3>1, <3>2
  <2>7. ASSUME NEW d \in Conn, d # c PROVE (HomeOK(d) /\ BeforeOK(d) /\ SavedOK(d) /\ DoneOK(d))'
    <3>1. HomeOK(d) /\ BeforeOK(d) /\ SavedOK(d) /\ DoneOK(d) /\ conn'[d] = conn[d]
      BY <2>1, <2>7 DEF Inv, Handlers
    <3>2. conn[d].pc \in WorkPC => conn[d].turn \in Turn
      BY DEF TypeInv, InHand
    <3>3. HomeOK(d)' /\ SavedOK(d)'
      BY <1>1, <3>1 DEF HomeOK, SavedOK
    <3>4. BeforeOK(d)'
      BY <2>5, <3>1, <3>2 DEF BeforeOK, BeforePC, WorkPC
    <3>5. DoneOK(d)'
      BY <2>5, <3>1, <3>2 DEF DoneOK, WorkPC
    <3> QED BY <3>3, <3>4, <3>5
  <2>8. Handlers'
    BY <2>6, <2>7 DEF Handlers
  <2>9. \A d \in Conn, u \in Turn : (conn'[d].pc \in BeginPC /\ conn'[d].turn = u) <=> (conn[d].pc \in BeginPC /\ conn[d].turn = u)
    BY <1>1, <2>1 DEF BeginPC
  <2> QED BY <1>1, <2>2, <2>4, <2>8, <2>9, TaskMovesInv
<1> QED BY <1>0, <1>4, <1>5 DEF CancelLocalTask

\* Only the session keys, or nothing, changes.
LEMMA StutterInv ==
    ASSUME Inv, UNCHANGED <<rec, home, conn, task, local, orphan>>
    PROVE  Inv'
<1>1. \A k : /\ (Active(k)' <=> Active(k)) /\ (Registered(k)' <=> Registered(k))
            /\ (Settles(k)' <=> Settles(k)) /\ (Live(k)' <=> Live(k))
  BY DEF Active, Registered, Settles, Live
<1>2. Handlers'
  BY <1>1 DEF Inv, Handlers, HomeOK, BeforeOK, SavedOK, DoneOK
<1>3. PausedIsQuiet' /\ RunningIsServed'
  BY <1>1 DEF Inv, PausedIsQuiet, RunningIsServed, Beginning, Handling
<1>4. FreshTurns' /\ Registry' /\ Outcome' /\ OneExecutor' /\ Entries'
  BY <1>1 DEF Inv, FreshTurns, Registry, Outcome, OneExecutor, Entries
<1> QED BY <1>2, <1>3, <1>4 DEF Inv

\* The expiry of a record keeps it.
LEMMA ExpireTurnInv == ASSUME TypeInv, Inv, NEW t \in Turn, ExpireTurn(t) PROVE Inv'
<1>1. UNCHANGED <<home, conn, task, local, orphan>>
  BY DEF ExpireTurn
<1>2. rec'[t].status = "none" /\ \A u \in Turn \ {t} : rec'[u] = rec[u]
  BY DEF ExpireTurn, NoRec, TypeInv, TypeOK
<1>3. \A k : /\ (Active(k)' <=> Active(k)) /\ (Registered(k)' <=> Registered(k))
            /\ (Settles(k)' <=> Settles(k)) /\ (Live(k)' <=> Live(k))
  BY <1>1 DEF Active, Registered, Settles, Live
<1>4. Handlers'
  <2> SUFFICES ASSUME NEW c \in Conn PROVE (HomeOK(c) /\ BeforeOK(c) /\ SavedOK(c) /\ DoneOK(c))'
    BY DEF Handlers
  <2>1. HomeOK(c)' /\ BeforeOK(c)' /\ DoneOK(c)'
    BY <1>1, <1>3 DEF Inv, Handlers, HomeOK, BeforeOK, DoneOK
  <2>2. conn[c].pc \in WorkPC => conn[c].turn \in Turn
    BY DEF TypeInv, InHand
  <2>3. SavedOK(c)'
    BY <1>1, <1>2, <2>2 DEF Inv, Handlers, SavedOK, WorkPC
  <2> QED BY <2>1, <2>3
<1>5. PausedIsQuiet' /\ RunningIsServed'
  BY <1>1, <1>2, <1>3 DEF Inv, PausedIsQuiet, RunningIsServed, Beginning, Handling
<1>6. FreshTurns' /\ Registry' /\ Outcome' /\ OneExecutor' /\ Entries'
  BY <1>1, <1>3 DEF Inv, FreshTurns, Registry, Outcome, OneExecutor, Entries
<1> QED BY <1>4, <1>5, <1>6 DEF Inv

\* A crash: what is lost owes nothing, what survives is as it was.
LEMMA CrashInv == ASSUME TypeInv, Inv, NEW w \in Worker, Crash(w) PROVE Inv'
<1>1. /\ UNCHANGED <<rec, home>> /\ orphan \subseteq orphan'
      /\ \A c \in Conn : IF conn[c].at = w THEN conn'[c].pc = "idle" ELSE conn'[c] = conn[c]
  BY DEF Crash, store, IdleAt
<1>2. \A u \in Turn, m \in Fragment :
        /\ <<u, m>> \in Task /\ task'[<<u, m>>].at = task[<<u, m>>].at
        /\ IF Live(<<u, m>>) /\ task[<<u, m>>].at = w
           THEN task'[<<u, m>>].pc = "lost" ELSE task'[<<u, m>>] = task[<<u, m>>]
  BY DEF Crash, Task, Gone, Unborn
<1>3. \A u \in Turn, m \in Fragment :
        /\ Active(<<u, m>>)' => Active(<<u, m>>)
        /\ Registered(<<u, m>>)' => Registered(<<u, m>>) /\ task[<<u, m>>].at # w
        /\ Live(<<u, m>>)' => task'[<<u, m>>] = task[<<u, m>>]
  BY ZenonT(40), <1>2 DEF Active, Registered, Live
<1>4. /\ \A u \in Turn : local'[w][u] = 0
      /\ \A v \in Worker \ {w} : local'[v] = local[v]
  BY DEF Crash, TypeInv, TypeOK
<1>5. Handlers'
  <2> SUFFICES ASSUME NEW c \in Conn PROVE (HomeOK(c) /\ BeforeOK(c) /\ SavedOK(c) /\ DoneOK(c))'
    BY DEF Handlers
  <2>1. CASE conn'[c].pc = "idle"
    BY <2>1, FreeHandler, DisjointPCs
  <2>2. CASE conn'[c] = conn[c]
    <3>1. HomeOK(c) /\ BeforeOK(c) /\ SavedOK(c) /\ DoneOK(c)
      BY DEF Inv, Handlers
    <3>2. conn[c].pc \in WorkPC => conn[c].turn \in Turn
      BY DEF TypeInv, InHand
    <3>3. HomeOK(c)' /\ SavedOK(c)'
      BY <1>1, <2>2, <3>1 DEF HomeOK, SavedOK
    <3>4. BeforeOK(c)'
      BY <1>2, <1>3, <2>2, <3>1, <3>2 DEF BeforeOK, BeforePC, WorkPC
    <3>5. DoneOK(c)'
      BY <1>2, <1>3, <2>2, <3>1, <3>2 DEF DoneOK, WorkPC
    <3> QED BY <3>3, <3>4, <3>5
  <2> QED BY <1>1, <2>1, <2>2
<1>6. FreshTurns'
  BY <1>1, <1>2 DEF Inv, FreshTurns, Live
<1>7. PausedIsQuiet'
  BY <1>1, <1>3 DEF Inv, PausedIsQuiet, BeginPC
<1>8. Registry'
  <2> SUFFICES ASSUME NEW u \in Turn, NEW m \in Fragment, Registered(<<u, m>>)'
               PROVE  local'[task'[<<u, m>>].at][u] = m
    BY DEF Registry
  <2>1. task[<<u, m>>].at \in Worker \ {w} /\ task'[<<u, m>>].at = task[<<u, m>>].at
    BY <1>2, <1>3, TaskFields DEF TypeInv
  <2> QED BY <1>3, <1>4, <2>1 DEF Inv, Registry
<1>9. Entries'
  <2> SUFFICES ASSUME NEW v \in Worker, NEW u \in Turn, NEW m \in Fragment, local'[v][u] = m
               PROVE  /\ task'[<<u, m>>].pc # "unborn" /\ task'[<<u, m>>].at = v
                      /\ Live(<<u, m>>)' => Registered(<<u, m>>)'
    BY DEF Entries
  <2>1. v # w /\ local[v][u] = m
    BY <1>4, BoundsAssumption DEF Fragment
  <2>2. task[<<u, m>>].at = v /\ task[<<u, m>>].pc # "unborn"
    BY <2>1 DEF Inv, Entries
  <2>3. task'[<<u, m>>] = task[<<u, m>>]
    BY <1>2, <2>1, <2>2
  <2> QED BY <2>1, <2>3 DEF Inv, Entries, Live, Registered
<1>10. Outcome'
  <2>1. ASSUME NEW k \in Task, task'[k].pc = "saveTurn" PROVE task'[k].status # "running"
    <3>1. task'[k] = task[k]
      BY <2>1 DEF Crash, Gone, Unborn
    <3> QED BY <2>1, <3>1 DEF Inv, Outcome
  <2> QED BY <2>1 DEF Outcome
<1>11. OneExecutor'
  BY <1>3 DEF Inv, OneExecutor
<1>12. RunningIsServed'
  <2> SUFFICES ASSUME NEW u \in Turn, rec[u].status = "running", u \notin orphan'
               PROVE  (\E m \in Fragment : Settles(<<u, m>>)') \/ (\E d \in Conn : Beginning(d, u)')
    BY <1>1 DEF RunningIsServed
  <2>1. /\ \A m \in Fragment : ~(Live(<<u, m>>) /\ task[<<u, m>>].at = w)
        /\ \A d \in Conn : ~(Handling(d, u) /\ conn[d].at = w)
    BY DEF Crash
  <2>2. \A m \in Fragment : Settles(<<u, m>>) => Settles(<<u, m>>)'
    BY <1>2, <2>1 DEF Settles
  <2>3. \A d \in Conn : Beginning(d, u) => Beginning(d, u)'
    BY <1>1, <2>1 DEF Beginning, Handling
  <2> QED BY <1>1, <2>2, <2>3 DEF Inv, RunningIsServed
<1> QED BY <1>5, <1>6, <1>7, <1>8, <1>9, <1>10, <1>11, <1>12 DEF Inv

\* Every step keeps the invariant.
LEMMA InvStep == ASSUME Exclusive, TypeInv, Inv, [Next]_vars PROVE Inv'
<1>1. CASE UNCHANGED vars
  BY <1>1, StutterInv DEF vars
<1>2. ASSUME NEW c \in Conn, Request(c) PROVE Inv'
  BY <1>2, RequestInv
<1>3. ASSUME NEW c \in Conn, HandlerStep(c) \/ Reconnect(c) PROVE Inv'
  BY <1>3, LookUpInv, AcquireInv, SaveRecordInv, QuietInv, CreateInv, CancelLocalInv DEF HandlerStep
<1>4. ASSUME NEW k \in Task, TaskStep(k) PROVE Inv'
  BY <1>4, TaskInv
<1>5. ASSUME NEW t \in Turn, ExpireTurn(t) PROVE Inv'
  BY <1>5, ExpireTurnInv
<1>6. ASSUME NEW s \in Session, ExpireSession(s) PROVE Inv'
  BY <1>6, StutterInv DEF ExpireSession
<1>7. ASSUME NEW w \in Worker, Crash(w) PROVE Inv'
  BY <1>7, CrashInv
<1> QED BY <1>1, <1>2, <1>3, <1>4, <1>5, <1>6, <1>7 DEF Next

\* With a session's messages coming from one connection at a time, a turn is
\* executed by one task at a time (submit_user_reply, _local_tasks).
THEOREM OneExecutorHolds == ASSUME Exclusive PROVE Spec => []OneExecutor
<1>1. Init => TypeInv /\ Inv
  BY TypeInit, InvInit
<1>2. TypeInv /\ Inv /\ [Next]_vars => (TypeInv /\ Inv)'
  BY TypeStep, InvStep
<1>3. Inv => OneExecutor
  BY DEF Inv
<1> QED BY <1>1, <1>2, <1>3, PTL DEF Spec

\* A record that says "running" has a task or a handler that will settle it:
\* start_turn, submit_user_reply, cancel_turn and every exit of _execute_turn.
THEOREM RunningIsServedHolds == ASSUME Exclusive PROVE Spec => []RunningIsServed
<1>1. Init => TypeInv /\ Inv
  BY TypeInit, InvInit
<1>2. TypeInv /\ Inv /\ [Next]_vars => (TypeInv /\ Inv)'
  BY TypeStep, InvStep
<1>3. Inv => RunningIsServed
  BY DEF Inv
<1> QED BY <1>1, <1>2, <1>3, PTL DEF Spec

\* After cancel_turn has waited for the local task nothing of the turn runs
\* the agent on that worker (_local_tasks, task.cancel()).
THEOREM CancelStopsLocalTaskHolds == ASSUME Exclusive PROVE Spec => []CancelStopsLocalTask
<1>1. Init => TypeInv /\ Inv
  BY TypeInit, InvInit
<1>2. TypeInv /\ Inv /\ [Next]_vars => (TypeInv /\ Inv)'
  BY TypeStep, InvStep
<1>3. Inv => CancelStopsLocalTask
  BY DEF Inv, Handlers, DoneOK, CancelStopsLocalTask
<1> QED BY <1>1, <1>2, <1>3, PTL DEF Spec

----------------------------------------------------------------------------
(* The inductive invariant behind RowMatchesRecord and SessionsReleased.   *)
(* With Exclusive and without Roaming every task of a turn runs on the     *)
(* worker of the one connection that may send its messages, so a turn has  *)
(* one task at a time that may still write; what is said of a turn is what *)
(* that task and that connection's handler have done and have yet to do.   *)

UpTo(n)    == [i \in 1..n |-> i]
Lost(t)    == t \in dead \/ t \in orphan
Settled(t) == rec[t].status \in {"paused", "completed"}
\* The task has not written what its stream came to.
Unsaved(k) == task[k].pc \in {"new", "stream"} \/ (task[k].pc = "saveTurn" /\ ~task[k].handler)
\* The task has yet to write the row, and will.
Unpersisted(k) == \/ task[k].pc \in {"saveSession", "persist"}
                  \/ task[k].pc = "saveTurn" /\ task[k].handler /\ task[k].status = "cancelled"
CreatePC == {"startSaveTurn", "startSaveSession", "startSend", "replySaveSession"}

\* A session key names a turn of the session.
OwnSession == \A s \in Session : key[s] # NoTurn => home[key[s]] = s
\* A turn nobody has started has no record and no events.
Unstarted(t) == home[t] = NoSession => rec[t] = NoRec /\ row[t].events = <<>>
\* One task of a turn may still write, on the worker of its connection.
Alone(t) ==
    /\ \A n \in Fragment, c \in Conn :
         Registered(<<t, n>>) /\ home[t] \in Reach[c] => task[<<t, n>>].at = conn[c].at
    /\ \A m, n \in Fragment : Registered(<<t, m>>) /\ Registered(<<t, n>>) => m = n
\* Somebody will look at the session key of a turn that is over.
Pending(t) ==
    \/ \E c \in Conn : Handling(c, t)
    \/ \E n \in Fragment : Registered(<<t, n>>) \/ task[<<t, n>>].pc \in {"releaseGet", "releaseDel"}
WillRelease(t) ==
    home[t] \in Session /\ key[home[t]] = t /\ t \notin orphan =>
        rec[t].status \in {"paused", "none"} \/ Pending(t)
\* A task that leaves the session to a paused turn is right, or a
\* cancellation is under way.
PausedHeld(t) == \A n \in Fragment :
    /\ t \notin orphan
    /\ task[<<t, n>>].pc \in {"saveSession", "persist", "commit"} /\ task[<<t, n>>].status = "paused"
    => \/ rec[t].status \in {"paused", "none"}
       \/ \E c \in Conn : conn[c].turn = t /\ conn[c].pc \in {"cancelSaveSession", "cancelTask"}
\* The row agrees with a settled record, or will be written.
RowKept(t) ==
    Settled(t) /\ ~Lost(t) =>
        \/ row[t] = [status |-> rec[t].status, events |-> UpTo(rec[t].seq)]
        \/ \E n \in Fragment : Unpersisted(<<t, n>>)
\* A turn that has yet to save an outcome has none.
NotYetSettled(t) ==
    Settled(t) => /\ \A n \in Fragment : ~Unsaved(<<t, n>>)
                  /\ \A c \in Conn : ~(conn[c].turn = t /\ conn[c].pc \in CreatePC)
\* The row holds the events up to the execution under way.
Writing(k) == \/ task[k].pc \in {"new", "stream"}
              \/ /\ task[k].pc \in {"saveTurn", "saveSession", "persist"}
                 /\ task[k].status \in {"paused", "completed"}
Numbered(t) == \A n \in Fragment :
    /\ task[<<t, n>>].from <= task[<<t, n>>].seq
    /\ ~Lost(t) /\ Writing(<<t, n>>) => row[t].events = UpTo(task[<<t, n>>].from)
ReplyNumbered(t) == \A c \in Conn : ~Lost(t) /\ conn[c].turn = t =>
    /\ conn[c].pc \in {"replySaveTurn", "replySaveSession"} => row[t].events = UpTo(conn[c].seq)
    /\ conn[c].pc \in {"startSaveTurn", "startSaveSession", "startSend"} => row[t].events = UpTo(0)
\* A settled record is what the task saved that has yet to end.
SavedIsTask(t) == \A n \in Fragment :
    task[<<t, n>>].pc \in {"saveSession", "persist", "commit"} /\ Settled(t) =>
        rec[t] = [status |-> task[<<t, n>>].status, seq |-> task[<<t, n>>].seq]
\* An exception handler of the task ends in "cancelled" or "error".
HandlerStatus(t) == \A n \in Fragment : task[<<t, n>>].handler =>
    task[<<t, n>>].pc \notin {"new", "stream"} /\ task[<<t, n>>].status \in {"cancelled", "error"}
\* Whoever cancelled a task waits for it.
Awaited(t) == \A n \in Fragment :
    /\ t \notin orphan /\ task[<<t, n>>].pc = "saveTurn"
    /\ task[<<t, n>>].handler /\ task[<<t, n>>].status = "cancelled"
    => \E c \in Conn : conn[c].turn = t /\ conn[c].pc = "cancelWait" /\ conn[c].frag = n
TurnInv(t) ==
    /\ Unstarted(t) /\ Alone(t) /\ WillRelease(t) /\ PausedHeld(t)
    /\ RowKept(t) /\ NotYetSettled(t) /\ Numbered(t) /\ ReplyNumbered(t)
    /\ SavedIsTask(t) /\ HandlerStatus(t) /\ Awaited(t)
OutcomeInv == OwnSession /\ \A t \in Turn : TurnInv(t)

\* A step that has nothing to do with a turn.
Untouched(u) ==
    /\ rec'[u] = rec[u] /\ row'[u] = row[u] /\ home'[u] = home[u]
    /\ (u \in dead' <=> u \in dead) /\ (u \in orphan' <=> u \in orphan)
    /\ \A n \in Fragment : task'[<<u, n>>] = task[<<u, n>>]
    /\ home[u] \in Session /\ key'[home[u]] = u => key[home[u]] = u
    /\ \A d \in Conn : /\ conn'[d].at = conn[d].at
                       /\ conn'[d] = conn[d] \/ (~Handling(d, u) /\ ~Handling(d, u)')

\* It keeps everything that is said of the turn.
LEMMA UntouchedKeeps ==
    ASSUME NEW u \in Turn, TurnInv(u), Untouched(u)
    PROVE  TurnInv(u)'
<1> USE DEF TurnInv, Untouched
<1>1. \A n \in Fragment : /\ Registered(<<u, n>>)' <=> Registered(<<u, n>>)
                          /\ Unsaved(<<u, n>>)' <=> Unsaved(<<u, n>>)
                          /\ Unpersisted(<<u, n>>)' <=> Unpersisted(<<u, n>>)
                          /\ Writing(<<u, n>>)' <=> Writing(<<u, n>>)
  BY DEF Registered, Unsaved, Unpersisted, Writing
<1>2. (Lost(u)' <=> Lost(u)) /\ (Settled(u)' <=> Settled(u))
  BY DEF Lost, Settled
<1>3. \A d \in Conn : Handling(d, u)' <=> Handling(d, u)
  BY DEF Handling
<1>4. Unstarted(u)' /\ HandlerStatus(u)' /\ SavedIsTask(u)'
  BY <1>2 DEF Unstarted, HandlerStatus, SavedIsTask
<1>5. Alone(u)'
  BY <1>1 DEF Alone
<1>6. WillRelease(u)'
  BY <1>1, <1>3 DEF WillRelease, Pending
<1>7. PausedHeld(u)'
  BY DEF PausedHeld, Handling, WorkPC
<1>8. RowKept(u)'
  BY <1>1, <1>2 DEF RowKept
<1>9. NotYetSettled(u)'
  BY <1>1, <1>2 DEF NotYetSettled, CreatePC, Handling, WorkPC
<1>10. Numbered(u)'
  BY <1>1, <1>2 DEF Numbered
<1>11. ReplyNumbered(u)'
  BY <1>2 DEF ReplyNumbered, Handling, WorkPC
<1>12. Awaited(u)'
  BY DEF Awaited, Handling, WorkPC
<1> QED BY <1>4, <1>5, <1>6, <1>7, <1>8, <1>9, <1>10, <1>11, <1>12

\* A step of the one handler of a turn that leaves its tasks and row alone.
LEMMA HandlerTurn ==
    ASSUME NEW t \in Turn, TurnInv(t), NEW c \in Conn,
           \A n \in Fragment : task'[<<t, n>>] = task[<<t, n>>],
           row'[t] = row[t], home'[t] = home[t], UNCHANGED <<dead, orphan>>,
           \A d \in Conn \ {c} : conn'[d] = conn[d] /\ ~Handling(d, t),
           conn'[c].at = conn[c].at, home[t] # NoSession,
           rec'[t] = rec[t] \/ ~Settled(t)',
           WillRelease(t)', PausedHeld(t)', Awaited(t)',
           conn'[c].turn = t /\ conn'[c].pc \in CreatePC => ~Settled(t)',
           ~Lost(t) /\ conn'[c].turn = t =>
             /\ conn'[c].pc \in {"replySaveTurn", "replySaveSession"} => row[t].events = UpTo(conn'[c].seq)
             /\ conn'[c].pc \in {"startSaveTurn", "startSaveSession", "startSend"} => row[t].events = UpTo(0)
    PROVE  TurnInv(t)'
<1> USE DEF TurnInv
<1>1. \A n \in Fragment : /\ Registered(<<t, n>>)' <=> Registered(<<t, n>>)
                          /\ Unsaved(<<t, n>>)' <=> Unsaved(<<t, n>>)
                          /\ Unpersisted(<<t, n>>)' <=> Unpersisted(<<t, n>>)
                          /\ Writing(<<t, n>>)' <=> Writing(<<t, n>>)
  BY DEF Registered, Unsaved, Unpersisted, Writing
<1>2. (Lost(t)' <=> Lost(t)) /\ (Settled(t)' => Settled(t) /\ rec'[t] = rec[t])
  BY DEF Lost, Settled
<1>3. Unstarted(t)' /\ HandlerStatus(t)' /\ SavedIsTask(t)'
  BY <1>2 DEF Unstarted, HandlerStatus, SavedIsTask
<1>4. Alone(t)'
  BY <1>1 DEF Alone
<1>5. RowKept(t)'
  BY <1>1, <1>2 DEF RowKept
<1>6. NotYetSettled(t)'
  BY <1>1, <1>2 DEF NotYetSettled, CreatePC, Handling, WorkPC
<1>7. Numbered(t)'
  BY <1>1, <1>2 DEF Numbered
<1>8. ReplyNumbered(t)'
  BY <1>2 DEF ReplyNumbered, Handling, WorkPC
<1> QED BY <1>3, <1>4, <1>5, <1>6, <1>7, <1>8

\* A step that touches at most turn t (NoTurn: none).
Touches(t) ==
    /\ \A u \in Turn \ {t} :
         /\ rec'[u] = rec[u] /\ row'[u] = row[u]
         /\ (u \in dead' <=> u \in dead) /\ (u \in orphan' <=> u \in orphan)
         /\ \A n \in Fragment : task'[<<u, n>>] = task[<<u, n>>]
    /\ \A u \in Turn : home'[u] = home[u] \/ (u = t /\ home[u] = NoSession)
    /\ \A s \in Session : key'[s] \in {key[s], NoTurn} \/ (key'[s] = t /\ home'[t] = s)
    /\ \A d \in Conn :
         /\ conn'[d].at = conn[d].at
         /\ \/ conn'[d] = conn[d]
            \/ /\ conn[d].pc \in WorkPC => conn[d].turn = t
               /\ conn'[d].pc \in WorkPC => conn'[d].turn = t

\* All that is left to look at is the turn it touches.
LEMMA TouchesKeeps ==
    ASSUME TypeInv, OutcomeInv, NEW t, Touches(t), t \in Turn => TurnInv(t)'
    PROVE  OutcomeInv'
<1>1. ASSUME NEW u \in Turn, u # t PROVE Untouched(u)
  <2>1. home'[u] = home[u]
    BY <1>1 DEF Touches
  <2>2. home[u] \in Session /\ key'[home[u]] = u => key[home[u]] = u
    BY <1>1, NamesAssumption DEF Touches
  <2>3. \A d \in Conn : conn'[d] = conn[d] \/ (~Handling(d, u) /\ ~Handling(d, u)')
    BY <1>1 DEF Touches, Handling
  <2> QED BY <1>1, <2>1, <2>2, <2>3 DEF Touches, Untouched
<1>2. \A u \in Turn : TurnInv(u)'
  BY <1>1, UntouchedKeeps DEF OutcomeInv
<1>3. OwnSession'
  <2> SUFFICES ASSUME NEW s \in Session, key'[s] # NoTurn PROVE home'[key'[s]] = s
    BY DEF OwnSession
  <2>1. CASE key'[s] = key[s]
    <3>1. key[s] \in Turn /\ home[key[s]] = s /\ s # NoSession
      BY <2>1, NamesAssumption DEF OutcomeInv, OwnSession, TypeInv, TypeOK
    <3> QED BY <2>1, <3>1 DEF Touches
  <2>2. CASE key'[s] = t /\ home'[t] = s
    BY <2>2
  <2> QED BY <2>1, <2>2 DEF Touches
<1> QED BY <1>2, <1>3 DEF OutcomeInv

\* Only the connection of a turn's session handles it.
LEMMA SoleHandler ==
    ASSUME Exclusive, Inv, NEW t \in Turn, NEW c \in Conn, home[t] \in Reach[c],
           NEW d \in Conn \ {c}
    PROVE  ~Handling(d, t)
BY DEF Exclusive, Inv, Handlers, HomeOK, Handling

\* What a working handler has in hand.
LEMMA AtWork ==
    ASSUME TypeInv, Inv, NEW c \in Conn, conn[c].pc \in WorkPC
    PROVE  /\ conn[c].turn \in Turn /\ home[conn[c].turn] \in Reach[c]
           /\ home[conn[c].turn] \in Session /\ home[conn[c].turn] # NoSession
BY NamesAssumption DEF TypeInv, InHand, Inv, Handlers, HomeOK

\* What _local_tasks does not show does not run, without Roaming.
LEMMA NotBusy ==
    ASSUME TypeInv, Inv, NEW t \in Turn, Alone(t), NEW c \in Conn, home[t] \in Reach[c],
           ~LocalBusy(conn[c].at, t), NEW n \in Fragment
    PROVE  ~Registered(<<t, n>>)
<1> SUFFICES ASSUME Registered(<<t, n>>) PROVE FALSE
  OBVIOUS
<1>1. task[<<t, n>>].at = conn[c].at /\ local[conn[c].at][t] = n
  BY DEF Alone, Inv, Registry
<1>2. n # 0 /\ Live(<<t, n>>)
  BY BoundsAssumption DEF Fragment, Registered, Live
<1> QED BY <1>1, <1>2 DEF LocalBusy

\* A handler about to create a task has none to wait for.
LEMMA NoneRegistered ==
    ASSUME TypeInv, Inv, NEW c \in Conn, conn[c].pc \in BeforePC, NEW t, t = conn[c].turn,
           Alone(t), NEW n \in Fragment
    PROVE  t \in Turn /\ ~Registered(<<t, n>>)
<1>1. conn[c].pc \in WorkPC
  BY DEF WorkPC, BeforePC
<1>2. t \in Turn /\ home[t] \in Reach[c]
  BY <1>1, AtWork
<1> QED BY <1>2 DEF Inv, Handlers, BeforeOK, Alone

\* A handler's step on its turn that leaves tasks and row alone.
LEMMA HandlerKeeps ==
    ASSUME Exclusive, TypeInv, Inv, OutcomeInv, NEW c \in Conn, NEW t \in Turn, home[t] \in Reach[c],
           conn[c].pc \in WorkPC => conn[c].turn = t,
           \A d \in Conn \ {c} : conn'[d] = conn[d],
           conn'[c].at = conn[c].at, conn'[c].turn = t \/ conn'[c].pc = "idle",
           UNCHANGED <<home, task, row, dead, orphan>>,
           \A u \in Turn \ {t} : rec'[u] = rec[u],
           rec'[t] = rec[t] \/ ~Settled(t)',
           \A s \in Session : key'[s] \in {key[s], NoTurn} \/ (key'[s] = t /\ home[t] = s),
           WillRelease(t)', PausedHeld(t)', Awaited(t)',
           conn'[c].pc \in CreatePC => ~Settled(t)',
           ~Lost(t) =>
             /\ conn'[c].pc \in {"replySaveTurn", "replySaveSession"} => row[t].events = UpTo(conn'[c].seq)
             /\ conn'[c].pc \in {"startSaveTurn", "startSaveSession", "startSend"} => row[t].events = UpTo(0)
    PROVE  OutcomeInv'
<1>1. home[t] # NoSession
  BY NamesAssumption
<1>2. \A d \in Conn \ {c} : conn'[d] = conn[d] /\ ~Handling(d, t)
  BY SoleHandler
<1>3. TurnInv(t)'
  BY <1>1, <1>2, HandlerTurn DEF OutcomeInv
<1>4. Touches(t)
  BY DEF Touches, WorkPC
<1> QED BY <1>3, <1>4, TouchesKeeps

\* A turn without a task that may still write.
LEMMA QuietTurn ==
    ASSUME NEW t, \A n \in Fragment : ~Registered(<<t, n>>)'
    PROVE  PausedHeld(t)' /\ Awaited(t)'
BY DEF PausedHeld, Awaited, Registered

\* Receiving a reply or a cancellation keeps the invariant.
LEMMA RequestOut ==
    ASSUME Exclusive, TypeInv, Inv, OutcomeInv, NEW c \in Conn, Request(c)
    PROVE  OutcomeInv'
<1>0. conn \in [Conn -> ConnState]
  BY ConnFields DEF TypeInv
<1>1. UNCHANGED <<rec, key, home, task, local, row, started, dead, orphan, crashes>> /\ conn[c].pc = "idle"
  BY DEF Request, ReceiveMessage, ReceiveReply, ReceiveCancel, store
<1>2. CASE ReceiveMessage(c)
  <2>1. PICK s \in Reach[c] : conn' = [conn EXCEPT ![c].pc = "lookKey", ![c].session = s]
    BY <1>2 DEF ReceiveMessage
  <2>2. /\ conn'[c].pc = "lookKey" /\ conn'[c].at = conn[c].at
        /\ \A d \in Conn \ {c} : conn'[d] = conn[d]
    BY <1>0, <2>1 DEF ConnState
  <2>3. Touches(NoTurn)
    BY <1>1, <2>2 DEF Touches, WorkPC
  <2> QED BY <2>3, TouchesKeeps, NamesAssumption
<1>3. ASSUME NEW p \in {"replySaveTurn", "cancelSaveTurn"}, NEW t \in Turn, home[t] \in Reach[c],
             conn' = [conn EXCEPT ![c].pc = p, ![c].turn = t, ![c].seq = rec[t].seq],
             p = "replySaveTurn" => rec[t].status = "paused" /\ ~LocalBusy(conn[c].at, t)
      PROVE  OutcomeInv'
  <2>1. /\ conn'[c].pc = p /\ conn'[c].at = conn[c].at /\ conn'[c].turn = t
        /\ conn'[c].seq = rec[t].seq
        /\ \A d \in Conn \ {c} : conn'[d] = conn[d]
    BY <1>0, <1>3 DEF ConnState
  <2>2. TurnInv(t)
    BY DEF OutcomeInv
  <2>3. WillRelease(t)'
    BY <2>1 DEF WillRelease, Pending, Handling, WorkPC
  <2>4. \A d \in Conn : \/ /\ conn'[d].pc = conn[d].pc /\ conn'[d].turn = conn[d].turn
                           /\ conn'[d].frag = conn[d].frag
                        \/ conn[d].pc = "idle"
    BY <1>1, <2>1
  <2>5. PausedHeld(t)' /\ Awaited(t)'
    BY <1>1, <2>2, <2>4 DEF TurnInv, PausedHeld, Awaited
  <2>6. ASSUME ~Lost(t), p = "replySaveTurn" PROVE row[t].events = UpTo(rec[t].seq)
    <3>1. \A n \in Fragment : ~Registered(<<t, n>>)
      BY <1>3, <2>2, <2>6, NotBusy DEF TurnInv
    <3>2. Settled(t)
      BY <1>3, <2>6 DEF Settled
    <3>3. \A n \in Fragment : ~Unpersisted(<<t, n>>)
      BY <3>1 DEF Unpersisted, Registered
    <3>4. row[t] = [status |-> rec[t].status, events |-> UpTo(rec[t].seq)]
      BY <2>2, <2>6, <3>2, <3>3 DEF TurnInv, RowKept
    <3> QED BY <3>4
  <2> QED BY <1>1, <1>3, <2>1, <2>3, <2>5, <2>6, HandlerKeeps DEF CreatePC, WorkPC
<1>4. CASE ReceiveReply(c)
  BY <1>3, <1>4 DEF ReceiveReply, Known
<1>5. CASE ReceiveCancel(c)
  BY <1>3, <1>5 DEF ReceiveCancel, Known
<1> QED BY <1>2, <1>4, <1>5 DEF Request

\* Only the handlers' own state changes, and no handler of a turn moves.
LEMMA LookUpOut ==
    ASSUME TypeInv, Inv, OutcomeInv, ~Roaming, NEW c \in Conn,
           \/ LookUpSession(c) \/ LookUpActive(c) \/ GetExisting(c) \/ GetExistingRecord(c)
           \/ (Acquire(c) /\ UNCHANGED <<key, home>>) \/ Reconnect(c)
    PROVE  OutcomeInv'
<1>0. conn \in [Conn -> ConnState]
  BY ConnFields DEF TypeInv
<1>1. UNCHANGED <<rec, key, home, task, local, row, started, dead, orphan, crashes>>
  BY DEF LookUpSession, LookUpActive, GetExisting, GetExistingRecord, Acquire, Reconnect, store
<1>2. conn[c].pc \notin WorkPC
  BY DEF LookUpSession, LookUpActive, GetExisting, GetExistingRecord, Acquire, Reconnect, WorkPC
<1>3. /\ conn'[c].at = conn[c].at /\ conn'[c].pc \notin WorkPC
      /\ \A d \in Conn \ {c} : conn'[d] = conn[d]
  <2>1. ASSUME NEW p \in {"acquire", "lookRec", "getExistingRec", "overwrite", "getExisting"}, NEW x,
               conn' = [conn EXCEPT ![c].pc = p, ![c].turn = x] \/ conn' = [conn EXCEPT ![c].pc = p]
        PROVE  /\ conn'[c].at = conn[c].at /\ conn'[c].pc \notin WorkPC
               /\ \A d \in Conn \ {c} : conn'[d] = conn[d]
    <3>1. conn'[c].pc = p /\ conn'[c].at = conn[c].at /\ \A d \in Conn \ {c} : conn'[d] = conn[d]
      BY <1>0, <2>1 DEF ConnState
    <3> QED BY <3>1 DEF WorkPC
  <2>2. ASSUME ConnIdle(c)
        PROVE  /\ conn'[c].at = conn[c].at /\ conn'[c].pc \notin WorkPC
               /\ \A d \in Conn \ {c} : conn'[d] = conn[d]
    BY <1>0, <2>2 DEF ConnIdle, IdleAt, WorkPC
  <2>3. CASE LookUpSession(c)
    BY <2>1, <2>3 DEF LookUpSession
  <2>4. CASE LookUpActive(c)
    BY <2>1, <2>2, <2>4 DEF LookUpActive
  <2>5. CASE GetExisting(c)
    BY <2>1, <2>5 DEF GetExisting
  <2>6. CASE GetExistingRecord(c)
    BY <2>1, <2>2, <2>6 DEF GetExistingRecord
  <2>7. CASE Acquire(c) /\ UNCHANGED <<key, home>>
    <3>1. Goto(c, "getExisting")
      <4>1. ASSUME NEW t \in Turn, Take(c, t) PROVE FALSE
        <5>1. home'[t] = conn[c].session /\ home[t] = NoSession
          BY <4>1 DEF Take, TypeInv, TypeOK
        <5>2. conn[c].session \in Session
          BY <2>7 DEF Acquire, TypeInv, InHand, StartPC
        <5> QED BY <2>7, <5>1, <5>2, NamesAssumption
      <4> QED BY <2>7, <4>1 DEF Acquire
    <3> QED BY <2>1, <3>1 DEF Goto
  <2>8. CASE Reconnect(c)
    BY <1>0, <2>8 DEF Reconnect, IdleAt, WorkPC
  <2> QED BY <2>3, <2>4, <2>5, <2>6, <2>7, <2>8
<1>4. Touches(NoTurn)
  BY <1>1, <1>2, <1>3 DEF Touches
<1> QED BY <1>4, TouchesKeeps, NamesAssumption

\* The SETs of start_turn and submit_user_reply before create_task.
LEMMA BeforeOut ==
    ASSUME Exclusive, TypeInv, Inv, OutcomeInv, NEW c \in Conn,
           StartSaveTurn(c) \/ StartSaveSession(c) \/ ReplySaveTurn(c)
    PROVE  OutcomeInv'
<1>1. PICK t : t = conn[c].turn
  OBVIOUS
<1>2. /\ UNCHANGED <<home, task, row, dead, orphan>>
      /\ conn[c].pc \in {"startSaveTurn", "startSaveSession", "replySaveTurn"}
      /\ conn[c].pc \in BeforePC /\ conn[c].pc \in WorkPC
  BY DEF StartSaveTurn, StartSaveSession, ReplySaveTurn, BeforePC, WorkPC
<1>3. t \in Turn /\ home[t] \in Reach[c] /\ home[t] \in Session
  BY <1>1, <1>2, AtWork
<1>4. TurnInv(t)
  BY <1>3 DEF OutcomeInv
<1>5. PICK p \in {"startSaveSession", "startSend", "replySaveSession"} :
        /\ Goto(c, p)
        /\ p = "replySaveSession" => conn[c].pc = "replySaveTurn"
        /\ p # "replySaveSession" => conn[c].pc \in {"startSaveTurn", "startSaveSession"}
        /\ p = "startSend" => conn[c].pc = "startSaveSession" /\ UNCHANGED rec
  BY DEF StartSaveTurn, StartSaveSession, ReplySaveTurn
<1>6. /\ conn'[c].pc = p /\ conn'[c].turn = t /\ conn'[c].at = conn[c].at
      /\ conn'[c].seq = conn[c].seq /\ \A d \in Conn \ {c} : conn'[d] = conn[d]
  <2>1. conn \in [Conn -> ConnState] /\ conn' = [conn EXCEPT ![c].pc = p]
    BY <1>5, ConnFields DEF TypeInv, Goto
  <2> QED BY <1>1, <2>1 DEF ConnState
<1>7. PausedHeld(t)' /\ Awaited(t)'
  <2>1. \A n \in Fragment : ~Registered(<<t, n>>)'
    BY <1>1, <1>2, <1>4, NoneRegistered DEF TurnInv, Registered
  <2> QED BY <2>1, QuietTurn
<1>8. WillRelease(t)'
  BY <1>6 DEF WillRelease, Pending, Handling, WorkPC
<1>9. /\ \A u \in Turn \ {t} : rec'[u] = rec[u]
      /\ rec'[t] = rec[t] \/ ~Settled(t)'
      /\ p = "startSend" \/ ~Settled(t)'
  <2>1. CASE StartSaveSession(c)
    <3>1. rec' = rec /\ Goto(c, "startSend")
      BY <2>1 DEF StartSaveSession
    <3>2. p = "startSend"
      BY <1>6, <3>1, GotoFields, PCs
    <3> QED BY <3>1, <3>2
  <2>2. CASE StartSaveTurn(c) \/ ReplySaveTurn(c)
    <3>1. PICK q : rec' = [rec EXCEPT ![t] = [status |-> "running", seq |-> q]]
      BY <1>1, <2>2 DEF StartSaveTurn, ReplySaveTurn, SaveTurnKey
    <3>2. rec'[t].status = "running" /\ \A u \in Turn \ {t} : rec'[u] = rec[u]
      BY <1>3, <3>1 DEF TypeInv, TypeOK
    <3> QED BY <3>2 DEF Settled
  <2> QED BY <2>1, <2>2
<1>10. \A s \in Session : key'[s] \in {key[s], NoTurn} \/ (key'[s] = t /\ home[t] = s)
  BY <1>1 DEF StartSaveTurn, StartSaveSession, ReplySaveTurn, SaveSessionKey, TypeInv, TypeOK
<1>11. conn'[c].pc \in CreatePC => ~Settled(t)'
  <2>1. CASE p = "startSend"
    BY <1>1, <1>4, <1>5, <2>1 DEF TurnInv, NotYetSettled, CreatePC, Settled
  <2> QED BY <1>9, <2>1
<1>12. ~Lost(t) =>
         /\ conn'[c].pc \in {"replySaveTurn", "replySaveSession"} => row[t].events = UpTo(conn'[c].seq)
         /\ conn'[c].pc \in {"startSaveTurn", "startSaveSession", "startSend"} => row[t].events = UpTo(0)
  BY <1>1, <1>4, <1>5, <1>6 DEF TurnInv, ReplyNumbered
<1> QED BY <1>1, <1>2, <1>3, <1>6, <1>7, <1>8, <1>9, <1>10, <1>11, <1>12, HandlerKeeps

\* The steps of cancel_turn but the one that reaches the local task.
LEMMA CancelOut ==
    ASSUME Exclusive, TypeInv, Inv, OutcomeInv, NEW c \in Conn,
           \/ CancelSaveTurn(c) \/ CancelSaveSession(c) \/ CancelWait(c)
           \/ CancelReleaseGet(c) \/ CancelReleaseDelete(c)
           \/ CancelLocalTask(c) /\ ~LocalBusy(conn[c].at, conn[c].turn)
    PROVE  OutcomeInv'
<1>0. conn \in [Conn -> ConnState]
  BY ConnFields DEF TypeInv
<1>1. PICK t : t = conn[c].turn
  OBVIOUS
<1>2. /\ UNCHANGED <<home, task, row, dead, orphan>>
      /\ conn[c].pc \in {"cancelSaveTurn", "cancelSaveSession", "cancelTask", "cancelWait", "releaseGet", "releaseDel"}
      /\ conn[c].pc \in WorkPC
  BY DEF CancelSaveTurn, CancelSaveSession, CancelWait, CancelReleaseGet, CancelReleaseDelete,
         CancelLocalTask, WorkPC
<1>3. t \in Turn /\ home[t] \in Reach[c] /\ home[t] \in Session
  BY <1>1, <1>2, AtWork
<1>4. TurnInv(t)
  BY <1>3 DEF OutcomeInv
<1>5. \A d \in Conn \ {c} : ~Handling(d, t)
  BY <1>3, SoleHandler
<1>6. ASSUME NEW p \in {"cancelSaveSession", "cancelTask", "releaseGet", "releaseDel", "idle"},
             conn'[c].pc = p, conn'[c].at = conn[c].at, p # "idle" => conn'[c].turn = t,
             \A d \in Conn \ {c} : conn'[d] = conn[d],
             \A u \in Turn \ {t} : rec'[u] = rec[u],
             rec'[t] = rec[t] \/ ~Settled(t)',
             \A s \in Session : key'[s] \in {key[s], NoTurn} \/ (key'[s] = t /\ home[t] = s),
             p = "idle" => key'[home[t]] # t,
             PausedHeld(t)', Awaited(t)'
      PROVE  OutcomeInv'
  <2>1. WillRelease(t)'
    BY <1>2, <1>6 DEF WillRelease, Pending, Handling, WorkPC
  <2> QED BY <1>1, <1>2, <1>3, <1>6, <2>1, HandlerKeeps DEF CreatePC
<1>7. ASSUME NEW p \in ConnPC, Goto(c, p)
      PROVE  /\ conn'[c].pc = p /\ conn'[c].turn = t /\ conn'[c].at = conn[c].at
             /\ \A d \in Conn \ {c} : conn'[d] = conn[d]
  <2>1. conn' = [conn EXCEPT ![c].pc = p]
    BY <1>7 DEF Goto
  <2> QED BY <1>0, <1>1, <2>1 DEF ConnState
<1>8. ASSUME ConnIdle(c)
      PROVE  /\ conn'[c].pc = "idle" /\ conn'[c].at = conn[c].at
             /\ \A d \in Conn \ {c} : conn'[d] = conn[d]
  BY <1>0, <1>8 DEF ConnIdle, IdleAt
\* Nobody else waits for a task of the turn.
<1>9. ASSUME conn[c].pc # "cancelWait", \A d \in Conn \ {c} : conn'[d] = conn[d] PROVE Awaited(t)'
  <2>1. \A d \in Conn : ~(conn[d].turn = t /\ conn[d].pc = "cancelWait")
    BY <1>5, <1>9 DEF Handling, WorkPC
  <2> QED BY <1>2, <1>4, <2>1 DEF TurnInv, Awaited
<1>10. ASSUME conn[c].pc \notin {"cancelSaveSession", "cancelTask"}, rec' = rec PROVE PausedHeld(t)'
  <2>1. \A d \in Conn : ~(conn[d].turn = t /\ conn[d].pc \in {"cancelSaveSession", "cancelTask"})
    BY <1>5, <1>10 DEF Handling, WorkPC
  <2> QED BY <1>2, <1>4, <1>10, <2>1 DEF TurnInv, PausedHeld
<1>11. CASE CancelSaveTurn(c)
  <2>1. /\ rec' = [rec EXCEPT ![t] = [status |-> "cancelled", seq |-> conn[c].seq]] /\ key' = key
        /\ Goto(c, "cancelSaveSession") /\ conn[c].pc = "cancelSaveTurn"
    BY <1>1, <1>11 DEF CancelSaveTurn, SaveTurnKey
  <2>2. ~Settled(t)' /\ \A u \in Turn \ {t} : rec'[u] = rec[u]
    BY <1>3, <2>1 DEF Settled, TypeInv, TypeOK
  <2>3. conn'[c].pc = "cancelSaveSession" /\ conn'[c].turn = t
    BY <1>7, <2>1, PCs
  <2>4. PausedHeld(t)'
    BY <2>3 DEF PausedHeld
  <2> QED BY <1>6, <1>7, <1>9, <2>1, <2>2, <2>3, <2>4, PCs
<1>12. CASE CancelSaveSession(c)
  <2>1. rec' = rec /\ Goto(c, "cancelTask") /\ conn[c].pc = "cancelSaveSession"
    BY <1>12 DEF CancelSaveSession
  <2>2. \A s \in Session : key'[s] = key[s] \/ (key'[s] = t /\ home[t] = s)
    BY <1>1, <1>12 DEF CancelSaveSession, SaveSessionKey, TypeInv, TypeOK
  <2>3. conn'[c].pc = "cancelTask" /\ conn'[c].turn = t
    BY <1>7, <2>1, PCs
  <2>4. PausedHeld(t)'
    BY <2>3 DEF PausedHeld
  <2> QED BY <1>6, <1>7, <1>9, <2>1, <2>2, <2>3, <2>4, PCs
<1>13. CASE CancelWait(c)
  <2>1. /\ rec' = rec /\ key' = key /\ Goto(c, "releaseGet") /\ conn[c].pc = "cancelWait"
        /\ ~Live(<<t, conn[c].frag>>)
    BY <1>1, <1>13 DEF CancelWait, store
  <2>2. Awaited(t)'
    <3> SUFFICES ASSUME NEW n \in Fragment, t \notin orphan, task[<<t, n>>].pc = "saveTurn",
                        task[<<t, n>>].handler, task[<<t, n>>].status = "cancelled"
                 PROVE  FALSE
      BY <1>2 DEF Awaited
    <3>1. PICK d \in Conn : conn[d].turn = t /\ conn[d].pc = "cancelWait" /\ conn[d].frag = n
      BY <1>4 DEF TurnInv, Awaited
    <3>2. d = c
      BY <1>5, <3>1 DEF Handling, WorkPC
    <3> QED BY <2>1, <3>1, <3>2 DEF Live
  <2> QED BY <1>6, <1>7, <1>10, <2>1, <2>2, PCs
<1>14. CASE CancelReleaseGet(c)
  <2>1. /\ rec' = rec /\ key' = key /\ conn[c].pc = "releaseGet"
        /\ Goto(c, "releaseDel") \/ (ConnIdle(c) /\ key[home[t]] # t)
    BY <1>1, <1>14 DEF CancelReleaseGet, store
  <2> QED BY <1>6, <1>7, <1>8, <1>9, <1>10, <2>1, PCs
<1>15. CASE CancelReleaseDelete(c)
  <2>1. /\ rec' = rec /\ key' = [key EXCEPT ![home[t]] = NoTurn] /\ conn[c].pc = "releaseDel"
        /\ ConnIdle(c)
    BY <1>1, <1>15 DEF CancelReleaseDelete
  <2>2. key'[home[t]] = NoTurn /\ \A s \in Session : key'[s] \in {key[s], NoTurn}
    BY <1>3, <2>1 DEF TypeInv, TypeOK
  <2>3. key'[home[t]] # t
    BY <1>3, <2>2, NamesAssumption
  <2> QED BY <1>6, <1>8, <1>9, <1>10, <2>1, <2>2, <2>3
<1>16. CASE CancelLocalTask(c) /\ ~LocalBusy(conn[c].at, conn[c].turn)
  <2>1. rec' = rec /\ key' = key /\ Goto(c, "releaseGet")
    BY <1>16 DEF CancelLocalTask, store
  <2>2. \A n \in Fragment : ~Registered(<<t, n>>)'
    BY <1>1, <1>2, <1>3, <1>4, <1>16, NotBusy DEF TurnInv, Registered
  <2> QED BY <1>6, <1>7, <2>1, <2>2, QuietTurn, PCs
<1> QED BY <1>11, <1>12, <1>13, <1>14, <1>15, <1>16

\* A turn that takes a session key is fresh.
LEMMA TakeOut ==
    ASSUME TypeInv, Inv, OutcomeInv, NEW c \in Conn, NEW t \in Turn, Take(c, t),
           conn[c].pc \in {"acquire", "overwrite"},
           UNCHANGED <<rec, task, local, row, dead, orphan>>
    PROVE  OutcomeInv'
<1>1. /\ conn'[c].pc = "startSaveTurn" /\ conn'[c].turn = t /\ conn'[c].at = conn[c].at
      /\ \A d \in Conn \ {c} : conn'[d] = conn[d]
  <2>1. conn' = [conn EXCEPT ![c].pc = "startSaveTurn", ![c].turn = t]
    BY DEF Take
  <2>2. \A d \in Conn \ {c} : conn'[d] = conn[d]
    BY <2>1, ConnFields DEF TypeInv
  <2>3. conn'[c].pc = "startSaveTurn" /\ conn'[c].turn = t /\ conn'[c].at = conn[c].at
    BY ZenonT(40), <2>1, LookFields
  <2> QED BY <2>2, <2>3
<1>2. conn[c].session \in Session
  BY DEF TypeInv, InHand, StartPC
<1>3. /\ home[t] = NoSession /\ home'[t] = conn[c].session
      /\ \A u \in Turn \ {t} : home'[u] = home[u]
      /\ key'[conn[c].session] = t /\ \A s \in Session \ {conn[c].session} : key'[s] = key[s]
  BY <1>2 DEF Take, TypeInv, TypeOK
<1>4. /\ \A n \in Fragment : task[<<t, n>>].pc = "unborn"
      /\ rec[t].status = "none" /\ row[t].events = <<>>
  BY <1>3 DEF Inv, FreshTurns, OutcomeInv, TurnInv, Unstarted, NoRec
<1>5. \A d \in Conn : ~Handling(d, t)
  BY <1>3, NamesAssumption DEF Inv, Handlers, HomeOK, Handling
<1>6. Touches(t)
  BY <1>1, <1>3 DEF Touches, WorkPC
<1>7. TurnInv(t)'
  <2>1. TurnInv(t)
    BY DEF OutcomeInv
  <2>2. \A n \in Fragment : ~Registered(<<t, n>>)' /\ ~Unpersisted(<<t, n>>)' /\ ~Writing(<<t, n>>)'
    BY <1>4 DEF Registered, Unpersisted, Writing
  <2>3. ~Settled(t)' /\ home'[t] # NoSession
    BY <1>2, <1>3, <1>4, NamesAssumption DEF Settled
  <2>4. Unstarted(t)' /\ Alone(t)' /\ WillRelease(t)'
    BY <1>4, <2>2, <2>3 DEF Unstarted, Alone, WillRelease
  <2>5. PausedHeld(t)' /\ Awaited(t)'
    BY <2>2, QuietTurn
  <2>6. RowKept(t)' /\ NotYetSettled(t)' /\ SavedIsTask(t)'
    BY <2>3 DEF RowKept, NotYetSettled, SavedIsTask
  <2>7. Numbered(t)' /\ HandlerStatus(t)'
    BY <2>1, <2>2 DEF TurnInv, Numbered, HandlerStatus
  <2>8. ReplyNumbered(t)'
    <3>1. UpTo(0) = <<>>
      BY DEF UpTo
    <3> QED BY <1>1, <1>4, <1>5, <3>1 DEF ReplyNumbered, Handling, WorkPC
  <2> QED BY <2>4, <2>5, <2>6, <2>7, <2>8 DEF TurnInv
<1> QED BY <1>6, <1>7, TouchesKeeps

\* create_task numbers the events of the new execution from the record's.
LEMMA CreateOut ==
    ASSUME Exclusive, TypeInv, Inv, OutcomeInv, NEW c \in Conn, StartCreateTask(c) \/ ReplySaveSession(c)
    PROVE  OutcomeInv'
<1>1. PICK t : t = conn[c].turn
  OBVIOUS
<1>2. /\ UNCHANGED <<rec, home, row, dead, orphan>> /\ ConnIdle(c)
      /\ conn[c].pc \in {"startSend", "replySaveSession"}
      /\ conn[c].pc \in BeforePC /\ conn[c].pc \in WorkPC
  BY DEF StartCreateTask, ReplySaveSession, store, BeforePC, WorkPC
<1>3. t \in Turn /\ home[t] \in Reach[c] /\ home[t] \in Session /\ home[t] # NoSession
  BY <1>1, <1>2, AtWork
<1>4. TurnInv(t)
  BY <1>3 DEF OutcomeInv
<1>5. /\ conn'[c].pc = "idle" /\ conn'[c].at = conn[c].at
      /\ \A d \in Conn \ {c} : conn'[d] = conn[d]
  <2>1. conn \in [Conn -> ConnState]
    BY ConnFields DEF TypeInv
  <2> QED BY <1>2, <2>1 DEF ConnIdle, IdleAt
<1>6. PICK q : /\ q \in Nat /\ CreateTask(c, t, q)
               /\ ~Lost(t) => row[t].events = UpTo(q)
  <2>1. conn[c].seq \in 0..MaxEvents
    BY ConnFields DEF TypeInv
  <2>2. CASE StartCreateTask(c)
    <3>1. CreateTask(c, t, 0) /\ (~Lost(t) => row[t].events = UpTo(0))
      BY <1>1, <1>4, <2>2 DEF StartCreateTask, TurnInv, ReplyNumbered
    <3> QED BY <3>1
  <2>3. CASE ReplySaveSession(c)
    <3>1. CreateTask(c, t, conn[c].seq) /\ (~Lost(t) => row[t].events = UpTo(conn[c].seq))
      BY <1>1, <1>4, <2>3 DEF ReplySaveSession, TurnInv, ReplyNumbered
    <3> QED BY <2>1, <3>1, BoundsAssumption
  <2> QED BY <2>2, <2>3
<1>7. PICK n \in Fragment :
        task' = [task EXCEPT ![<<t, n>>] =
                   [Unborn(conn[c].at) EXCEPT !.pc = "new", !.seq = q, !.from = q]]
  BY <1>6 DEF CreateTask
<1>8. <<t, n>> \in Task /\ \A u \in Turn, m \in Fragment : <<u, m>> \in Task /\ (<<u, m>> = <<t, n>> => u = t /\ m = n)
  BY <1>3 DEF Task
<1>9. /\ task'[<<t, n>>].pc = "new" /\ task'[<<t, n>>].at = conn[c].at
      /\ task'[<<t, n>>].seq = q /\ task'[<<t, n>>].from = q /\ ~task'[<<t, n>>].handler
      /\ \A u \in Turn, m \in Fragment : u # t \/ m # n => task'[<<u, m>>] = task[<<u, m>>]
  <2>1. task \in [Task -> TaskState]
    BY DEF TypeInv, TypeOK
  <2> QED BY <1>7, <1>8, <2>1 DEF Unborn
<1>10. \A m \in Fragment : ~Registered(<<t, m>>)
  BY <1>1, <1>2, <1>4, NoneRegistered DEF TurnInv
<1>11. \A d \in Conn \ {c} : ~Handling(d, t)
  BY <1>3, SoleHandler
<1>12. Touches(t)
  <2>1. \A s \in Session : key'[s] = key[s] \/ (key'[s] = t /\ home'[t] = s)
    BY <1>1, <1>2 DEF StartCreateTask, ReplySaveSession, store, SaveSessionKey, TypeInv, TypeOK
  <2> QED BY <1>1, <1>2, <1>5, <1>9, <2>1 DEF Touches, WorkPC
<1>13. TurnInv(t)'
  <2>1. \A m \in Fragment \ {n} : ~Registered(<<t, m>>)' /\ task'[<<t, m>>] = task[<<t, m>>]
    BY <1>3, <1>9, <1>10 DEF Registered
  <2>2. ~Settled(t)'
    <3>1. conn[c].pc \in CreatePC
      BY <1>2 DEF CreatePC
    <3> QED BY <1>1, <1>2, <1>4, <3>1 DEF TurnInv, NotYetSettled, Settled
  <2>3. Unstarted(t)'
    BY <1>2, <1>3 DEF Unstarted
  <2>4. Alone(t)'
    <3>1. \A d \in Conn : home[t] \in Reach[d] => d = c
      BY <1>3 DEF Exclusive
    <3> QED BY <1>2, <1>5, <1>9, <2>1, <3>1 DEF Alone
  <2>5. WillRelease(t)'
    BY <1>9 DEF WillRelease, Pending, Registered
  <2>6. PausedHeld(t)' /\ Awaited(t)'
    BY <1>9, <2>1 DEF PausedHeld, Awaited, Registered
  <2>7. RowKept(t)' /\ NotYetSettled(t)' /\ SavedIsTask(t)'
    BY <2>2 DEF RowKept, NotYetSettled, SavedIsTask
  <2>8. Numbered(t)'
    <3>1. \A m \in Fragment \ {n} : ~Writing(<<t, m>>)'
      BY <2>1 DEF Writing, Registered
    <3>2. Lost(t)' <=> Lost(t)
      BY <1>2 DEF Lost
    <3> QED BY <1>2, <1>4, <1>6, <1>9, <2>1, <3>1, <3>2 DEF TurnInv, Numbered
  <2>9. ReplyNumbered(t)'
    BY <1>5, <1>11 DEF ReplyNumbered, Handling, WorkPC
  <2>10. HandlerStatus(t)'
    BY <1>4, <1>9, <2>1 DEF TurnInv, HandlerStatus
  <2> QED BY <2>3, <2>4, <2>5, <2>6, <2>7, <2>8, <2>9, <2>10 DEF TurnInv
<1> QED BY <1>12, <1>13, TouchesKeeps

\* A step of a task that writes neither its record nor its row.
LEMMA TaskTurn ==
    ASSUME NEW t \in Turn, NEW n \in Fragment, TurnInv(t), home[t] # NoSession,
           \A m \in Fragment \ {n} : task'[<<t, m>>] = task[<<t, m>>],
           \A d \in Conn : conn'[d].at = conn[d].at,
           \A d \in Conn : conn'[d] = conn[d] \/ conn'[d].pc = "cancelWait",
           UNCHANGED <<rec, row, home, dead, orphan>>,
           task'[<<t, n>>].at = task[<<t, n>>].at,
           Registered(<<t, n>>)' => Registered(<<t, n>>),
           task'[<<t, n>>].from <= task'[<<t, n>>].seq,
           WillRelease(t)', PausedHeld(t)', Awaited(t)',
           Settled(t) => ~Unsaved(<<t, n>>)',
           ~Lost(t) /\ Settled(t) /\ Unpersisted(<<t, n>>) => Unpersisted(<<t, n>>)',
           Writing(<<t, n>>)' => Writing(<<t, n>>) /\ task'[<<t, n>>].from = task[<<t, n>>].from,
           task'[<<t, n>>].pc \in {"saveSession", "persist", "commit"} /\ Settled(t) =>
               rec[t] = [status |-> task'[<<t, n>>].status, seq |-> task'[<<t, n>>].seq],
           task'[<<t, n>>].handler => /\ task'[<<t, n>>].pc \notin {"new", "stream"}
                                      /\ task'[<<t, n>>].status \in {"cancelled", "error"}
    PROVE  TurnInv(t)'
<1> USE DEF TurnInv
<1>1. \A m \in Fragment \ {n} : /\ Registered(<<t, m>>)' <=> Registered(<<t, m>>)
                                /\ Unsaved(<<t, m>>)' <=> Unsaved(<<t, m>>)
                                /\ Unpersisted(<<t, m>>)' <=> Unpersisted(<<t, m>>)
                                /\ Writing(<<t, m>>)' <=> Writing(<<t, m>>)
  BY DEF Registered, Unsaved, Unpersisted, Writing
<1>2. (Lost(t)' <=> Lost(t)) /\ (Settled(t)' <=> Settled(t))
  BY DEF Lost, Settled
<1>3. Unstarted(t)'
  BY DEF Unstarted
<1>4. Alone(t)'
  <2>1. \A m \in Fragment : /\ task'[<<t, m>>].at = task[<<t, m>>].at
                            /\ Registered(<<t, m>>)' => Registered(<<t, m>>)
    BY <1>1
  <2> QED BY <2>1 DEF Alone
<1>5. RowKept(t)'
  <2>1. ~Lost(t) /\ Settled(t) => \A m \in Fragment : Unpersisted(<<t, m>>) => Unpersisted(<<t, m>>)'
    BY <1>1
  <2> QED BY <1>2, <2>1 DEF RowKept
<1>6. NotYetSettled(t)'
  <2>1. Settled(t) => \A m \in Fragment : ~Unsaved(<<t, m>>)'
    BY <1>1 DEF NotYetSettled
  <2> QED BY <1>2, <2>1 DEF NotYetSettled, CreatePC
<1>7. Numbered(t)'
  BY <1>1, <1>2 DEF Numbered
<1>8. ReplyNumbered(t)'
  BY <1>2 DEF ReplyNumbered
<1>9. SavedIsTask(t)' /\ HandlerStatus(t)'
  BY <1>2 DEF SavedIsTask, HandlerStatus
<1> QED BY <1>3, <1>4, <1>5, <1>6, <1>7, <1>8, <1>9

\* task.cancel(): the handler that cancelled waits for what the task does next.
LEMMA InterruptOut ==
    ASSUME Exclusive, TypeInv, Inv, OutcomeInv, NEW c \in Conn, CancelLocalTask(c),
           LocalBusy(conn[c].at, conn[c].turn)
    PROVE  OutcomeInv'
<1>1. PICK t, n : t = conn[c].turn /\ n = local[conn[c].at][t]
  OBVIOUS
<1>2. /\ UNCHANGED <<rec, key, home, row, dead, orphan>> /\ conn[c].pc = "cancelTask"
      /\ conn[c].pc \in WorkPC /\ Interrupt(<<t, n>>)
      /\ conn' = [conn EXCEPT ![c].pc = "cancelWait", ![c].frag = n]
  BY <1>1 DEF CancelLocalTask, store, WorkPC
<1>3. t \in Turn /\ home[t] \in Reach[c] /\ home[t] \in Session /\ home[t] # NoSession
  BY <1>1, <1>2, AtWork
<1>4. TurnInv(t)
  BY <1>3 DEF OutcomeInv
<1>5. /\ conn'[c].pc = "cancelWait" /\ conn'[c].turn = t /\ conn'[c].at = conn[c].at
      /\ conn'[c].frag = n /\ \A d \in Conn \ {c} : conn'[d] = conn[d]
  <2>1. conn \in [Conn -> ConnState]
    BY ConnFields DEF TypeInv
  <2> QED BY <1>1, <1>2, <2>1 DEF ConnState
<1>6. n \in Fragment
  <2>1. n \in 0..MaxFragments /\ n # 0
    BY <1>1, <1>3, ConnFields DEF LocalBusy, TypeInv, TypeOK
  <2> QED BY <2>1, BoundsAssumption DEF Fragment
<1>7. Registered(<<t, n>>)
  <2>1. Live(<<t, n>>) /\ conn[c].at \in Worker
    BY <1>1, ConnFields DEF LocalBusy, TypeInv
  <2> QED BY <1>1, <1>3, <1>6, <2>1 DEF Inv, Entries
<1>8. \A d \in Conn \ {c} : ~Handling(d, t)
  BY <1>3, SoleHandler
<1>9. \A m \in Fragment \ {n} : ~Registered(<<t, m>>)
  BY <1>4, <1>6, <1>7 DEF TurnInv, Alone
<1>10. <<t, n>> \in Task /\ \A u \in Turn, m \in Fragment : <<u, m>> \in Task /\ (<<u, m>> = <<t, n>> => u = t /\ m = n)
  BY <1>3, <1>6 DEF Task
<1>11. ~(task[<<t, n>>].pc = "saveTurn" /\ task[<<t, n>>].handler /\ task[<<t, n>>].status = "cancelled") \/ Lost(t)
  <2>1. \A d \in Conn : ~(conn[d].turn = t /\ conn[d].pc = "cancelWait")
    BY <1>2, <1>8 DEF Handling, WorkPC
  <2> QED BY <1>4, <1>6, <2>1 DEF TurnInv, Awaited, Lost
<1>12. /\ \A j \in Task \ {<<t, n>>} : task'[j] = task[j]
       /\ task'[<<t, n>>].at = task[<<t, n>>].at
       /\ \/ /\ task'[<<t, n>>].pc \in {"done", "releaseGet"} /\ ~task'[<<t, n>>].handler
             /\ task'[<<t, n>>].from = 0 /\ task'[<<t, n>>].seq = 0
             /\ task[<<t, n>>].pc = "new" \/ task[<<t, n>>].handler
          \/ /\ task'[<<t, n>>].pc = "saveTurn" /\ task'[<<t, n>>].status = "cancelled"
             /\ task'[<<t, n>>].handler /\ ~task[<<t, n>>].handler
             /\ task'[<<t, n>>].from = task[<<t, n>>].from /\ task'[<<t, n>>].seq = task[<<t, n>>].seq
  <2>1. task \in [Task -> TaskState]
    BY DEF TypeInv, TypeOK
  <2>2. CASE task[<<t, n>>].pc = "new" /\ task' = [task EXCEPT ![<<t, n>>] = Gone(<<t, n>>, "done")]
    BY <1>10, <2>1, <2>2 DEF Gone, Unborn
  <2>3. CASE /\ ~task[<<t, n>>].handler
             /\ task' = [task EXCEPT ![<<t, n>>].pc = "saveTurn", ![<<t, n>>].status = "cancelled",
                                     ![<<t, n>>].handler = TRUE]
    BY <1>10, <2>1, <2>3 DEF TaskState
  <2>4. CASE task[<<t, n>>].handler /\ Finally(<<t, n>>, task[<<t, n>>].status)
    <3>1. PICK p \in {"done", "releaseGet"} : task' = [task EXCEPT ![<<t, n>>] = Gone(<<t, n>>, p)]
      BY <2>4 DEF Finally
    <3> QED BY <1>10, <2>1, <2>4, <3>1 DEF Gone, Unborn
  <2> QED BY <1>2, <2>2, <2>3, <2>4 DEF Interrupt
<1>13. WillRelease(t)'
  BY <1>5 DEF WillRelease, Pending, Handling, WorkPC
<1>14. \A m \in Fragment \ {n} : task'[<<t, m>>] = task[<<t, m>>]
  BY <1>3, <1>10, <1>12
<1>15. PausedHeld(t)'
  BY <1>9, <1>12, <1>14 DEF PausedHeld, Registered
<1>16. Awaited(t)'
  BY <1>5, <1>9, <1>14 DEF Awaited, Registered
<1>17. ~Writing(<<t, n>>)' /\ ~Unsaved(<<t, n>>)'
  BY <1>12 DEF Writing, Unsaved
<1>18. task'[<<t, n>>].pc \notin {"saveSession", "persist", "commit", "new", "stream"}
  BY <1>12
<1>19. task'[<<t, n>>].handler => task'[<<t, n>>].status = "cancelled"
  BY <1>12
<1>20. task'[<<t, n>>].from <= task'[<<t, n>>].seq
  BY <1>4, <1>6, <1>12 DEF TurnInv, Numbered
<1>21. ~Lost(t) /\ Settled(t) /\ Unpersisted(<<t, n>>) => Unpersisted(<<t, n>>)'
  <2> SUFFICES ASSUME ~Lost(t), Settled(t), Unpersisted(<<t, n>>), task'[<<t, n>>].pc # "saveTurn" PROVE FALSE
    BY <1>12 DEF Unpersisted
  <2>1. task[<<t, n>>].handler
    BY <1>12 DEF Unpersisted
  <2>2. task[<<t, n>>].pc \in {"saveSession", "persist"}
    BY <1>11 DEF Unpersisted
  <2>3. rec[t] = [status |-> task[<<t, n>>].status, seq |-> task[<<t, n>>].seq]
    BY <1>4, <1>6, <2>2 DEF TurnInv, SavedIsTask
  <2>4. task[<<t, n>>].status \in {"cancelled", "error"}
    BY <1>4, <1>6, <2>1 DEF TurnInv, HandlerStatus
  <2> QED BY <2>3, <2>4 DEF Settled
<1>22. TurnInv(t)'
  <2>1. /\ \A d \in Conn : conn'[d].at = conn[d].at
        /\ \A d \in Conn : conn'[d] = conn[d] \/ conn'[d].pc = "cancelWait"
    BY <1>5
  <2>2. UNCHANGED <<rec, row, home, dead, orphan>> /\ task'[<<t, n>>].at = task[<<t, n>>].at
    BY <1>2, <1>12
  <2>3. task'[<<t, n>>].handler => /\ task'[<<t, n>>].pc \notin {"new", "stream"}
                                   /\ task'[<<t, n>>].status \in {"cancelled", "error"}
    BY <1>18, <1>19
  <2> QED BY <1>3, <1>4, <1>6, <1>7, <1>13, <1>14, <1>15, <1>16, <1>17, <1>18,
             <1>20, <1>21, <2>1, <2>2, <2>3, TaskTurn
<1>23. Touches(t)
  <2>1. \A u \in Turn \ {t}, m \in Fragment : task'[<<u, m>>] = task[<<u, m>>]
    BY <1>10, <1>12
  <2> QED BY <1>1, <1>2, <1>5, <2>1 DEF Touches
<1> QED BY <1>22, <1>23, TouchesKeeps

\* A task's step is one about its turn.
LEMMA TaskTouches ==
    ASSUME NEW t \in Turn, NEW n \in Fragment, home[t] # NoSession,
           \A j \in Task \ {<<t, n>>} : task'[j] = task[j],
           UNCHANGED <<conn, home, orphan>>,
           \A u \in Turn \ {t} : rec'[u] = rec[u] /\ row'[u] = row[u] /\ (u \in dead' <=> u \in dead),
           \A s \in Session : key'[s] \in {key[s], NoTurn} \/ (key'[s] = t /\ home[t] = s)
    PROVE  Touches(t) /\ \A m \in Fragment \ {n} : task'[<<t, m>>] = task[<<t, m>>]
<1>1. \A u \in Turn, m \in Fragment : u # t \/ m # n => task'[<<u, m>>] = task[<<u, m>>]
  <2>1. \A u \in Turn, m \in Fragment : <<u, m>> \in Task /\ (<<u, m>> = <<t, n>> => u = t /\ m = n)
    BY DEF Task
  <2> QED BY <2>1
<1> QED BY <1>1 DEF Touches

\* A step of a task that writes neither its record nor its row keeps the
\* invariant.
LEMMA TaskOnly ==
    ASSUME TypeInv, OutcomeInv, NEW t \in Turn, NEW n \in Fragment, home[t] # NoSession,
           \A j \in Task \ {<<t, n>>} : task'[j] = task[j],
           UNCHANGED <<conn, rec, row, home, dead, orphan>>,
           \A s \in Session : key'[s] \in {key[s], NoTurn} \/ (key'[s] = t /\ home[t] = s),
           task'[<<t, n>>].at = task[<<t, n>>].at,
           Registered(<<t, n>>)' => Registered(<<t, n>>),
           task'[<<t, n>>].from <= task'[<<t, n>>].seq,
           WillRelease(t)',
           task'[<<t, n>>].pc \in {"saveSession", "persist", "commit"} =>
               /\ task[<<t, n>>].pc \in {"saveSession", "persist", "commit"}
               /\ task'[<<t, n>>].status = task[<<t, n>>].status
               /\ task'[<<t, n>>].seq = task[<<t, n>>].seq,
           ~(task'[<<t, n>>].pc = "saveTurn" /\ task'[<<t, n>>].handler /\ task'[<<t, n>>].status = "cancelled"),
           Settled(t) => ~Unsaved(<<t, n>>)',
           ~Lost(t) /\ Settled(t) /\ Unpersisted(<<t, n>>) => Unpersisted(<<t, n>>)',
           Writing(<<t, n>>)' => Writing(<<t, n>>) /\ task'[<<t, n>>].from = task[<<t, n>>].from,
           task'[<<t, n>>].handler => /\ task'[<<t, n>>].pc \notin {"new", "stream"}
                                      /\ task'[<<t, n>>].status \in {"cancelled", "error"}
    PROVE  OutcomeInv'
<1>1. TurnInv(t)
  BY DEF OutcomeInv
<1>2. Touches(t) /\ \A m \in Fragment \ {n} : task'[<<t, m>>] = task[<<t, m>>]
  BY TaskTouches
<1>3. PausedHeld(t)'
  BY <1>1, <1>2 DEF TurnInv, PausedHeld
<1>4. Awaited(t)'
  BY <1>1, <1>2 DEF TurnInv, Awaited
<1>5. task'[<<t, n>>].pc \in {"saveSession", "persist", "commit"} /\ Settled(t) =>
         rec[t] = [status |-> task'[<<t, n>>].status, seq |-> task'[<<t, n>>].seq]
  BY <1>1 DEF TurnInv, SavedIsTask
<1>6. /\ \A d \in Conn : conn'[d].at = conn[d].at
      /\ \A d \in Conn : conn'[d] = conn[d] \/ conn'[d].pc = "cancelWait"
  OBVIOUS
<1>7. TurnInv(t)'
  BY <1>1, <1>2, <1>3, <1>4, <1>5, <1>6, TaskTurn
<1> QED BY <1>2, <1>7, TouchesKeeps

\* What there is to say of the task that takes a step.
LEMMA TaskAt ==
    ASSUME TypeInv, Inv, OutcomeInv, NEW k \in Task, task[k].pc # "unborn"
    PROVE  /\ k[1] \in Turn /\ k[2] \in Fragment /\ k = <<k[1], k[2]>>
           /\ home[k[1]] \in Session /\ home[k[1]] # NoSession /\ TurnInv(k[1])
           /\ task[k].seq \in Nat /\ task[k].from \in Nat /\ task[k].from <= task[k].seq
           /\ task[k].handler => task[k].pc \notin {"new", "stream"} /\ task[k].status \in {"cancelled", "error"}
           /\ task[k].pc \in {"new", "stream"} => ~Settled(k[1])
<1>1. k[1] \in Turn /\ k[2] \in Fragment /\ k = <<k[1], k[2]>>
  BY DEF Task
<1>2. home[k[1]] # NoSession
  BY <1>1 DEF Inv, FreshTurns
<1>3. home[k[1]] \in Session
  BY <1>1, <1>2 DEF TypeInv, TypeOK
<1>4. task[k].seq \in Nat /\ task[k].from \in Nat
  BY TaskFields, BoundsAssumption DEF TypeInv
<1>5. TurnInv(k[1])
  BY <1>1 DEF OutcomeInv
<1>6. /\ task[k].from <= task[k].seq
      /\ task[k].handler => task[k].pc \notin {"new", "stream"} /\ task[k].status \in {"cancelled", "error"}
      /\ task[k].pc \in {"new", "stream"} => ~Settled(k[1])
  <2>1. PICK t \in Turn, n \in Fragment : t = k[1] /\ n = k[2] /\ k = <<t, n>>
    BY <1>1
  <2> QED BY <1>5, <2>1 DEF TurnInv, Numbered, HandlerStatus, NotYetSettled, Unsaved
<1> QED BY <1>1, <1>2, <1>3, <1>4, <1>5, <1>6

\* Running the agent keeps it,
LEMMA StreamOut ==
    ASSUME TypeInv, Inv, OutcomeInv, NEW k \in Task,
           TaskBegin(k) \/ TaskEvent(k) \/ TaskStreamEnd(k) \/ TaskStreamError(k)
    PROVE  OutcomeInv'
<1>0. PICK t, n : t = k[1] /\ n = k[2]
  OBVIOUS
<1>1. /\ UNCHANGED <<conn, rec, key, row, home, dead, orphan>> /\ task[k].pc \in {"new", "stream"}
      /\ task[k].pc # "unborn"
  BY DEF TaskBegin, TaskEvent, TaskStreamEnd, TaskStreamError, store
<1>2. /\ t \in Turn /\ n \in Fragment /\ k = <<t, n>> /\ home[t] # NoSession
      /\ task[k].seq \in Nat /\ task[k].from \in Nat /\ task[k].from <= task[k].seq
      /\ ~task[k].handler /\ ~Settled(t)
  BY <1>0, <1>1, TaskAt
<1>3. task \in [Task -> TaskState]
  BY DEF TypeInv, TypeOK
<1>4. /\ \A j \in Task \ {k} : task'[j] = task[j]
      /\ task'[k].at = task[k].at /\ task'[k].from = task[k].from /\ task'[k].from <= task'[k].seq
      /\ \/ task'[k].pc = "stream" /\ ~task'[k].handler
         \/ task'[k].pc = "saveTurn" /\ ~task'[k].handler
         \/ task'[k].pc = "saveTurn" /\ task'[k].handler /\ task'[k].status = "error"
  <2>1. CASE TaskBegin(k)
    <3>1. /\ \A j \in Task \ {k} : task'[j] = task[j]
          /\ task'[k].at = task[k].at /\ task'[k].from = task[k].from
          /\ task'[k].pc = "stream" /\ task'[k].handler = task[k].handler
          /\ task'[k].seq = task[k].seq
      BY <1>3, <2>1 DEF TaskBegin, TaskState
    <3> QED BY <1>2, <3>1
  <2>3. ASSUME NEW ask \in BOOLEAN, task[k].pc = "stream",
               task' = [task EXCEPT ![k].seq = @ + 1, ![k].asked = @ \/ ask]
        PROVE  /\ \A j \in Task \ {k} : task'[j] = task[j]
               /\ task'[k].at = task[k].at /\ task'[k].from = task[k].from
               /\ task'[k].pc = "stream" /\ task'[k].handler = task[k].handler
               /\ task'[k].seq = task[k].seq + 1
    BY <1>3, <2>3 DEF TaskState
  <2>5. ASSUME NEW st, task' = [task EXCEPT ![k].pc = "saveTurn", ![k].status = st]
        PROVE  /\ \A j \in Task \ {k} : task'[j] = task[j]
               /\ task'[k].at = task[k].at /\ task'[k].from = task[k].from
               /\ task'[k].pc = "saveTurn" /\ task'[k].handler = task[k].handler
               /\ task'[k].seq = task[k].seq
    BY <1>3, <2>5 DEF TaskState
  <2>4. CASE TaskEvent(k)
    <3>1. CASE task' = [task EXCEPT ![k].pc = "saveTurn", ![k].status = "cancelled"]
      BY <1>2, <2>5, <3>1
    <3>2. ASSUME NEW ask \in BOOLEAN, task' = [task EXCEPT ![k].seq = @ + 1, ![k].asked = @ \/ ask]
          PROVE  task'[k].from <= task'[k].seq
      <4>1. task[k].pc = "stream"
        BY <2>4 DEF TaskEvent
      <4>2. task'[k].from = task[k].from /\ task'[k].seq = task[k].seq + 1
        BY <2>3, <3>2, <4>1
      <4> QED BY <1>2, <4>2
    <3> QED BY <1>2, <2>3, <2>4, <3>1, <3>2 DEF TaskEvent
  <2>6. CASE TaskStreamEnd(k)
    BY <1>2, <2>5, <2>6 DEF TaskStreamEnd
  <2>7. CASE TaskStreamError(k)
    BY <1>2, <1>3, <2>7 DEF TaskStreamError, TaskState
  <2> QED BY <2>1, <2>4, <2>6, <2>7
<1>5. /\ Registered(k)' => Registered(k)
      /\ Writing(k)' => Writing(k) /\ task'[k].from = task[k].from
      /\ ~(task'[k].pc = "saveTurn" /\ task'[k].handler /\ task'[k].status = "cancelled")
      /\ task'[k].pc \notin {"saveSession", "persist", "commit"}
      /\ task'[k].handler => /\ task'[k].pc \notin {"new", "stream"}
                              /\ task'[k].status \in {"cancelled", "error"}
  BY <1>1, <1>4 DEF Registered, Writing
<1>6. WillRelease(t)'
  BY <1>2, <1>4 DEF WillRelease, Pending, Registered
<1> QED BY <1>1, <1>2, <1>4, <1>5, <1>6, TaskOnly

\* and so do the two commands of save_turn,
LEMMA TaskSaveOut ==
    ASSUME TypeInv, Inv, OutcomeInv, NEW k \in Task, TaskSaveTurn(k)
    PROVE  OutcomeInv'
<1>0. PICK t, n : t = k[1] /\ n = k[2]
  OBVIOUS
<1>1. /\ UNCHANGED <<conn, key, row, home, dead, orphan>> /\ task[k].pc = "saveTurn"
      /\ task[k].pc # "unborn"
      /\ rec' = [rec EXCEPT ![t] = [status |-> task[k].status, seq |-> task[k].seq]]
  BY <1>0 DEF TaskSaveTurn, SaveTurnKey
<1>2. /\ t \in Turn /\ n \in Fragment /\ k = <<t, n>> /\ home[t] # NoSession /\ TurnInv(t)
  BY <1>0, <1>1, TaskAt
<1>3. /\ \A j \in Task \ {k} : task'[j] = task[j]
      /\ task'[k].pc = "saveSession" /\ task'[k].at = task[k].at /\ task'[k].from = task[k].from
      /\ task'[k].seq = task[k].seq /\ task'[k].status = task[k].status /\ task'[k].handler = task[k].handler
  <2>1. task \in [Task -> TaskState] /\ task' = [task EXCEPT ![k].pc = "saveSession"]
    BY DEF TypeInv, TypeOK, TaskSaveTurn
  <2> QED BY <2>1 DEF TaskState
<1>4. /\ rec'[t] = [status |-> task[k].status, seq |-> task[k].seq]
      /\ \A u \in Turn \ {t} : rec'[u] = rec[u]
  BY <1>1, <1>2 DEF TypeInv, TypeOK
<1>5. Touches(t) /\ \A m \in Fragment \ {n} : task'[<<t, m>>] = task[<<t, m>>]
  BY <1>1, <1>2, <1>3, <1>4, TaskTouches
<1>6. Registered(k) /\ \A m \in Fragment \ {n} : ~Registered(<<t, m>>) /\ ~Registered(<<t, m>>)'
  BY <1>1, <1>2, <1>5 DEF TurnInv, Alone, Registered
<1>7. \A d \in Conn : ~(conn'[d].turn = t /\ conn'[d].pc \in CreatePC)
  <2> SUFFICES ASSUME NEW d \in Conn, conn[d].turn = t, conn[d].pc \in CreatePC PROVE FALSE
    BY <1>1
  <2>1. conn[d].pc \in BeforePC
    BY DEF CreatePC, BeforePC
  <2> QED BY <1>2, <1>6, <2>1, NoneRegistered DEF TurnInv
<1>8. TurnInv(t)'
  <2>1. Unstarted(t)' /\ ReplyNumbered(t)'
    BY <1>1, <1>2 DEF TurnInv, Unstarted, ReplyNumbered, Lost
  <2>2. Alone(t)'
    <3>1. \A m \in Fragment : /\ task'[<<t, m>>].at = task[<<t, m>>].at
                              /\ Registered(<<t, m>>)' => Registered(<<t, m>>)
      BY <1>2, <1>3, <1>5, <1>6
    <3> QED BY <1>1, <1>2, <3>1 DEF TurnInv, Alone
  <2>3. WillRelease(t)'
    BY <1>2, <1>3 DEF WillRelease, Pending, Registered
  <2>4. PausedHeld(t)'
    BY <1>2, <1>3, <1>4, <1>6 DEF PausedHeld, Registered
  <2>5. RowKept(t)'
    BY <1>2, <1>3 DEF RowKept, Unpersisted
  <2>6. NotYetSettled(t)'
    BY <1>2, <1>3, <1>6, <1>7 DEF NotYetSettled, Unsaved, Registered
  <2>7. Numbered(t)'
    <3>1. Writing(k)' => Writing(k)
      BY <1>1, <1>3 DEF Writing
    <3>2. \A m \in Fragment \ {n} : Writing(<<t, m>>)' => Writing(<<t, m>>)
      BY <1>5 DEF Writing
    <3> QED BY <1>1, <1>2, <1>3, <1>5, <3>1, <3>2 DEF TurnInv, Numbered, Lost
  <2>8. SavedIsTask(t)'
    BY <1>2, <1>3, <1>4, <1>6 DEF SavedIsTask, Registered
  <2>9. HandlerStatus(t)' /\ Awaited(t)'
    BY <1>1, <1>2, <1>3, <1>5, <1>6 DEF TurnInv, HandlerStatus, Awaited, Registered
  <2> QED BY <2>1, <2>2, <2>3, <2>4, <2>5, <2>6, <2>7, <2>8, <2>9 DEF TurnInv
<1> QED BY <1>5, <1>8, TouchesKeeps

\* What the finally block leaves of a task.
LEMMA FinallyFields ==
    ASSUME TypeInv, NEW k \in Task, NEW st, Finally(k, st)
    PROVE  /\ \A j \in Task \ {k} : task'[j] = task[j]
           /\ task'[k].pc = (IF st = "paused" THEN "done" ELSE "releaseGet")
           /\ task'[k].at = task[k].at /\ task'[k].from = 0 /\ task'[k].seq = 0 /\ ~task'[k].handler
           /\ ~Registered(k)' /\ ~Unsaved(k)' /\ ~Writing(k)'
<1>1. task \in [Task -> TaskState]
  BY DEF TypeInv, TypeOK
<1>2. /\ \A j \in Task \ {k} : task'[j] = task[j]
      /\ task'[k].pc = (IF st = "paused" THEN "done" ELSE "releaseGet")
      /\ task'[k].at = task[k].at /\ task'[k].from = 0 /\ task'[k].seq = 0 /\ ~task'[k].handler
  BY <1>1 DEF Finally, Gone, Unborn
<1> QED BY <1>2 DEF Registered, Unsaved, Writing

\* The second command of save_turn.
LEMMA TaskSessionOut ==
    ASSUME TypeInv, Inv, OutcomeInv, NEW k \in Task, TaskSaveSession(k)
    PROVE  OutcomeInv'
<1>0. PICK t, n : t = k[1] /\ n = k[2]
  OBVIOUS
<1>1. /\ UNCHANGED <<conn, rec, row, home, dead, orphan>> /\ task[k].pc = "saveSession"
      /\ task[k].pc # "unborn"
      /\ key' = [key EXCEPT ![home[t]] = t]
  BY <1>0 DEF TaskSaveSession, SaveSessionKey
<1>2. /\ t \in Turn /\ n \in Fragment /\ k = <<t, n>> /\ home[t] # NoSession /\ TurnInv(t)
      /\ home[t] \in Session /\ task[k].from <= task[k].seq
      /\ task[k].handler => task[k].status \in {"cancelled", "error"}
  BY <1>0, <1>1, TaskAt
<1>3. \A s \in Session : key'[s] \in {key[s], NoTurn} \/ (key'[s] = t /\ home[t] = s)
  BY <1>1, <1>2 DEF TypeInv, TypeOK
<1>4. Registered(k)
  BY <1>1 DEF Registered
<1>5. CASE task[k].status = "cancelled" /\ Finally(k, "cancelled")
  <2>1. ~Settled(t)
    <3>1. Settled(t) => rec[t] = [status |-> task[k].status, seq |-> task[k].seq]
      BY <1>1, <1>2 DEF TurnInv, SavedIsTask
    <3> QED BY <1>5, <3>1 DEF Settled
  <2>2. task'[k].pc = "releaseGet"
    BY <1>5, FinallyFields
  <2>3. WillRelease(t)'
    BY <1>2, <2>2 DEF WillRelease, Pending
  <2>4. task'[k].from <= task'[k].seq
    BY <1>5, FinallyFields
  <2> QED BY <1>1, <1>2, <1>3, <1>4, <1>5, <2>1, <2>2, <2>3, <2>4, FinallyFields, TaskOnly
<1>6. CASE task' = [task EXCEPT ![k].pc = "persist"]
  <2>1. /\ \A j \in Task \ {k} : task'[j] = task[j]
        /\ task'[k].pc = "persist" /\ task'[k].at = task[k].at /\ task'[k].from = task[k].from
        /\ task'[k].seq = task[k].seq /\ task'[k].status = task[k].status /\ task'[k].handler = task[k].handler
    BY <1>6 DEF TypeInv, TypeOK, TaskState
  <2>2. Registered(k)' /\ ~Unsaved(k)' /\ Unpersisted(k)' /\ (Writing(k)' => Writing(k))
    BY <1>1, <2>1 DEF Registered, Unsaved, Unpersisted, Writing
  <2>3. WillRelease(t)'
    BY <1>2, <2>2 DEF WillRelease, Pending
  <2> QED BY <1>1, <1>2, <1>3, <1>4, <2>1, <2>2, <2>3, TaskOnly
<1> QED BY <1>5, <1>6 DEF TaskSaveSession

\* The tools' own commit.
LEMMA TaskCommitOut ==
    ASSUME TypeInv, Inv, OutcomeInv, NEW k \in Task, TaskCommit(k)
    PROVE  OutcomeInv'
<1>0. PICK t, n : t = k[1] /\ n = k[2]
  OBVIOUS
<1>1. /\ UNCHANGED <<conn, rec, row, key, home, dead, orphan>> /\ task[k].pc = "commit"
      /\ task[k].pc # "unborn"
  BY <1>0 DEF TaskCommit, store
<1>2. /\ t \in Turn /\ n \in Fragment /\ k = <<t, n>> /\ home[t] # NoSession /\ TurnInv(t)
      /\ home[t] \in Session /\ task[k].from <= task[k].seq
  BY <1>0, <1>1, TaskAt
<1>3. Registered(k) /\ ~Unpersisted(k)
  BY <1>1 DEF Registered, Unpersisted
<1>4. CASE Finally(k, task[k].status)
  <2>1. WillRelease(t)'
    <3>1. CASE task[k].status # "paused"
      <4>1. task'[k].pc = "releaseGet"
        BY <1>4, <3>1, FinallyFields
      <4> QED BY <1>2, <4>1 DEF WillRelease, Pending
    <3>2. CASE task[k].status = "paused"
      <4> SUFFICES ASSUME t \notin orphan, rec[t].status \notin {"paused", "none"} PROVE Pending(t)'
        BY <1>1 DEF WillRelease
      <4>1. PICK d \in Conn : conn[d].turn = t /\ conn[d].pc \in {"cancelSaveSession", "cancelTask"}
        BY <1>1, <1>2, <3>2 DEF TurnInv, PausedHeld
      <4> QED BY <1>1, <4>1 DEF Pending, Handling, WorkPC
    <3> QED BY <3>1, <3>2
  <2>2. task'[k].pc \in {"done", "releaseGet"} /\ task'[k].from <= task'[k].seq
    BY <1>4, FinallyFields
  <2> QED BY <1>1, <1>2, <1>3, <1>4, <2>1, <2>2, FinallyFields, TaskOnly
<1>5. CASE task' = [task EXCEPT ![k].pc = "saveTurn", ![k].status = "error", ![k].handler = TRUE]
  <2>1. /\ \A j \in Task \ {k} : task'[j] = task[j]
        /\ task'[k].pc = "saveTurn" /\ task'[k].at = task[k].at /\ task'[k].from = task[k].from
        /\ task'[k].seq = task[k].seq /\ task'[k].status = "error" /\ task'[k].handler
    BY <1>5 DEF TypeInv, TypeOK, TaskState
  <2>2. Registered(k)' /\ ~Unsaved(k)' /\ ~Writing(k)'
    BY <1>1, <2>1 DEF Registered, Unsaved, Writing
  <2>3. WillRelease(t)'
    BY <1>2, <2>2 DEF WillRelease, Pending
  <2> QED BY <1>1, <1>2, <1>3, <2>1, <2>2, <2>3, TaskOnly
<1> QED BY <1>4, <1>5 DEF TaskCommit

\* release_session of a task.
LEMMA TaskReleaseOut ==
    ASSUME TypeInv, Inv, OutcomeInv, NEW k \in Task, TaskReleaseGet(k) \/ TaskReleaseDelete(k)
    PROVE  OutcomeInv'
<1>0. PICK t, n : t = k[1] /\ n = k[2]
  OBVIOUS
<1>1. /\ UNCHANGED <<conn, rec, row, home, dead, orphan>> /\ task[k].pc \in {"releaseGet", "releaseDel"}
      /\ task[k].pc # "unborn"
  BY <1>0 DEF TaskReleaseGet, TaskReleaseDelete, store
<1>2. /\ t \in Turn /\ n \in Fragment /\ k = <<t, n>> /\ home[t] # NoSession /\ TurnInv(t)
      /\ home[t] \in Session /\ task[k].from <= task[k].seq
      /\ task[k].handler => task[k].status \in {"cancelled", "error"}
  BY <1>0, <1>1, TaskAt
<1>3. ~Registered(k) /\ ~Unpersisted(k)
  BY <1>1 DEF Registered, Unpersisted
<1>4. ASSUME NEW p \in {"releaseDel", "done"}, task' = [task EXCEPT ![k].pc = p],
             \A s \in Session : key'[s] \in {key[s], NoTurn},
             p = "done" => key'[home[t]] # t
      PROVE  OutcomeInv'
  <2>1. /\ \A j \in Task \ {k} : task'[j] = task[j]
        /\ task'[k].pc = p /\ task'[k].at = task[k].at /\ task'[k].from = task[k].from
        /\ task'[k].seq = task[k].seq /\ task'[k].status = task[k].status /\ task'[k].handler = task[k].handler
    BY <1>4 DEF TypeInv, TypeOK, TaskState
  <2>2. ~Registered(k)' /\ ~Unsaved(k)' /\ ~Writing(k)'
    BY <1>1, <2>1 DEF Registered, Unsaved, Writing
  <2>3. WillRelease(t)'
    BY <1>1, <1>2, <1>4, <2>1 DEF WillRelease, Pending
  <2> QED BY <1>1, <1>2, <1>3, <1>4, <2>1, <2>2, <2>3, TaskOnly
<1>5. CASE TaskReleaseGet(k)
  <2>1. key' = key /\ \E p \in {"releaseDel", "done"} :
           task' = [task EXCEPT ![k].pc = p] /\ (p = "done" => key[home[t]] # t)
    BY <1>0, <1>5 DEF TaskReleaseGet, store
  <2> QED BY <1>4, <2>1
<1>6. CASE TaskReleaseDelete(k)
  <2>1. key' = [key EXCEPT ![home[t]] = NoTurn] /\ task' = [task EXCEPT ![k].pc = "done"]
    BY <1>0, <1>6 DEF TaskReleaseDelete
  <2>2. key'[home[t]] = NoTurn /\ \A s \in Session : key'[s] \in {key[s], NoTurn}
    BY <1>2, <2>1 DEF TypeInv, TypeOK
  <2>3. NoTurn # t
    BY <1>2, NamesAssumption
  <2> QED BY <1>4, <2>1, <2>2, <2>3
<1> QED BY <1>5, <1>6

\* The row's events and the fragment's are the record's.
LEMMA UpToAppend ==
    ASSUME NEW a \in Nat, NEW b \in Nat, a <= b
    PROVE  UpTo(a) \o [i \in 1..(b - a) |-> a + i] = UpTo(b)
<1> DEFINE g == [i \in 1..(b - a) |-> a + i]
<1>1. UpTo(a) \in Seq(Nat) /\ Len(UpTo(a)) = a /\ \A i \in 1..a : UpTo(a)[i] = i
  BY DEF UpTo
<1>2. b - a \in Nat
  OBVIOUS
<1>3. g \in Seq(Nat) /\ Len(g) = b - a /\ \A i \in 1..(b - a) : g[i] = a + i
  BY <1>2
<1>4. UpTo(b) \in Seq(Nat) /\ Len(UpTo(b)) = b /\ \A i \in 1..b : UpTo(b)[i] = i
  BY DEF UpTo
<1>5. UpTo(a) \o g \in Seq(Nat) /\ Len(UpTo(a) \o g) = b
  BY <1>1, <1>3
<1>6. \A i \in 1..b : (UpTo(a) \o g)[i] = i
  BY <1>1, <1>3
<1>7. UpTo(a) \o g = UpTo(b)
  BY <1>4, <1>5, <1>6, SeqEqual
<1> QED BY <1>7

\* persist_tutor_turn: the row catches up with the record, or a dead letter
\* says that it did not.
LEMMA TaskPersistOut ==
    ASSUME TypeInv, Inv, OutcomeInv, NEW k \in Task, TaskPersist(k)
    PROVE  OutcomeInv'
<1>0. PICK t, n : t = k[1] /\ n = k[2]
  OBVIOUS
<1>1. UNCHANGED <<conn, rec, key, home, orphan>> /\ task[k].pc = "persist" /\ task[k].pc # "unborn"
  BY DEF TaskPersist, store
<1>2. /\ t \in Turn /\ n \in Fragment /\ k = <<t, n>> /\ home[t] # NoSession /\ TurnInv(t)
      /\ home[t] \in Session /\ task[k].from <= task[k].seq
      /\ task[k].from \in Nat /\ task[k].seq \in Nat
      /\ task[k].handler => task[k].status \in {"cancelled", "error"}
  BY <1>0, <1>1, TaskAt
<1>3. Registered(k)
  BY <1>1 DEF Registered
<1>4. /\ \A u \in Turn \ {t} : row'[u] = row[u] /\ (u \in dead' <=> u \in dead)
      /\ dead \subseteq dead'
      /\ \/ t \in dead'
         \/ row'[t] = [status |-> task[k].status, events |-> row[t].events \o FragmentEvents(k)]
  BY <1>0, <1>2 DEF TaskPersist, TypeInv, TypeOK
<1>5. /\ \A j \in Task \ {k} : task'[j] = task[j]
      /\ task'[k].at = task[k].at /\ task'[k].from <= task'[k].seq
      /\ \/ task'[k].pc = "releaseGet" /\ ~task'[k].handler
         \/ /\ task'[k].pc = "commit" /\ task'[k].handler = task[k].handler
            /\ task'[k].status = task[k].status /\ task'[k].seq = task[k].seq
  <2>1. CASE task[k].handler /\ Finally(k, task[k].status)
    <3>1. task[k].status # "paused"
      BY <1>2, <2>1
    <3>2. /\ \A j \in Task \ {k} : task'[j] = task[j]
          /\ task'[k].at = task[k].at /\ task'[k].from = 0 /\ task'[k].seq = 0
          /\ task'[k].pc = "releaseGet" /\ ~task'[k].handler
      BY <2>1, <3>1, FinallyFields
    <3> QED BY <3>2
  <2>2. CASE task' = [task EXCEPT ![k].pc = "commit"]
    <3>1. /\ \A j \in Task \ {k} : task'[j] = task[j]
          /\ task'[k].pc = "commit" /\ task'[k].at = task[k].at /\ task'[k].from = task[k].from
          /\ task'[k].seq = task[k].seq /\ task'[k].status = task[k].status /\ task'[k].handler = task[k].handler
      BY <2>2 DEF TypeInv, TypeOK, TaskState
    <3> QED BY <1>2, <3>1
  <2> QED BY <2>1, <2>2 DEF TaskPersist
<1>6. Touches(t) /\ \A m \in Fragment \ {n} : task'[<<t, m>>] = task[<<t, m>>]
  <2>1. /\ \A u \in Turn \ {t} : rec'[u] = rec[u] /\ row'[u] = row[u] /\ (u \in dead' <=> u \in dead)
        /\ \A s \in Session : key'[s] = key[s]
    BY <1>1, <1>4
  <2>2. \A j \in Task \ {<<t, n>>} : task'[j] = task[j]
    BY <1>2, <1>5
  <2> QED BY <1>1, <1>2, <2>1, <2>2, TaskTouches
<1>7. \A m \in Fragment \ {n} : ~Registered(<<t, m>>) /\ ~Registered(<<t, m>>)'
  BY <1>2, <1>3, <1>6 DEF TurnInv, Alone, Registered
<1>8. \A d \in Conn : ~(conn'[d].turn = t /\ conn'[d].pc \in BeforePC)
  BY <1>1, <1>2, <1>3, NoneRegistered DEF TurnInv
<1>9. ~Lost(t)' => ~Lost(t)
  BY <1>1, <1>4 DEF Lost
<1>10. ~Writing(k)' /\ ~Unsaved(k)'
  BY <1>5 DEF Writing, Unsaved
<1>11. TurnInv(t)'
  <2>1. Unstarted(t)'
    BY <1>1, <1>2 DEF Unstarted
  <2>2. Alone(t)'
    <3>1. \A m \in Fragment : /\ task'[<<t, m>>].at = task[<<t, m>>].at
                              /\ Registered(<<t, m>>)' => Registered(<<t, m>>)
      BY <1>2, <1>3, <1>5, <1>6, <1>7
    <3> QED BY <1>1, <1>2, <3>1 DEF TurnInv, Alone
  <2>3. WillRelease(t)'
    BY <1>2, <1>5 DEF WillRelease, Pending, Registered
  <2>4. PausedHeld(t)'
    BY <1>1, <1>2, <1>5, <1>6 DEF TurnInv, PausedHeld
  <2>5. RowKept(t)'
    <3> SUFFICES ASSUME Settled(t), ~Lost(t)' PROVE row'[t] = [status |-> rec[t].status, events |-> UpTo(rec[t].seq)]
      BY <1>1 DEF RowKept, Settled
    <3>1. rec[t] = [status |-> task[k].status, seq |-> task[k].seq]
      BY <1>1, <1>2 DEF TurnInv, SavedIsTask
    <3>2. Writing(k)
      BY <1>1, <3>1 DEF Writing, Settled
    <3>3. row[t].events = UpTo(task[k].from)
      BY <1>2, <1>9, <3>2 DEF TurnInv, Numbered
    <3>4. row'[t] = [status |-> task[k].status, events |-> row[t].events \o FragmentEvents(k)]
      BY <1>4 DEF Lost
    <3>5. row[t].events \o FragmentEvents(k) = UpTo(task[k].seq)
      BY <1>2, <3>3, UpToAppend DEF FragmentEvents
    <3> QED BY <3>1, <3>4, <3>5
  <2>6. NotYetSettled(t)'
    <3>1. CreatePC \subseteq BeforePC
      BY DEF CreatePC, BeforePC
    <3>2. \A m \in Fragment : ~Unsaved(<<t, m>>)'
      BY <1>2, <1>7, <1>10 DEF Unsaved, Registered
    <3> QED BY <1>8, <3>1, <3>2 DEF NotYetSettled
  <2>7. Numbered(t)'
    <3>1. \A m \in Fragment : ~Writing(<<t, m>>)'
      BY <1>2, <1>7, <1>10 DEF Writing, Registered
    <3>2. \A m \in Fragment : task'[<<t, m>>].from <= task'[<<t, m>>].seq
      BY <1>2, <1>5, <1>6 DEF TurnInv, Numbered
    <3> QED BY <3>1, <3>2 DEF Numbered
  <2>8. ReplyNumbered(t)'
    BY <1>8 DEF ReplyNumbered, BeforePC
  <2>9. SavedIsTask(t)'
    BY <1>1, <1>2, <1>5, <1>6 DEF TurnInv, SavedIsTask, Settled
  <2>10. HandlerStatus(t)'
    BY <1>2, <1>5, <1>6 DEF TurnInv, HandlerStatus
  <2>11. Awaited(t)'
    BY <1>1, <1>2, <1>5, <1>6 DEF TurnInv, Awaited
  <2> QED BY <2>1, <2>2, <2>3, <2>4, <2>5, <2>6, <2>7, <2>8, <2>9, <2>10, <2>11 DEF TurnInv
<1> QED BY <1>6, <1>11, TouchesKeeps

\* The expiry of a record: a turn without one owes nothing.
LEMMA ExpireOut ==
    ASSUME TypeInv, OutcomeInv, NEW t \in Turn, ExpireTurn(t)
    PROVE  OutcomeInv'
<1>1. UNCHANGED <<key, home, conn, task, row, dead, orphan>>
  BY DEF ExpireTurn
<1>2. rec'[t] = NoRec /\ \A u \in Turn \ {t} : rec'[u] = rec[u]
  BY DEF ExpireTurn, TypeInv, TypeOK
<1>3. Touches(t)
  BY <1>1, <1>2 DEF Touches
<1>4. ~Settled(t)' /\ rec'[t].status = "none" /\ TurnInv(t)
  BY <1>2 DEF Settled, NoRec, OutcomeInv
<1>5. TurnInv(t)'
  <2>1. Unstarted(t)' /\ WillRelease(t)' /\ PausedHeld(t)'
    BY <1>1, <1>2, <1>4 DEF TurnInv, Unstarted, WillRelease, PausedHeld
  <2>2. RowKept(t)' /\ NotYetSettled(t)' /\ SavedIsTask(t)'
    BY <1>4 DEF RowKept, NotYetSettled, SavedIsTask
  <2>3. Alone(t)'
    BY <1>1, <1>4 DEF TurnInv, Alone, Registered
  <2>4. Numbered(t)' /\ ReplyNumbered(t)'
    BY <1>1, <1>4 DEF TurnInv, Numbered, ReplyNumbered, Writing, Lost
  <2>5. HandlerStatus(t)' /\ Awaited(t)'
    BY <1>1, <1>4 DEF TurnInv, HandlerStatus, Awaited
  <2> QED BY <2>1, <2>2, <2>3, <2>4, <2>5 DEF TurnInv
<1> QED BY <1>3, <1>5, TouchesKeeps

\* The expiry of a session key.
LEMMA ExpireSessionOut ==
    ASSUME TypeInv, OutcomeInv, NEW s \in Session, ExpireSession(s)
    PROVE  OutcomeInv'
<1>1. Touches(NoTurn)
  BY DEF ExpireSession, Touches, TypeInv, TypeOK
<1> QED BY <1>1, TouchesKeeps, NamesAssumption

\* A crash touches the turns of its worker only, and they are orphans.
LEMMA CrashOut ==
    ASSUME TypeInv, OutcomeInv, NEW w \in Worker, Crash(w)
    PROVE  OutcomeInv'
<1>1. /\ UNCHANGED <<rec, key, home, row, dead>> /\ orphan \subseteq orphan'
      /\ \A c \in Conn : conn'[c].at = conn[c].at
      /\ \A c \in Conn : conn'[c] = conn[c] \/ (conn[c].at = w /\ conn'[c].pc = "idle")
  BY DEF Crash, store, IdleAt
<1>2. \A u \in Turn, n \in Fragment :
        /\ task'[<<u, n>>].at = task[<<u, n>>].at
        /\ \/ task'[<<u, n>>] = task[<<u, n>>]
           \/ /\ Live(<<u, n>>) /\ task[<<u, n>>].at = w
              /\ task'[<<u, n>>].pc = "lost" /\ ~task'[<<u, n>>].handler
              /\ task'[<<u, n>>].from = 0 /\ task'[<<u, n>>].seq = 0
  <2>1. \A u \in Turn, n \in Fragment : <<u, n>> \in Task
    BY DEF Task
  <2> QED BY <2>1 DEF Crash, Gone, Unborn
<1>3. ASSUME NEW u \in Turn, u \notin orphan' PROVE TurnInv(u)'
  <2>1. /\ \A n \in Fragment : ~(Live(<<u, n>>) /\ task[<<u, n>>].at = w)
        /\ \A c \in Conn : ~(Handling(c, u) /\ conn[c].at = w)
    BY <1>3 DEF Crash
  <2>2. \A n \in Fragment : task'[<<u, n>>] = task[<<u, n>>]
    BY <1>2, <2>1
  <2>3. \A c \in Conn : conn'[c] = conn[c] \/ (~Handling(c, u) /\ ~Handling(c, u)')
    BY <1>1, <2>1 DEF Handling, WorkPC
  <2>4. u \in orphan' <=> u \in orphan
    BY <1>1, <1>3
  <2>5. Untouched(u)
    BY <1>1, <2>2, <2>3, <2>4 DEF Untouched
  <2> QED BY <2>5, UntouchedKeeps DEF OutcomeInv
<1>4. ASSUME NEW u \in Turn, u \in orphan' PROVE TurnInv(u)'
  <2>1. TurnInv(u) /\ Lost(u)' /\ (Settled(u)' <=> Settled(u))
    BY <1>1, <1>4 DEF OutcomeInv, Lost, Settled
  <2>2. \A n \in Fragment : /\ Registered(<<u, n>>)' => Registered(<<u, n>>)
                            /\ Unsaved(<<u, n>>)' => Unsaved(<<u, n>>)
    BY <1>2 DEF Registered, Unsaved
  <2>3. Unstarted(u)' /\ WillRelease(u)' /\ PausedHeld(u)' /\ RowKept(u)' /\ ReplyNumbered(u)' /\ Awaited(u)'
    BY <1>1, <1>4, <2>1 DEF TurnInv, Unstarted, WillRelease, PausedHeld, RowKept, ReplyNumbered, Awaited
  <2>4. Alone(u)'
    <3>1. \A n \in Fragment : task'[<<u, n>>].at = task[<<u, n>>].at
      BY <1>2
    <3> QED BY <1>1, <2>1, <2>2, <3>1 DEF TurnInv, Alone
  <2>5. NotYetSettled(u)'
    BY <1>1, <2>1, <2>2 DEF TurnInv, NotYetSettled, CreatePC
  <2>6. Numbered(u)'
    BY <1>2, <2>1 DEF TurnInv, Numbered
  <2>7. SavedIsTask(u)' /\ HandlerStatus(u)'
    BY <1>1, <1>2, <2>1 DEF TurnInv, SavedIsTask, HandlerStatus
  <2> QED BY <2>3, <2>4, <2>5, <2>6, <2>7 DEF TurnInv
<1>5. OwnSession'
  BY <1>1 DEF OutcomeInv, OwnSession
<1> QED BY <1>3, <1>4, <1>5 DEF OutcomeInv

\* The invariant holds initially,
LEMMA OutcomeInit == Init => OutcomeInv
<1> SUFFICES ASSUME Init PROVE OutcomeInv
  OBVIOUS
<1>1. /\ \A c \in Conn : conn[c].pc = "idle"
      /\ \A k \in Task : /\ task[k].pc = "unborn" /\ ~task[k].handler
                          /\ task[k].from = 0 /\ task[k].seq = 0
      /\ \A t \in Turn : /\ rec[t] = NoRec /\ rec[t].status = "none" /\ row[t].events = <<>>
                          /\ home[t] = NoSession
      /\ \A s \in Session : key[s] = NoTurn
  <2>1. \A w \in Worker : /\ IdleAt(w).pc = "idle" /\ Unborn(w).pc = "unborn" /\ ~Unborn(w).handler
                          /\ Unborn(w).from = 0 /\ Unborn(w).seq = 0
    BY DEF IdleAt, Unborn
  <2> QED BY <2>1 DEF Init, NoRec
<1>2. ASSUME NEW t \in Turn PROVE TurnInv(t)
  <2>1. \A n \in Fragment : <<t, n>> \in Task
    BY DEF Task
  <2>2. \A n \in Fragment : ~Registered(<<t, n>>) /\ ~Writing(<<t, n>>)
    BY <1>1, <2>1 DEF Registered, Writing
  <2>3. ~Settled(t)
    BY <1>1 DEF Settled
  <2>4. Unstarted(t) /\ Alone(t) /\ WillRelease(t)
    BY <1>1, <2>2, NamesAssumption DEF Unstarted, Alone, WillRelease
  <2>5. PausedHeld(t) /\ Awaited(t)
    BY <2>2 DEF PausedHeld, Awaited, Registered
  <2>6. RowKept(t) /\ NotYetSettled(t) /\ SavedIsTask(t)
    BY <2>3 DEF RowKept, NotYetSettled, SavedIsTask
  <2>7. Numbered(t) /\ HandlerStatus(t)
    BY <1>1, <2>1, <2>2 DEF Numbered, HandlerStatus
  <2>8. ReplyNumbered(t)
    BY <1>1 DEF ReplyNumbered
  <2> QED BY <2>4, <2>5, <2>6, <2>7, <2>8 DEF TurnInv
<1>3. OwnSession
  BY <1>1 DEF OwnSession
<1> QED BY <1>2, <1>3 DEF OutcomeInv

\* and every step keeps it.
LEMMA OutcomeStep ==
    ASSUME Exclusive, ~Roaming, TypeInv, Inv, OutcomeInv, [Next]_vars
    PROVE  OutcomeInv'
<1>1. CASE UNCHANGED vars
  <2>1. Touches(NoTurn)
    BY <1>1 DEF vars, Touches
  <2> QED BY <2>1, TouchesKeeps, NamesAssumption
<1>2. ASSUME NEW c \in Conn, Request(c) PROVE OutcomeInv'
  BY <1>2, RequestOut
<1>3. ASSUME NEW c \in Conn, HandlerStep(c) PROVE OutcomeInv'
  <2>1. CASE Acquire(c) \/ Overwrite(c)
    <3>1. /\ UNCHANGED <<rec, task, local, row, dead, orphan>> /\ conn[c].pc \in {"acquire", "overwrite"}
      BY <2>1 DEF Acquire, Overwrite
    <3>2. CASE \E t \in Turn : Take(c, t)
      BY <3>1, <3>2, TakeOut
    <3>3. CASE Acquire(c) /\ UNCHANGED <<key, home>>
      BY <3>3, LookUpOut
    <3> QED BY <2>1, <3>2, <3>3 DEF Acquire, Overwrite
  <2>2. CASE LookUpSession(c) \/ LookUpActive(c) \/ GetExisting(c) \/ GetExistingRecord(c)
    BY <2>2, LookUpOut
  <2>3. CASE StartSaveTurn(c) \/ StartSaveSession(c) \/ ReplySaveTurn(c)
    BY <2>3, BeforeOut
  <2>4. CASE StartCreateTask(c) \/ ReplySaveSession(c)
    BY <2>4, CreateOut
  <2>5. CASE \/ CancelSaveTurn(c) \/ CancelSaveSession(c) \/ CancelWait(c)
             \/ CancelReleaseGet(c) \/ CancelReleaseDelete(c)
    BY <2>5, CancelOut
  <2>6. CASE CancelLocalTask(c)
    BY <2>6, CancelOut, InterruptOut
  <2> QED BY <1>3, <2>1, <2>2, <2>3, <2>4, <2>5, <2>6 DEF HandlerStep
<1>4. ASSUME NEW c \in Conn, Reconnect(c) PROVE OutcomeInv'
  BY <1>4, LookUpOut
<1>5. ASSUME NEW k \in Task, TaskStep(k) PROVE OutcomeInv'
  BY <1>5, StreamOut, TaskSaveOut, TaskSessionOut, TaskPersistOut, TaskCommitOut, TaskReleaseOut DEF TaskStep
<1>6. ASSUME NEW t \in Turn, ExpireTurn(t) PROVE OutcomeInv'
  BY <1>6, ExpireOut
<1>7. ASSUME NEW s \in Session, ExpireSession(s) PROVE OutcomeInv'
  BY <1>7, ExpireSessionOut
<1>8. ASSUME NEW w \in Worker, Crash(w) PROVE OutcomeInv'
  BY <1>8, CrashOut
<1> QED BY <1>1, <1>2, <1>3, <1>4, <1>5, <1>6, <1>7, <1>8 DEF Next

\* When everything about a turn has come to rest, its row agrees with its
\* record and holds every event once and in order: persist_tutor_turn against
\* save_turn, over pauses, resumptions, failed commits, cancellations, expiries
\* and crashes.
THEOREM RowMatchesRecordHolds == ASSUME Exclusive, ~Roaming PROVE Spec => []RowMatchesRecord
<1>1. Init => TypeInv /\ Inv /\ OutcomeInv
  BY TypeInit, InvInit, OutcomeInit
<1>2. TypeInv /\ Inv /\ OutcomeInv /\ [Next]_vars => (TypeInv /\ Inv /\ OutcomeInv)'
  BY TypeStep, InvStep, OutcomeStep
<1>3. OutcomeInv => RowMatchesRecord
  <2> SUFFICES ASSUME OutcomeInv, NEW t \in Turn, AtRest(t), t \notin dead, t \notin orphan,
                      rec[t].status \in {"paused", "completed"}
               PROVE  row[t] = [status |-> rec[t].status, events |-> UpTo(rec[t].seq)]
    BY DEF RowMatchesRecord, UpTo
  <2>1. \A n \in Fragment : ~Unpersisted(<<t, n>>)
    BY DEF AtRest, LiveTurn, Live, Unpersisted
  <2> QED BY <2>1 DEF OutcomeInv, TurnInv, RowKept, Settled, Lost
<1> QED BY <1>1, <1>2, <1>3, PTL DEF Spec

\* When nothing happens any more, the key of a session is gone unless its turn
\* waits for a reply or has expired: release_session against the session SETs
\* of save_turn and acquire_session.
THEOREM SessionsReleasedHolds == ASSUME Exclusive, ~Roaming PROVE Spec => []SessionsReleased
<1>1. Init => TypeInv /\ Inv /\ OutcomeInv
  BY TypeInit, InvInit, OutcomeInit
<1>2. TypeInv /\ Inv /\ OutcomeInv /\ [Next]_vars => (TypeInv /\ Inv /\ OutcomeInv)'
  BY TypeStep, InvStep, OutcomeStep
<1>3. TypeInv /\ OutcomeInv => SessionsReleased
  <2> SUFFICES ASSUME TypeInv, OutcomeInv, \A t \in Turn : AtRest(t), orphan = {},
                      NEW s \in Session, key[s] # NoTurn
               PROVE  rec[key[s]].status \in {"paused", "none"}
    BY DEF SessionsReleased
  <2>1. PICK t \in Turn : t = key[s]
    BY DEF TypeInv, TypeOK
  <2>2. home[t] = s /\ WillRelease(t)
    BY <2>1 DEF OutcomeInv, OwnSession, TurnInv
  <2>3. ~Pending(t)
    <3>1. \A c \in Conn : ~Handling(c, t)
      BY <2>1 DEF AtRest
    <3>2. \A n \in Fragment : ~Live(<<t, n>>)
      BY <2>1 DEF AtRest, LiveTurn
    <3>3. \A n \in Fragment : ~Registered(<<t, n>>) /\ task[<<t, n>>].pc \notin {"releaseGet", "releaseDel"}
      BY <3>2 DEF Live, Registered
    <3> QED BY <3>1, <3>3 DEF Pending
  <2> QED BY <2>1, <2>2, <2>3 DEF WillRelease
<1> QED BY <1>1, <1>2, <1>3, PTL DEF Spec

----------------------------------------------------------------------------
(* A turn lives as TurnLife says. An execution only begins for a turn that *)
(* is new or waits, by what the invariant says of the handler that begins  *)
(* it; every other step ends turns, or pauses the one its task executes.   *)

StartedPC == {"startSaveTurn", "startSaveSession", "startSend"}
\* A handler that starts a turn finds it without executions.
NewTurns ==
    \A c \in Conn, n \in Fragment : conn[c].pc \in StartedPC => task[<<conn[c].turn, n>>].pc = "unborn"

\* A turn that waits is not being executed.
LEMMA WaitsIsQuiet == ASSUME Inv, NEW t \in Turn, Waits(t) PROVE ~Executed(t)
<1>1. CASE rec[t].status = "paused"
  BY <1>1 DEF Inv, PausedIsQuiet, Executed
<1>2. ASSUME NEW c \in Resuming(t) PROVE ~Executed(t)
  BY <1>2 DEF Inv, Handlers, BeforeOK, BeforePC, Resuming, Handling, Executed
<1> QED BY <1>1, <1>2 DEF Waits

\* What has become of a turn only depends on these.
LEMMA PhaseIs ==
    ASSUME NEW t \in Turn
    PROVE  /\ Executions[t] = {} => Phase[t] = "new"
           /\ Executions[t] # {} /\ Executed(t) => Phase[t] = "running"
           /\ Executions[t] # {} /\ ~Executed(t) /\ Waits(t) => Phase[t] = "waiting"
           /\ Executions[t] # {} /\ ~Executed(t) /\ ~Waits(t) => Phase[t] = "over"
           /\ Executed(t) => Executions[t] # {}
<1>1. Executed(t) => Executions[t] # {}
  BY DEF Executed, Executions, Active
<1> QED BY <1>1 DEF Phase

\* ... and so afterwards.
LEMMA PhaseBecomes ==
    ASSUME NEW t \in Turn
    PROVE  /\ Executions'[t] = {} => Phase'[t] = "new"
           /\ Executions'[t] # {} /\ Executed(t)' => Phase'[t] = "running"
           /\ Executions'[t] # {} /\ ~Executed(t)' /\ Waits(t)' => Phase'[t] = "waiting"
           /\ Executions'[t] # {} /\ ~Executed(t)' /\ ~Waits(t)' => Phase'[t] = "over"
           /\ Executed(t)' => Executions'[t] # {}
<1>1. Executed(t)' => Executions'[t] # {}
  BY DEF Executed, Executions, Active
<1> QED BY <1>1 DEF Phase

\* A step that begins no execution and lets no turn wait that did not.
LEMMA StepEnds ==
    ASSUME Inv, UNCHANGED Executions,
           \A t \in Turn : Executed(t)' => Executed(t),
           \A t \in Turn : Waits(t)' => Waits(t)
    PROVE  [Life!Next]_(Life!lifeVars)
<1> DEFINE ended == {t \in Turn : Phase'[t] # Phase[t]}
<1>1. ASSUME NEW t \in ended PROVE Phase[t] \in {"running", "waiting"} /\ Phase'[t] = "over"
  <2>1. t \in Turn /\ Phase'[t] # Phase[t] /\ Executions'[t] = Executions[t]
    OBVIOUS
  <2>2. Waits(t) => ~Executed(t)
    BY <2>1, WaitsIsQuiet
  <2>3. (Executed(t)' => Executed(t)) /\ (Waits(t)' => Waits(t))
    BY <2>1
  <2> HIDE DEF ended
  <2> QED BY <2>1, <2>2, <2>3, PhaseIs, PhaseBecomes
<1>2. Phase' = [t \in Turn |-> IF t \in ended THEN "over" ELSE Phase[t]]
  <2>1. \A t \in Turn : Phase'[t] = IF t \in ended THEN "over" ELSE Phase[t]
    BY <1>1
  <2>2. Phase' = [t \in Turn |-> Phase'[t]]
    BY DEF Phase
  <2> HIDE DEF ended
  <2> QED BY <2>1, <2>2
<1>3. ended \in SUBSET Turn
  OBVIOUS
<1> HIDE DEF ended
<1>4. Life!End(ended)
  BY <1>1, <1>2 DEF Life!End
<1> QED BY <1>3, <1>4 DEF Life!Next

\* A step with which one execution ends and leaves its turn waiting.
LEMMA StepPauses ==
    ASSUME UNCHANGED Executions, NEW t \in Turn, Executed(t), ~Executed(t)', Waits(t)',
           \A u \in Turn \ {t} : (Executed(u)' <=> Executed(u)) /\ (Waits(u)' <=> Waits(u))
    PROVE  [Life!Next]_(Life!lifeVars)
<1>1. Phase[t] = "running" /\ Phase'[t] = "waiting"
  BY PhaseIs, PhaseBecomes
<1>2. ASSUME NEW u \in Turn, u # t PROVE Phase'[u] = Phase[u]
  <2>1. (Executed(u)' <=> Executed(u)) /\ (Waits(u)' <=> Waits(u)) /\ Executions'[u] = Executions[u]
    BY <1>2
  <2> QED BY <2>1, PhaseIs, PhaseBecomes
<1>3. Phase' = [Phase EXCEPT ![t] = "waiting"]
  <2>1. Phase' = [u \in Turn |-> Phase'[u]] /\ Phase = [u \in Turn |-> Phase[u]]
    BY DEF Phase
  <2> QED BY <1>1, <1>2, <2>1
<1>4. Life!Pause(t)
  BY <1>1, <1>3 DEF Life!Pause
<1> QED BY <1>4 DEF Life!Next

\* A step that begins an execution.
LEMMA StepExecutes ==
    ASSUME NEW t \in Turn, NEW n \in Fragment, n \notin Executions[t], Executed(t)',
           Executions' = [Executions EXCEPT ![t] = @ \union {n}],
           Executions[t] = {} \/ (~Executed(t) /\ Waits(t)),
           \A u \in Turn \ {t} : (Executed(u)' <=> Executed(u)) /\ (Waits(u)' <=> Waits(u))
    PROVE  [Life!Next]_(Life!lifeVars)
<1>1. Phase'[t] = "running" /\ (Executions[t] = {} => Phase[t] = "new")
      /\ (Executions[t] # {} => Phase[t] = "waiting")
  BY PhaseIs, PhaseBecomes
<1>2. ASSUME NEW u \in Turn, u # t PROVE Phase'[u] = Phase[u]
  <2>1. (Executed(u)' <=> Executed(u)) /\ (Waits(u)' <=> Waits(u)) /\ Executions'[u] = Executions[u]
    BY <1>2 DEF Executions
  <2> QED BY <2>1, PhaseIs, PhaseBecomes
<1>3. Phase' = [Phase EXCEPT ![t] = "running"]
  <2>1. Phase' = [u \in Turn |-> Phase'[u]] /\ Phase = [u \in Turn |-> Phase[u]]
    BY DEF Phase
  <2> QED BY <1>1, <1>2, <2>1
<1>4. Life!Execute(t, n)
  BY <1>3 DEF Life!Execute
<1>5. Life!Start(t, n) \/ Life!Resume(t, n)
  BY <1>1, <1>4 DEF Life!Start, Life!Resume
<1> QED BY <1>5 DEF Life!Next

\* A step that creates no task and accepts no reply.
LEMMA QuietStep ==
    ASSUME TypeInv, Inv, NewTurns,
           \A t \in Turn, n \in Fragment :
               /\ task'[<<t, n>>].pc = "unborn" <=> task[<<t, n>>].pc = "unborn"
               /\ Active(<<t, n>>)' => Active(<<t, n>>),
           \A t \in Turn : rec'[t].status = "paused" => rec[t].status = "paused",
           \A c \in Conn, t \in Turn : c \in Resuming(t)' => Waits(t),
           \A c \in Conn : conn'[c].pc \in StartedPC =>
               \/ conn[c].pc \in StartedPC /\ conn'[c].turn = conn[c].turn
               \/ \A n \in Fragment : task'[<<conn'[c].turn, n>>].pc = "unborn"
    PROVE  NewTurns' /\ [Life!Next]_(Life!lifeVars)
<1>1. NewTurns'
  BY DEF NewTurns, TypeInv, InHand, StartedPC, WorkPC
<1>2. Executions' = Executions
  BY DEF Executions
<1>3. \A t \in Turn : (Executed(t)' => Executed(t)) /\ (Waits(t)' => Waits(t))
  BY DEF Executed, Waits, Resuming
<1> QED BY <1>1, <1>2, <1>3, StepEnds

\* Receiving a message: a reply is accepted for a turn that waits.
LEMMA RequestLives ==
    ASSUME TypeInv, Inv, NewTurns, NEW c \in Conn, Request(c)
    PROVE  NewTurns' /\ [Life!Next]_(Life!lifeVars)
<1>1. ConnMoves(c) /\ UNCHANGED <<rec, task>> /\ conn[c].pc = "idle"
  BY RequestMoves DEF Request, ReceiveMessage, ReceiveReply, ReceiveCancel, store
<1>2. \/ conn'[c].pc \in {"lookKey", "cancelSaveTurn"}
      \/ conn'[c].pc = "replySaveTurn" /\ rec[conn'[c].turn].status = "paused"
  <2>1. CASE ReceiveMessage(c)
    <3>1. PICK s : conn' = [conn EXCEPT ![c].pc = "lookKey", ![c].session = s]
      BY <2>1 DEF ReceiveMessage
    <3>2. conn \in [Conn -> ConnState]
      BY ConnFields DEF TypeInv
    <3> QED BY <3>1, <3>2 DEF ConnState
  <2>2. CASE ReceiveReply(c)
    <3>1. PICK t \in Turn : /\ rec[t].status = "paused"
                            /\ conn' = [conn EXCEPT ![c].pc = "replySaveTurn", ![c].turn = t, ![c].seq = rec[t].seq]
      BY <2>2 DEF ReceiveReply
    <3>2. conn \in [Conn -> ConnState]
      BY ConnFields DEF TypeInv
    <3>3. conn'[c].pc = "replySaveTurn" /\ conn'[c].turn = t
      BY <3>1, <3>2 DEF ConnState
    <3> QED BY <3>1, <3>3
  <2>3. CASE ReceiveCancel(c)
    <3>1. PICK t \in Turn : conn' = [conn EXCEPT ![c].pc = "cancelSaveTurn", ![c].turn = t, ![c].seq = rec[t].seq]
      BY <2>3 DEF ReceiveCancel
    <3>2. conn'[c].pc = "cancelSaveTurn"
      BY <3>1, LoadFields
    <3> QED BY <3>2
  <2> QED BY <2>1, <2>2, <2>3 DEF Request
<1>3. ASSUME NEW d \in Conn, NEW t \in Turn, d \in Resuming(t)' PROVE Waits(t)
  <2>1. CASE d = c
    BY <1>2, <1>3, <2>1 DEF Resuming, Handling, Waits
  <2>2. CASE d # c
    BY <1>1, <1>3, <2>2 DEF Resuming, Handling, Waits, ConnMoves
  <2> QED BY <2>1, <2>2
<1>4. \A d \in Conn : conn'[d].pc \in StartedPC => conn[d].pc \in StartedPC /\ conn'[d].turn = conn[d].turn
  BY <1>1, <1>2 DEF ConnMoves, StartedPC
<1> QED BY <1>1, <1>3, <1>4, QuietStep DEF Active

\* A handler that neither creates nor cancels a task, and takes no turn.
LEMMA HandlerLives ==
    ASSUME TypeInv, Inv, NewTurns, NEW c \in Conn, UNCHANGED task,
           \A d \in Conn \ {c} : conn'[d] = conn[d],
           \A t \in Turn : rec'[t].status = "paused" => rec[t].status = "paused",
           \/ conn'[c].pc \notin WorkPC
           \/ /\ conn'[c].turn = conn[c].turn
              /\ conn'[c].pc \in StartedPC => conn[c].pc \in StartedPC
              /\ conn'[c].pc \in {"replySaveTurn", "replySaveSession"} =>
                     conn[c].pc \in {"replySaveTurn", "replySaveSession"}
    PROVE  NewTurns' /\ [Life!Next]_(Life!lifeVars)
<1>1. ASSUME NEW d \in Conn, NEW t \in Turn, d \in Resuming(t)' PROVE Waits(t)
  <2>1. d \in Resuming(t)
    BY <1>1 DEF Resuming, Handling, WorkPC
  <2> QED BY <2>1 DEF Waits
<1>2. \A d \in Conn : conn'[d].pc \in StartedPC => conn[d].pc \in StartedPC /\ conn'[d].turn = conn[d].turn
  BY DEF StartedPC, WorkPC
<1> QED BY <1>1, <1>2, QuietStep DEF Active

\* Such are the look-ups of start_turn,
LEMMA LookUpLives ==
    ASSUME TypeInv, Inv, NewTurns, NEW c \in Conn,
           \/ LookUpSession(c) \/ LookUpActive(c) \/ GetExisting(c) \/ GetExistingRecord(c) \/ Reconnect(c)
           \/ Acquire(c) /\ Goto(c, "getExisting")
    PROVE  NewTurns' /\ [Life!Next]_(Life!lifeVars)
<1>0. conn \in [Conn -> ConnState]
  BY ConnFields DEF TypeInv
<1>1. UNCHANGED <<rec, task>>
  BY DEF LookUpSession, LookUpActive, GetExisting, GetExistingRecord, Reconnect, Acquire, store
<1>2. conn'[c].pc \notin WorkPC /\ \A d \in Conn \ {c} : conn'[d] = conn[d]
  <2>1. ASSUME NEW p \in {"acquire", "lookRec", "getExistingRec", "overwrite", "getExisting"}, NEW x,
               conn' = [conn EXCEPT ![c].pc = p, ![c].turn = x] \/ conn' = [conn EXCEPT ![c].pc = p]
        PROVE  conn'[c].pc \notin WorkPC /\ \A d \in Conn \ {c} : conn'[d] = conn[d]
    <3>1. conn'[c].pc = p /\ \A d \in Conn \ {c} : conn'[d] = conn[d]
      BY <1>0, <2>1 DEF ConnState
    <3> QED BY <3>1 DEF WorkPC
  <2>2. ASSUME NEW w, conn' = [conn EXCEPT ![c] = IdleAt(w)]
        PROVE  conn'[c].pc \notin WorkPC /\ \A d \in Conn \ {c} : conn'[d] = conn[d]
    BY <1>0, <2>2 DEF IdleAt, WorkPC
  <2>3. CASE LookUpSession(c)
    BY <2>1, <2>3 DEF LookUpSession
  <2>4. CASE LookUpActive(c)
    BY <2>1, <2>2, <2>4 DEF LookUpActive, ConnIdle
  <2>5. CASE GetExisting(c)
    BY <2>1, <2>5 DEF GetExisting
  <2>6. CASE GetExistingRecord(c)
    BY <2>1, <2>2, <2>6 DEF GetExistingRecord, ConnIdle
  <2>7. CASE Goto(c, "getExisting")
    BY <2>1, <2>7 DEF Goto
  <2>8. CASE Reconnect(c)
    BY <2>2, <2>8 DEF Reconnect
  <2> QED BY <2>3, <2>4, <2>5, <2>6, <2>7, <2>8
<1> QED BY <1>1, <1>2, HandlerLives

\* and what a handler saves or gives back.
LEMMA SaveLives ==
    ASSUME TypeInv, Inv, NewTurns, NEW c \in Conn,
           \/ StartSaveTurn(c) \/ StartSaveSession(c) \/ ReplySaveTurn(c)
           \/ CancelSaveTurn(c) \/ CancelSaveSession(c) \/ CancelWait(c)
           \/ CancelReleaseGet(c) \/ CancelReleaseDelete(c)
    PROVE  NewTurns' /\ [Life!Next]_(Life!lifeVars)
<1>1. UNCHANGED task
  BY DEF StartSaveTurn, StartSaveSession, ReplySaveTurn, CancelSaveTurn, CancelSaveSession, CancelWait,
         CancelReleaseGet, CancelReleaseDelete
<1>2. \A t \in Turn : rec'[t].status = "paused" => rec[t].status = "paused"
  BY DEF StartSaveTurn, StartSaveSession, ReplySaveTurn, CancelSaveTurn, CancelSaveSession, CancelWait,
         CancelReleaseGet, CancelReleaseDelete, store, SaveTurnKey, TypeInv, TypeOK
<1>3. ASSUME NEW p \in ConnPC, Goto(c, p), p \in StartedPC => conn[c].pc \in StartedPC,
             p \in {"replySaveTurn", "replySaveSession"} => conn[c].pc \in {"replySaveTurn", "replySaveSession"}
      PROVE  NewTurns' /\ [Life!Next]_(Life!lifeVars)
  <2>1. conn'[c].pc = p /\ conn'[c].turn = conn[c].turn
    BY <1>3, GotoFields
  <2>2. \A d \in Conn \ {c} : conn'[d] = conn[d]
    BY <1>3, ConnFields DEF Goto, TypeInv
  <2> QED BY <1>1, <1>2, <1>3, <2>1, <2>2, HandlerLives
<1>4. CASE ConnIdle(c)
  <2>1. conn'[c].pc \notin WorkPC
    BY <1>4, IdleFields DEF WorkPC
  <2>2. \A d \in Conn \ {c} : conn'[d] = conn[d]
    BY <1>4, ConnFields DEF ConnIdle, TypeInv
  <2> QED BY <1>1, <1>2, <2>1, <2>2, HandlerLives
<1>5. CASE StartSaveTurn(c) \/ StartSaveSession(c)
  BY <1>3, <1>5, PCs DEF StartSaveTurn, StartSaveSession, StartedPC
<1>6. CASE ReplySaveTurn(c)
  BY <1>3, <1>6, PCs DEF ReplySaveTurn, StartedPC
<1>7. CASE CancelSaveTurn(c) \/ CancelSaveSession(c) \/ CancelWait(c)
  BY <1>3, <1>7, PCs DEF CancelSaveTurn, CancelSaveSession, CancelWait, StartedPC
<1>8. CASE CancelReleaseGet(c) \/ CancelReleaseDelete(c)
  BY <1>3, <1>4, <1>8, PCs DEF CancelReleaseGet, CancelReleaseDelete, StartedPC
<1> QED BY <1>5, <1>6, <1>7, <1>8

\* A turn that is taken has had no execution.
LEMMA TakeLives ==
    ASSUME TypeInv, Inv, NewTurns, NEW c \in Conn, NEW t \in Turn, Take(c, t), UNCHANGED <<rec, task>>
    PROVE  NewTurns' /\ [Life!Next]_(Life!lifeVars)
<1>1. conn'[c].pc = "startSaveTurn" /\ conn'[c].turn = t
  <2>1. conn \in [Conn -> ConnState]
    BY ConnFields DEF TypeInv
  <2>2. conn' = [conn EXCEPT ![c].pc = "startSaveTurn", ![c].turn = t]
    BY DEF Take
  <2> QED BY <2>1, <2>2 DEF ConnState
<1>2. \A d \in Conn \ {c} : conn'[d] = conn[d]
  BY ConnFields DEF Take, TypeInv
<1>3. \A n \in Fragment : task'[<<t, n>>].pc = "unborn"
  BY DEF Take, Inv, FreshTurns
<1>4. ASSUME NEW d \in Conn, NEW u \in Turn, d \in Resuming(u)' PROVE Waits(u)
  <2>1. d \in Resuming(u)
    BY <1>1, <1>2, <1>4 DEF Resuming, Handling, WorkPC
  <2> QED BY <2>1 DEF Waits
<1>5. \A d \in Conn : conn'[d].pc \in StartedPC =>
          \/ conn[d].pc \in StartedPC /\ conn'[d].turn = conn[d].turn
          \/ \A n \in Fragment : task'[<<conn'[d].turn, n>>].pc = "unborn"
  BY <1>1, <1>2, <1>3
<1> QED BY <1>4, <1>5, QuietStep DEF Active

\* A task is created for a turn that is new or waits.
LEMMA CreateLives ==
    ASSUME Exclusive, TypeInv, Inv, NewTurns, NEW c \in Conn, StartCreateTask(c) \/ ReplySaveSession(c)
    PROVE  NewTurns' /\ [Life!Next]_(Life!lifeVars)
<1>1. /\ conn[c].pc \in BeforePC /\ conn[c].pc \in WorkPC
      /\ conn[c].pc = "startSend" \/ conn[c].pc = "replySaveSession"
      /\ UNCHANGED rec /\ ConnIdle(c)
      /\ \E q : CreateTask(c, conn[c].turn, q)
  BY DEF StartCreateTask, ReplySaveSession, store, BeforePC, WorkPC
<1>2. PICK t \in Turn : t = conn[c].turn
  BY <1>1 DEF TypeInv, InHand
<1>3. PICK n \in Fragment : task[<<t, n>>].pc = "unborn" /\ \E x : task' = [task EXCEPT ![<<t, n>>] = x] /\ x.pc = "new"
  <2>1. PICK q : CreateTask(c, t, q)
    BY <1>1, <1>2
  <2>2. PICK n \in Fragment :
          /\ task[<<t, n>>].pc = "unborn"
          /\ task' = [task EXCEPT ![<<t, n>>] = [Unborn(conn[c].at) EXCEPT !.pc = "new", !.seq = q, !.from = q]]
    BY <2>1 DEF CreateTask
  <2>3. [Unborn(conn[c].at) EXCEPT !.pc = "new", !.seq = q, !.from = q].pc = "new"
    BY DEF Unborn
  <2> QED BY <2>2, <2>3
<1>4. <<t, n>> \in Task /\ \A u \in Turn, m \in Fragment : <<u, m>> \in Task
  BY <1>2 DEF Task
<1>5. task'[<<t, n>>].pc = "new" /\ \A j \in Task \ {<<t, n>>} : task'[j] = task[j]
  BY <1>3, <1>4 DEF TypeInv, TypeOK
<1>6. \A u \in Turn, m \in Fragment : u # t \/ m # n => task'[<<u, m>>] = task[<<u, m>>]
  BY <1>4, <1>5
<1>7. conn'[c].pc = "idle" /\ \A d \in Conn \ {c} : conn'[d] = conn[d]
  BY <1>1, IdleFields, ConnFields DEF ConnIdle, TypeInv
<1>8. \A d \in Conn \ {c} : conn[d].pc \in WorkPC => conn[d].turn \in Turn \ {t}
  BY <1>1, <1>2, OneHandler DEF TypeInv, InHand, Inv
<1>9. NewTurns'
  BY <1>2, <1>6, <1>7, <1>8 DEF NewTurns, StartedPC, WorkPC
<1>10. n \notin Executions[t] /\ Executed(t)'
  <2>1. Active(<<t, n>>)'
    BY <1>5 DEF Active
  <2>2. n \notin Executions[t]
    BY <1>2, <1>3 DEF Executions
  <2> QED BY <2>1, <2>2 DEF Executed
<1>11. Executions' = [Executions EXCEPT ![t] = @ \union {n}]
  <2>1. ASSUME NEW u \in Turn PROVE Executions'[u] = IF u = t THEN Executions[t] \union {n} ELSE Executions[u]
    BY <1>3, <1>5, <1>6, <2>1 DEF Executions
  <2>2. Executions' = [u \in Turn |-> Executions'[u]] /\ Executions = [u \in Turn |-> Executions[u]]
    BY DEF Executions
  <2> QED BY <2>1, <2>2
<1>12. ASSUME NEW u \in Turn, u # t PROVE (Executed(u)' <=> Executed(u)) /\ (Waits(u)' <=> Waits(u))
  <2>1. \A m \in Fragment : Active(<<u, m>>)' <=> Active(<<u, m>>)
    BY <1>6, <1>12 DEF Active
  <2>2. \A d \in Conn : d \in Resuming(u)' <=> d \in Resuming(u)
    BY <1>1, <1>2, <1>7, <1>12 DEF Resuming, Handling, WorkPC
  <2>3. Resuming(u)' = Resuming(u)
    BY <2>2 DEF Resuming
  <2> QED BY <1>1, <2>1, <2>3 DEF Executed, Waits
<1>13. Executions[t] = {} \/ (~Executed(t) /\ Waits(t))
  <2>1. CASE conn[c].pc = "startSend"
    BY <1>2, <2>1 DEF NewTurns, StartedPC, Executions
  <2>2. CASE conn[c].pc = "replySaveSession"
    <3>1. c \in Resuming(t)
      BY <1>2, <2>2 DEF Resuming, Handling, WorkPC
    <3> QED BY <1>2, <3>1, WaitsIsQuiet DEF Waits
  <2> QED BY <1>1, <2>1, <2>2
<1>14. \A u \in Turn \ {t} : (Executed(u)' <=> Executed(u)) /\ (Waits(u)' <=> Waits(u))
  BY <1>12
<1>15. [Life!Next]_(Life!lifeVars)
  BY <1>2, <1>10, <1>11, <1>13, <1>14, StepExecutes
<1> QED BY <1>9, <1>15

\* No task is created by one that moves on, and none begins to run again.
LEMMA TaskMovesQuietly ==
    ASSUME NEW k \in Task, TaskMoves(k), NEW u \in Turn, NEW m \in Fragment
    PROVE  /\ <<u, m>> # k => task'[<<u, m>>] = task[<<u, m>>]
           /\ task'[<<u, m>>].pc = "unborn" <=> task[<<u, m>>].pc = "unborn"
           /\ Active(<<u, m>>)' => Active(<<u, m>>)
<1>1. <<u, m>> \in Task
  BY DEF Task
<1>2. CASE <<u, m>> = k
  BY <1>2 DEF TaskMoves
<1>3. CASE <<u, m>> # k
  <2>1. task'[<<u, m>>] = task[<<u, m>>]
    BY <1>1, <1>3 DEF TaskMoves
  <2> QED BY <1>3, <2>1 DEF Active
<1> QED BY <1>2, <1>3

\* One task moves on: it pauses its turn, or no turn waits that did not.
LEMMA TaskLives ==
    ASSUME TypeInv, Inv, NewTurns, NEW k \in Task, TaskStep(k)
    PROVE  NewTurns' /\ [Life!Next]_(Life!lifeVars)
<1>1. PICK t \in Turn, n \in Fragment : k = <<t, n>> /\ k[1] = t
  BY DEF Task
<1>2. TaskMoves(k) /\ UNCHANGED conn
  BY TaskStepMoves
<1>3. ASSUME NEW u \in Turn, NEW m \in Fragment
      PROVE  /\ u # t \/ m # n => task'[<<u, m>>] = task[<<u, m>>]
             /\ task'[<<u, m>>].pc = "unborn" <=> task[<<u, m>>].pc = "unborn"
             /\ Active(<<u, m>>)' => Active(<<u, m>>)
  <2>1. u # t \/ m # n => <<u, m>> # k
    BY <1>1
  <2> QED BY <1>2, <2>1, TaskMovesQuietly
<1>4. CASE rec'[t] # rec[t] /\ rec'[t].status = "paused"
  <2>1. Active(<<t, n>>) /\ ~Active(<<t, n>>)'
    BY <1>1, <1>2, <1>4 DEF TaskMoves
  <2>2. Executed(t) /\ ~Executed(t)'
    BY <1>3, <2>1 DEF Executed, Inv, OneExecutor
  <2>3. Waits(t)'
    BY <1>4 DEF Waits
  <2>4. ASSUME NEW u \in Turn \ {t} PROVE (Executed(u)' <=> Executed(u)) /\ (Waits(u)' <=> Waits(u))
    <3>1. \A m \in Fragment : Active(<<u, m>>)' <=> Active(<<u, m>>)
      BY <1>3 DEF Active
    <3>2. rec'[u] = rec[u] /\ Resuming(u)' = Resuming(u)
      BY <1>1, <1>2 DEF TaskMoves, Resuming, Handling
    <3> QED BY <3>1, <3>2 DEF Executed, Waits
  <2>5. Executions' = Executions
    BY <1>3 DEF Executions
  <2>6. NewTurns'
    BY <1>2, <1>3 DEF NewTurns, TypeInv, InHand, StartedPC, WorkPC
  <2> QED BY <2>2, <2>3, <2>4, <2>5, <2>6, StepPauses
<1>5. CASE rec'[t] = rec[t] \/ rec'[t].status # "paused"
  <2>1. \A u \in Turn : rec'[u].status = "paused" => rec[u].status = "paused"
    BY <1>1, <1>2, <1>5 DEF TaskMoves
  <2>2. \A d \in Conn, u \in Turn : d \in Resuming(u)' => Waits(u)
    BY <1>2 DEF Resuming, Handling, Waits
  <2> QED BY <1>2, <1>3, <2>1, <2>2, QuietStep
<1> QED BY <1>4, <1>5

\* task.cancel() begins nothing.
LEMMA CancelLives ==
    ASSUME TypeInv, Inv, NewTurns, NEW c \in Conn, CancelLocalTask(c)
    PROVE  NewTurns' /\ [Life!Next]_(Life!lifeVars)
<1>0. PICK t, w, n : t = conn[c].turn /\ w = conn[c].at /\ n = local[w][t]
  OBVIOUS
<1>1. /\ conn[c].pc = "cancelTask" /\ t \in Turn /\ w \in Worker
      /\ UNCHANGED <<rec, home, orphan>>
  BY <1>0, ConnFields DEF CancelLocalTask, store, WorkPC, TypeInv, InHand
<1>2. /\ conn'[c].pc \in {"releaseGet", "cancelWait"} /\ \A d \in Conn \ {c} : conn'[d] = conn[d]
  <2>1. conn \in [Conn -> ConnState]
    BY ConnFields DEF TypeInv
  <2> QED BY <2>1 DEF CancelLocalTask, Goto, ConnState
<1>3. ASSUME NEW u \in Turn, NEW m \in Fragment
      PROVE  /\ task'[<<u, m>>].pc = "unborn" <=> task[<<u, m>>].pc = "unborn"
             /\ Active(<<u, m>>)' => Active(<<u, m>>)
  <2>1. CASE UNCHANGED task
    BY <2>1 DEF Active
  <2>2. CASE LocalBusy(w, t) /\ Interrupt(<<t, n>>)
    <3>1. n \in Fragment
      <4>1. n \in 0..MaxFragments /\ n # 0
        BY <1>0, <1>1, <2>2 DEF LocalBusy, TypeInv, TypeOK
      <4> QED BY <4>1, BoundsAssumption DEF Fragment
    <3>2. Registered(<<t, n>>) /\ <<t, n>> \in Task /\ <<t, n>>[1] = t
      BY <1>0, <1>1, <2>2, <3>1 DEF LocalBusy, Inv, Entries, Task
    <3>3. rec[t].status # "running"
      BY <1>0, <1>1 DEF Inv, Handlers, SavedOK
    <3>4. TaskMoves(<<t, n>>)
      BY <1>1, <2>2, <3>2, <3>3, InterruptMoves
    <3> QED BY <3>2, <3>4, TaskMovesQuietly
  <2>3. UNCHANGED task \/ (LocalBusy(w, t) /\ Interrupt(<<t, n>>))
    BY <1>0 DEF CancelLocalTask
  <2> QED BY <2>1, <2>2, <2>3
<1>4. \A d \in Conn, u \in Turn : d \in Resuming(u)' => Waits(u)
  BY <1>2 DEF Resuming, Handling, Waits
<1>5. \A d \in Conn : conn'[d].pc \in StartedPC => conn[d].pc \in StartedPC /\ conn'[d].turn = conn[d].turn
  BY <1>2 DEF StartedPC
<1> QED BY <1>1, <1>3, <1>4, <1>5, QuietStep

\* Nor does the expiry of a record or of a session key.
LEMMA ExpireLives ==
    ASSUME TypeInv, Inv, NewTurns, UNCHANGED <<conn, task>>,
           \A t \in Turn : rec'[t].status = "paused" => rec[t].status = "paused"
    PROVE  NewTurns' /\ [Life!Next]_(Life!lifeVars)
<1>1. \A d \in Conn, u \in Turn : d \in Resuming(u)' => Waits(u)
  BY DEF Resuming, Handling, Waits
<1> QED BY <1>1, QuietStep DEF Active

\* A crash ends the turns its worker executes, and those it was resuming.
LEMMA CrashLives ==
    ASSUME TypeInv, Inv, NewTurns, NEW w \in Worker, Crash(w)
    PROVE  NewTurns' /\ [Life!Next]_(Life!lifeVars)
<1>1. /\ UNCHANGED rec
      /\ \A c \in Conn : conn'[c].pc = "idle" \/ conn'[c] = conn[c]
  BY DEF Crash, store, IdleAt
<1>2. \A u \in Turn, m \in Fragment :
        /\ <<u, m>> \in Task
        /\ IF Live(<<u, m>>) /\ task[<<u, m>>].at = w
           THEN task'[<<u, m>>].pc = "lost" ELSE task'[<<u, m>>] = task[<<u, m>>]
  <2>1. \A k \in Task : IF Live(k) /\ task[k].at = w
                        THEN task'[k].pc = "lost" ELSE task'[k] = task[k]
    BY DEF Crash, Gone, Unborn
  <2> QED BY <2>1 DEF Task
<1>3. ASSUME NEW u \in Turn, NEW m \in Fragment
      PROVE  /\ task'[<<u, m>>].pc = "unborn" <=> task[<<u, m>>].pc = "unborn"
             /\ Active(<<u, m>>)' => Active(<<u, m>>)
  <2>1. task'[<<u, m>>] = task[<<u, m>>] \/ (Live(<<u, m>>) /\ task'[<<u, m>>].pc = "lost")
    BY <1>2
  <2> QED BY <2>1 DEF Active, Live
<1>4. \A d \in Conn, u \in Turn : d \in Resuming(u)' => Waits(u)
  BY <1>1 DEF Resuming, Handling, Waits
<1>5. \A d \in Conn : conn'[d].pc \in StartedPC => conn[d].pc \in StartedPC /\ conn'[d].turn = conn[d].turn
  BY <1>1 DEF StartedPC
<1> QED BY <1>1, <1>3, <1>4, <1>5, QuietStep

\* Initially no turn has begun,
LEMMA LifeInit == ASSUME Init PROVE NewTurns /\ Life!Init
<1>1. /\ \A k \in Task : task[k].pc = "unborn"
      /\ \A c \in Conn : conn[c].pc = "idle"
  BY DEF Init, Unborn, IdleAt
<1>2. \A t \in Turn, n \in Fragment : task[<<t, n>>].pc = "unborn"
  BY <1>1 DEF Task
<1>3. NewTurns
  BY <1>1 DEF NewTurns, StartedPC
<1>4. \A t \in Turn : Executions[t] = {} /\ Phase[t] = "new"
  BY <1>2 DEF Executions, Phase
<1>5. Executions = [t \in Turn |-> {}] /\ Phase = [t \in Turn |-> "new"]
  <2>1. Executions = [t \in Turn |-> Executions[t]] /\ Phase = [t \in Turn |-> Phase[t]]
    BY DEF Executions, Phase
  <2> QED BY <1>4, <2>1
<1> QED BY <1>3, <1>5 DEF Life!Init

\* and every step maps to one of TurnLife, or to a stutter.
LEMMA LifeStep ==
    ASSUME Exclusive, TypeInv, Inv, NewTurns, [Next]_vars
    PROVE  NewTurns' /\ [Life!Next]_(Life!lifeVars)
<1>1. CASE UNCHANGED vars
  BY <1>1, ExpireLives DEF vars
<1>2. ASSUME NEW c \in Conn, Request(c) PROVE NewTurns' /\ [Life!Next]_(Life!lifeVars)
  BY <1>2, RequestLives
<1>3. ASSUME NEW c \in Conn, HandlerStep(c) \/ Reconnect(c)
      PROVE  NewTurns' /\ [Life!Next]_(Life!lifeVars)
  <2>1. CASE Acquire(c) \/ Overwrite(c)
    <3>1. UNCHANGED <<rec, task>>
      BY <2>1 DEF Acquire, Overwrite
    <3>2. CASE \E t \in Turn : Take(c, t)
      BY <3>1, <3>2, TakeLives
    <3>3. CASE Acquire(c) /\ Goto(c, "getExisting")
      BY <3>3, LookUpLives
    <3> QED BY <2>1, <3>2, <3>3 DEF Acquire, Overwrite
  <2>2. CASE LookUpSession(c) \/ LookUpActive(c) \/ GetExisting(c) \/ GetExistingRecord(c) \/ Reconnect(c)
    BY <2>2, LookUpLives
  <2>3. CASE \/ StartSaveTurn(c) \/ StartSaveSession(c) \/ ReplySaveTurn(c)
             \/ CancelSaveTurn(c) \/ CancelSaveSession(c) \/ CancelWait(c)
             \/ CancelReleaseGet(c) \/ CancelReleaseDelete(c)
    BY <2>3, SaveLives
  <2>4. CASE StartCreateTask(c) \/ ReplySaveSession(c)
    BY <2>4, CreateLives
  <2>5. CASE CancelLocalTask(c)
    BY <2>5, CancelLives
  <2> QED BY <1>3, <2>1, <2>2, <2>3, <2>4, <2>5 DEF HandlerStep
<1>4. ASSUME NEW k \in Task, TaskStep(k) PROVE NewTurns' /\ [Life!Next]_(Life!lifeVars)
  BY <1>4, TaskLives
<1>5. ASSUME NEW t \in Turn, ExpireTurn(t) PROVE NewTurns' /\ [Life!Next]_(Life!lifeVars)
  <2>1. rec'[t].status = "none" /\ \A u \in Turn \ {t} : rec'[u] = rec[u]
    BY <1>5 DEF ExpireTurn, NoRec, TypeInv, TypeOK
  <2> QED BY <1>5, <2>1, ExpireLives DEF ExpireTurn
<1>6. ASSUME NEW s \in Session, ExpireSession(s) PROVE NewTurns' /\ [Life!Next]_(Life!lifeVars)
  BY <1>6, ExpireLives DEF ExpireSession
<1>7. ASSUME NEW w \in Worker, Crash(w) PROVE NewTurns' /\ [Life!Next]_(Life!lifeVars)
  BY <1>7, CrashLives
<1> QED BY <1>1, <1>2, <1>3, <1>4, <1>5, <1>6, <1>7 DEF Next

\* start_turn, submit_user_reply, cancel_turn and _execute_turn, interleaved
\* with expiries, crashes and reconnections, implement TurnLife: a turn has one
\* execution at a time, goes on only from a pause, and once over stays over.
THEOREM TurnsLiveHolds == ASSUME Exclusive PROVE Spec => TurnsLive
<1>1. Init => TypeInv /\ Inv /\ NewTurns /\ Life!Init
  BY TypeInit, InvInit, LifeInit
<1>2. TypeInv /\ Inv /\ NewTurns /\ [Next]_vars
      => (TypeInv /\ Inv /\ NewTurns)' /\ [Life!Next]_(Life!lifeVars)
  BY TypeStep, InvStep, LifeStep
<1> QED BY <1>1, <1>2, PTL DEF Spec, TurnsLive, Life!Spec
=============================================================================
