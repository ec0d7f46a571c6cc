---------------------------- MODULE MasteryPath ----------------------------
(***************************************************************************)
(* The mastery path of one learner at one level: the stored progress row   *)
(* (mastery/repository.py), the requests that read it, compute the next    *)
(* progress and write it back whole (mastery/runtime.py, path_api.py, the  *)
(* tutor's mastery_grade tool in agent/tools/mastery.py), and the panel    *)
(* that shows a question and sends the answer (MasteryPathPanel.tsx).      *)
(*                                                                         *)
(* A request reads the row when it starts and commits when it ends; two    *)
(* requests may overlap, and the later commit replaces the earlier one: the*)
(* version column is written and never compared.                           *)
(***************************************************************************)
EXTENDS Mastery

CONSTANTS
  Panel,        \* open mastery panels (browser tabs)
  Request,      \* requests that may be in flight at once
  Assessable,   \* objectives some client posts to /assess
  Registrable,  \* objectives some client posts to /quiz
  ChatGrades,   \* whether the tutor's mastery_grade tool is used
  PauseDays,    \* how many days may pass between two answers
  Budget        \* how often each bounded event may happen

(* Wrong answers, pauses, requests that fail, what crosses (an answer sent  *)
(* over another, a reply that is lost), and what strays from asking and     *)
(* answering (a refresh, an assessment or a question posted).               *)
Bounded == {"slip", "pause", "fault", "cross", "stray"}

ASSUME ClientAssumption ==
  /\ Assessable \subseteq KP /\ Registrable \subseteq KP
  /\ ChatGrades \in BOOLEAN /\ PauseDays \subseteq Nat
  /\ Budget \in [Bounded -> Nat]
  /\ None \notin Panel \cup Progress

VARIABLES
  row,   \* the stored progress, or None
  view,  \* the question each panel shows, or None
  req,   \* what each request in flight read and wants
  left   \* what remains of the bounds: wrong answers, pauses, ...

vars == <<row, view, req, left>>

Idle == [op |-> "idle", panel |-> None, kp |-> None, passed |-> FALSE,
         about |-> None, snap |-> None]

Requests ==
  [op: {"idle", "map", "drill", "grade", "assess", "register", "drill_reply", "grade_reply"},
   panel: Panel \cup {None},
   kp: KP \cup {None}, passed: BOOLEAN, about: Question \cup {None},
   snap: Progress \cup {None}]

(* Every variable stays within its declared values.                        *)
TypeOK ==
  /\ row \in Progress \cup {None}
  /\ view \in [Panel -> Question \cup {None}]
  /\ req \in [Request -> Requests]
  /\ left \in [Bounded -> Nat]

Init ==
  /\ row = None
  /\ view = [p \in Panel |-> None]
  /\ req = [r \in Request |-> Idle]
  /\ left = Budget

Spend(what) == left[what] > 0 /\ left' = [left EXCEPT ![what] = @ - 1]

(* ensure_path: the row, or a new one that is inserted with the request.    *)
Loaded(s) == IF s = None THEN NewProgress ELSE s

(* A second insert of the same learner and level breaks the unique key.     *)
MayWrite(s) == s # None \/ row = None

(* A uuid4: an id nothing refers to.                                       *)
Refers(p) == IF p = None THEN {}
             ELSE {e.q : e \in p.errors} \cup
                  (IF p.pending = None THEN {} ELSE {p.pending.q})

Used == Refers(row) \cup {view[p] : p \in Panel} \cup
        UNION {Refers(req[r].snap) \cup {req[r].about} : r \in Request}

FreshQuestion(q) ==
  /\ q \in Question \ Used
  /\ \A o \in Question \ Used : q <= o

-----------------------------------------------------------------------------
(* Requests start: the clients                                             *)

Start(r, op, panel, kp, passed, about) ==
  /\ req[r] = Idle
  /\ req' = [req EXCEPT ![r] = [op |-> op, panel |-> panel, kp |-> kp,
               passed |-> passed, about |-> about, snap |-> row]]

(* What a panel has under way. It fetches one drill at a time.              *)
InFlight(p, ops) == \E r \in Request : req[r].op \in ops /\ req[r].panel = p

(* The panel asks for a drill when it has none, or when it is refreshed.    *)
FetchDrill(r, p) ==
  /\ ~InFlight(p, {"drill", "drill_reply"})
  /\ \/ view[p] = None /\ UNCHANGED left
     \/ view[p] # None /\ Spend("stray")
  /\ Start(r, "drill", p, None, FALSE, None)
  /\ UNCHANGED <<row, view>>

(* The map of a new path, read with its first drill and on its own: get_map *)
(* and get_next insert the row they miss, and write nothing otherwise.      *)
FetchMap(r) ==
  /\ row = None
  /\ Start(r, "map", None, None, FALSE, None)
  /\ UNCHANGED <<row, view, left>>

(* The answer travels without the id of the question it is for. Enter sends *)
(* it once more while the first is under way: only the button is disabled.  *)
SendAnswer(r, p) ==
  /\ view[p] # None
  /\ \/ ~InFlight(p, {"grade", "grade_reply"}) /\ UNCHANGED left
     \/ InFlight(p, {"grade", "grade_reply"}) /\ Spend("cross")
  /\ Start(r, "grade", p, None, FALSE, view[p])
  /\ UNCHANGED <<row, view>>

ChatAnswer(r) ==
  /\ ChatGrades
  /\ Start(r, "grade", None, None, FALSE, None)
  /\ UNCHANGED <<row, view, left>>

Assess(r) ==
  /\ \E k \in Assessable, passed \in BOOLEAN :
       Start(r, "assess", None, k, passed, None)
  /\ Spend("stray") /\ UNCHANGED <<row, view>>

Register(r) ==
  /\ \E k \in Registrable : Start(r, "register", None, k, FALSE, None)
  /\ Spend("stray") /\ UNCHANGED <<row, view>>

-----------------------------------------------------------------------------
(* Requests end: what they commit, and what the panel is told              *)

End(r) == req' = [req EXCEPT ![r] = Idle]

(* The reply to a panel: the question to show, None when there is no drill. *)
Reply(r, op, q) ==
  IF req[r].panel = None THEN End(r)
  ELSE req' = [req EXCEPT ![r] = [Idle EXCEPT !.op = op, !.panel = req[r].panel,
                                              !.about = q]]

SetPending(p, q, k) == [p EXCEPT !.pending = [q |-> q, kp |-> k]]

(* Mutant: the drill goes to the panel without being saved as the pending   *)
(* question.                                                               *)
BuildDrillUnsaved(r, p, saved, op) ==
  /\ row' = saved
  /\ \/ /\ NextObjectives(p) = {} \/ \E k \in NextObjectives(p) : ~HasDrill(k)
        /\ Reply(r, op, None)
     \/ \E k \in NextObjectives(p), q \in Question :
          HasDrill(k) /\ FreshQuestion(q) /\ Reply(r, op, q)

(* _build_drill_from_progress on progress p: a new pending question on the  *)
(* next objective; or no drill, while a question is pending, when the path  *)
(* is complete, and when the objective has none: then the row stays at what *)
(* was saved before.                                                       *)
BuildDrill(r, p, saved, op) ==
  \/ /\ NextObjectives(p) = {} \/ \E k \in NextObjectives(p) : ~HasDrill(k)
     /\ row' = saved /\ Reply(r, op, None)
  \/ \E k \in NextObjectives(p), q \in Question :
       /\ HasDrill(k) /\ FreshQuestion(q)
       /\ row' = SetPending(p, q, k) /\ Reply(r, op, q)

EndMap(r) ==
  /\ req[r].op = "map" /\ MayWrite(req[r].snap)
  /\ row' = IF req[r].snap = None THEN NewProgress ELSE row
  /\ End(r) /\ UNCHANGED <<view, left>>

EndDrill(r) ==
  LET s == req[r].snap IN
  /\ req[r].op = "drill" /\ MayWrite(s)
  /\ BuildDrill(r, Loaded(s), IF s = None THEN NewProgress ELSE row, "drill_reply")
  /\ UNCHANGED <<view, left>>

Asks(p) == IF p = None THEN FALSE ELSE p.pending # None

(* grade_answer: the attempt is saved, then the next drill is built on it   *)
(* in the same transaction.                                                *)
EndGrade(r) ==
  LET s == req[r].snap IN
  /\ req[r].op = "grade" /\ Asks(s)
  /\ \E correct \in BOOLEAN :
       LET graded == GradeAndRecord(s, correct) IN
       /\ IF correct THEN UNCHANGED left ELSE Spend("slip")
       /\ BuildDrill(r, graded, graded, "grade_reply")
  /\ UNCHANGED view

(* no_pending_question: the request is refused and rolls back.              *)
RefuseGrade(r) ==
  LET s == req[r].snap IN
  /\ req[r].op = "grade" /\ ~Asks(s)
  /\ End(r) /\ UNCHANGED <<row, view, left>>

EndAssess(r) ==
  /\ req[r].op = "assess" /\ MayWrite(req[r].snap)
  /\ row' = RecordQualitative(Loaded(req[r].snap), req[r].kp, req[r].passed)
  /\ End(r) /\ UNCHANGED <<view, left>>

EndRegister(r) ==
  /\ req[r].op = "register" /\ MayWrite(req[r].snap)
  /\ \E q \in Question :
       FreshQuestion(q) /\ row' = SetPending(Loaded(req[r].snap), q, req[r].kp)
  /\ End(r) /\ UNCHANGED <<view, left>>

(* The insert of a row that another request has inserted meanwhile.         *)
InsertConflict(r) ==
  /\ req[r].op \in {"map", "drill", "assess", "register"} /\ ~MayWrite(req[r].snap)
  /\ End(r) /\ UNCHANGED <<row, view, left>>

(* The panel shows the drill of the reply, or that there is none.           *)
Deliver(r) ==
  /\ req[r].op \in {"drill_reply", "grade_reply"}
  /\ view' = [view EXCEPT ![req[r].panel] = req[r].about]
  /\ End(r) /\ UNCHANGED <<row, left>>

(* A request fails before its commit and rolls back: the panel reports an   *)
(* error and keeps what it shows.                                          *)
Fail(r) ==
  /\ req[r].op \in {"map", "drill", "grade", "assess", "register"} /\ Spend("fault")
  /\ End(r) /\ UNCHANGED <<row, view>>

(* The same for the panel, but the request has committed.                   *)
LoseReply(r) ==
  /\ req[r].op \in {"drill_reply", "grade_reply"} /\ Spend("cross")
  /\ End(r) /\ UNCHANGED <<row, view>>

(* Days pass while no request is under way.                                *)
Pause ==
  /\ \A r \in Request : req[r] = Idle
  /\ row # None /\ Spend("pause")
  /\ \E d \in PauseDays :
       row' = [row EXCEPT !.rep = [k \in KP |->
                 IF row.rep[k] = None THEN None
                 ELSE [row.rep[k] EXCEPT !.due = Greater(@, d) - d]]]
  /\ UNCHANGED <<view, req>>

-----------------------------------------------------------------------------
Client(r) ==
  \/ \E p \in Panel : FetchDrill(r, p) \/ SendAnswer(r, p)
  \/ FetchMap(r) \/ ChatAnswer(r) \/ Assess(r) \/ Register(r)

Server(r) ==
  \/ EndMap(r) \/ EndDrill(r) \/ EndGrade(r) \/ RefuseGrade(r)
  \/ EndAssess(r) \/ EndRegister(r) \/ InsertConflict(r)

Next ==
  \/ \E r \in Request : Client(r) \/ Server(r) \/ Deliver(r) \/ Fail(r) \/ LoseReply(r)
  \/ Pause

Spec == Init /\ [][Next]_vars

(* The server finishes what it started and its replies arrive; the panel    *)
(* loads its drill and the learner answers what it shows (strong fairness:   *)
(* other requests may hold the slots in between).                          *)
Fairness ==
  /\ \A r \in Request : WF_vars(Server(r)) /\ WF_vars(Deliver(r))
  /\ \A p \in Panel :
       /\ SF_vars(\E r \in Request : FetchDrill(r, p))
       /\ SF_vars(\E r \in Request : SendAnswer(r, p))

FairSpec == Spec /\ Fairness

-----------------------------------------------------------------------------
(* Properties                                                              *)

(* Whatever the requests do to each other, a memory or procedure objective  *)
(* that counts as mastered was earned by its answers, or a client passed it *)
(* by hand: /assess does not look at the type.                             *)
MasteryIsEarned ==
  row # None =>
    \A k \in KP : TypeOf[k] \notin QualitativeTypes /\ IsMastered(row, k) =>
                     Earned(row.hist[k]) \/ row.qual[k] = "passed"

(* No question is graded twice in one history of the row: a question with   *)
(* an error record is never the pending one again.                         *)
GradedOnce ==
  Asks(row) => \A e \in row.errors : e.q # row.pending.q

Happened(what) == left[what] < Budget[what]

(* With one panel and no other client, an answer is graded against the      *)
(* question the panel showed when it was given, refreshed or failing        *)
(* requests or not, until one is sent over another or a reply is lost.      *)
GradedAsShown ==
  ~Happened("cross") =>
    \A r \in Request :
       req[r].op = "grade" /\ req[r].panel # None =>
         Asks(req[r].snap) /\ req[r].snap.pending.q = req[r].about

(* build_drill gives no drill while a question is pending: a panel that has *)
(* lost it shows none again.                                               *)
OutOfSight == Asks(row) /\ \A p \in Panel : view[p] = None

(* The path is complete. What is left otherwise is a question out of sight, *)
(* and that only after a refresh, a lost reply or an answer sent over       *)
(* another.                                                                *)
PathDone ==
  /\ row # None
  /\ \/ Complete(row)
     \/ OutOfSight /\ \E what \in {"cross", "stray"} : Happened(what)

(* A learner who keeps answering, in the end rightly, completes the path,   *)
(* whatever fails and although answers may be graded twice or against a     *)
(* question that was not shown.                                            *)
PathCompletes == <>[]PathDone

=============================================================================
