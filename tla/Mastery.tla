------------------------------ MODULE Mastery ------------------------------
(***************************************************************************)
(* The rules of the mastery path, as functions of one learner's progress:  *)
(* the mastery score (mastery/mastery.py), the gates and the choice of the *)
(* next objective (mastery/policy.py), the spaced-repetition schedule      *)
(* (mastery/scheduler.py) and the bookkeeping of an attempt                *)
(* (mastery/service.py).  Nothing here has state: MasteryPath.tla holds    *)
(* the stored row and the requests that read and write it.                 *)
(*                                                                         *)
(* Scores are thousandths, rounded down; every threshold they are compared *)
(* with (0.4, 0.5, 0.8, 0.9, 1.0) is a whole number of thousandths.        *)
(* Review dates are the days left until the review, 0 once it is due.      *)
(***************************************************************************)
EXTENDS Naturals, Sequences, FiniteSets

CONSTANTS
  KP,        \* the knowledge points (objectives) of the path
  Path,      \* their order: modules by "order", then as listed
  TypeOf,    \* the knowledge type of each
  Words,     \* how many words the lists of the levels hold, A1 to the path's own
  Band,      \* the range of ranks an objective draws its words from, or None
             \* when it brings its own drills
  Question,  \* question ids (uuid4 in the code): numbers, the smallest is next
  None       \* no pending question, no repetition state, no stored row

KnowledgeType == {"memory", "concept", "procedure", "design"}

QualitativeTypes == {"concept", "design"}

ASSUME PathAssumption ==
  /\ Path \in Seq(KP) /\ KP = {Path[i] : i \in DOMAIN Path}
  /\ TypeOf \in [KP -> KnowledgeType]
  /\ Words \in Seq(Nat) /\ Words # <<>>
  /\ Band \in [KP -> (Nat \X Nat) \cup {None}]
  /\ Question \subseteq Nat
  /\ None \notin KP \cup Question \cup [q: Question, kp: KP]

Lesser(a, b) == IF a <= b THEN a ELSE b
Greater(a, b) == IF a >= b THEN a ELSE b

-----------------------------------------------------------------------------
(* The mastery score                                                       *)

Window == 5

(* What the weights 0.5, 0.7, 0.85, 0.95, 1.0 sum to when only the last n   *)
(* are used, in hundredths.                                                *)
WeightTotal == <<100, 195, 280, 350, 400>>

\* Mutant: two answers are not capped.
ConfidenceCapOne(n) == IF n = 1 THEN 500 ELSE 1000
ConfidenceCap(n) == IF n = 1 THEN 500 ELSE IF n = 2 THEN 800 ELSE 1000

Recent(h) == IF Len(h) <= Window
             THEN h ELSE SubSeq(h, Len(h) - Window + 1, Len(h))

Right(h) == {i \in DOMAIN h : h[i]}
Wrong(h) == {i \in DOMAIN h : ~h[i]}

(* The loop "for w, c in zip(recent, weights)" binds w to the outcome and  *)
(* c to the weight, so "w * (1.0 if c else 0.0)" adds 1 for each correct    *)
(* answer, whatever its weight; the sum is still divided by the weights:    *)
(* c right answers among the last n.                                       *)
Score(c, n) ==
  Lesser((100000 * c) \div WeightTotal[n], ConfidenceCap(n))

ComputeMastery(h) ==
  IF h = <<>> THEN 0
  ELSE Score(Cardinality(Right(Recent(h))), Len(Recent(h)))

GateThreshold == 900

(* What the score and the gate amount to, and what MasteryPath_proofs shows *)
(* they do: at least three answers, none of the last five wrong -- one may  *)
(* be, once there are five.                                                *)
Earned(h) ==
  /\ Len(h) >= 3
  /\ Cardinality(Wrong(Recent(h))) <= (IF Len(h) >= Window THEN 1 ELSE 0)

-----------------------------------------------------------------------------
(* The schedule                                                            *)

Intervals == [memory    |-> <<0, 1, 3, 7, 14, 30, 60>>,
              concept   |-> <<3, 7, 14, 30>>,
              procedure |-> <<3, 7, 14>>,
              design    |-> <<14, 28>>]

MaxIndex(t) == Len(Intervals[t]) - 1

IntervalDays(t, i) == Intervals[t][i + 1]

GetInitialState(t) ==
  [index |-> 0, right |-> 0, wrong |-> 0, due |-> IntervalDays(t, 0)]

\* Mutant: the interval moves and the review date does not.
ScheduleNextDue(s, t, correct) ==
  LET jump  == correct /\ s.right + 1 >= 2
      moved == IF correct THEN s.index + (IF jump THEN 2 ELSE 1)
                          ELSE Greater(s.index, 1) - 1
  IN [index |-> Lesser(moved, MaxIndex(t)),
      right |-> IF correct /\ ~jump THEN s.right + 1 ELSE 0,
      wrong |-> IF correct \/ s.wrong + 1 >= 2 THEN 0 ELSE s.wrong + 1,
      due   |-> s.due]

(* Two right answers in a row jump two intervals, one advances by one, a    *)
(* wrong one falls back by one.                                            *)
ScheduleNext(s, t, correct) ==
  LET jump  == correct /\ s.right + 1 >= 2
      moved == IF correct THEN s.index + (IF jump THEN 2 ELSE 1)
                          ELSE Greater(s.index, 1) - 1
      index == Lesser(moved, MaxIndex(t))
  IN [index |-> index,
      right |-> IF correct /\ ~jump THEN s.right + 1 ELSE 0,
      wrong |-> IF correct \/ s.wrong + 1 >= 2 THEN 0 ELSE s.wrong + 1,
      due   |-> IntervalDays(t, index)]

-----------------------------------------------------------------------------
(* A learner's progress on one path (LearningProgress)                     *)

RepetitionState == [index: 0..6, right: 0..1, wrong: 0..1, due: 0..60]

ErrorRecord ==
  [q: Question, kp: KP, status: {"active", "retrying", "graduated"}]

Histories   == [KP -> Seq(BOOLEAN)]
Scores      == [KP -> 0..1000]
Assessments == [KP -> {"none", "passed", "failed"}]
Reviews     == [KP -> RepetitionState \cup {None}]
Pending     == [q: Question, kp: KP] \cup {None}

Progress ==
  [hist    : Histories,             \* quiz_attempts: the last five of each objective
   level   : Scores,                \* mastery_levels
   qual    : Assessments,           \* qualitative_mastery
   rep     : Reviews,               \* repetition_states
   errors  : SUBSET ErrorRecord,    \* error_records
   pending : Pending]               \* pending_question

NewProgress ==
  [hist    |-> [k \in KP |-> <<>>],
   level   |-> [k \in KP |-> 0],
   qual    |-> [k \in KP |-> "none"],
   rep     |-> [k \in KP |-> None],
   errors  |-> {},
   pending |-> None]

(* Only the last five outcomes of an objective are ever read.               *)
Remember(h, correct) ==
  IF Len(h) < Window THEN Append(h, correct) ELSE Append(Tail(h), correct)

(* A wrong answer opens an error record for its question, or marks the one  *)
(* it has; a right one graduates the record of the same question.          *)
RecordErrors(errors, q, k, correct) ==
  LET same == {e \in errors : e.q = q /\ e.kp = k}
      open == {e \in same : e.status \in {"active", "retrying"}}
      Marked(set, s) == {[e EXCEPT !.status = s] : e \in set}
  IN IF correct THEN (errors \ open) \cup Marked(open, "graduated")
     ELSE IF same = {}
          THEN errors \cup {[q |-> q, kp |-> k, status |-> "active"]}
          ELSE (errors \ same) \cup Marked(same, "retrying")

\* Mutant: the graded question stays pending.
GradeAndRecordPending(p, correct) ==
  LET k == p.pending.kp
      h == Remember(p.hist[k], correct)
      s == IF p.rep[k] = None THEN GetInitialState(TypeOf[k]) ELSE p.rep[k]
  IN [p EXCEPT !.hist[k] = h, !.level[k] = ComputeMastery(h),
               !.rep[k] = ScheduleNext(s, TypeOf[k], correct),
               !.errors = RecordErrors(@, p.pending.q, k, correct)]

(* grade_and_record: the attempt, the score recomputed from all attempts,   *)
(* the schedule, and the pending question cleared.                         *)
GradeAndRecord(p, correct) ==
  LET k == p.pending.kp
      h == Remember(p.hist[k], correct)
      s == IF p.rep[k] = None THEN GetInitialState(TypeOf[k]) ELSE p.rep[k]
  IN [hist    |-> [p.hist EXCEPT ![k] = h],
      level   |-> [p.level EXCEPT ![k] = ComputeMastery(h)],
      qual    |-> p.qual,
      rep     |-> [p.rep EXCEPT ![k] = ScheduleNext(s, TypeOf[k], correct)],
      errors  |-> RecordErrors(p.errors, p.pending.q, k, correct),
      pending |-> None]

(* record_qualitative does not look at the type of the objective.           *)
RecordQualitative(p, k, passed) ==
  [p EXCEPT !.qual[k]  = IF passed THEN "passed" ELSE "failed",
            !.level[k] = IF passed THEN Greater(p.level[k], 1000)
                                   ELSE Lesser(p.level[k], 400)]

-----------------------------------------------------------------------------
(* What to do next (policy.py)                                             *)

IsMastered(p, k) ==
  IF TypeOf[k] \in QualitativeTypes THEN p.qual[k] = "passed"
                                    ELSE p.level[k] >= GateThreshold

Complete(p) == \A k \in KP : IsMastered(p, k)

DueReviews(p) == {k \in KP : p.rep[k] # None /\ p.rep[k].due = 0}

(* Objectives with an open error record come first, then memory, concept,   *)
(* procedure and design.                                                   *)
Priority(p, k) ==
  IF \E e \in p.errors : e.kp = k /\ e.status \in {"active", "retrying"} THEN 1
  ELSE CASE TypeOf[k] = "memory"    -> 2
         [] TypeOf[k] = "concept"   -> 3
         [] TypeOf[k] = "procedure" -> 4
         [] OTHER                   -> 5

(* The reviews that may come first: the order of equal priorities is that   *)
(* of the keys of a JSON object.                                           *)
FirstReviews(p) ==
  {k \in DueReviews(p) : \A j \in DueReviews(p) : Priority(p, k) <= Priority(p, j)}

FirstUnmastered(p) ==
  {Path[i] : i \in {n \in DOMAIN Path : /\ ~IsMastered(p, Path[n])
                                        /\ \A m \in 1..(n - 1) : IsMastered(p, Path[m])}}

(* ensure_words_seeded numbers the words of all levels in one run: the ranks*)
(* of a level start where those of the level before it end.                *)
Ranks ==
  LET Before[l \in 0..(Len(Words) - 1)] ==
        IF l = 0 THEN 0 ELSE Before[l - 1] + Words[l]
      first == Before[Len(Words) - 1]
  IN (first + 1)..(first + Words[Len(Words)])

(* _word_drill: a word of the level whose rank is in the band; an objective *)
(* with no such word gets no drill.                                        *)
HasDrill(k) ==
  IF Band[k] = None THEN TRUE
  ELSE \E n \in Ranks : Band[k][1] <= n /\ n <= Band[k][2]

(* The objectives next_objective may name for a drill: none while a         *)
(* question is pending (answer_pending) or when all is done (complete).    *)
NextObjectives(p) ==
  IF p.pending # None THEN {}
  ELSE IF DueReviews(p) # {} THEN FirstReviews(p)
  ELSE FirstUnmastered(p)
=============================================================================
