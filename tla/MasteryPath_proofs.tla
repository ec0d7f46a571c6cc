------------------------- MODULE MasteryPath_proofs -------------------------
(***************************************************************************)
(* What the score, the gate and the schedule of the mastery path amount to *)
(* for every history of answers, and that no interleaving of requests makes*)
(* an objective count as mastered that was not earned.                     *)
(***************************************************************************)
EXTENDS MasteryPath, FiniteSetTheorems, SequenceTheorems, TLAPS

-----------------------------------------------------------------------------
(* Histories                                                               *)

\* The window a mastery level is computed from.
LEMMA RecentType ==
  ASSUME NEW h \in Seq(BOOLEAN)
  PROVE  /\ Recent(h) \in Seq(BOOLEAN)
         /\ Len(Recent(h)) = Lesser(Len(h), Window)
<1>1. CASE Len(h) <= Window
  BY <1>1 DEF Recent, Lesser, Window
<1>2. CASE ~(Len(h) <= Window)
  <2>1. Recent(h) = SubSeq(h, Len(h) - 4, Len(h))
    BY <1>2 DEF Recent, Window
  <2>2. Len(h) \in Nat /\ Len(h) >= 6
    BY <1>2 DEF Window
  <2> QED BY <2>1, <2>2 DEF Lesser, Window
<1> QED BY <1>1, <1>2

(* The right and the wrong answers of a history make up its length.         *)
LEMMA RightAndWrong ==
  ASSUME NEW h \in Seq(BOOLEAN)
  PROVE  /\ Cardinality(Right(h)) \in Nat
         /\ Cardinality(Wrong(h)) \in Nat
         /\ Cardinality(Right(h)) + Cardinality(Wrong(h)) = Len(h)
<1>1. DOMAIN h = 1..Len(h) /\ Len(h) \in Nat
  OBVIOUS
<1>2. IsFiniteSet(1..Len(h)) /\ Cardinality(1..Len(h)) = Len(h)
  BY <1>1, FS_Interval
<1>3. IsFiniteSet(Right(h)) /\ IsFiniteSet(Wrong(h))
  BY <1>1, <1>2, FS_Subset DEF Right, Wrong
<1>4. Right(h) \cup Wrong(h) = 1..Len(h) /\ Right(h) \cap Wrong(h) = {}
  BY <1>1 DEF Right, Wrong
<1>5. Cardinality(Right(h)) \in Nat /\ Cardinality(Wrong(h)) \in Nat
  BY <1>3, FS_CardinalityType
<1>6. Cardinality(Right(h) \cup Wrong(h))
        = Cardinality(Right(h)) + Cardinality(Wrong(h)) - Cardinality(Right(h) \cap Wrong(h))
  BY <1>3, FS_Union
<1>7. Cardinality(Right(h) \cap Wrong(h)) = 0
  BY <1>4, FS_EmptySet, Zenon
<1>8. Cardinality(Right(h) \cup Wrong(h)) = Len(h)
  BY <1>2, <1>4, Zenon
<1>9. Len(h) = Cardinality(Right(h)) + Cardinality(Wrong(h)) - 0
  BY <1>6, <1>7, <1>8, Zenon
<1> QED BY <1>5, <1>9

(* c right answers among the n recent ones reach the gate when at least      *)
(* three are recent and the others are none -- or one, of five.             *)
LEMMA ScoreGate ==
  ASSUME NEW n \in 1..5, NEW c \in 0..n
  PROVE  /\ Score(c, n) \in 0..1000
         /\ Score(c, n) >= GateThreshold <=> n >= 3 /\ n - c <= (IF n = 5 THEN 1 ELSE 0)
<1>1. CASE n = 1
  <2>1. Score(c, n) = Lesser((100000 * c) \div 100, 500)
    BY <1>1 DEF Score, WeightTotal, ConfidenceCap
  <2>2. PICK s \in 0..1000 : s = Lesser((100000 * c) \div 100, 500)
    BY <1>1 DEF Lesser
  <2> QED BY <1>1, <2>1, <2>2 DEF Lesser, GateThreshold
<1>2. CASE n = 2
  <2>1. Score(c, n) = Lesser((100000 * c) \div 195, 800)
    BY <1>2 DEF Score, WeightTotal, ConfidenceCap
  <2>2. PICK s \in 0..1000 : s = Lesser((100000 * c) \div 195, 800)
    BY <1>2 DEF Lesser
  <2> QED BY <1>2, <2>1, <2>2 DEF Lesser, GateThreshold
<1>3. CASE n = 3
  <2>1. Score(c, n) = Lesser((100000 * c) \div 280, 1000)
    BY <1>3 DEF Score, WeightTotal, ConfidenceCap
  <2>2. PICK s \in 0..1000 : s = Lesser((100000 * c) \div 280, 1000)
    BY <1>3 DEF Lesser
  <2> QED BY <1>3, <2>1, <2>2 DEF Lesser, GateThreshold
<1>4. CASE n = 4
  <2>1. Score(c, n) = Lesser((100000 * c) \div 350, 1000)
    BY <1>4 DEF Score, WeightTotal, ConfidenceCap
  <2>2. PICK s \in 0..1000 : s = Lesser((100000 * c) \div 350, 1000)
    BY <1>4 DEF Lesser
  <2> QED BY <1>4, <2>1, <2>2 DEF Lesser, GateThreshold
<1>5. CASE n = 5
  <2>1. Score(c, n) = Lesser((100000 * c) \div 400, 1000)
    BY <1>5 DEF Score, WeightTotal, ConfidenceCap
  <2>2. PICK s \in 0..1000 : s = Lesser((100000 * c) \div 400, 1000)
    BY <1>5 DEF Lesser
  <2> QED BY <1>5, <2>1, <2>2 DEF Lesser, GateThreshold
<1> QED BY <1>1, <1>2, <1>3, <1>4, <1>5

(* compute_mastery and gate_threshold together: the score reaches the gate  *)
(* exactly when there are three answers and none of the last five is wrong *)
(* -- or one, once there are five.  The recency weights play no part.      *)
THEOREM GateIsEarned ==
  ASSUME NEW h \in Seq(BOOLEAN)
  PROVE  /\ ComputeMastery(h) \in 0..1000
         /\ ComputeMastery(h) >= GateThreshold <=> Earned(h)
<1>1. CASE h = <<>>
  BY <1>1 DEF ComputeMastery, GateThreshold, Earned
<1>2. CASE h # <<>>
  <2>14. Recent(h) \in Seq(BOOLEAN) /\ Len(Recent(h)) = Lesser(Len(h), Window)
    BY RecentType, Zenon
  <2>1. PICK n \in Nat : n = Len(Recent(h)) /\ n = Lesser(Len(h), 5)
    BY <2>14 DEF Window
  <2>2. PICK c \in Nat : c = Cardinality(Right(Recent(h)))
    BY RecentType, RightAndWrong
  <2>3. PICK w \in Nat : w = Cardinality(Wrong(Recent(h)))
    BY RecentType, RightAndWrong
  <2>4. c + w = n
    BY <2>1, <2>2, <2>3, RecentType, RightAndWrong
  <2>5. Len(h) \in Nat /\ Len(h) >= 1
    BY <1>2
  <2>6. n \in 1..5 /\ (Len(h) >= 5 <=> n = 5) /\ (Len(h) >= 3 <=> n >= 3)
    <3>1. PICK m \in Nat : m = Len(h) /\ m >= 1
      BY <2>5
    <3>2. n = IF m <= 5 THEN m ELSE 5
      BY <2>1, <3>1 DEF Lesser
    <3>3. n \in 1..5 /\ (m >= 5 <=> n = 5) /\ (m >= 3 <=> n >= 3)
      BY <3>1, <3>2
    <3> QED BY <3>1, <3>3
  <2>7. ComputeMastery(h) = Score(c, n)
    BY <1>2, <2>1, <2>2 DEF ComputeMastery
  <2>8. Earned(h) <=> n >= 3 /\ w <= (IF n = 5 THEN 1 ELSE 0)
    BY <2>3, <2>6 DEF Earned, Window
  <2>9. c \in 0..n /\ n - c = w
    BY <2>4, <2>6
  <2>10. /\ Score(c, n) \in 0..1000
         /\ Score(c, n) >= GateThreshold <=> n >= 3 /\ n - c <= (IF n = 5 THEN 1 ELSE 0)
    BY ZenonT(40), <2>6, <2>9, ScoreGate
  <2> QED BY <2>7, <2>8, <2>9, <2>10, ZenonT(40)
<1> QED BY <1>1, <1>2

-----------------------------------------------------------------------------
(* The schedule                                                            *)

\* The review intervals are days that never shrink as repetitions succeed.
LEMMA IntervalTable ==
  ASSUME NEW t \in KnowledgeType
  PROVE  /\ MaxIndex(t) \in 0..6
         /\ \A i \in 0..MaxIndex(t) : IntervalDays(t, i) \in 0..60
         /\ \A i, j \in 0..MaxIndex(t) :
               i <= j => IntervalDays(t, i) <= IntervalDays(t, j)
<1>1. CASE t = "memory"
  BY <1>1 DEF MaxIndex, IntervalDays, Intervals
<1>2. CASE t = "concept"
  BY <1>2 DEF MaxIndex, IntervalDays, Intervals
<1>3. CASE t = "procedure"
  BY <1>3 DEF MaxIndex, IntervalDays, Intervals
<1>4. CASE t = "design"
  BY <1>4 DEF MaxIndex, IntervalDays, Intervals
<1> QED BY <1>1, <1>2, <1>3, <1>4 DEF KnowledgeType

(* The state of one objective's reviews, within the sequence of its type.   *)
StateOf(t) == {s \in RepetitionState : s.index <= MaxIndex(t)}

(* schedule_next keeps the index inside the sequence of the type; a right   *)
(* answer never brings the next review closer than the current interval,   *)
(* and a wrong one never moves it further away.                            *)
THEOREM ScheduleIsMonotone ==
  ASSUME NEW t \in KnowledgeType, NEW s \in StateOf(t), NEW correct \in BOOLEAN
  PROVE  /\ ScheduleNext(s, t, correct) \in StateOf(t)
         /\ correct  => ScheduleNext(s, t, correct).due >= IntervalDays(t, s.index)
         /\ ~correct => ScheduleNext(s, t, correct).due <= IntervalDays(t, s.index)
<1> DEFINE n == ScheduleNext(s, t, correct)
<1>1. /\ s.index \in 0..MaxIndex(t) /\ s.right \in 0..1 /\ s.wrong \in 0..1
      /\ MaxIndex(t) \in 0..6
  BY IntervalTable DEF StateOf, RepetitionState
<1>2. PICK max \in 0..6 : max = MaxIndex(t)
  BY <1>1
<1>3. PICK i \in 0..max : i = s.index
  BY <1>1, <1>2
<1>4. PICK j \in 0..max :
        /\ n = [index |-> j,
                right |-> IF correct /\ ~(correct /\ s.right + 1 >= 2) THEN s.right + 1 ELSE 0,
                wrong |-> IF correct \/ s.wrong + 1 >= 2 THEN 0 ELSE s.wrong + 1,
                due   |-> IntervalDays(t, j)]
        /\ correct => i <= j
        /\ ~correct => j <= i
  <2> DEFINE move(jump) == Lesser(IF correct THEN i + (IF jump THEN 2 ELSE 1)
                                             ELSE Greater(i, 1) - 1, max)
             jumps == correct /\ s.right + 1 >= 2
  <2>1. /\ move(jumps) \in 0..max
        /\ correct => i <= move(jumps)
        /\ ~correct => move(jumps) <= i
    BY DEF Lesser, Greater
  <2>2. n = [index |-> move(jumps),
             right |-> IF correct /\ ~jumps THEN s.right + 1 ELSE 0,
             wrong |-> IF correct \/ s.wrong + 1 >= 2 THEN 0 ELSE s.wrong + 1,
             due   |-> IntervalDays(t, move(jumps))]
    BY <1>2, <1>3 DEF ScheduleNext
  <2> QED BY <2>1, <2>2
<1>5. n \in StateOf(t)
  <2>1. IntervalDays(t, j) \in 0..60
    BY <1>2, IntervalTable
  <2> QED BY <1>1, <1>2, <1>4, <2>1 DEF StateOf, RepetitionState
<1>6. /\ i <= j => IntervalDays(t, i) <= IntervalDays(t, j)
      /\ j <= i => IntervalDays(t, j) <= IntervalDays(t, i)
  BY <1>2, IntervalTable
<1>7. IntervalDays(t, i) \in 0..60 /\ IntervalDays(t, j) \in 0..60
  BY <1>2, IntervalTable
<1> QED BY <1>3, <1>4, <1>5, <1>6, <1>7

-----------------------------------------------------------------------------
(* What holds of every progress, stored or read: its reviews stay within    *)
(* the sequence of the type, and a score is the score of the answers, or    *)
(* an assessment has set it.                                               *)
ReviewsOf(p, k) == p.rep[k] # None => p.rep[k] \in StateOf(TypeOf[k])

ScoreOf(p, k) ==
  \/ p.level[k] = ComputeMastery(p.hist[k])
  \/ p.qual[k] = "passed"
  \/ p.level[k] <= 400

Sound == {p \in Progress : \A k \in KP : ReviewsOf(p, k) /\ ScoreOf(p, k)}

\* Every knowledge point has a type.
LEMMA TypeOfKP == \A k \in KP : TypeOf[k] \in KnowledgeType
  BY PathAssumption

\* The fields of a progress record have their types.
LEMMA Fields ==
  ASSUME NEW p \in Progress
  PROVE  /\ p.hist \in Histories /\ p.level \in Scores /\ p.qual \in Assessments
         /\ p.rep \in Reviews /\ p.errors \in SUBSET ErrorRecord /\ p.pending \in Pending
  BY DEF Progress

\* A new progress is sound.
LEMMA NewIsSound == NewProgress \in Sound
<1>1. NewProgress \in Progress
  BY DEF NewProgress, Progress, Histories, Scores, Assessments, Reviews, Pending
<1>2. \A k \in KP : ReviewsOf(NewProgress, k) /\ ScoreOf(NewProgress, k)
  BY DEF NewProgress, ReviewsOf, ScoreOf, ComputeMastery
<1> QED BY <1>1, <1>2 DEF Sound

\* The history stays a sequence of results.
LEMMA RememberType ==
  ASSUME NEW h \in Seq(BOOLEAN), NEW correct \in BOOLEAN
  PROVE  Remember(h, correct) \in Seq(BOOLEAN)
<1>1. CASE Len(h) < Window
  BY <1>1 DEF Remember
<1>2. CASE ~(Len(h) < Window)
  <2>1. h # <<>>
    BY <1>2 DEF Window
  <2>2. Tail(h) \in Seq(BOOLEAN)
    BY <2>1
  <2> QED BY <1>2, <2>2 DEF Remember
<1> QED BY <1>1, <1>2

\* The error records stay error records.
LEMMA ErrorsType ==
  ASSUME NEW errors \in SUBSET ErrorRecord, NEW q \in Question, NEW k \in KP,
         NEW correct \in BOOLEAN
  PROVE  RecordErrors(errors, q, k, correct) \in SUBSET ErrorRecord
<1>1. \A e \in ErrorRecord, s \in {"active", "retrying", "graduated"} :
        [e EXCEPT !.status = s] \in ErrorRecord
  BY DEF ErrorRecord
<1>2. [q |-> q, kp |-> k, status |-> "active"] \in ErrorRecord
  BY DEF ErrorRecord
<1> QED BY <1>1, <1>2 DEF RecordErrors

(* grade_and_record on the pending question.                               *)
LEMMA GradeIsSound ==
  ASSUME NEW p \in Sound, p.pending # None, NEW correct \in BOOLEAN
  PROVE  GradeAndRecord(p, correct) \in Sound
<1>1. p \in Progress /\ \A j \in KP : ReviewsOf(p, j) /\ ScoreOf(p, j)
  BY DEF Sound
<1>2. PICK q \in Question, k \in KP : p.pending.q = q /\ p.pending.kp = k
  BY <1>1, Fields DEF Pending
<1>3. PICK h \in Seq(BOOLEAN) : h = Remember(p.hist[k], correct)
  BY <1>1, Fields, RememberType DEF Histories
<1>4. PICK level \in 0..1000 : level = ComputeMastery(h)
  BY ZenonT(40), GateIsEarned
<1>5. PICK rep \in StateOf(TypeOf[k]) :
        rep = ScheduleNext(IF p.rep[k] = None THEN GetInitialState(TypeOf[k]) ELSE p.rep[k],
                           TypeOf[k], correct)
  <2>1. TypeOf[k] \in KnowledgeType
    BY TypeOfKP
  <2>2. GetInitialState(TypeOf[k]) \in StateOf(TypeOf[k])
    <3>1. MaxIndex(TypeOf[k]) \in 0..6
      BY <2>1, IntervalTable
    <3>2. 0 \in 0..MaxIndex(TypeOf[k])
      BY <3>1
    <3>3. IntervalDays(TypeOf[k], 0) \in 0..60
      BY <2>1, <3>2, IntervalTable
    <3> QED BY <3>1, <3>3 DEF GetInitialState, StateOf, RepetitionState
  <2>3. p.rep[k] # None => p.rep[k] \in StateOf(TypeOf[k])
    BY <1>1 DEF ReviewsOf
  <2> QED BY <2>1, <2>2, <2>3, ScheduleIsMonotone
<1>6. PICK errors \in SUBSET ErrorRecord : errors = RecordErrors(p.errors, q, k, correct)
  BY <1>1, Fields, ErrorsType
<1>7. PICK hist \in Histories :
        /\ hist = [p.hist EXCEPT ![k] = h]
        /\ \A j \in KP : hist[j] = IF j = k THEN h ELSE p.hist[j]
  <2>1. p.hist \in Histories
    BY <1>1, Fields
  <2>2. /\ [p.hist EXCEPT ![k] = h] \in Histories
        /\ \A j \in KP : [p.hist EXCEPT ![k] = h][j] = IF j = k THEN h ELSE p.hist[j]
    BY <2>1 DEF Histories
  <2> QED BY <2>2
<1>8. PICK levels \in Scores :
        /\ levels = [p.level EXCEPT ![k] = level]
        /\ \A j \in KP : levels[j] = IF j = k THEN level ELSE p.level[j]
  <2>1. p.level \in Scores
    BY <1>1, Fields
  <2>2. /\ [p.level EXCEPT ![k] = level] \in Scores
        /\ \A j \in KP : [p.level EXCEPT ![k] = level][j] = IF j = k THEN level ELSE p.level[j]
    BY ZenonT(40), <2>1 DEF Scores
  <2> QED BY <2>2
<1>9. PICK reps \in Reviews :
        /\ reps = [p.rep EXCEPT ![k] = rep]
        /\ \A j \in KP : reps[j] = IF j = k THEN rep ELSE p.rep[j]
  <2>1. p.rep \in Reviews
    BY <1>1, Fields
  <2>2. /\ [p.rep EXCEPT ![k] = rep] \in Reviews
        /\ \A j \in KP : [p.rep EXCEPT ![k] = rep][j] = IF j = k THEN rep ELSE p.rep[j]
    BY <2>1 DEF Reviews, StateOf
  <2> QED BY <2>2
<1>10. PICK g : g = [hist |-> hist, level |-> levels, qual |-> p.qual, rep |-> reps,
                     errors |-> errors, pending |-> None]
  OBVIOUS
<1>11. GradeAndRecord(p, correct) = g
  BY <1>2, <1>3, <1>4, <1>5, <1>6, <1>7, <1>8, <1>9, <1>10 DEF GradeAndRecord
<1>12. g \in Progress
  BY <1>1, <1>10, Fields DEF Progress, Pending
<1>13. \A j \in KP : ReviewsOf(g, j) /\ ScoreOf(g, j)
  <2> TAKE j \in KP
  <2>1. CASE j = k
    <3>1. g.hist[j] = h /\ g.level[j] = level /\ g.rep[j] = rep
      BY <1>7, <1>8, <1>9, <1>10, <2>1
    <3> QED BY <1>4, <2>1, <3>1 DEF ReviewsOf, ScoreOf
  <2>2. CASE j # k
    <3>1. g.hist[j] = p.hist[j] /\ g.level[j] = p.level[j] /\ g.rep[j] = p.rep[j]
          /\ g.qual[j] = p.qual[j]
      BY <1>7, <1>8, <1>9, <1>10, <2>2
    <3> QED BY <1>1, <3>1 DEF ReviewsOf, ScoreOf
  <2> QED BY <2>1, <2>2
<1> QED BY <1>11, <1>12, <1>13 DEF Sound

\* Asking a question keeps a progress sound,
LEMMA PendingIsSound ==
  ASSUME NEW p \in Sound, NEW q \in Question, NEW k \in KP
  PROVE  SetPending(p, q, k) \in Sound
<1>1. p \in Progress /\ \A j \in KP : ReviewsOf(p, j) /\ ScoreOf(p, j)
  BY DEF Sound
<1>2. PICK pending \in Pending : pending = [q |-> q, kp |-> k]
  BY DEF Pending
<1>3. PICK g : g = [p EXCEPT !.pending = pending]
  OBVIOUS
<1>4. SetPending(p, q, k) = g
  BY <1>2, <1>3 DEF SetPending
<1>5. /\ g \in Progress
      /\ g.hist = p.hist /\ g.level = p.level /\ g.rep = p.rep /\ g.qual = p.qual
  BY <1>1, <1>3 DEF Progress
<1>6. \A j \in KP : ReviewsOf(g, j) /\ ScoreOf(g, j)
  BY <1>1, <1>5 DEF ReviewsOf, ScoreOf
<1> QED BY <1>4, <1>5, <1>6 DEF Sound

\* and so does a qualitative assessment.
LEMMA QualitativeIsSound ==
  ASSUME NEW p \in Sound, NEW k \in KP, NEW passed \in BOOLEAN
  PROVE  RecordQualitative(p, k, passed) \in Sound
<1>1. p \in Progress /\ \A j \in KP : ReviewsOf(p, j) /\ ScoreOf(p, j)
  BY DEF Sound
<1>2. PICK level : level = IF passed THEN Greater(p.level[k], 1000) ELSE Lesser(p.level[k], 400)
  OBVIOUS
<1>3. level \in 0..1000 /\ (~passed => level <= 400)
  <2>1. p.level[k] \in 0..1000
    BY <1>1, Fields DEF Scores
  <2>2. CASE passed
    <3>1. level = Greater(p.level[k], 1000)
      BY <1>2, <2>2
    <3> QED BY <2>1, <2>2, <3>1 DEF Greater
  <2>3. CASE ~passed
    <3>1. level = Lesser(p.level[k], 400)
      BY <1>2, <2>3
    <3> QED BY <2>1, <3>1 DEF Lesser
  <2> QED BY <2>2, <2>3
<1>4. PICK mark \in {"none", "passed", "failed"} :
        mark = (IF passed THEN "passed" ELSE "failed")
  OBVIOUS
<1>5. PICK levels \in Scores :
        /\ levels = [p.level EXCEPT ![k] = level]
        /\ \A j \in KP : levels[j] = IF j = k THEN level ELSE p.level[j]
  <2>1. p.level \in Scores
    BY <1>1, Fields
  <2>2. /\ [p.level EXCEPT ![k] = level] \in Scores
        /\ \A j \in KP : [p.level EXCEPT ![k] = level][j] = IF j = k THEN level ELSE p.level[j]
    BY ZenonT(40), <1>3, <2>1 DEF Scores
  <2> QED BY <2>2
<1>6. PICK marks \in Assessments :
        /\ marks = [p.qual EXCEPT ![k] = mark]
        /\ \A j \in KP : marks[j] = IF j = k THEN mark ELSE p.qual[j]
  <2>1. p.qual \in Assessments
    BY <1>1, Fields
  <2>2. /\ [p.qual EXCEPT ![k] = mark] \in Assessments
        /\ \A j \in KP : [p.qual EXCEPT ![k] = mark][j] = IF j = k THEN mark ELSE p.qual[j]
    BY <2>1 DEF Assessments
  <2> QED BY ZenonT(40), <2>2
<1>7. PICK g : g = [p EXCEPT !.qual = marks, !.level = levels]
  OBVIOUS
<1>8. RecordQualitative(p, k, passed) = g
  <2>1. RecordQualitative(p, k, passed) =
          [p EXCEPT !.qual = [p.qual EXCEPT ![k] = mark], !.level = [p.level EXCEPT ![k] = level]]
    BY <1>1, <1>2, <1>4 DEF RecordQualitative, Progress
  <2> QED BY <1>5, <1>6, <1>7, <2>1
<1>9. /\ g \in Progress
      /\ g.hist = p.hist /\ g.level = levels /\ g.rep = p.rep /\ g.qual = marks
  BY <1>1, <1>7 DEF Progress
<1>10. \A j \in KP : ReviewsOf(g, j) /\ ScoreOf(g, j)
  <2> TAKE j \in KP
  <2>1. CASE j = k
    <3>1. g.level[j] = level /\ g.qual[j] = mark /\ g.rep[j] = p.rep[j]
      BY <1>5, <1>6, <1>9, <2>1
    <3>2. ReviewsOf(g, j)
      BY <1>1, <1>9 DEF ReviewsOf
    <3>3. ScoreOf(g, j)
      BY <1>1, <1>3, <1>4, <3>1 DEF ScoreOf
    <3> QED BY <3>2, <3>3
  <2>2. CASE j # k
    <3>1. g.hist[j] = p.hist[j] /\ g.level[j] = p.level[j] /\ g.rep[j] = p.rep[j]
          /\ g.qual[j] = p.qual[j]
      BY <1>5, <1>6, <1>9, <2>2
    <3> QED BY <1>1, <3>1 DEF ReviewsOf, ScoreOf
  <2> QED BY <2>1, <2>2
<1> QED BY <1>8, <1>9, <1>10 DEF Sound

-----------------------------------------------------------------------------
(* The inductive invariant: the stored row and what every request has read  *)
(* are sound, so that whichever request commits last, the row stays so.     *)

Row == Sound \cup {None}

Reading(r) ==
  /\ req[r].snap \in Row
  /\ req[r].op \in {"assess", "register"} => req[r].kp \in KP

Inv ==
  /\ TypeOK
  /\ row \in Row
  /\ \A r \in Request : Reading(r)

\* "None" is neither a progress nor a panel.
LEMMA NoneIsNoProgress == None \notin Progress /\ None \notin Panel
  BY ClientAssumption

\* An idle request is a request.
LEMMA IdleType == Idle \in Requests
  BY DEF Idle, Requests

\* The invariant holds initially.
LEMMA InitInv == Init => Inv
<1> SUFFICES ASSUME Init PROVE Inv
  OBVIOUS
<1>1. TypeOK
  BY IdleType, ClientAssumption DEF Init, TypeOK
<1>2. row \in Row
  BY DEF Init, Row
<1>3. \A r \in Request : Reading(r)
  BY DEF Init, Reading, Row, Idle
<1> QED BY <1>1, <1>2, <1>3 DEF Inv

(* A step that puts one well-formed request in place of another.            *)
LEMMA OneRequest ==
  ASSUME Inv, NEW r \in Request, NEW q \in Requests, req' = [req EXCEPT ![r] = q],
         q.snap \in Row, q.op \in {"assess", "register"} => q.kp \in KP
  PROVE  /\ req' \in [Request -> Requests]
         /\ \A o \in Request : Reading(o)'
<1>1. req \in [Request -> Requests] /\ \A o \in Request : Reading(o)
  BY DEF Inv, TypeOK
<1>2. req' \in [Request -> Requests]
  BY <1>1
<1>3. ASSUME NEW o \in Request PROVE Reading(o)'
  <2>1. CASE o = r
    <3>1. req'[o] = q
      BY <1>1, <2>1
    <3> QED BY <3>1 DEF Reading
  <2>2. CASE o # r
    <3>1. req'[o] = req[o]
      BY <1>1, <2>2
    <3> QED BY <1>1, <3>1 DEF Reading
  <2> QED BY <2>1, <2>2
<1> QED BY <1>2, <1>3

\* The bounds of the model stay numbers.
LEMMA SpendType ==
  ASSUME TypeOK, NEW what \in Bounded, Spend(what)
  PROVE  left' \in [Bounded -> Nat]
<1>1. left \in [Bounded -> Nat] /\ left[what] > 0
  BY DEF TypeOK, Spend
<1>2. left[what] - 1 \in Nat
  BY <1>1
<1> QED BY <1>1, <1>2 DEF Spend

\* The next objectives are objectives of the path.
LEMMA NextAreObjectives ==
  ASSUME NEW p
  PROVE  NextObjectives(p) \subseteq KP
<1>1. FirstUnmastered(p) \subseteq KP
  BY PathAssumption DEF FirstUnmastered
<1>2. FirstReviews(p) \subseteq KP
  BY DEF FirstReviews, DueReviews
<1> QED BY <1>1, <1>2 DEF NextObjectives

\* A request that starts reads a sound row or none,
LEMMA StartInv ==
  ASSUME Inv, NEW r \in Request,
         NEW op \in {"map", "drill", "grade", "assess", "register"}, NEW panel \in Panel \cup {None},
         NEW kp \in KP \cup {None}, NEW passed \in BOOLEAN, NEW about \in Question \cup {None},
         op \in {"assess", "register"} => kp \in KP,
         Start(r, op, panel, kp, passed, about)
  PROVE  /\ req' \in [Request -> Requests]
         /\ \A o \in Request : Reading(o)'
<1>1. PICK q : q = [op |-> op, panel |-> panel, kp |-> kp, passed |-> passed,
                    about |-> about, snap |-> row]
  OBVIOUS
<1>2. row \in Progress \cup {None} /\ row \in Row
  BY DEF Inv, TypeOK
<1>3. q \in Requests
  BY <1>1, <1>2 DEF Requests
<1>4. q.snap \in Row /\ (q.op \in {"assess", "register"} => q.kp \in KP)
  BY <1>1, <1>2
<1>5. req' = [req EXCEPT ![r] = q]
  BY <1>1 DEF Start
<1> QED BY <1>3, <1>4, <1>5, OneRequest

\* one that ends leaves nothing,
LEMMA EndInv ==
  ASSUME Inv, NEW r \in Request, End(r)
  PROVE  /\ req' \in [Request -> Requests]
         /\ \A o \in Request : Reading(o)'
<1>1. Idle.snap \in Row /\ Idle.op \notin {"assess", "register"}
  BY DEF Idle, Row
<1> QED BY <1>1, IdleType, OneRequest DEF End

\* one that answers keeps what it has read,
LEMMA ReplyInv ==
  ASSUME Inv, NEW r \in Request, NEW op \in {"drill_reply", "grade_reply"},
         NEW q \in Question \cup {None}, Reply(r, op, q)
  PROVE  /\ req' \in [Request -> Requests]
         /\ \A o \in Request : Reading(o)'
<1>1. CASE req[r].panel = None
  BY <1>1, EndInv DEF Reply
<1>2. CASE req[r].panel # None
  <2>1. req[r].panel \in Panel \cup {None}
    BY DEF Inv, TypeOK, Requests
  <2>2. PICK s : s = [op |-> op, panel |-> req[r].panel, kp |-> None, passed |-> FALSE,
                      about |-> q, snap |-> None]
    OBVIOUS
  <2>3. req' = [req EXCEPT ![r] = s]
    BY <1>2, <2>2 DEF Reply, Idle
  <2>4. s \in Requests
    BY <2>1, <2>2 DEF Requests
  <2>5. s.snap \in Row /\ s.op \notin {"assess", "register"}
    BY <2>2 DEF Row
  <2> QED BY <2>3, <2>4, <2>5, OneRequest
<1> QED BY <1>1, <1>2

\* and one that builds a drill writes a sound row.
LEMMA BuildDrillInv ==
  ASSUME Inv, NEW r \in Request, NEW p \in Sound, NEW saved \in Row,
         NEW op \in {"drill_reply", "grade_reply"}, BuildDrill(r, p, saved, op)
  PROVE  /\ row' \in Row
         /\ req' \in [Request -> Requests]
         /\ \A o \in Request : Reading(o)'
<1>1. CASE row' = saved /\ Reply(r, op, None)
  BY <1>1, ReplyInv
<1>2. ASSUME NEW k \in NextObjectives(p), NEW q \in Question,
             row' = SetPending(p, q, k), Reply(r, op, q)
      PROVE  /\ row' \in Row
             /\ req' \in [Request -> Requests]
             /\ \A o \in Request : Reading(o)'
  <2>1. k \in KP
    BY NextAreObjectives
  <2>2. row' \in Sound
    BY <1>2, <2>1, PendingIsSound
  <2> QED BY <1>2, <2>2, ReplyInv DEF Row
<1> QED BY <1>1, <1>2 DEF BuildDrill

\* What a request loads from a row is sound.
LEMMA LoadedIsSound ==
  ASSUME NEW s \in Row PROVE Loaded(s) \in Sound
  BY NewIsSound DEF Loaded, Row

\* A row is a progress, or there is none.
LEMMA RowType == Row \subseteq Progress \cup {None}
  BY DEF Row, Sound

(* Days that pass change only how long the reviews are away.                *)
LEMMA PauseIsSound ==
  ASSUME NEW p \in Sound, NEW d \in Nat
  PROVE  [p EXCEPT !.rep = [k \in KP |->
             IF p.rep[k] = None THEN None
             ELSE [p.rep[k] EXCEPT !.due = Greater(@, d) - d]]] \in Sound
<1>1. p \in Progress /\ \A j \in KP : ReviewsOf(p, j) /\ ScoreOf(p, j)
  BY DEF Sound
<1>2. PICK reps : reps = [k \in KP |->
             IF p.rep[k] = None THEN None
             ELSE [p.rep[k] EXCEPT !.due = Greater(@, d) - d]]
  OBVIOUS
<1>3. ASSUME NEW k \in KP, p.rep[k] # None
      PROVE  reps[k] \in StateOf(TypeOf[k])
  <2>1. PICK s \in StateOf(TypeOf[k]) : s = p.rep[k]
    BY <1>1, <1>3 DEF ReviewsOf
  <2>2. s.due \in 0..60
    BY DEF StateOf, RepetitionState
  <2>3. PICK due \in 0..60 : due = Greater(s.due, d) - d
    BY <2>2 DEF Greater
  <2>4. reps[k] = [s EXCEPT !.due = due]
    BY <1>2, <1>3, <2>1, <2>3
  <2> QED BY <2>4 DEF StateOf, RepetitionState
<1>4. \A k \in KP : p.rep[k] = None => reps[k] = None
  BY <1>2
<1>5. reps \in Reviews
  <2>1. \A k \in KP : reps[k] \in RepetitionState \cup {None}
    BY <1>3, <1>4 DEF StateOf
  <2> QED BY <1>2, <2>1 DEF Reviews
<1>6. PICK g : g = [p EXCEPT !.rep = reps]
  OBVIOUS
<1>7. /\ g \in Progress
      /\ g.hist = p.hist /\ g.level = p.level /\ g.rep = reps /\ g.qual = p.qual
  BY <1>1, <1>5, <1>6 DEF Progress
<1>8. \A j \in KP : ReviewsOf(g, j) /\ ScoreOf(g, j)
  BY <1>1, <1>3, <1>4, <1>7 DEF ReviewsOf, ScoreOf
<1> QED BY <1>2, <1>6, <1>7, <1>8 DEF Sound

(* Every action keeps the invariant.                                       *)
LEMMA NextInv == Inv /\ [Next]_vars => Inv'
<1> SUFFICES ASSUME Inv, [Next]_vars PROVE Inv'
  OBVIOUS
<1> DEFINE Goal == /\ row' \in Row
                   /\ req' \in [Request -> Requests]
                   /\ \A o \in Request : Reading(o)'
<1>1. /\ TypeOK /\ row \in Row
      /\ \A r \in Request : Reading(r)
      /\ req \in [Request -> Requests]
      /\ view \in [Panel -> Question \cup {None}]
      /\ left \in [Bounded -> Nat]
  BY DEF Inv, TypeOK
<1>2. SUFFICES Goal /\ view' \in [Panel -> Question \cup {None}]
                    /\ left' \in [Bounded -> Nat]
  <2>1. row' \in Row => row' \in Progress \cup {None}
    BY RowType
  <2> QED BY <2>1 DEF Inv, TypeOK
<1>3. ASSUME NEW r \in Request PROVE req[r].snap \in Row
  BY <1>1, <1>3 DEF Reading
<1>4. ASSUME UNCHANGED left PROVE left' \in [Bounded -> Nat]
  BY <1>1, <1>4
<1>5. ASSUME NEW what \in Bounded, Spend(what) PROVE left' \in [Bounded -> Nat]
  BY <1>1, <1>5, SpendType
<1>6. ASSUME UNCHANGED view PROVE view' \in [Panel -> Question \cup {None}]
  BY <1>1, <1>6
<1>7. ASSUME UNCHANGED row PROVE row' \in Row
  BY <1>1, <1>7
<1>8. "slip" \in Bounded /\ "pause" \in Bounded
      /\ "fault" \in Bounded /\ "cross" \in Bounded /\ "stray" \in Bounded
  BY DEF Bounded
<1>10. ASSUME NEW r \in Request, NEW p \in Panel, FetchDrill(r, p)
       PROVE  Goal /\ view' \in [Panel -> Question \cup {None}]
                   /\ left' \in [Bounded -> Nat]
  <2>1. Start(r, "drill", p, None, FALSE, None) /\ UNCHANGED row /\ UNCHANGED view
    BY <1>10 DEF FetchDrill
  <2>2. UNCHANGED left \/ Spend("stray")
    BY <1>10 DEF FetchDrill
  <2>3. req' \in [Request -> Requests] /\ \A o \in Request : Reading(o)'
    BY <2>1, StartInv
  <2> QED BY <1>4, <1>5, <1>6, <1>7, <1>8, <2>1, <2>2, <2>3
<1>11. ASSUME NEW r \in Request, NEW p \in Panel, SendAnswer(r, p)
       PROVE  Goal /\ view' \in [Panel -> Question \cup {None}]
                   /\ left' \in [Bounded -> Nat]
  <2>1. /\ Start(r, "grade", p, None, FALSE, view[p])
        /\ UNCHANGED row /\ UNCHANGED view /\ (UNCHANGED left \/ Spend("cross"))
    BY <1>11 DEF SendAnswer
  <2>2. view[p] \in Question \cup {None}
    BY <1>1
  <2>3. req' \in [Request -> Requests] /\ \A o \in Request : Reading(o)'
    BY <2>1, <2>2, StartInv
  <2> QED BY <1>4, <1>5, <1>6, <1>7, <1>8, <2>1, <2>3
<1>12. ASSUME NEW r \in Request, ChatAnswer(r) \/ FetchMap(r)
       PROVE  Goal /\ view' \in [Panel -> Question \cup {None}]
                   /\ left' \in [Bounded -> Nat]
  <2>1. /\ \/ Start(r, "grade", None, None, FALSE, None)
           \/ Start(r, "map", None, None, FALSE, None)
        /\ UNCHANGED row /\ UNCHANGED view /\ UNCHANGED left
    BY <1>12 DEF ChatAnswer, FetchMap
  <2>2. req' \in [Request -> Requests] /\ \A o \in Request : Reading(o)'
    BY <2>1, StartInv
  <2> QED BY <1>4, <1>6, <1>7, <2>1, <2>2
<1>13. ASSUME NEW r \in Request, Assess(r)
       PROVE  Goal /\ view' \in [Panel -> Question \cup {None}]
                   /\ left' \in [Bounded -> Nat]
  <2>1. PICK k \in Assessable, passed \in BOOLEAN :
          Start(r, "assess", None, k, passed, None)
    BY <1>13 DEF Assess
  <2>2. UNCHANGED row /\ UNCHANGED view /\ Spend("stray")
    BY <1>13 DEF Assess
  <2>3. k \in KP
    BY ClientAssumption
  <2>4. req' \in [Request -> Requests] /\ \A o \in Request : Reading(o)'
    BY <2>1, <2>3, StartInv
  <2> QED BY <1>5, <1>6, <1>7, <1>8, <2>2, <2>4
<1>14. ASSUME NEW r \in Request, Register(r)
       PROVE  Goal /\ view' \in [Panel -> Question \cup {None}]
                   /\ left' \in [Bounded -> Nat]
  <2>1. PICK k \in Registrable : Start(r, "register", None, k, FALSE, None)
    BY <1>14 DEF Register
  <2>2. UNCHANGED row /\ UNCHANGED view /\ Spend("stray")
    BY <1>14 DEF Register
  <2>3. k \in KP
    BY ClientAssumption
  <2>4. req' \in [Request -> Requests] /\ \A o \in Request : Reading(o)'
    BY <2>1, <2>3, StartInv
  <2> QED BY <1>5, <1>6, <1>7, <1>8, <2>2, <2>4
<1>9. ASSUME NEW r \in Request, EndMap(r)
      PROVE  Goal /\ view' \in [Panel -> Question \cup {None}]
                  /\ left' \in [Bounded -> Nat]
  <2>1. /\ row' = IF req[r].snap = None THEN NewProgress ELSE row
        /\ End(r) /\ UNCHANGED view /\ UNCHANGED left
    BY <1>9 DEF EndMap
  <2>2. row' \in Row
    BY <1>1, <2>1, NewIsSound DEF Row
  <2>3. req' \in [Request -> Requests] /\ \A o \in Request : Reading(o)'
    BY <2>1, EndInv
  <2> QED BY <1>4, <1>6, <2>1, <2>2, <2>3
<1>15. ASSUME NEW r \in Request, EndDrill(r)
       PROVE  Goal /\ view' \in [Panel -> Question \cup {None}]
                   /\ left' \in [Bounded -> Nat]
  <2>1. PICK s \in Row : s = req[r].snap
    BY <1>3
  <2>2. PICK saved \in Row : saved = IF s = None THEN NewProgress ELSE row
    BY <1>1, NewIsSound DEF Row
  <2>3. BuildDrill(r, Loaded(s), saved, "drill_reply")
    BY <1>15, <2>1, <2>2 DEF EndDrill
  <2>4. UNCHANGED view /\ UNCHANGED left
    BY <1>15 DEF EndDrill
  <2>5. Loaded(s) \in Sound
    BY LoadedIsSound
  <2>6. Goal
    BY <2>3, <2>5, BuildDrillInv
  <2> QED BY <1>4, <1>6, <2>4, <2>6
<1>16. ASSUME NEW r \in Request, EndGrade(r)
       PROVE  Goal /\ view' \in [Panel -> Question \cup {None}]
                   /\ left' \in [Bounded -> Nat]
  <2>1. PICK s \in Row : s = req[r].snap
    BY <1>3
  <2>2. s \in Sound /\ s.pending # None
    <3>1. Asks(s)
      BY <1>16, <2>1 DEF EndGrade
    <3> QED BY <3>1 DEF Asks, Row
  <2>3. PICK correct \in BOOLEAN :
          /\ IF correct THEN UNCHANGED left ELSE Spend("slip")
          /\ BuildDrill(r, GradeAndRecord(s, correct), GradeAndRecord(s, correct),
                        "grade_reply")
    BY <1>16, <2>1 DEF EndGrade
  <2>4. PICK graded \in Sound : graded = GradeAndRecord(s, correct)
    BY <2>2, GradeIsSound
  <2>5. BuildDrill(r, graded, graded, "grade_reply")
    BY <2>3, <2>4
  <2>6. graded \in Row
    BY DEF Row
  <2>7. Goal
    BY <2>5, <2>6, BuildDrillInv
  <2>8. UNCHANGED view
    BY <1>16 DEF EndGrade
  <2> QED BY <1>4, <1>5, <1>6, <1>8, <2>3, <2>7, <2>8
<1>17. ASSUME NEW r \in Request, RefuseGrade(r) \/ InsertConflict(r)
       PROVE  Goal /\ view' \in [Panel -> Question \cup {None}]
                   /\ left' \in [Bounded -> Nat]
  <2>1. End(r) /\ UNCHANGED row /\ UNCHANGED view /\ UNCHANGED left
    BY <1>17 DEF RefuseGrade, InsertConflict
  <2>2. req' \in [Request -> Requests] /\ \A o \in Request : Reading(o)'
    BY <2>1, EndInv
  <2> QED BY <1>4, <1>6, <1>7, <2>1, <2>2
<1>18. ASSUME NEW r \in Request, EndAssess(r)
       PROVE  Goal /\ view' \in [Panel -> Question \cup {None}]
                   /\ left' \in [Bounded -> Nat]
  <2>1. /\ row' = RecordQualitative(Loaded(req[r].snap), req[r].kp, req[r].passed)
        /\ End(r) /\ UNCHANGED view /\ UNCHANGED left
    BY <1>18 DEF EndAssess
  <2>2. Loaded(req[r].snap) \in Sound
    BY <1>3, LoadedIsSound
  <2>3. req[r].kp \in KP
    BY <1>1, <1>18 DEF EndAssess, Reading
  <2>4. req[r].passed \in BOOLEAN
    BY <1>1 DEF Requests
  <2>5. row' \in Row
    BY <2>1, <2>2, <2>3, <2>4, QualitativeIsSound DEF Row
  <2>6. req' \in [Request -> Requests] /\ \A o \in Request : Reading(o)'
    BY <2>1, EndInv
  <2> QED BY <1>4, <1>6, <2>1, <2>5, <2>6
<1>19. ASSUME NEW r \in Request, EndRegister(r)
       PROVE  Goal /\ view' \in [Panel -> Question \cup {None}]
                   /\ left' \in [Bounded -> Nat]
  <2>1. PICK q \in Question :
          row' = SetPending(Loaded(req[r].snap), q, req[r].kp)
    BY <1>19 DEF EndRegister
  <2>2. End(r) /\ UNCHANGED view /\ UNCHANGED left
    BY <1>19 DEF EndRegister
  <2>3. Loaded(req[r].snap) \in Sound
    BY <1>3, LoadedIsSound
  <2>4. req[r].kp \in KP
    BY <1>1, <1>19 DEF EndRegister, Reading
  <2>5. row' \in Row
    BY <2>1, <2>3, <2>4, PendingIsSound DEF Row
  <2>6. req' \in [Request -> Requests] /\ \A o \in Request : Reading(o)'
    BY <2>2, EndInv
  <2> QED BY <1>4, <1>6, <2>2, <2>5, <2>6
<1>20. ASSUME NEW r \in Request, Deliver(r)
       PROVE  Goal /\ view' \in [Panel -> Question \cup {None}]
                   /\ left' \in [Bounded -> Nat]
  <2>1. /\ view' = [view EXCEPT ![req[r].panel] = req[r].about]
        /\ End(r) /\ UNCHANGED row /\ UNCHANGED left
    BY <1>20 DEF Deliver
  <2>2. req[r].about \in Question \cup {None}
    BY <1>1 DEF Requests
  <2>3. view' \in [Panel -> Question \cup {None}]
    BY <1>1, <2>1, <2>2
  <2>4. req' \in [Request -> Requests] /\ \A o \in Request : Reading(o)'
    BY <2>1, EndInv
  <2> QED BY <1>4, <1>7, <2>1, <2>3, <2>4
<1>21. ASSUME NEW r \in Request, Fail(r) \/ LoseReply(r)
       PROVE  Goal /\ view' \in [Panel -> Question \cup {None}]
                   /\ left' \in [Bounded -> Nat]
  <2>1. /\ End(r) /\ UNCHANGED row /\ UNCHANGED view
        /\ Spend("fault") \/ Spend("cross")
    BY <1>21 DEF Fail, LoseReply
  <2>2. req' \in [Request -> Requests] /\ \A o \in Request : Reading(o)'
    BY <2>1, EndInv
  <2> QED BY <1>5, <1>6, <1>7, <1>8, <2>1, <2>2
<1>22. ASSUME Pause
       PROVE  Goal /\ view' \in [Panel -> Question \cup {None}]
                   /\ left' \in [Bounded -> Nat]
  <2>1. row \in Sound
    BY <1>1, <1>22 DEF Pause, Row
  <2>2. PICK d \in PauseDays :
          row' = [row EXCEPT !.rep = [k \in KP |->
                    IF row.rep[k] = None THEN None
                    ELSE [row.rep[k] EXCEPT !.due = Greater(@, d) - d]]]
    BY <1>22 DEF Pause
  <2>3. d \in Nat
    BY ClientAssumption
  <2>4. row' \in Row
    BY <2>1, <2>2, <2>3, PauseIsSound DEF Row
  <2>5. UNCHANGED view /\ UNCHANGED req /\ Spend("pause")
    BY <1>22 DEF Pause
  <2>6. \A o \in Request : Reading(o)'
    BY <1>1, <2>5 DEF Reading
  <2> QED BY <1>1, <1>5, <1>6, <1>8, <2>4, <2>5, <2>6
<1>23. ASSUME UNCHANGED vars
       PROVE  Goal /\ view' \in [Panel -> Question \cup {None}]
                   /\ left' \in [Bounded -> Nat]
  BY <1>1, <1>23 DEF vars, Reading
<1> HIDE DEF Goal
<1>24. CASE \E r \in Request : Client(r)
  BY <1>10, <1>11, <1>12, <1>13, <1>14, <1>24 DEF Client
<1>25. CASE \E r \in Request : Server(r)
  BY <1>9, <1>15, <1>16, <1>17, <1>18, <1>19, <1>25 DEF Server
<1>26. CASE \E r \in Request : Deliver(r) \/ Fail(r) \/ LoseReply(r)
  BY <1>20, <1>21, <1>26
<1> QED BY <1>22, <1>23, <1>24, <1>25, <1>26 DEF Next

(* The row, the panels and the requests keep their types, whatever overlaps.*)
THEOREM PathTypes == Spec => []TypeOK
<1>1. Inv => TypeOK
  BY DEF Inv
<1> QED BY <1>1, InitInv, NextInv, PTL DEF Spec

(* MasteryIsEarned: grade_answer, assess_qualitative, build_drill and       *)
(* register_quiz may overlap and overwrite each other, and yet an objective *)
(* that counts as mastered has the answers for it, or was passed by hand.  *)
THEOREM MasteryIsEarnedHolds == Spec => []MasteryIsEarned
<1>1. Inv => MasteryIsEarned
  <2> SUFFICES ASSUME Inv, row # None, NEW k \in KP, TypeOf[k] \notin QualitativeTypes,
                      IsMastered(row, k), row.qual[k] # "passed"
               PROVE  Earned(row.hist[k])
    BY DEF MasteryIsEarned
  <2>1. row \in Progress /\ ScoreOf(row, k)
    BY DEF Inv, Row, Sound
  <2>2. row.hist[k] \in Seq(BOOLEAN) /\ row.level[k] \in 0..1000
    <3>1. row.hist \in Histories /\ row.level \in Scores
      BY <2>1, Fields
    <3> QED BY <3>1 DEF Histories, Scores
  <2>3. row.level[k] >= GateThreshold
    BY DEF IsMastered
  <2>4. ~(row.level[k] <= 400)
    <3>1. PICK level \in 0..1000 : level = row.level[k]
      BY ZenonT(40), <2>2
    <3> QED BY <2>3, <3>1 DEF GateThreshold
  <2>5. row.level[k] = ComputeMastery(row.hist[k])
    BY <2>1, <2>4 DEF ScoreOf
  <2> QED BY <2>2, <2>3, <2>5, GateIsEarned
<1> QED BY <1>1, InitInv, NextInv, PTL DEF Spec
-----------------------------------------------------------------------------
(* No question is graded twice in one history of the row: GradedOnce holds  *)
(* of the row because it also holds of what every request in flight has     *)
(* read, and a new question is one that none of them refers to.             *)

Asked(p) == Asks(p) => \A e \in p.errors : e.q # p.pending.q

OnceInv == Asked(row) /\ \A r \in Request : Asked(req[r].snap)

\* Nothing that is new or idle has a question pending.
LEMMA NotAsked == Asked(None) /\ Asked(NewProgress) /\ Asked(Idle.snap)
  BY DEF Asked, Asks, NewProgress, Idle

(* The questions of the error records; a grading adds the one it answers.   *)
LEMMA GradedErrors ==
  ASSUME NEW errors \in SUBSET ErrorRecord, NEW q \in Question, NEW k \in KP,
         NEW correct \in BOOLEAN, NEW e \in RecordErrors(errors, q, k, correct)
  PROVE  e.q = q \/ \E d \in errors : d.q = e.q
<1>1. \A d \in ErrorRecord, s \in {"active", "retrying", "graduated"} :
        [d EXCEPT !.status = s].q = d.q
  BY DEF ErrorRecord
<1> DEFINE same == {d \in errors : d.q = q /\ d.kp = k}
           open == {d \in same : d.status \in {"active", "retrying"}}
           Marked(set, s) == {[d EXCEPT !.status = s] : d \in set}
<1>2. \A s \in {"graduated", "retrying"} : \A d \in Marked(same, s) : d.q = q
  <2> TAKE s \in {"graduated", "retrying"}
  <2> TAKE d \in Marked(same, s)
  <2>1. PICK o \in same : d = [o EXCEPT !.status = s]
    OBVIOUS
  <2>2. o \in ErrorRecord /\ o.q = q
    OBVIOUS
  <2> QED BY <1>1, <2>1, <2>2
<1>3. \A d \in Marked(open, "graduated") : d \in Marked(same, "graduated")
  OBVIOUS
<1>4. \/ e \in errors
      \/ e \in Marked(open, "graduated")
      \/ e \in Marked(same, "retrying")
      \/ e = [q |-> q, kp |-> k, status |-> "active"]
  <2> HIDE DEF Marked
  <2>1. RecordErrors(errors, q, k, correct) =
          IF correct THEN (errors \ open) \cup Marked(open, "graduated")
          ELSE IF same = {} THEN errors \cup {[q |-> q, kp |-> k, status |-> "active"]}
          ELSE (errors \ same) \cup Marked(same, "retrying")
    BY DEF RecordErrors, Marked
  <2> QED BY <2>1
<1> QED BY <1>2, <1>3, <1>4

\* One request moves: the snapshots of the others have what they had.
LEMMA OneRequestOnce ==
  ASSUME Inv, OnceInv, NEW r \in Request, NEW q, req' = [req EXCEPT ![r] = q], Asked(q.snap)
  PROVE  \A o \in Request : Asked(req'[o].snap)
<1>1. req \in [Request -> Requests]
  BY DEF Inv, TypeOK
<1> QED BY <1>1 DEF OnceInv

\* The questions in the snapshots stay accounted for when a request starts,
LEMMA StartOnce ==
  ASSUME Inv, OnceInv, NEW r \in Request, NEW op, NEW panel, NEW kp, NEW passed, NEW about,
         Start(r, op, panel, kp, passed, about)
  PROVE  \A o \in Request : Asked(req'[o].snap)
<1>1. PICK q : q = [op |-> op, panel |-> panel, kp |-> kp, passed |-> passed,
                    about |-> about, snap |-> row]
  OBVIOUS
<1>2. req' = [req EXCEPT ![r] = q] /\ q.snap = row
  BY <1>1 DEF Start
<1>3. Asked(q.snap)
  BY <1>2 DEF OnceInv
<1> QED BY <1>2, <1>3, OneRequestOnce

\* ends,
LEMMA EndOnce ==
  ASSUME Inv, OnceInv, NEW r \in Request, End(r)
  PROVE  \A o \in Request : Asked(req'[o].snap)
  BY NotAsked, OneRequestOnce DEF End

\* answers,
LEMMA ReplyOnce ==
  ASSUME Inv, OnceInv, NEW r \in Request, NEW op, NEW q, Reply(r, op, q)
  PROVE  \A o \in Request : Asked(req'[o].snap)
<1>1. CASE req[r].panel = None
  BY <1>1, EndOnce DEF Reply
<1>2. CASE req[r].panel # None
  <2>1. PICK s : s = [op |-> op, panel |-> req[r].panel, kp |-> None, passed |-> FALSE,
                      about |-> q, snap |-> None]
    OBVIOUS
  <2>2. req' = [req EXCEPT ![r] = s] /\ s.snap = None
    BY <1>2, <2>1 DEF Reply, Idle
  <2> QED BY <2>2, NotAsked, OneRequestOnce
<1> QED BY <1>1, <1>2

(* A fresh question is not one of an error record that is in use.           *)
LEMMA FreshIsAsked ==
  ASSUME NEW p \in Progress, {e.q : e \in p.errors} \subseteq Used,
         NEW q, NEW k, FreshQuestion(q)
  PROVE  Asked(SetPending(p, q, k))
<1>1. PICK g : g = [p EXCEPT !.pending = [q |-> q, kp |-> k]]
  OBVIOUS
<1>2. g.errors = p.errors /\ g.pending.q = q
  BY <1>1 DEF Progress
<1>3. q \notin Used
  BY DEF FreshQuestion
<1>4. \A e \in g.errors : e.q # g.pending.q
  BY <1>2, <1>3
<1> QED BY <1>1, <1>4 DEF Asked, SetPending

\* and builds a drill.
LEMMA BuildDrillOnce ==
  ASSUME Inv, OnceInv, NEW r \in Request, NEW p \in Progress,
         {e.q : e \in p.errors} \subseteq Used, NEW saved, Asked(saved), NEW op,
         BuildDrill(r, p, saved, op)
  PROVE  OnceInv'
<1>1. CASE row' = saved /\ Reply(r, op, None)
  BY <1>1, ReplyOnce DEF OnceInv
<1>2. ASSUME NEW k, NEW q \in Question, FreshQuestion(q), row' = SetPending(p, q, k),
             Reply(r, op, q)
      PROVE  OnceInv'
  BY <1>2, ReplyOnce, FreshIsAsked DEF OnceInv
<1> QED BY <1>1, <1>2 DEF BuildDrill

(* What the row or a request that is under way refers to is in use.         *)
LEMMA LoadedIsUsed ==
  ASSUME Inv, NEW r \in Request
  PROVE  {e.q : e \in Loaded(req[r].snap).errors} \subseteq Used
<1>1. CASE req[r].snap = None
  BY <1>1 DEF Loaded, NewProgress
<1>2. CASE req[r].snap # None
  BY <1>2 DEF Loaded, Used, Refers
<1> QED BY <1>1, <1>2

\* A graded question is one that was used.
LEMMA GradedIsUsed ==
  ASSUME Inv, NEW r \in Request, Asks(req[r].snap), NEW correct \in BOOLEAN
  PROVE  {e.q : e \in GradeAndRecord(req[r].snap, correct).errors} \subseteq Used
<1>1. PICK p \in Progress : p = req[r].snap
  BY DEF Inv, Reading, Row, Sound, Asks
<1>2. PICK q \in Question, k \in KP : p.pending.q = q /\ p.pending.kp = k
  BY <1>1, Fields DEF Asks, Pending
<1>3. GradeAndRecord(p, correct).errors = RecordErrors(p.errors, q, k, correct)
  BY <1>2 DEF GradeAndRecord
<1>4. p.errors \in SUBSET ErrorRecord
  BY Fields
<1>5. q \in Refers(p) /\ {e.q : e \in p.errors} \subseteq Refers(p)
  BY <1>1, <1>2 DEF Refers, Asks
<1>6. Refers(p) \subseteq Used
  BY <1>1 DEF Used
<1>7. \A e \in RecordErrors(p.errors, q, k, correct) : e.q \in Refers(p)
  BY <1>4, <1>5, GradedErrors
<1> QED BY <1>1, <1>3, <1>6, <1>7

\* Every step keeps the invariant behind GradedOnce.
LEMMA OnceNext == Inv /\ OnceInv /\ [Next]_vars => OnceInv'
<1> SUFFICES ASSUME Inv, OnceInv, [Next]_vars PROVE OnceInv'
  OBVIOUS
<1>1. \A r \in Request : req[r].snap \in Row
  BY DEF Inv, Reading
<1>2. ASSUME NEW r \in Request, Client(r) PROVE OnceInv'
  <2>1. UNCHANGED row /\ \A o \in Request : Asked(req'[o].snap)
    BY <1>2, StartOnce
    DEF Client, FetchDrill, SendAnswer, FetchMap, ChatAnswer, Assess, Register
  <2> QED BY <2>1 DEF OnceInv
<1>3. ASSUME NEW r \in Request, EndMap(r) PROVE OnceInv'
  BY <1>3, EndOnce, NotAsked DEF EndMap, OnceInv
<1>4. ASSUME NEW r \in Request, EndDrill(r) PROVE OnceInv'
  <2>1. Loaded(req[r].snap) \in Progress
    BY <1>1, LoadedIsSound DEF Sound
  <2>2. PICK saved : saved = IF req[r].snap = None THEN NewProgress ELSE row
    OBVIOUS
  <2>3. Asked(saved)
    BY <2>2, NotAsked DEF OnceInv
  <2>4. BuildDrill(r, Loaded(req[r].snap), saved, "drill_reply")
    BY <1>4, <2>2 DEF EndDrill
  <2> QED BY <2>1, <2>3, <2>4, LoadedIsUsed, BuildDrillOnce
<1>5. ASSUME NEW r \in Request, EndGrade(r) PROVE OnceInv'
  <2>1. Asks(req[r].snap)
    BY <1>5 DEF EndGrade
  <2>2. PICK correct \in BOOLEAN :
          LET graded == GradeAndRecord(req[r].snap, correct)
          IN  BuildDrill(r, graded, graded, "grade_reply")
    BY <1>5 DEF EndGrade
  <2> DEFINE graded == GradeAndRecord(req[r].snap, correct)
  <2>3. req[r].snap \in Sound /\ req[r].snap.pending # None
    BY <1>1, <2>1 DEF Row, Asks
  <2>4. graded \in Progress
    BY <2>2, <2>3, GradeIsSound DEF Sound
  <2>5. Asked(graded)
    BY <2>2 DEF GradeAndRecord, Asked, Asks
  <2>6. {e.q : e \in graded.errors} \subseteq Used
    BY <2>1, <2>2, GradedIsUsed
  <2> QED BY <2>2, <2>4, <2>5, <2>6, BuildDrillOnce
<1>6. ASSUME NEW r \in Request, RefuseGrade(r) \/ InsertConflict(r) \/ Deliver(r)
                                  \/ Fail(r) \/ LoseReply(r)
      PROVE  OnceInv'
  BY <1>6, EndOnce DEF RefuseGrade, InsertConflict, Deliver, Fail, LoseReply, OnceInv
<1>7. ASSUME NEW r \in Request, EndAssess(r) PROVE OnceInv'
  <2>1. PICK p \in Progress : p = Loaded(req[r].snap)
    BY <1>1, LoadedIsSound DEF Sound
  <2>2. Asked(p)
    BY <2>1, NotAsked DEF OnceInv, Loaded
  <2>3. PICK g : g = RecordQualitative(p, req[r].kp, req[r].passed)
    OBVIOUS
  <2>4. p # None /\ g.errors = p.errors /\ g.pending = p.pending
    BY <2>1, <2>3, NoneIsNoProgress DEF RecordQualitative, Progress
  <2>5. Asked(g)
    BY <2>2, <2>4 DEF Asked, Asks
  <2> QED BY <1>7, <2>1, <2>3, <2>5, EndOnce DEF EndAssess, OnceInv
<1>8. ASSUME NEW r \in Request, EndRegister(r) PROVE OnceInv'
  <2>1. Loaded(req[r].snap) \in Progress
    BY <1>1, LoadedIsSound DEF Sound
  <2> QED BY <1>8, <2>1, LoadedIsUsed, FreshIsAsked, EndOnce DEF EndRegister, OnceInv
<1>9. ASSUME Pause PROVE OnceInv'
  <2>1. row \in Progress
    BY <1>9 DEF Pause, Inv, Row, Sound
  <2>2. PICK rep : row' = [row EXCEPT !.rep = rep]
    BY <1>9 DEF Pause
  <2>4. row'.errors = row.errors /\ row'.pending = row.pending
    BY <2>1, <2>2 DEF Progress
  <2>3. Asked(row')
    BY <2>1, <2>4, NoneIsNoProgress DEF OnceInv, Asked, Asks
  <2> QED BY <1>9, <2>3 DEF Pause, OnceInv
<1>10. CASE UNCHANGED vars
  BY <1>10 DEF vars, OnceInv, Asked, Asks
<1> QED BY <1>2, <1>3, <1>4, <1>5, <1>6, <1>7, <1>8, <1>9, <1>10 DEF Next, Server

(* GradedOnce: a question with an error record is never the pending one     *)
(* again, although a drill or a grading that was computed from an older row *)
(* may replace a newer one (build_drill, grade_answer, register_quiz).      *)
THEOREM GradedOnceHolds == Spec => []GradedOnce
<1>1. Init => OnceInv
  BY NotAsked DEF Init, OnceInv
<1>2. OnceInv => GradedOnce
  BY DEF OnceInv, Asked, GradedOnce
<1> QED BY <1>1, <1>2, InitInv, NextInv, OnceNext, PTL DEF Spec
-----------------------------------------------------------------------------
(* An answer travels without the id of the question it is for. What makes   *)
(* it the right one: no other client writes the row, and the panel has one  *)
(* answer under way. Then what is pending in the row stays while an answer  *)
(* is under way, a drill that is fetched meanwhile, a refresh too, gives no *)
(* question, and a question that arrives is the pending one. The bounds     *)
(* remember that no answer was sent over another and no reply was lost.     *)

Alone ==
  /\ \A p, q \in Panel : p = q
  /\ Assessable = {} /\ Registrable = {} /\ ~ChatGrades

IsPending(s, q) == Asks(s) /\ s.pending.q = q

Asking(r)    == req[r].op \in {"drill", "drill_reply"}
Answering(r) == req[r].op \in {"grade", "grade_reply"}
\* The reply on its way to the panel has a question to show.
Brings(r, op) == req[r].op = op /\ req[r].about # None

(* What a request of the panel knows.                                      *)
Knows(r) ==
  /\ req[r].op \notin {"assess", "register"}
  /\ Asking(r) \/ Answering(r) => req[r].panel \in Panel
  /\ req[r].op = "grade" => IsPending(req[r].snap, req[r].about) /\ IsPending(row, req[r].about)
  /\ req[r].op = "drill" /\ ~Asks(req[r].snap) => ~Asks(row)
  /\ Brings(r, "drill_reply") \/ Brings(r, "grade_reply") => IsPending(row, req[r].about)

(* What the panel shows is pending, or the reply to its answer is on its    *)
(* way; a fetched question is only on its way to a panel that shows none or *)
(* is about to.                                                            *)
ViewShown(p) == view[p] = None \/ IsPending(row, view[p]) \/ \E r \in Request : req[r].op = "grade_reply"
ViewEmpty(p) == view[p] = None \/ \E r \in Request : req[r].op = "grade_reply"

Shown ==
  /\ \A r \in Request : Knows(r)
  /\ \A r, o \in Request : (Asking(r) /\ Asking(o)) \/ (Answering(r) /\ Answering(o)) => r = o
  /\ \A p \in Panel : ViewShown(p)
  /\ \A r \in Request : Brings(r, "drill_reply") =>
       /\ \A p \in Panel : ViewEmpty(p)
       /\ \A o \in Request : req[o].op # "grade" /\ ~Brings(o, "grade_reply")

ShownInv == left["cross"] <= Budget["cross"] /\ (~Happened("cross") => Shown)

\* The bound of what crosses moves when something crosses.
LEMMA CrossSpent ==
  ASSUME TypeOK, NEW what \in Bounded, Spend(what)
  PROVE  /\ left["cross"] \in Nat /\ left'["cross"] \in Nat
         /\ left'["cross"] = IF what = "cross" THEN left["cross"] - 1 ELSE left["cross"]
  BY DEF Spend, TypeOK, Bounded

\* A step leaves the bounds or spends from one.
LEMMA NextSpends == [Next]_vars => UNCHANGED left \/ \E what \in Bounded : Spend(what)
<1> SUFFICES ASSUME [Next]_vars PROVE UNCHANGED left \/ \E what \in Bounded : Spend(what)
  OBVIOUS
<1>1. \A what \in {"slip", "pause", "fault", "cross", "stray"} : what \in Bounded
  BY DEF Bounded
<1>2. ASSUME NEW r \in Request, Client(r) PROVE UNCHANGED left \/ \E what \in Bounded : Spend(what)
  BY <1>1, <1>2 DEF Client, FetchDrill, SendAnswer, FetchMap, ChatAnswer, Assess, Register
<1>3. ASSUME NEW r \in Request, Server(r) PROVE UNCHANGED left \/ \E what \in Bounded : Spend(what)
  <2>1. EndGrade(r) => UNCHANGED left \/ Spend("slip")
    BY DEF EndGrade
  <2> QED
    BY <1>1, <1>3, <2>1 DEF Server, EndMap, EndDrill, RefuseGrade, EndAssess, EndRegister, InsertConflict
<1>4. ASSUME NEW r \in Request, Deliver(r) \/ Fail(r) \/ LoseReply(r)
      PROVE  UNCHANGED left \/ \E what \in Bounded : Spend(what)
  BY <1>1, <1>4 DEF Deliver, Fail, LoseReply
<1>5. Pause => Spend("pause")
  BY DEF Pause
<1>6. UNCHANGED vars => UNCHANGED left
  BY DEF vars
<1> QED BY <1>1, <1>2, <1>3, <1>4, <1>5, <1>6 DEF Next

\* A request moves and the others stay.
LEMMA OthersStay ==
  ASSUME TypeOK, NEW r \in Request, NEW q, req' = [req EXCEPT ![r] = q]
  PROVE  req'[r] = q /\ \A o \in Request \ {r} : req'[o] = req[o]
  BY DEF TypeOK

\* The panel starts a request that reads the row.
LEMMA StartShown ==
  ASSUME Alone, Inv, Shown, NEW r \in Request, Client(r), ~Spend("cross")
  PROVE  Shown'
<1>1. TypeOK
  BY DEF Inv
<1>2. ASSUME NEW p \in Panel, FetchDrill(r, p) PROVE Shown'
  <2>1. UNCHANGED <<row, view>>
    BY <1>2 DEF FetchDrill
  <2>2. PICK q : /\ q = [op |-> "drill", panel |-> p, kp |-> None, passed |-> FALSE,
                         about |-> None, snap |-> row]
                 /\ req[r] = Idle /\ req' = [req EXCEPT ![r] = q]
    BY <1>2 DEF FetchDrill, Start
  <2>3. req'[r] = q /\ \A o \in Request \ {r} : req'[o] = req[o]
    BY <1>1, <2>2, OthersStay
  <2>4. \A o \in Request : ~Asking(o)
    BY <1>2 DEF FetchDrill, InFlight, Shown, Knows, Asking, Alone
  <2>5. \A o \in Request : Knows(o)'
    BY <2>1, <2>2, <2>3 DEF Shown, Knows, Asking, Answering, Brings, IsPending
  <2>6. \A o \in Request : req'[o].op = req[o].op \/ (o = r /\ req[o].op = "idle" /\ req'[o].op = "drill")
    BY <2>2, <2>3 DEF Idle
  <2>7. \A p1 \in Panel : (ViewShown(p1) => ViewShown(p1)') /\ (ViewEmpty(p1) => ViewEmpty(p1)')
    BY <2>1, <2>6 DEF ViewShown, ViewEmpty, IsPending
  <2>8. \A o \in Request : ~Brings(o, "drill_reply")'
    BY <2>3, <2>4, <2>6 DEF Brings, Asking
  <2> QED BY <2>2, <2>3, <2>4, <2>5, <2>6, <2>7, <2>8 DEF Shown, Asking, Answering
<1>3. ASSUME NEW p \in Panel, SendAnswer(r, p) PROVE Shown'
  <2>1. view[p] # None /\ ~InFlight(p, {"grade", "grade_reply"}) /\ UNCHANGED <<row, view>>
    BY <1>3 DEF SendAnswer
  <2>2. PICK q : /\ q = [op |-> "grade", panel |-> p, kp |-> None, passed |-> FALSE,
                         about |-> view[p], snap |-> row]
                 /\ req[r] = Idle /\ req' = [req EXCEPT ![r] = q]
    BY <1>3 DEF SendAnswer, Start
  <2>3. req'[r] = q /\ \A o \in Request \ {r} : req'[o] = req[o]
    BY <1>1, <2>2, OthersStay
  <2>4. \A o \in Request : ~Answering(o)
    BY <2>1 DEF InFlight, Shown, Knows, Answering, Alone
  <2>5. IsPending(row, view[p]) /\ ~ViewEmpty(p)
    BY <2>1, <2>4 DEF Shown, ViewShown, ViewEmpty, Answering
  <2>6. \A o \in Request : Knows(o)'
    BY <2>1, <2>2, <2>3, <2>5 DEF Shown, Knows, Asking, Answering, Brings, IsPending
  <2>7. \A p1 \in Panel : ViewShown(p1)'
    BY <2>1, <2>4 DEF Shown, ViewShown, Answering, IsPending
  <2>8. \A o \in Request : ~Brings(o, "drill_reply")'
    BY <2>2, <2>3, <2>5 DEF Shown, Brings
  <2> QED BY <2>2, <2>3, <2>4, <2>6, <2>7, <2>8 DEF Shown, Asking, Answering
<1>4. ASSUME FetchMap(r) PROVE Shown'
  <2>1. UNCHANGED <<row, view>>
    BY <1>4 DEF FetchMap
  <2>2. PICK q : /\ q.op = "map" /\ req[r] = Idle /\ req' = [req EXCEPT ![r] = q]
    BY <1>4 DEF FetchMap, Start
  <2>3. req'[r] = q /\ \A o \in Request \ {r} : req'[o] = req[o]
    BY <1>1, <2>2, OthersStay
  <2>4. req[r].op = "idle"
    BY <2>2 DEF Idle
  <2>5. \A o \in Request : Knows(o)'
    BY <2>1, <2>2, <2>3, <2>4 DEF Shown, Knows, Asking, Answering, Brings, IsPending
  <2>6. \A o \in Request : req'[o] = req[o] \/ (o = r /\ req'[o].op = "map" /\ req[o].op = "idle")
    BY <2>2, <2>3, <2>4
  <2>7. \A p1 \in Panel : (ViewShown(p1) => ViewShown(p1)') /\ (ViewEmpty(p1) => ViewEmpty(p1)')
    BY <2>1, <2>6 DEF ViewShown, ViewEmpty, IsPending
  <2> QED BY <2>5, <2>6, <2>7 DEF Shown, Asking, Answering, Brings
<1>5. ~ChatAnswer(r) /\ ~Assess(r) /\ ~Register(r)
  BY DEF ChatAnswer, Assess, Register, Alone
<1> QED BY <1>2, <1>3, <1>4, <1>5 DEF Client

\* A request ends that brings the panel nothing; the row may be created.
LEMMA EndShown ==
  ASSUME Inv, Shown, NEW r \in Request, End(r), req[r].op # "grade_reply", UNCHANGED view,
         UNCHANGED row \/ (~Asks(row) /\ ~Asks(row)')
  PROVE  Shown'
<1>1. TypeOK
  BY DEF Inv
<1>2. req'[r] = Idle /\ \A o \in Request \ {r} : req'[o] = req[o]
  BY <1>1, OthersStay DEF End
<1>3. \A q : (IsPending(row, q) => IsPending(row, q)') /\ (~Asks(row) => ~Asks(row)')
  BY DEF IsPending, Asks
<1>4. \A o \in Request : Knows(o)'
  BY <1>2, <1>3 DEF Shown, Knows, Asking, Answering, Brings, Idle, IsPending
<1>5. \A p \in Panel : (ViewShown(p) => ViewShown(p)') /\ (ViewEmpty(p) => ViewEmpty(p)')
  BY <1>2, <1>3 DEF ViewShown, ViewEmpty
<1> QED BY <1>2, <1>4, <1>5 DEF Shown, Asking, Answering, Brings, Idle

\* The reply of a request of the panel takes its place.
LEMMA ReplyPlaced ==
  ASSUME Inv, Shown, NEW r \in Request, Asking(r) \/ Answering(r), NEW q, NEW op, Reply(r, op, q)
  PROVE  /\ req'[r].op = op /\ req'[r].panel = req[r].panel /\ req'[r].about = q
         /\ req[r].panel \in Panel
         /\ \A o \in Request \ {r} : req'[o] = req[o]
<1>1. TypeOK /\ req[r].panel # None /\ req[r].panel \in Panel
  BY ClientAssumption DEF Inv, Shown, Knows
<1>2. PICK s : /\ s = [Idle EXCEPT !.op = op, !.panel = req[r].panel, !.about = q]
               /\ req' = [req EXCEPT ![r] = s]
  BY <1>1 DEF Reply
<1>3. s.op = op /\ s.panel = req[r].panel /\ s.about = q
  BY <1>2 DEF Idle
<1> QED BY <1>1, <1>2, <1>3, OthersStay

\* A fetch ends without a drill; the row may be created.
LEMMA NoDrillShown ==
  ASSUME Inv, Shown, NEW r \in Request, req[r].op = "drill", Reply(r, "drill_reply", None),
         UNCHANGED view, UNCHANGED row \/ (~Asks(row) /\ ~Asks(row)')
  PROVE  Shown'
<1>1. /\ req'[r].op = "drill_reply" /\ req'[r].panel \in Panel /\ req'[r].about = None
      /\ \A o \in Request \ {r} : req'[o] = req[o]
  <2>1. Asking(r)
    BY DEF Asking
  <2> QED BY <2>1, ReplyPlaced
<1>2. \A q : (IsPending(row, q) => IsPending(row, q)') /\ (~Asks(row) => ~Asks(row)')
  BY DEF IsPending, Asks
<1>3. \A o \in Request : Knows(o)'
  BY <1>1, <1>2 DEF Shown, Knows, Asking, Answering, Brings, IsPending
<1>4. \A p \in Panel : (ViewShown(p) => ViewShown(p)') /\ (ViewEmpty(p) => ViewEmpty(p)')
  BY <1>1, <1>2 DEF ViewShown, ViewEmpty
<1>5. \A o \in Request : Brings(o, "drill_reply")' => FALSE
  <2> SUFFICES ASSUME NEW o \in Request, Brings(o, "drill_reply")' PROVE FALSE
    OBVIOUS
  <2>1. o # r
    BY <1>1 DEF Brings
  <2>2. Asking(o) /\ Asking(r)
    BY <1>1, <2>1 DEF Brings, Asking
  <2> QED BY <2>1, <2>2 DEF Shown
<1>6. \A o \in Request : (Asking(o)' <=> Asking(o)) /\ (Answering(o)' <=> Answering(o))
  BY <1>1 DEF Asking, Answering
<1> QED BY <1>3, <1>4, <1>5, <1>6 DEF Shown

\* A fetch ends with a drill: nothing was pending, so no answer is under way
\* and the panel shows nothing, or is about to.
LEMMA DrillShown ==
  ASSUME Inv, Shown, NEW r \in Request, req[r].op = "drill", ~Asks(row), UNCHANGED view,
         NEW q, Reply(r, "drill_reply", q), IsPending(row, q)'
  PROVE  Shown'
<1>1. /\ req'[r].op = "drill_reply" /\ req'[r].panel \in Panel /\ req'[r].about = q
      /\ \A o \in Request \ {r} : req'[o] = req[o]
  <2>1. Asking(r)
    BY DEF Asking
  <2> QED BY <2>1, ReplyPlaced
<1>2. \A o \in Request : req[o].op # "grade" /\ ~Brings(o, "grade_reply") /\ ~Brings(o, "drill_reply")
  BY DEF Shown, Knows, IsPending, Brings
<1>3. \A o \in Request \ {r} : ~Asking(o)
  BY DEF Shown, Asking
<1>4. \A o \in Request : Knows(o)'
  <2>1. Knows(r)'
    BY <1>1 DEF Knows, Asking, Answering, Brings
  <2>2. ASSUME NEW o \in Request \ {r} PROVE Knows(o)'
    <3>1. req'[o] = req[o] /\ req[o].op # "drill" /\ req[o].op # "grade" /\ Knows(o)
      BY <1>1, <1>2, <1>3 DEF Asking, Shown
    <3> QED BY <1>2, <3>1 DEF Knows, Asking, Answering, Brings
  <2> QED BY <2>1, <2>2
<1>5. \A p \in Panel : ViewEmpty(p)
  BY DEF Shown, ViewShown, ViewEmpty, IsPending
<1>6. \A p \in Panel : ViewEmpty(p)'
  BY <1>1, <1>5 DEF ViewEmpty
<1>7. \A p \in Panel : ViewShown(p)'
  BY <1>6 DEF ViewEmpty, ViewShown
<1>8. \A o \in Request : req'[o].op # "grade" /\ ~Brings(o, "grade_reply")'
  BY <1>1, <1>2 DEF Brings
<1>9. \A o \in Request : (Asking(o)' <=> Asking(o)) /\ (Answering(o)' <=> Answering(o))
  BY <1>1 DEF Asking, Answering
<1> QED BY <1>4, <1>6, <1>7, <1>8, <1>9 DEF Shown

\* An answer is graded: a fetch that is under way saw a pending question, and
\* the panel waits for the reply.
LEMMA GradeShown ==
  ASSUME Inv, Shown, NEW r \in Request, req[r].op = "grade", UNCHANGED view,
         NEW q, Reply(r, "grade_reply", q), q # None => IsPending(row, q)'
  PROVE  Shown'
<1>1. /\ req'[r].op = "grade_reply" /\ req'[r].panel \in Panel /\ req'[r].about = q
      /\ \A o \in Request \ {r} : req'[o] = req[o]
  <2>1. Answering(r)
    BY DEF Answering
  <2> QED BY <2>1, ReplyPlaced
<1>2. Asks(row) /\ \A o \in Request : ~Brings(o, "drill_reply")
  BY DEF Shown, Knows, IsPending
<1>3. \A o \in Request \ {r} : ~Answering(o)
  BY DEF Shown, Answering
<1>4. \A o \in Request : Knows(o)'
  <2>1. Knows(r)'
    BY <1>1 DEF Knows, Asking, Answering, Brings
  <2>2. ASSUME NEW o \in Request \ {r} PROVE Knows(o)'
    <3>1. req'[o] = req[o] /\ ~Answering(o) /\ Knows(o) /\ ~Brings(o, "drill_reply")
      BY <1>1, <1>2, <1>3 DEF Shown
    <3> QED BY <1>2, <3>1 DEF Knows, Asking, Answering, Brings
  <2> QED BY <2>1, <2>2
<1>5. \A p \in Panel : ViewShown(p)'
  BY <1>1 DEF ViewShown
<1>6. \A o \in Request : ~Brings(o, "drill_reply")'
  BY <1>1, <1>2 DEF Brings
<1>7. \A o \in Request : (Asking(o)' <=> Asking(o)) /\ (Answering(o)' <=> Answering(o))
  BY <1>1 DEF Asking, Answering
<1> QED BY <1>4, <1>5, <1>6, <1>7 DEF Shown

\* The question that is built becomes the pending one.
LEMMA SetIsPending ==
  ASSUME NEW p \in Progress, NEW k \in KP, NEW q \in Question, row' = SetPending(p, q, k)
  PROVE  IsPending(row, q)'
<1>1. PICK pending \in Pending : pending = [q |-> q, kp |-> k] /\ pending # None
  <2>1. [q |-> q, kp |-> k] \in [q: Question, kp: KP]
    OBVIOUS
  <2> QED BY <2>1, PathAssumption DEF Pending
<1>2. PICK g : g = [p EXCEPT !.pending = pending]
  OBVIOUS
<1>3. g \in Progress /\ g.pending = pending
  BY <1>2 DEF Progress
<1>4. row' = g /\ g # None
  BY <1>1, <1>2, <1>3, NoneIsNoProgress DEF SetPending
<1> QED BY <1>1, <1>3, <1>4 DEF IsPending, Asks

\* A fetch ends.
LEMMA EndDrillShown ==
  ASSUME Inv, Shown, NEW r \in Request, EndDrill(r)
  PROVE  Shown'
<1>1. req[r].op = "drill" /\ MayWrite(req[r].snap) /\ UNCHANGED view
  BY DEF EndDrill
<1>2. PICK s : s = req[r].snap
  OBVIOUS
<1>3. PICK saved : /\ saved = IF s = None THEN NewProgress ELSE row
                   /\ BuildDrill(r, Loaded(s), saved, "drill_reply")
  BY <1>2 DEF EndDrill
<1>4. Loaded(s) \in Progress
  BY <1>2, LoadedIsSound DEF Inv, Reading, Sound
<1>5. CASE Asks(s)
  <2>1. saved = row /\ NextObjectives(Loaded(s)) = {}
    BY <1>3, <1>5 DEF Asks, Loaded, NextObjectives
  <2>2. row' = saved /\ Reply(r, "drill_reply", None)
    BY <1>3, <2>1 DEF BuildDrill
  <2> QED BY <1>1, <2>1, <2>2, NoDrillShown
<1>6. CASE ~Asks(s)
  <2>1. ~Asks(row)
    BY <1>1, <1>2, <1>6 DEF Shown, Knows
  <2>2. CASE row' = saved /\ Reply(r, "drill_reply", None)
    <3>1. ~Asks(row)'
      BY <1>3, <2>1, <2>2 DEF Asks, NewProgress
    <3> QED BY <1>1, <2>1, <2>2, <3>1, NoDrillShown
  <2>3. ASSUME NEW k \in KP, NEW q \in Question, row' = SetPending(Loaded(s), q, k), Reply(r, "drill_reply", q)
        PROVE  Shown'
    BY <1>1, <1>4, <2>1, <2>3, SetIsPending, DrillShown
  <2> QED BY <1>3, <2>2, <2>3, NextAreObjectives DEF BuildDrill
<1> QED BY <1>5, <1>6

\* An answer is graded.
LEMMA EndGradeShown ==
  ASSUME Inv, Shown, NEW r \in Request, EndGrade(r)
  PROVE  Shown'
<1>1. req[r].op = "grade" /\ UNCHANGED view /\ Asks(req[r].snap)
  BY DEF EndGrade
<1>2. PICK correct \in BOOLEAN :
        LET graded == GradeAndRecord(req[r].snap, correct)
        IN  BuildDrill(r, graded, graded, "grade_reply")
  BY DEF EndGrade
<1>3. PICK graded : graded = GradeAndRecord(req[r].snap, correct)
  OBVIOUS
<1>4. graded \in Progress
  BY <1>1, <1>3, GradeIsSound DEF Inv, Reading, Row, Asks, Sound
<1>5. ASSUME NEW k \in KP, NEW q \in Question, row' = SetPending(graded, q, k), Reply(r, "grade_reply", q)
      PROVE  Shown'
  BY <1>1, <1>4, <1>5, SetIsPending, GradeShown
<1> QED BY <1>1, <1>2, <1>3, <1>5, NextAreObjectives, GradeShown DEF BuildDrill

\* A reply reaches the panel.
LEMMA DeliverShown ==
  ASSUME Alone, Inv, Shown, NEW r \in Request, Deliver(r)
  PROVE  Shown'
<1>1. /\ TypeOK /\ req[r].op \in {"drill_reply", "grade_reply"} /\ End(r) /\ UNCHANGED row
      /\ view' = [view EXCEPT ![req[r].panel] = req[r].about]
  BY DEF Deliver, Inv
<1>2. req'[r] = Idle /\ \A o \in Request \ {r} : req'[o] = req[o]
  BY <1>1, OthersStay DEF End
<1>3. \A p \in Panel : view'[p] = req[r].about
  BY <1>1 DEF Shown, Knows, Asking, Answering, Alone, TypeOK
<1>4. req[r].about = None \/ IsPending(row, req[r].about)
  BY <1>1 DEF Shown, Knows, Brings
<1>5. \A o \in Request : Knows(o)'
  BY <1>1, <1>2 DEF Shown, Knows, Asking, Answering, Brings, Idle, IsPending
<1>6. \A p \in Panel : ViewShown(p)'
  BY <1>1, <1>3, <1>4 DEF ViewShown, IsPending
<1>7. \A o \in Request : Brings(o, "drill_reply")' => o # r /\ Brings(o, "drill_reply")
  BY <1>2 DEF Brings, Idle
<1>8. ASSUME NEW o \in Request, Brings(o, "drill_reply")' PROVE \A p \in Panel : ViewEmpty(p)'
  <2>1. o # r /\ Brings(o, "drill_reply")
    BY <1>7, <1>8
  <2>2. req[r].op = "grade_reply"
    BY <1>1, <2>1 DEF Shown, Asking, Brings
  <2>3. req[r].about = None
    BY <2>1, <2>2 DEF Shown, Brings
  <2> QED BY <1>3, <2>3 DEF ViewEmpty
<1>9. \A o \in Request : (req'[o].op = "grade" => req[o].op = "grade")
                         /\ (Brings(o, "grade_reply")' => Brings(o, "grade_reply"))
  BY <1>2 DEF Brings, Idle
<1>10. \A o \in Request : (Asking(o)' => Asking(o)) /\ (Answering(o)' => Answering(o))
  BY <1>2 DEF Asking, Answering, Idle
<1> QED BY <1>5, <1>6, <1>7, <1>8, <1>9, <1>10 DEF Shown

\* Days pass while the panel waits for nothing.
LEMMA PauseShown ==
  ASSUME Inv, Shown, Pause
  PROVE  Shown'
<1>1. /\ \A r \in Request : req[r] = Idle
      /\ row \in Sound /\ row \in Progress /\ UNCHANGED <<view, req>>
  BY DEF Pause, Inv, Row, Sound
<1>2. PICK d \in PauseDays :
        row' = [row EXCEPT !.rep = [k \in KP |->
                  IF row.rep[k] = None THEN None
                  ELSE [row.rep[k] EXCEPT !.due = Greater(@, d) - d]]]
  BY DEF Pause
<1>3. row' \in Progress /\ row'.pending = row.pending
  <2>1. row' \in Sound
    BY <1>1, <1>2, ClientAssumption, PauseIsSound
  <2>2. PICK rep : row' = [row EXCEPT !.rep = rep]
    BY <1>2
  <2> QED BY <1>1, <2>1, <2>2 DEF Sound, Progress
<1>4. \A q : IsPending(row, q) => IsPending(row', q)
  BY <1>1, <1>3, NoneIsNoProgress DEF IsPending, Asks
<1>5. \A p \in Panel : ViewShown(p)'
  BY <1>1, <1>4 DEF Shown, ViewShown, Idle
<1> QED BY <1>1, <1>5 DEF Shown, Knows, Asking, Answering, Brings, Idle

\* Every step but one that crosses keeps what the panel knows.
LEMMA ShownStep ==
  ASSUME Alone, Inv, Shown, [Next]_vars, ~Spend("cross")
  PROVE  Shown'
<1>1. ASSUME NEW r \in Request, EndMap(r) PROVE Shown'
  <2>1. req[r].op = "map" /\ End(r) /\ UNCHANGED view /\ MayWrite(req[r].snap)
        /\ row' = IF req[r].snap = None THEN NewProgress ELSE row
    BY <1>1 DEF EndMap
  <2>2. UNCHANGED row \/ (~Asks(row) /\ ~Asks(row)')
    BY <2>1 DEF MayWrite, Asks, NewProgress
  <2> QED BY <2>1, <2>2, EndShown
<1>2. ASSUME NEW r \in Request, RefuseGrade(r) \/ InsertConflict(r) \/ Fail(r) PROVE Shown'
  <2>1. End(r) /\ UNCHANGED <<row, view>> /\ req[r].op # "grade_reply"
    BY <1>2 DEF RefuseGrade, InsertConflict, Fail
  <2> QED BY <2>1, EndShown
<1>3. ASSUME NEW r \in Request, EndAssess(r) \/ EndRegister(r) \/ LoseReply(r) PROVE FALSE
  BY <1>3 DEF EndAssess, EndRegister, LoseReply, Shown, Knows
<1>4. CASE UNCHANGED vars
  BY <1>4 DEF vars, Shown, Knows, Asking, Answering, Brings, ViewShown, ViewEmpty, IsPending, Asks
<1> QED
  BY <1>1, <1>2, <1>3, <1>4, StartShown, EndDrillShown, EndGradeShown, DeliverShown, PauseShown DEF Next, Server

(* Every step keeps what the panel knows until something crosses.          *)
LEMMA ShownNext == ASSUME Alone PROVE Inv /\ ShownInv /\ [Next]_vars => ShownInv'
<1> SUFFICES ASSUME Inv, ShownInv, [Next]_vars PROVE ShownInv'
  OBVIOUS
<1>1. TypeOK /\ left["cross"] \in Nat /\ Budget["cross"] \in Nat /\ "cross" \in Bounded
  BY ClientAssumption DEF Inv, TypeOK, Bounded
<1>2. CASE Spend("cross")
  <2>1. left'["cross"] = left["cross"] - 1
    BY <1>1, <1>2, CrossSpent
  <2> QED BY <1>1, <2>1 DEF ShownInv, Happened
<1>3. CASE ~Spend("cross")
  <2>1. left'["cross"] = left["cross"]
    BY <1>1, <1>3, NextSpends, CrossSpent
  <2>2. ~Happened("cross") => Shown'
    BY <1>3, ShownStep DEF ShownInv
  <2> QED BY <2>1, <2>2 DEF ShownInv, Happened
<1> QED BY <1>2, <1>3

\* Before the first request nothing is shown or under way.
LEMMA ShownInitially == ASSUME Alone PROVE Init => ShownInv
<1> SUFFICES ASSUME Init PROVE ShownInv
  OBVIOUS
<1>1. Shown
  BY DEF Init, Shown, Knows, Asking, Answering, Brings, ViewShown, Idle
<1>2. left["cross"] <= Budget["cross"]
  BY ClientAssumption DEF Init, Bounded
<1> QED BY <1>1, <1>2 DEF ShownInv

\* What a request of the panel knows includes what it is graded against.
LEMMA ShownSuffices == ShownInv => GradedAsShown
  BY DEF ShownInv, Shown, Knows, GradedAsShown, IsPending

(* With one panel and no other client, an answer is graded against the      *)
(* question the panel showed when it was given, whatever fails, pauses or   *)
(* is refreshed, until an answer is sent over another or a reply is lost:   *)
(* grade_answer takes the pending question, and the request does not name   *)
(* one (path_api.py).                                                      *)
THEOREM GradedAsShownHolds == ASSUME Alone PROVE Spec => []GradedAsShown
<1> QED BY ShownInitially, ShownSuffices, InitInv, NextInv, ShownNext, PTL DEF Spec
=============================================================================
