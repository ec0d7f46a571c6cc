-------------------------- MODULE MCProgress_proofs --------------------------
(***************************************************************************)
(* The safety of what MCProgress runs beside each other: while Redis does  *)
(* not fail, the lock of core/redis_lock.py implements the abstract Mutex, *)
(* for any number of jobs and workers, and with one panel an answer is     *)
(* graded against the question it was given to.                            *)
(***************************************************************************)
EXTENDS MCProgress, TLAPS

PathP == INSTANCE MasteryPath_proofs WITH
    Panel <- {p1}, Request <- Query, Assessable <- {}, Registrable <- {}, ChatGrades <- FALSE, req <- answer

----------------------------------------------------------------------------
(* The lock.                                                               *)

\* Redis has the key exactly while one job works; no memory is used.
KeyIsHeld ==
    /\ failures = 0 /\ locks = {}
    /\ key <=> JobLock!Working # {}
    /\ \A j, k \in JobLock!Working : j = k
LockInv == JobLock!TypeOK /\ KeyIsHeld

\* Initially nobody has the lock.
LEMMA LockInvInitially == ASSUME JobLock!LockAssumption PROVE JobLock!Init => LockInv
<1> SUFFICES ASSUME JobLock!Init PROVE LockInv
  OBVIOUS
<1>1. JobLock!TypeOK
  <2>1. [pc : {"new"}, on : Worker, by : {"nothing"}] \subseteq JobLock!States
    BY DEF JobLock!States
  <2>2. jobs \in [Job -> JobLock!States]
    BY <2>1 DEF JobLock!Init
  <2>3. failures \in 0..0
    BY DEF JobLock!Init, JobLock!LockAssumption
  <2>4. QED
    BY <2>2, <2>3 DEF JobLock!Init, JobLock!TypeOK
<1>2. KeyIsHeld
  BY DEF JobLock!Init, KeyIsHeld, JobLock!Working
<1>3. QED
  BY <1>1, <1>2 DEF LockInv

\* What a step does to the job that takes it and to the others.
LEMMA StepOfOne ==
    ASSUME JobLock!TypeOK, NEW j \in Job, NEW pc, NEW by, JobLock!Becomes(j, pc, by)
    PROVE  /\ jobs'[j].pc = pc
           /\ \A k \in Job \ {j} : jobs'[k] = jobs[k]
BY DEF JobLock!Becomes, JobLock!TypeOK, JobLock!States

\* The job stays one of its type.
LEMMA BecomesTyped ==
    ASSUME JobLock!TypeOK, NEW j \in Job, NEW pc \in {"new", "refused", "working", "done"},
           NEW by \in {"nothing", "redis", "memory"}, JobLock!Becomes(j, pc, by)
    PROVE  jobs' \in [Job -> JobLock!States]
<1>1. [jobs[j] EXCEPT !.pc = pc, !.by = by] \in JobLock!States
  BY DEF JobLock!TypeOK, JobLock!States
<1>2. jobs' = [jobs EXCEPT ![j] = [jobs[j] EXCEPT !.pc = pc, !.by = by]]
  BY DEF JobLock!Becomes, JobLock!TypeOK, JobLock!States
<1>3. QED
  BY <1>1, <1>2 DEF JobLock!TypeOK

\* A job that finds no key takes the lock; one that finds it goes away.
LEMMA Takes ==
    ASSUME JobLock!LockAssumption, LockInv, NEW j \in Job, JobLock!TryRedis(j)
    PROVE  LockInv' /\ (JobLock!Lock!Take(j) \/ JobLock!Holder' = JobLock!Holder)
<1>1. JobLock!TypeOK' /\ failures' = 0 /\ locks' = {}
  <2>1. jobs' \in [Job -> JobLock!States]
    BY BecomesTyped DEF JobLock!TryRedis, LockInv
  <2>2. key' \in BOOLEAN /\ UNCHANGED <<locks, failures>>
    BY DEF JobLock!TryRedis, LockInv, JobLock!TypeOK
  <2>3. QED
    BY <2>1, <2>2 DEF LockInv, JobLock!TypeOK, KeyIsHeld
<1>2. CASE key
  <2>1. JobLock!Working' = JobLock!Working /\ key' = key
    BY <1>2, StepOfOne DEF JobLock!Working, JobLock!TryRedis, LockInv
  <2>2. KeyIsHeld' /\ JobLock!Holder' = JobLock!Holder
    BY <1>1, <2>1 DEF LockInv, KeyIsHeld, JobLock!Holder
  <2>3. QED
    BY <1>1, <2>2 DEF LockInv
<1>3. CASE ~key
  <2>1. JobLock!Working = {} /\ key' = TRUE
    BY <1>3 DEF JobLock!TryRedis, LockInv, KeyIsHeld
  <2>2. JobLock!Working' = {j}
    BY <1>3, <2>1, StepOfOne DEF JobLock!Working, JobLock!TryRedis, LockInv
  <2>3. KeyIsHeld'
    BY <1>1, <2>1, <2>2 DEF KeyIsHeld
  <2>4. JobLock!Holder = NoJob /\ JobLock!Holder' = j
    BY <2>1, <2>2 DEF JobLock!Holder
  <2>5. QED
    BY <1>1, <2>3, <2>4 DEF LockInv, JobLock!Lock!Take
<1>4. QED
  BY <1>2, <1>3

\* The job that has the lock gives it back.
LEMMA GivesBack ==
    ASSUME JobLock!LockAssumption, LockInv, NEW j \in Job, JobLock!Release(j)
    PROVE  LockInv' /\ JobLock!Lock!Give(j)
<1>1. ~(failures < 0) /\ key' = FALSE /\ failures' = 0 /\ locks' = {}
  BY DEF LockInv, KeyIsHeld, JobLock!Release
<1>2. JobLock!TypeOK'
  <2>1. jobs' \in [Job -> JobLock!States]
    BY BecomesTyped DEF JobLock!Release, LockInv
  <2>2. locks' \subseteq Worker /\ failures' \in 0..0
    BY <1>1
  <2>3. QED
    BY <1>1, <2>1, <2>2 DEF JobLock!TypeOK
<1>3. JobLock!Working = {j}
  BY DEF LockInv, KeyIsHeld, JobLock!Working, JobLock!Release
<1>4. JobLock!Working' = {}
  BY <1>3, StepOfOne DEF JobLock!Working, JobLock!Release, LockInv
<1>5. KeyIsHeld'
  BY <1>1, <1>4 DEF KeyIsHeld
<1>6. JobLock!Holder = j /\ JobLock!Holder' = NoJob
  BY <1>3, <1>4 DEF JobLock!Holder
<1>7. QED
  BY <1>2, <1>5, <1>6 DEF LockInv, JobLock!Lock!Give

\* Every step keeps the invariant and is a step of the mutex or none.
LEMMA StepIsMutexStep ==
    ASSUME JobLock!LockAssumption, LockInv, [JobLock!Next]_(JobLock!lockVars)
    PROVE  LockInv' /\ [JobLock!Lock!Next]_(JobLock!Holder)
<1>1. CASE UNCHANGED JobLock!lockVars
  <2>1. LockInv' /\ JobLock!Holder' = JobLock!Holder
    BY <1>1 DEF JobLock!lockVars, LockInv, JobLock!TypeOK, KeyIsHeld, JobLock!Working, JobLock!Holder
  <2>2. QED
    BY <2>1
<1>2. ASSUME NEW j \in Job, JobLock!TryRedis(j) PROVE LockInv' /\ [JobLock!Lock!Next]_(JobLock!Holder)
  BY <1>2, Takes DEF JobLock!Lock!Next
<1>3. ASSUME NEW j \in Job, JobLock!TryMemory(j) PROVE FALSE
  BY <1>3 DEF JobLock!TryMemory, LockInv, KeyIsHeld
<1>4. ASSUME NEW j \in Job, JobLock!Release(j) PROVE LockInv' /\ [JobLock!Lock!Next]_(JobLock!Holder)
  BY <1>4, GivesBack DEF JobLock!Lock!Next
<1>5. QED
  BY <1>1, <1>2, <1>3, <1>4 DEF JobLock!Next

\* Only the lock's own step moves its variables.
LEMMA LockStepOrStutter == [ProgressNext]_progressVars => [JobLock!Next]_(JobLock!lockVars)
  BY DEF ProgressNext, progressVars, RagStep, MemoryStep, PathStep, SettingsStep, LockStep,
         OnlyRag, OnlyMemory, OnlyPath, OnlySettings, lockVars, JobLock!lockVars

\* While Redis answers, the job lock is a mutex: one job has it, and it is
\* given back by that job (try_acquire_job_lock, release_job_lock).
THEOREM IsMutexHolds == ProgressSpec => IsMutex
<1>1. JobLock!LockAssumption
  BY ProgressAssumption
<1>2. ProgressInit => LockInv /\ JobLock!Lock!Init
  BY <1>1, LockInvInitially DEF ProgressInit, JobLock!Init, JobLock!Lock!Init, JobLock!Holder, JobLock!Working
<1>3. LockInv /\ [ProgressNext]_progressVars => LockInv' /\ [JobLock!Lock!Next]_(JobLock!Holder)
  BY <1>1, LockStepOrStutter, StepIsMutexStep
<1>4. QED
  BY <1>2, <1>3, PTL DEF ProgressSpec, IsMutex, JobLock!IsMutex, JobLock!Lock!Spec

----------------------------------------------------------------------------
(* The panel.                                                              *)

\* The constants are what the path assumes, and the panel is alone.
LEMMA PathAssumed == PathP!PathAssumption /\ PathP!ClientAssumption /\ PathP!Alone
<1>1. PathP!PathAssumption
  BY ProgressAssumption DEF Mastery!KnowledgeType, PathP!KnowledgeType
<1>2. Mastery!Progress = PathP!Progress
  BY DEF Mastery!Progress, Mastery!Histories, Mastery!Scores, Mastery!Assessments, Mastery!Reviews,
         Mastery!RepetitionState, Mastery!ErrorRecord, Mastery!Pending, PathP!Progress, PathP!Histories,
         PathP!Scores, PathP!Assessments, PathP!Reviews, PathP!RepetitionState, PathP!ErrorRecord, PathP!Pending
<1>3. PathP!ClientAssumption
  BY <1>2, ProgressAssumption DEF Mastery!Bounded, PathP!Bounded
<1>4. PathP!Alone
  BY ProgressAssumption DEF PathP!Alone
<1>5. QED
  BY <1>1, <1>3, <1>4

\* The path of MCProgress and that of its proofs take the same steps.
LEMMA PathNext == Mastery!Next => PathP!Next
<1>1. \A p, correct : Mastery!GradeAndRecord(p, correct) = PathP!GradeAndRecord(p, correct)
  <2>1. \A h : Mastery!ComputeMastery(h) = PathP!ComputeMastery(h)
    <3>1. \A c, n : Mastery!Score(c, n) = PathP!Score(c, n)
      BY DEF Mastery!Score, Mastery!Lesser, Mastery!WeightTotal, Mastery!ConfidenceCap, PathP!Score,
         PathP!Lesser, PathP!WeightTotal, PathP!ConfidenceCap
    <3>2. \A h : Mastery!Recent(h) = PathP!Recent(h) /\ Mastery!Right(h) = PathP!Right(h)
      BY Zenon DEF Mastery!Recent, Mastery!Right, Mastery!Window, PathP!Recent, PathP!Right, PathP!Window
    <3>3. \A set : Mastery!Cardinality(set) = PathP!Cardinality(set)
      BY DEF Mastery!Cardinality, Mastery!IsFiniteSet, PathP!Cardinality, PathP!IsFiniteSet
    <3> QED BY <3>1, <3>2, <3>3 DEF Mastery!ComputeMastery, PathP!ComputeMastery
  <2>2. \A s, t, correct : Mastery!ScheduleNext(s, t, correct) = PathP!ScheduleNext(s, t, correct)
    BY DEF Mastery!Lesser, Mastery!Greater, Mastery!MaxIndex, Mastery!Intervals,
         Mastery!IntervalDays, Mastery!ScheduleNext, PathP!Lesser, PathP!Greater,
         PathP!MaxIndex, PathP!Intervals, PathP!IntervalDays, PathP!ScheduleNext
  <2>3. \A e, q, k, correct : Mastery!RecordErrors(e, q, k, correct) = PathP!RecordErrors(e, q, k, correct)
    BY DEF Mastery!RecordErrors, PathP!RecordErrors
  <2> QED BY <2>1, <2>2, <2>3
      DEF Mastery!GradeAndRecord, Mastery!Remember, Mastery!Window, Mastery!GetInitialState,
         Mastery!IntervalDays, Mastery!Intervals, PathP!GradeAndRecord, PathP!Remember,
         PathP!Window, PathP!GetInitialState, PathP!IntervalDays, PathP!Intervals
<1>2. \A p : Mastery!NextObjectives(p) = PathP!NextObjectives(p)
  <2>1. \A p, k : Mastery!Priority(p, k) = PathP!Priority(p, k) /\ (Mastery!IsMastered(p, k) <=> PathP!IsMastered(p, k))
    BY DEF Mastery!QualitativeTypes, Mastery!GateThreshold, Mastery!IsMastered, Mastery!Priority,
         PathP!QualitativeTypes, PathP!GateThreshold, PathP!IsMastered, PathP!Priority
  <2> QED BY <2>1
      DEF Mastery!NextObjectives, Mastery!DueReviews, Mastery!FirstReviews,
         Mastery!FirstUnmastered, PathP!NextObjectives, PathP!DueReviews, PathP!FirstReviews,
         PathP!FirstUnmastered
<1>3. \A k : Mastery!HasDrill(k) <=> PathP!HasDrill(k)
  BY DEF Mastery!HasDrill, Mastery!Ranks, PathP!HasDrill, PathP!Ranks
<1>4. \A q : Mastery!FreshQuestion(q) <=> PathP!FreshQuestion(q)
  BY DEF Mastery!FreshQuestion, Mastery!Used, Mastery!Refers, PathP!FreshQuestion, PathP!Used,
         PathP!Refers
<1>5. \A s : Mastery!Loaded(s) = PathP!Loaded(s)
  BY DEF Mastery!Loaded, Mastery!NewProgress, PathP!Loaded, PathP!NewProgress
<1>6. \A r, p, saved, op : Mastery!BuildDrill(r, p, saved, op) <=> PathP!BuildDrill(r, p, saved, op)
  <2>1. Mastery!Idle = PathP!Idle
    BY DEF Mastery!Idle, PathP!Idle
  <2>2. \A r, op, q : Mastery!Reply(r, op, q) <=> PathP!Reply(r, op, q)
    BY <2>1, Zenon DEF Mastery!Reply, Mastery!End, PathP!Reply, PathP!End
  <2>3. \A p, q, k : Mastery!SetPending(p, q, k) = PathP!SetPending(p, q, k)
    BY Zenon DEF Mastery!SetPending, PathP!SetPending
  <2> QED
    BY <1>2, <1>3, <1>4, <2>2, <2>3, ZenonT(40) DEF Mastery!BuildDrill, PathP!BuildDrill
<1>7. \A r : Mastery!Client(r) => PathP!Client(r)
  BY DEF Mastery!Client, Mastery!FetchDrill, Mastery!SendAnswer, Mastery!FetchMap,
         Mastery!ChatAnswer, Mastery!Assess, Mastery!Register, Mastery!Start, Mastery!Spend,
         Mastery!InFlight, Mastery!Idle, PathP!Client, PathP!FetchDrill, PathP!SendAnswer,
         PathP!FetchMap, PathP!ChatAnswer, PathP!Assess, PathP!Register, PathP!Start,
         PathP!Spend, PathP!InFlight, PathP!Idle
<1>8. \A r : Mastery!Server(r) => PathP!Server(r)
  <2> SUFFICES ASSUME NEW r, Mastery!Server(r) PROVE PathP!Server(r)
    OBVIOUS
  <2>1. CASE Mastery!EndMap(r)
    BY <2>1 DEF Mastery!Server, Mastery!EndMap, Mastery!MayWrite, Mastery!NewProgress, Mastery!End,
         Mastery!Idle, PathP!Server, PathP!EndMap, PathP!MayWrite, PathP!NewProgress, PathP!End,
         PathP!Idle
  <2>2. CASE Mastery!EndDrill(r)
    BY <1>5, <1>6, <2>2 DEF Mastery!Server, Mastery!EndDrill, Mastery!MayWrite, Mastery!NewProgress, PathP!Server,
         PathP!EndDrill, PathP!MayWrite, PathP!NewProgress
  <2>3. CASE Mastery!EndGrade(r)
    BY <1>1, <1>6, <2>3 DEF Mastery!Server, Mastery!EndGrade, Mastery!Asks, Mastery!Spend, PathP!Server,
         PathP!EndGrade, PathP!Asks, PathP!Spend
  <2>4. CASE Mastery!RefuseGrade(r) \/ Mastery!InsertConflict(r)
    BY <2>4 DEF Mastery!Server, Mastery!RefuseGrade, Mastery!InsertConflict, Mastery!Asks,
         Mastery!MayWrite, Mastery!End, Mastery!Idle, PathP!Server, PathP!RefuseGrade,
         PathP!InsertConflict, PathP!Asks, PathP!MayWrite, PathP!End, PathP!Idle
  <2>5. CASE Mastery!EndAssess(r)
    <3>1. \A p, k, passed : Mastery!RecordQualitative(p, k, passed) = PathP!RecordQualitative(p, k, passed)
      BY DEF Mastery!RecordQualitative, Mastery!Greater, Mastery!Lesser, PathP!RecordQualitative,
         PathP!Greater, PathP!Lesser
    <3> QED BY <1>5, <2>5, <3>1 DEF Mastery!Server, Mastery!EndAssess, Mastery!MayWrite, Mastery!End, Mastery!Idle,
         PathP!Server, PathP!EndAssess, PathP!MayWrite, PathP!End, PathP!Idle
  <2>6. CASE Mastery!EndRegister(r)
    BY <1>4, <1>5, <2>6 DEF Mastery!Server, Mastery!EndRegister, Mastery!MayWrite, Mastery!SetPending, Mastery!End,
         Mastery!Idle, PathP!Server, PathP!EndRegister, PathP!MayWrite, PathP!SetPending,
         PathP!End, PathP!Idle
  <2> QED BY <2>1, <2>2, <2>3, <2>4, <2>5, <2>6 DEF Mastery!Server
<1>9. \A r : (Mastery!Deliver(r) => PathP!Deliver(r)) /\ (Mastery!Fail(r) => PathP!Fail(r))
             /\ (Mastery!LoseReply(r) => PathP!LoseReply(r))
  BY DEF Mastery!Deliver, Mastery!Fail, Mastery!LoseReply, Mastery!End, Mastery!Spend,
         Mastery!Idle, PathP!Deliver, PathP!Fail, PathP!LoseReply, PathP!End, PathP!Spend,
         PathP!Idle
<1>10. Mastery!Pause => PathP!Pause
  BY DEF Mastery!Pause, Mastery!Spend, Mastery!Idle, Mastery!Greater, PathP!Pause, PathP!Spend,
         PathP!Idle, PathP!Greater
<1> QED BY <1>7, <1>8, <1>9, <1>10 DEF Mastery!Next, PathP!Next

\* Only the path's own step moves its variables.
LEMMA PathStepOrStutter == [ProgressNext]_progressVars => [PathP!Next]_(PathP!vars)
  BY PathNext
  DEF ProgressNext, progressVars, RagStep, MemoryStep, PathStep, SettingsStep, LockStep,
      OnlyRag, OnlyMemory, OnlyPath, OnlySettings, OnlyLock, pathVars, PathP!vars

\* With one panel and no other client, an answer is graded against the question
\* the panel showed when it was given, until one is sent over another or a reply
\* is lost (grade_answer).
THEOREM GradedAsShownHolds == ProgressSpec => []GradedAsShown
<1>1. ProgressInit => PathP!Inv /\ PathP!ShownInv
  <2>1. ProgressInit => PathP!Init
    BY DEF ProgressInit, Mastery!Init, Mastery!Idle, PathP!Init, PathP!Idle
  <2>2. QED
    BY <2>1, PathAssumed, PathP!InitInv, PathP!ShownInitially
<1>2. PathP!Inv /\ PathP!ShownInv /\ [ProgressNext]_progressVars => PathP!Inv' /\ PathP!ShownInv'
  BY PathAssumed, PathStepOrStutter, PathP!NextInv, PathP!ShownNext
<1>3. PathP!ShownInv => GradedAsShown
  BY PathAssumed, PathP!ShownSuffices
  DEF GradedAsShown, Mastery!GradedAsShown, Mastery!Asks, Mastery!Happened,
      PathP!GradedAsShown, PathP!Asks, PathP!Happened
<1>4. QED
  BY <1>1, <1>2, <1>3, PTL DEF ProgressSpec
=============================================================================
