----------------------------- MODULE MCProgress -----------------------------
(***************************************************************************)
(* What must come to an end, for TLC: the components with liveness         *)
(* properties and the locks they rely on, one beside the other. A          *)
(* behaviour is one of the component "part" names; the others stay in      *)
(* their initial state.                                                    *)
(***************************************************************************)
EXTENDS RagIndexing, TLC

CONSTANTS
    d1, j1, j2, t1, c1, w1, w2, r1, r2, p1, k1, ollama, claude, vocab, articles,
    Turn, Worker, Nobody, None, Query,
    KP, Path, TypeOf, Words, Band, Question, PauseDays, Budget

PathTwo    == <<vocab, articles>>
TypesTwo   == vocab :> "memory" @@ articles :> "procedure"
WordsA1    == <<3>>
BandVocab  == vocab :> <<1, 2>> @@ articles :> None
BoundsLive == "slip" :> 1 @@ "pause" :> 1 @@ "fault" :> 1 @@ "cross" :> 1 @@ "stray" :> 0

VARIABLES
    part,
    traces, facts, factLock, prefs, prefLock, slots, slotLock, cache, memoryLock,
    sched, home, rec, call, pref, synth,
    row, view, answer, left,
    file, secrets, effective, client, save, crashes,
    key, locks, jobs, failures

Memory == INSTANCE LearnerMemory WITH
    Call <- {c1}, Pref <- {}, MaxEntries <- 2, MaxAttempts <- 2, Faults <- TRUE, LostAcks <- TRUE,
    SlowSynthesis <- FALSE, lock <- memoryLock
Mastery == INSTANCE MasteryPath WITH
    Panel <- {p1}, Request <- Query, Assessable <- {}, Registrable <- {}, ChatGrades <- FALSE, req <- answer
Settings == INSTANCE AiSettings WITH
    Profile <- {ollama, claude}, Builtin <- <<ollama>>, Key <- {k1}, NoKey <- Nobody, Request <- Query,
    MaxCrashes <- 1, cache <- effective, req <- save
JobLock == INSTANCE JobLock WITH MaxFailures <- 0, memory <- locks

ASSUME ProgressAssumption ==
    /\ Memory!MemoryAssumption /\ Settings!SettingsAssumption /\ JobLock!LockAssumption
    /\ Mastery!PathAssumption /\ Mastery!ClientAssumption

ragVars      == vars
memoryVars   == <<traces, facts, factLock, prefs, prefLock, slots, slotLock, cache, memoryLock,
                  sched, home, rec, call, pref, synth>>
pathVars     == <<row, view, answer, left>>
settingsVars == <<file, secrets, effective, client, save, crashes>>
lockVars     == <<key, locks, jobs, failures>>
progressVars  == <<part, ragVars, memoryVars, pathVars, settingsVars, lockVars>>

OnlyRag      == UNCHANGED <<part, memoryVars, pathVars, settingsVars, lockVars>>
OnlyMemory   == UNCHANGED <<part, ragVars, pathVars, settingsVars, lockVars>>
OnlyPath     == UNCHANGED <<part, ragVars, memoryVars, settingsVars, lockVars>>
OnlySettings == UNCHANGED <<part, ragVars, memoryVars, pathVars, lockVars>>
OnlyLock     == UNCHANGED <<part, ragVars, memoryVars, pathVars, settingsVars>>

First == CHOOSE w \in Worker : TRUE
ProgressInit ==
    /\ part \in {"rag", "memory", "path", "settings", "lock"}
    /\ Init /\ Memory!Init /\ Mastery!Init /\ Settings!Init /\ JobLock!Init
    /\ \A a \in DOMAIN home : part # "memory" \/ a = t1 => home[a] = First
    /\ \A j \in Job : part # "lock" \/ j = j1 => jobs[j].on = First

RagStep      == part = "rag" /\ Next /\ OnlyRag
MemoryStep   == part = "memory" /\ Memory!Next /\ OnlyMemory
PathStep     == part = "path" /\ Mastery!Next /\ OnlyPath
SettingsStep == part = "settings" /\ Settings!Next /\ OnlySettings
LockStep     == part = "lock" /\ JobLock!Next /\ OnlyLock
ProgressNext == RagStep \/ MemoryStep \/ PathStep \/ SettingsStep \/ LockStep

\* The fairness of each module. As only one component runs, actions of several
\* of them share one formula.
Work(j, r, a) ==
    \/ part = "rag" /\ TaskStep(j) /\ OnlyRag
    \/ part = "memory" /\ Memory!SynthStep(a) /\ OnlyMemory
    \/ part = "path" /\ Mastery!Server(r) /\ OnlyPath
    \/ part = "settings" /\ Settings!Continue(r) /\ OnlySettings
Reply(j, r, m) ==
    \/ part = "rag" /\ RequestStep(j) /\ OnlyRag
    \/ part = "memory" /\ m = 1 /\ Memory!TurnStep(t1) /\ OnlyMemory
    \/ part = "memory" /\ m = 2 /\ Memory!CallStep(c1) /\ OnlyMemory
    \/ part = "path" /\ Mastery!Deliver(r) /\ OnlyPath
    \/ part = "settings" /\ m = 1 /\ Settings!ExpireSettings /\ OnlySettings
    \/ part = "settings" /\ m = 2 /\ Settings!ExpireClient /\ OnlySettings
Often(j) == 
    \/ part = "rag" /\ UpdateDocument(j) /\ OnlyRag
    \/ part = "path" /\ j = j1 /\ (\E r \in Query : Mastery!FetchDrill(r, p1)) /\ OnlyPath
    \/ part = "path" /\ j = j2 /\ (\E r \in Query : Mastery!SendAnswer(r, p1)) /\ OnlyPath
ProgressSpec ==
    /\ ProgressInit /\ [][ProgressNext]_progressVars
    /\ WF_progressVars(Work(j1, r1, t1)) /\ WF_progressVars(Work(j2, r2, c1))
    /\ WF_progressVars(Reply(j1, r1, 1)) /\ WF_progressVars(Reply(j2, r2, 2))
    /\ SF_progressVars(Often(j1)) /\ SF_progressVars(Often(j2))
    /\ \A j \in Job :
         /\ SF_progressVars(part = "rag" /\ DeleteRows(j) /\ OnlyRag)
         /\ WF_progressVars(part = "rag" /\ BreakDeadlock(d1, j) /\ OnlyRag)
    /\ WF_progressVars(part = "rag" /\ DelStep(d1) /\ OnlyRag)

----------------------------------------------------------------------------
(* The properties of the other components, stated in their modules; those  *)
(* of the indexing are used as they stand in RagIndexing.                  *)

\* No job of the indexing waits for ever (run_rag_index_job), and the lock of
\* a synthesis is given back (_run_synthesize_l3).
JobsEnd == TransactionsEnd /\ Memory!LockFreed
\* An answer is graded against the question it was given to, until answers or
\* replies cross (grade_answer).
GradedAsShown == Mastery!GradedAsShown
\* A learner who keeps answering completes the path (next_objective).
PathCompletes == <>[](part = "path" => Mastery!PathDone)
\* What is saved reaches the calls (get_settings, get_cached_task_client).
SettingsReachCalls == Settings!SettingsReachCalls
\* With Redis the lock of a job is a mutex (try_acquire_job_lock).
IsMutex == JobLock!IsMutex
=============================================================================
