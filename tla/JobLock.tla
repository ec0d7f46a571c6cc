------------------------------- MODULE JobLock ------------------------------
(***************************************************************************)
(* try_acquire_job_lock and release_job_lock (core/redis_lock.py) for one  *)
(* key, used by jobs on several workers. When Redis does not answer, the   *)
(* lock is one of the worker's memory; it may be taken in one place and    *)
(* given back in the other. What a key that expires under its job does is  *)
(* in RagIndexing and LearnerMemory.                                       *)
(***************************************************************************)
EXTENDS Naturals, FiniteSets

CONSTANTS
    Worker, Job, NoJob,
    MaxFailures    \* commands of Redis that raise

LockAssumption == NoJob \notin Job /\ MaxFailures \in Nat

VARIABLES
    key,       \* does lock:<key> exist in Redis?
    memory,    \* workers whose _memory_locks has the key
    jobs,      \* jobs[j]: where job j runs and how far it is
    failures   \* commands that have raised

lockVars == <<key, memory, jobs, failures>>

States == [pc : {"new", "refused", "working", "done"}, on : Worker, by : {"nothing", "redis", "memory"}]
TypeOK ==
    /\ key \in BOOLEAN /\ memory \subseteq Worker
    /\ jobs \in [Job -> States] /\ failures \in 0..MaxFailures

Init ==
    /\ key = FALSE /\ memory = {} /\ failures = 0
    /\ jobs \in [Job -> [pc : {"new"}, on : Worker, by : {"nothing"}]]

Becomes(j, pc, by) == jobs' = [jobs EXCEPT ![j].pc = pc, ![j].by = by]

\* Mutant: SET without NX.
TryRedisAlways(j) ==
    /\ jobs[j].pc = "new"
    /\ Becomes(j, "working", "redis") /\ key' = TRUE
    /\ UNCHANGED <<memory, failures>>
\* SET NX, or the memory of the worker when the command raises.
TryRedis(j) ==
    /\ jobs[j].pc = "new"
    /\ IF key THEN Becomes(j, "refused", "nothing") /\ UNCHANGED key
              ELSE Becomes(j, "working", "redis") /\ key' = TRUE
    /\ UNCHANGED <<memory, failures>>
TryMemory(j) ==
    /\ jobs[j].pc = "new" /\ failures < MaxFailures
    /\ failures' = failures + 1
    /\ IF jobs[j].on \in memory
       THEN Becomes(j, "refused", "nothing") /\ UNCHANGED memory
       ELSE Becomes(j, "working", "memory") /\ memory' = memory \cup {jobs[j].on}
    /\ UNCHANGED key

\* DELETE, whoever's key it is; the memory is cleared in any case.
\* Mutant: not when the command raised.
ReleaseRedisOnly(j) ==
    /\ jobs[j].pc = "working"
    /\ Becomes(j, "done", "nothing")
    /\ \/ key' = FALSE /\ memory' = memory \ {jobs[j].on} /\ UNCHANGED failures
       \/ failures < MaxFailures /\ failures' = failures + 1 /\ UNCHANGED <<key, memory>>
Release(j) ==
    /\ jobs[j].pc = "working"
    /\ Becomes(j, "done", "nothing")
    /\ memory' = memory \ {jobs[j].on}
    /\ \/ key' = FALSE /\ UNCHANGED failures
       \/ failures < MaxFailures /\ failures' = failures + 1 /\ UNCHANGED key

Next == \E j \in Job : TryRedis(j) \/ TryMemory(j) \/ Release(j)
Spec == Init /\ [][Next]_lockVars

----------------------------------------------------------------------------
(* Properties.                                                             *)

Working == {j \in Job : jobs[j].pc = "working"}

\* A worker's memory never keeps a lock that nobody has: what a job took there
\* while Redis was away goes with it, wherever Redis is by then
\* (release_job_lock). There is no time to live in memory.
MemoryServed ==
    \A w \in memory : \E j \in Working : jobs[j].on = w /\ jobs[j].by = "memory"

Holder == IF Working = {} THEN NoJob ELSE CHOOSE j \in Working : TRUE
Lock == INSTANCE Mutex WITH holder <- Holder
\* While Redis answers, the lock is what the jobs expect: one of them has it
\* and gives it back (try_acquire_job_lock, release_job_lock).
IsMutex == Lock!Spec
=============================================================================
