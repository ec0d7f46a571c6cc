------------------------------ MODULE MCShared ------------------------------
(***************************************************************************)
(* What requests and background jobs do to a learner's data, for TLC: the  *)
(* safety of the mastery path, the memory and the document indexing, one   *)
(* beside the other. A behaviour is one of the component "part" names; the *)
(* others stay in their initial state. Turns, preferences and index        *)
(* requests happen once each, so the sets bound them; deletions are not    *)
(* bounded.                                                                *)
(***************************************************************************)
EXTENDS MCMasteryPath

CONSTANTS
    t1, t2, p1, w1, w2, d1, j1, j2, j3,
    Turn, Call, Pref, Worker, Nobody, MaxEntries, MaxAttempts, LostAcks, SlowSynthesis,
    Doc, Deletable, Job, NoDoc, NoJob, Deleter, StoreWrites, Crashes, SlowJobs,
    Faults

VARIABLES
    part,
    traces, facts, factLock, prefs, prefLock, slots, slotLock, cache, lock,
    sched, home, rec, call, pref, synth,
    doc, job, prog, docLock, held, index, task, del

Memory == INSTANCE LearnerMemory
Rag    == INSTANCE RagIndexing WITH lock <- docLock, req <- index

ASSUME SharedAssumption == Memory!MemoryAssumption /\ Rag!RagAssumption

pathVars   == <<row, view, req, left>>
memoryVars == <<traces, facts, factLock, prefs, prefLock, slots, slotLock, cache, lock,
                sched, home, rec, call, pref, synth>>
ragVars    == <<doc, job, prog, docLock, held, index, task, del>>

First == CHOOSE w \in Worker : TRUE
SharedInit ==
    /\ part \in {"path", "memory", "rag"}
    /\ Init /\ Memory!Init /\ Rag!Init
    /\ \A a \in DOMAIN home : part # "memory" \/ a = t1 => home[a] = First

PathStep   == part = "path" /\ Next /\ UNCHANGED <<part, memoryVars, ragVars>>
MemoryStep == part = "memory" /\ Memory!Next /\ UNCHANGED <<part, pathVars, ragVars>>
RagStep    == part = "rag" /\ Rag!Next /\ UNCHANGED <<part, pathVars, memoryVars>>
SharedNext == PathStep \/ MemoryStep \/ RagStep
SharedSpec == SharedInit /\ [][SharedNext]_<<part, pathVars, memoryVars, ragVars>>

----------------------------------------------------------------------------
(* The properties of the memory and the indexing, stated in their modules;  *)
(* those of the path are used as they stand in MasteryPath.                *)

\* Values of the right kind in the three.
SharedTypeOK ==
    /\ TypeOK
    /\ part = "memory" => Memory!TypeOK
    /\ part = "rag" => Rag!TypeOK
\* A turn is recorded once or given up (record_chat_memory).
RecordedOnce == part = "memory" => Memory!RecordedOnce
\* One synthesis of a learner's memory at a time (_run_synthesize_l3).
OneSynthesis == part = "memory" => Memory!OneSynthesis
\* A synthesis covers what was recorded when it was scheduled
\* (enqueue_synthesize_l3).
SynthesisCoversRequest == Memory!SynthesisCoversRequest
\* An indexed document has the chunks of one job, a deleted one has none and
\* stays deleted (run_index_job, delete_document).
DocumentsConsistent == part = "rag" => Rag!OneGeneration /\ Rag!DeletedForGood
=============================================================================
