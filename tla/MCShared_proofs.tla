--------------------------- MODULE MCShared_proofs ---------------------------
(***************************************************************************)
(* The components of MCShared keep their promises beside each other: what  *)
(* MasteryPath_proofs, LearnerMemory_proofs and RagIndexing_proofs show of *)
(* one holds where the others run too, for every value of the constants.   *)
(*                                                                         *)
(* A component of MCShared and that of its proofs are two instances of one *)
(* module: a step of the one is a step of the other when both are expanded.*)
(***************************************************************************)
EXTENDS MCShared, MasteryPath_proofs, TLAPS

MemP == INSTANCE LearnerMemory_proofs
RagP == INSTANCE RagIndexing_proofs WITH lock <- docLock, req <- index

----------------------------------------------------------------------------
\* The documents.
LEMMA RagNext == Rag!Next => RagP!Next
  BY DEF
     Rag!TaskAt, Rag!NoDelete, Rag!ReceiveIndex, Rag!CreateJob, Rag!Schedule, Rag!CommitRequest,
     Rag!TakeLock, Rag!Load, Rag!UpdateDocument, Rag!RollBack, Rag!Fail, Rag!DatabaseError,
     Rag!Parse, Rag!ChunkAndEmbed, Rag!DeleteStart, Rag!JobsRemoved, Rag!DeleteRows, Rag!Insert,
     Rag!Finish, Rag!Commit, Rag!ReleaseLock, Rag!ReceiveDelete, Rag!DelAbort, Rag!DelStart,
     Rag!DelRows, Rag!DelUpdate, Rag!DelFile, Rag!DelCommit, Rag!BreakDeadlock, Rag!Working,
     Rag!ExpireLock, Rag!Die, Rag!RequestStep, Rag!TaskStep, Rag!DelStep, Rag!Next, RagP!TaskAt,
     RagP!NoDelete, RagP!ReceiveIndex, RagP!CreateJob, RagP!Schedule, RagP!CommitRequest,
     RagP!TakeLock, RagP!Load, RagP!UpdateDocument, RagP!RollBack, RagP!Fail, RagP!DatabaseError,
     RagP!Parse, RagP!ChunkAndEmbed, RagP!DeleteStart, RagP!JobsRemoved, RagP!DeleteRows,
     RagP!Insert, RagP!Finish, RagP!Commit, RagP!ReleaseLock, RagP!ReceiveDelete, RagP!DelAbort,
     RagP!DelStart, RagP!DelRows, RagP!DelUpdate, RagP!DelFile, RagP!DelCommit, RagP!BreakDeadlock,
     RagP!Working, RagP!ExpireLock, RagP!Die, RagP!RequestStep, RagP!TaskStep, RagP!DelStep,
     RagP!Next

\* The invariant of the indexing, in the composed specification.
LEMMA RagInvariant ==
    /\ SharedInit => RagP!Inv
    /\ RagP!Inv /\ [SharedNext]_<<part, pathVars, memoryVars, ragVars>> => RagP!Inv'
<1>1. RagP!RagAssumption
  BY SharedAssumption DEF Rag!RagAssumption, RagP!RagAssumption
<1>2. SharedInit => RagP!Init
  BY DEF SharedInit, Rag!Init, RagP!Init, Rag!TaskAt, RagP!TaskAt, Rag!NoDelete, RagP!NoDelete
<1>3. RagP!Init => RagP!Inv
  BY <1>1, RagP!InvInitially
<1>4. RagP!Inv /\ [RagP!Next]_(RagP!vars) => RagP!Inv'
  BY <1>1, RagP!InvStep
<1>5. [SharedNext]_<<part, pathVars, memoryVars, ragVars>> => [RagP!Next]_(RagP!vars)
  BY RagNext DEF SharedNext, PathStep, MemoryStep, RagStep, ragVars, RagP!vars
<1>6. QED
  BY <1>2, <1>3, <1>4, <1>5

\* An indexed document has the chunks of one job and a deleted one is never an
\* indexed one (run_index_job, delete_document).
THEOREM DocumentsConsistentHolds == SharedSpec => []DocumentsConsistent
<1>1. RagP!Inv => DocumentsConsistent
  <2>1. RagP!RagAssumption
    BY SharedAssumption DEF Rag!RagAssumption, RagP!RagAssumption
  <2>2. RagP!Inv => RagP!OneGeneration /\ RagP!DeletedForGood
    BY <2>1, RagP!InvSuffices
  <2>3. RagP!OneGeneration => Rag!OneGeneration
    BY DEF RagP!OneGeneration, Rag!OneGeneration, RagP!Cardinality, Rag!Cardinality,
           RagP!IsFiniteSet, Rag!IsFiniteSet
  <2>4. RagP!DeletedForGood => Rag!DeletedForGood
    BY DEF RagP!DeletedForGood, Rag!DeletedForGood
  <2>5. QED
    BY <2>2, <2>3, <2>4 DEF DocumentsConsistent
<1>2. QED
  BY <1>1, RagInvariant, PTL DEF SharedSpec

----------------------------------------------------------------------------
\* The memory.
LEMMA MemoryNext == Memory!Next => MemP!Next
  BY DEF
     Memory!rows, Memory!pvars, Memory!svars, Memory!Key, Memory!Slot, Memory!Range, Memory!NoText,
     Memory!NoSynthesis, Memory!Recorded, Memory!Content, Memory!LocalPending, Memory!TryAcquire,
     Memory!TurnCompletes, Memory!EmitTrace, Memory!SaveFact, Memory!Appended, Memory!NextAttempt,
     Memory!FactUnlock, Memory!CommitTrace, Memory!AttemptFails, Memory!TurnEnqueue,
     Memory!TurnAcquire, Memory!ReceiveCall, Memory!Answered, Memory!GetCache,
     Memory!ReadDocuments, Memory!SetCache, Memory!CallEnqueue, Memory!CallAcquire,
     Memory!ExpireCache, Memory!ReceivePreference, Memory!SavePreference, Memory!Invalidate,
     Memory!CommitPreference, Memory!Working, Memory!ListTraces, Memory!ListDocuments,
     Memory!SetRecent, Memory!SetProfile, Memory!InvalidateSlots, Memory!CacheSlots,
     Memory!CommitSlots, Memory!SynthesisFails, Memory!Retry, Memory!Release, Memory!Pop,
     Memory!ExpireLock, Memory!TurnStep, Memory!CallStep, Memory!PrefStep, Memory!SynthStep,
     Memory!Next, MemP!rows, MemP!pvars, MemP!svars, MemP!Key, MemP!Slot, MemP!Range, MemP!NoText,
     MemP!NoSynthesis, MemP!Recorded, MemP!Content, MemP!LocalPending, MemP!TryAcquire,
     MemP!TurnCompletes, MemP!EmitTrace, MemP!SaveFact, MemP!Appended, MemP!NextAttempt,
     MemP!FactUnlock, MemP!CommitTrace, MemP!AttemptFails, MemP!TurnEnqueue, MemP!TurnAcquire,
     MemP!ReceiveCall, MemP!Answered, MemP!GetCache, MemP!ReadDocuments, MemP!SetCache,
     MemP!CallEnqueue, MemP!CallAcquire, MemP!ExpireCache, MemP!ReceivePreference,
     MemP!SavePreference, MemP!Invalidate, MemP!CommitPreference, MemP!Working, MemP!ListTraces,
     MemP!ListDocuments, MemP!SetRecent, MemP!SetProfile, MemP!InvalidateSlots, MemP!CacheSlots,
     MemP!CommitSlots, MemP!SynthesisFails, MemP!Retry, MemP!Release, MemP!Pop, MemP!ExpireLock,
     MemP!TurnStep, MemP!CallStep, MemP!PrefStep, MemP!SynthStep, MemP!Next, Memory!Actor,
     MemP!Actor

\* A step of the composition is one of the learner memory or none,
LEMMA MemoryStepOrStutter ==
    [SharedNext]_<<part, pathVars, memoryVars, ragVars>> => [MemP!Next]_(MemP!vars)
  BY MemoryNext DEF SharedNext, PathStep, MemoryStep, RagStep, memoryVars, MemP!vars, MemP!rows, MemP!pvars,
     MemP!svars

\* it starts where the memory starts,
LEMMA MemoryInitially == SharedInit => MemP!Init
  BY DEF SharedInit, Memory!Init, MemP!Init, Memory!Slot, MemP!Slot, Memory!Key, MemP!Key, Memory!Actor, MemP!Actor,
         Memory!NoText, MemP!NoText, Memory!NoSynthesis, MemP!NoSynthesis

\* its constants are what the memory assumes,
LEMMA MemoryAssumed == MemP!MemoryAssumption
  BY SharedAssumption DEF Memory!MemoryAssumption, MemP!MemoryAssumption, Memory!Actor, MemP!Actor

\* A turn's trace and fact are recorded once, or not at all, unless a commit
\* that succeeded is reported as failed (record_chat_memory).
THEOREM RecordedOnceHolds == ASSUME ~LostAcks PROVE SharedSpec => []RecordedOnce
<1>1. SharedInit => MemP!RecordInv
  BY MemoryAssumed, MemoryInitially, MemP!RecordInvInitially
<1>2. MemP!RecordInv /\ [SharedNext]_<<part, pathVars, memoryVars, ragVars>> => MemP!RecordInv'
  BY MemoryAssumed, MemoryStepOrStutter, MemP!RecordInvStep
<1>3. MemP!RecordInv => RecordedOnce
  <2>1. MemP!RecordInv => MemP!RecordedOnce
    BY MemP!RecordInvSuffices
  <2>2. QED
    BY <2>1 DEF RecordedOnce, MemP!RecordedOnce, Memory!RecordedOnce, MemP!Recorded, Memory!Recorded,
                MemP!Range, Memory!Range
<1>4. QED
  BY <1>1, <1>2, <1>3, PTL DEF SharedSpec

\* One synthesis at a time, unless one outlives its lock (_run_synthesize_l3).
THEOREM OneSynthesisHolds == ASSUME ~SlowSynthesis PROVE SharedSpec => []OneSynthesis
<1>1. SharedInit => MemP!LockInv
  BY MemoryAssumed, MemoryInitially, MemP!LockInvInitially
<1>2. MemP!LockInv /\ [SharedNext]_<<part, pathVars, memoryVars, ragVars>> => MemP!LockInv'
  BY MemoryAssumed, MemoryStepOrStutter, MemP!LockInvStep
<1>3. MemP!LockInv => OneSynthesis
  BY DEF MemP!LockInv, OneSynthesis, MemP!OneSynthesis, Memory!OneSynthesis, MemP!Working, Memory!Working,
         MemP!Actor, Memory!Actor
<1>4. QED
  BY <1>1, <1>2, <1>3, PTL DEF SharedSpec

\* and the memory's invariant holds in it.
LEMMA MemoryInvariant ==
    /\ SharedInit => MemP!Inv
    /\ MemP!Inv /\ [SharedNext]_<<part, pathVars, memoryVars, ragVars>> => MemP!Inv'
  BY MemoryAssumed, MemoryInitially, MemoryStepOrStutter, MemP!InvInitially, MemP!InvStep

\* A synthesis covers what was recorded when it was scheduled, whatever
\* attempt succeeds (enqueue_synthesize_l3).
THEOREM SynthesisCoversRequestHolds == SharedSpec => SynthesisCoversRequest
<1>1. MemP!Inv /\ [SharedNext]_<<part, pathVars, memoryVars, ragVars>>
        => [MemP!Covers]_(Memory!vars)
  <2>1. MemP!vars = Memory!vars
    BY DEF MemP!vars, MemP!rows, MemP!pvars, MemP!svars, Memory!vars, Memory!rows, Memory!pvars, Memory!svars
  <2>2. QED
    BY <2>1, MemoryAssumed, MemoryStepOrStutter, MemP!CoversStep
<1>2. QED
  BY <1>1, MemoryInvariant, PTL DEF SharedSpec, SynthesisCoversRequest, Memory!SynthesisCoversRequest, MemP!Covers,
     Memory!Actor, MemP!Actor

----------------------------------------------------------------------------
\* Every variable of the three keeps its type.
THEOREM SharedTypes == SharedSpec => []SharedTypeOK
<1>1. SharedInit => Inv
  BY InitInv DEF SharedInit
<1>2. Inv /\ [SharedNext]_<<part, pathVars, memoryVars, ragVars>> => Inv'
  <2>1. [SharedNext]_<<part, pathVars, memoryVars, ragVars>> => [Next]_vars
    BY DEF SharedNext, PathStep, MemoryStep, RagStep, pathVars, vars
  <2>2. QED
    BY <2>1, NextInv
<1>3. Inv /\ MemP!Inv /\ RagP!Inv => SharedTypeOK
  <2>1. Inv => TypeOK
    BY DEF Inv
  <2>2. MemP!Inv => MemP!TypeOK
    BY MemP!InvSuffices
  <2>3. RagP!Inv => RagP!TypeOK
    BY SharedAssumption, RagP!InvSuffices DEF Rag!RagAssumption, RagP!RagAssumption
  <2>4. MemP!TypeOK => Memory!TypeOK
    BY DEF MemP!TypeOK, Memory!TypeOK, MemP!Entries, Memory!Entries, MemP!Actor, Memory!Actor, MemP!Slot,
       Memory!Slot,
           MemP!Key, Memory!Key, MemP!Block, Memory!Block
  <2>5. RagP!TypeOK => Rag!TypeOK
    BY DEF RagP!TypeOK, Rag!TypeOK, RagP!DocRow, Rag!DocRow, RagP!JobState, Rag!JobState, RagP!Progress,
       Rag!Progress,
           RagP!RequestState, Rag!RequestState, RagP!TaskSt, Rag!TaskSt, RagP!TaskPC, Rag!TaskPC, RagP!DelSt, Rag!DelSt
  <2>6. QED
    BY <2>1, <2>2, <2>3, <2>4, <2>5 DEF SharedTypeOK
<1>4. QED
  BY <1>1, <1>2, <1>3, MemoryInvariant, RagInvariant, PTL DEF SharedSpec
=============================================================================
