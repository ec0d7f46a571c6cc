---------------------------- MODULE LearnerMemory ---------------------------
(***************************************************************************)
(* The memory of one learner: the trace and the fact each finished turn    *)
(* leaves (record_chat_memory), the preferences the learner states, the    *)
(* background synthesis of the L3 slots, and the Redis caches of the text  *)
(* the tutor reads.                                                        *)
(*                                                                         *)
(* A session is one transaction: its writes become visible at the commit.  *)
(* A document is read in one statement and written back whole in another,  *)
(* whose row lock others wait for; no version is compared.                 *)
(***************************************************************************)
EXTENDS Naturals, FiniteSets, Sequences

CONSTANTS
    Turn,         \* finished turns of the learner
    Call,         \* reads of the memory and POST /api/memory/synthesize
    Pref,         \* POST /api/memory/preferences
    Worker,       \* backend processes
    Nobody,
    MaxEntries,   \* MAX_L2_ENTRIES
    MaxAttempts,  \* _PERSIST_MAX_ATTEMPTS, _L3_SYNTHESIZE_MAX_ATTEMPTS
    Faults,       \* may a statement, the LLM or a commit fail?
    LostAcks,     \* may a commit succeed and yet be reported as failed?
    SlowSynthesis \* may a synthesis outlive _L3_LOCK_TTL_SECONDS?

Actor == Turn \cup Call   \* those who ask for a synthesis

MemoryAssumption ==
    /\ Turn \cap Call = {} /\ Nobody \notin Actor
    /\ MaxEntries \in Nat \ {0} /\ MaxAttempts \in Nat \ {0}
    /\ {Faults, LostAcks, SlowSynthesis} \subseteq BOOLEAN

VARIABLES
    traces,   \* committed user_memory_traces rows of each turn
    facts,    \* committed entries of the L2 document of the chat surface
    factLock, \* the turn whose transaction has updated that document
    prefs,    \* committed entries of the L3 preferences document
    prefLock, \* the request whose transaction has updated it
    slots,    \* committed L3 slots, each with the task that wrote it
    slotLock, \* the task whose transaction has updated them
    cache,    \* Redis memory:l3:full:<user> and memory:l3:<user>:<capability>
    lock,     \* Redis lock:jobs:memory:l3:<user>
    sched,    \* _scheduled_tasks of each worker
    home,     \* the worker that serves an actor
    rec,      \* record_chat_memory of each turn
    call,     \* read and synthesize requests
    pref,     \* preference requests
    synth     \* _run_synthesize_l3 tasks, named by the actor that scheduled them

rows  == <<traces, facts, factLock>>
pvars == <<prefs, prefLock, pref>>
svars == <<slots, slotLock>>
vars  == <<rows, pvars, svars, cache, lock, sched, home, rec, call, synth>>

----------------------------------------------------------------------------
Key   == {"full", "capability"}
Slot  == {"recent", "profile"}
Block == [by : [Slot -> Actor \cup {Nobody}], recent : SUBSET Turn, profile : SUBSET Turn, prefs : SUBSET Pref]
NoText == [by |-> [s \in Slot |-> Nobody], recent |-> {}, profile |-> {}, prefs |-> {}]

Range(s) == {s[i] : i \in DOMAIN s}
Entries  == UNION {[1..n -> Turn] : n \in 0..MaxEntries}

TypeOK ==
    /\ traces \in [Turn -> 0..MaxAttempts]
    /\ facts \in Entries
    /\ factLock \in Turn \cup {Nobody}
    /\ prefs \subseteq Pref /\ prefLock \in Pref \cup {Nobody}
    /\ slots \in [Slot -> [by : Actor \cup {Nobody}, of : SUBSET Turn]]
    /\ slotLock \in Actor \cup {Nobody}
    /\ cache \in [Key -> Block \cup {<<>>}]
    /\ lock \in BOOLEAN
    /\ sched \in [Worker -> Actor \cup {Nobody}]
    /\ home \in [Actor -> Worker]
    /\ rec \in [Turn -> [pc : {"idle", "open", "save", "commit", "enqueue", "acquire",
                               "done", "dead"},
                         attempt : 0..MaxAttempts, seen : Entries]]
    /\ call \in [Call -> [pc : {"idle", "get", "read", "set", "enqueue", "acquire", "done"},
                          key : Key, text : Block]]
    /\ pref \in [Pref -> [pc : {"idle", "save", "invalidate", "commit", "done"},
                          seen : SUBSET Pref]]
    /\ synth \in [Actor -> [pc : {"none", "traces", "facts", "recent", "profile", "invalidate",
                                  "cache", "commit", "backoff", "release", "pop", "done"},
                            attempt : 0..MaxAttempts,
                            recent : SUBSET Turn, profile : SUBSET Turn, need : SUBSET Turn]]

NoSynthesis == [pc |-> "none", attempt |-> 0, recent |-> {}, profile |-> {}, need |-> {}]

Init ==
    /\ traces = [t \in Turn |-> 0] /\ facts = <<>> /\ factLock = Nobody
    /\ prefs = {} /\ prefLock = Nobody
    /\ slots = [s \in Slot |-> [by |-> Nobody, of |-> {}]] /\ slotLock = Nobody
    /\ cache = [k \in Key |-> <<>>]
    /\ lock = FALSE
    /\ sched = [w \in Worker |-> Nobody]
    /\ home \in [Actor -> Worker]
    /\ rec = [t \in Turn |-> [pc |-> "idle", attempt |-> 0, seen |-> <<>>]]
    /\ call = [c \in Call |-> [pc |-> "idle", key |-> "full", text |-> NoText]]
    /\ pref = [p \in Pref |-> [pc |-> "idle", seen |-> {}]]
    /\ synth = [a \in Actor |-> NoSynthesis]

Recorded == {t \in Turn : traces[t] > 0}
\* The text read_l3_concat builds from the committed documents.
Content == [by |-> [s \in Slot |-> slots[s].by], recent |-> slots["recent"].of,
            profile |-> slots["profile"].of, prefs |-> prefs]

----------------------------------------------------------------------------
\* enqueue_synthesize_l3

\* A task of this worker that is not done makes the request return False.
LocalPending(w) == sched[w] # Nobody /\ synth[sched[w]].pc # "done"

\* SET NX; the winner creates the task and enters it in _scheduled_tasks.
\* Mutant: the task is scheduled without asking for the lock.
TryAcquireUnasked(a) ==
    /\ lock' = TRUE
    /\ sched' = [sched EXCEPT ![home[a]] = a]
    /\ synth' = [synth EXCEPT ![a] =
                    [NoSynthesis EXCEPT !.pc = "traces", !.attempt = 1, !.need = Recorded]]
TryAcquire(a) ==
    IF lock THEN UNCHANGED <<lock, sched, synth>>
    ELSE /\ lock' = TRUE
         /\ sched' = [sched EXCEPT ![home[a]] = a]
         /\ synth' = [synth EXCEPT ![a] =
                         [NoSynthesis EXCEPT !.pc = "traces", !.attempt = 1, !.need = Recorded]]

----------------------------------------------------------------------------
\* record_chat_memory

TurnCompletes(t) ==
    /\ rec[t].pc = "idle"
    /\ rec' = [rec EXCEPT ![t].pc = "open", ![t].attempt = 1]
    /\ UNCHANGED <<rows, pvars, svars, cache, lock, sched, home, call, synth>>

\* A new session: the trace is inserted, the chat document is read.
EmitTrace(t) ==
    /\ rec[t].pc = "open"
    /\ rec' = [rec EXCEPT ![t].pc = "save", ![t].seen = facts]
    /\ UNCHANGED <<rows, pvars, svars, cache, lock, sched, home, call, synth>>

\* The document is flushed with the fact at its end.
SaveFact(t) ==
    /\ rec[t].pc = "save"
    /\ factLock = Nobody
    /\ factLock' = t
    /\ rec' = [rec EXCEPT ![t].pc = "commit"]
    /\ UNCHANGED <<traces, facts, pvars, svars, cache, lock, sched, home, call, synth>>

\* The newest MAX_L2_ENTRIES entries are kept.
\* Mutant: the bound is tested before the entry is added.
AppendedLate(t) ==
    LET s == rec[t].seen IN
    IF Len(s) > MaxEntries THEN Append(Tail(s), t) ELSE Append(s, t)
Appended(t) ==
    LET s == Append(rec[t].seen, t) IN
    IF Len(s) > MaxEntries THEN Tail(s) ELSE s

\* The attempt is over: the next one, or the dead letter.
NextAttempt(t) ==
    rec' = [rec EXCEPT ![t].pc = IF rec[t].attempt < MaxAttempts THEN "open" ELSE "dead",
                       ![t].attempt = IF @ < MaxAttempts THEN @ + 1 ELSE @,
                       ![t].seen = <<>>]
FactUnlock(t) == factLock' = IF factLock = t THEN Nobody ELSE factLock

CommitTrace(t) ==
    /\ rec[t].pc = "commit"
    /\ traces' = [traces EXCEPT ![t] = @ + 1]
    /\ facts' = Appended(t)
    /\ FactUnlock(t)
    /\ \/ rec' = [rec EXCEPT ![t].pc = "enqueue", ![t].seen = <<>>]
       \/ LostAcks /\ NextAttempt(t)
    /\ UNCHANGED <<pvars, svars, cache, lock, sched, home, call, synth>>

\* Mutant: the trace has been committed on its own.
AttemptFailsHalf(t) ==
    /\ Faults
    /\ rec[t].pc \in {"open", "save", "commit"}
    /\ traces' = [traces EXCEPT ![t] = IF rec[t].pc = "open" THEN @ ELSE @ + 1]
    /\ FactUnlock(t)
    /\ NextAttempt(t)
    /\ UNCHANGED <<facts, pvars, svars, cache, lock, sched, home, call, synth>>
AttemptFails(t) ==
    /\ Faults
    /\ rec[t].pc \in {"open", "save", "commit"}
    /\ FactUnlock(t)
    /\ NextAttempt(t)
    /\ UNCHANGED <<traces, facts, pvars, svars, cache, lock, sched, home, call, synth>>

TurnEnqueue(t) ==
    /\ rec[t].pc = "enqueue"
    /\ rec' = [rec EXCEPT ![t].pc = IF LocalPending(home[t]) THEN "done" ELSE "acquire"]
    /\ UNCHANGED <<rows, pvars, svars, cache, lock, sched, home, call, synth>>

TurnAcquire(t) ==
    /\ rec[t].pc = "acquire"
    /\ rec' = [rec EXCEPT ![t].pc = "done"]
    /\ TryAcquire(t)
    /\ UNCHANGED <<rows, pvars, svars, cache, home, call>>

----------------------------------------------------------------------------
\* read_l3_concat, load_l3_memory_block, POST /synthesize

ReceiveCall(c) ==
    /\ call[c].pc = "idle"
    /\ \/ \E k \in Key : call' = [call EXCEPT ![c].pc = "get", ![c].key = k]
       \/ call' = [call EXCEPT ![c].pc = "enqueue"]
    /\ UNCHANGED <<rows, pvars, svars, cache, lock, sched, home, rec, synth>>

\* The tutor asks for a synthesis when it has no text; GET /l3 does not.
Answered(c, text) ==
    IF call[c].key = "capability" /\ text = NoText THEN "enqueue" ELSE "done"

GetCache(c) ==
    LET hit == cache[call[c].key] IN
    /\ call[c].pc = "get"
    /\ call' = [call EXCEPT ![c].pc = IF hit = <<>> THEN "read" ELSE Answered(c, hit)]
    /\ UNCHANGED <<rows, pvars, svars, cache, lock, sched, home, rec, synth>>

ReadDocuments(c) ==
    /\ call[c].pc = "read"
    /\ call' = [call EXCEPT ![c].pc = "set", ![c].text = Content]
    /\ UNCHANGED <<rows, pvars, svars, cache, lock, sched, home, rec, synth>>

SetCache(c) ==
    /\ call[c].pc = "set"
    /\ cache' = [cache EXCEPT ![call[c].key] = call[c].text]
    /\ call' = [call EXCEPT ![c].pc = Answered(c, call[c].text), ![c].text = NoText]
    /\ UNCHANGED <<rows, pvars, svars, lock, sched, home, rec, synth>>

CallEnqueue(c) ==
    /\ call[c].pc = "enqueue"
    /\ call' = [call EXCEPT ![c].pc = IF LocalPending(home[c]) THEN "done" ELSE "acquire"]
    /\ UNCHANGED <<rows, pvars, svars, cache, lock, sched, home, rec, synth>>

CallAcquire(c) ==
    /\ call[c].pc = "acquire"
    /\ call' = [call EXCEPT ![c].pc = "done"]
    /\ TryAcquire(c)
    /\ UNCHANGED <<rows, pvars, svars, cache, home, rec>>

\* SETEX with 60 and 90 seconds.
ExpireCache(k) ==
    /\ cache[k] # <<>>
    /\ cache' = [cache EXCEPT ![k] = <<>>]
    /\ UNCHANGED <<rows, pvars, svars, lock, sched, home, rec, call, synth>>

----------------------------------------------------------------------------
\* POST /api/memory/preferences

ReceivePreference(p) ==
    /\ pref[p].pc = "idle"
    /\ pref' = [pref EXCEPT ![p].pc = "save", ![p].seen = prefs]
    /\ UNCHANGED <<rows, prefs, prefLock, svars, cache, lock, sched, home, rec, call, synth>>

SavePreference(p) ==
    /\ pref[p].pc = "save"
    /\ prefLock = Nobody
    /\ prefLock' = p
    /\ pref' = [pref EXCEPT ![p].pc = "invalidate"]
    /\ UNCHANGED <<rows, prefs, svars, cache, lock, sched, home, rec, call, synth>>

\* invalidate_l3_read_cache_async; get_db commits after it.
Invalidate(p) ==
    /\ pref[p].pc = "invalidate"
    /\ cache' = [k \in Key |-> <<>>]
    /\ pref' = [pref EXCEPT ![p].pc = "commit"]
    /\ UNCHANGED <<rows, prefs, prefLock, svars, lock, sched, home, rec, call, synth>>

\* A new entry, or one in the place of an entry the client names.
CommitPreference(p) ==
    /\ pref[p].pc = "commit"
    /\ \/ prefs' = pref[p].seen \cup {p}
       \/ \E q \in pref[p].seen : prefs' = (pref[p].seen \ {q}) \cup {p}
       \/ Faults /\ UNCHANGED prefs
    /\ prefLock' = Nobody
    /\ pref' = [pref EXCEPT ![p].pc = "done", ![p].seen = {}]
    /\ UNCHANGED <<rows, svars, cache, lock, sched, home, rec, call, synth>>

----------------------------------------------------------------------------
\* _run_synthesize_l3 and synthesize_l3

Working(a) == synth[a].pc \notin {"none", "pop", "done"}

\* Mutant: the recent activity is taken from the L2 document.
ListTracesFromFacts(a) ==
    /\ synth[a].pc = "traces"
    /\ synth' = [synth EXCEPT ![a].pc = "facts", ![a].recent = Range(facts)]
    /\ UNCHANGED <<rows, pvars, svars, cache, lock, sched, home, rec, call>>
ListTraces(a) ==
    /\ synth[a].pc = "traces"
    /\ synth' = [synth EXCEPT ![a].pc = "facts", ![a].recent = Recorded]
    /\ UNCHANGED <<rows, pvars, svars, cache, lock, sched, home, rec, call>>

\* A later statement, with a later snapshot; the LLM call follows.
ListDocuments(a) ==
    /\ synth[a].pc = "facts"
    /\ synth' = [synth EXCEPT ![a].pc = "recent", ![a].profile = Range(facts)]
    /\ UNCHANGED <<rows, pvars, svars, cache, lock, sched, home, rec, call>>

\* _set_l3_slot flushes the slots one after the other, in one order.
SetRecent(a) ==
    /\ synth[a].pc = "recent"
    /\ slotLock = Nobody
    /\ slotLock' = a
    /\ synth' = [synth EXCEPT ![a].pc = "profile"]
    /\ UNCHANGED <<rows, pvars, slots, cache, lock, sched, home, rec, call>>

SetProfile(a) ==
    /\ synth[a].pc = "profile"
    /\ synth' = [synth EXCEPT ![a].pc = "invalidate"]
    /\ UNCHANGED <<rows, pvars, svars, cache, lock, sched, home, rec, call>>

InvalidateSlots(a) ==
    /\ synth[a].pc = "invalidate"
    /\ cache' = [k \in Key |-> <<>>]
    /\ synth' = [synth EXCEPT ![a].pc = "cache"]
    /\ UNCHANGED <<rows, pvars, svars, lock, sched, home, rec, call>>

\* The merged text holds three slots of the four, and precedes the commit.
CacheSlots(a) ==
    /\ synth[a].pc = "cache"
    /\ cache' = [cache EXCEPT !["full"] =
                    [by |-> [s \in Slot |-> a], recent |-> synth[a].recent,
                     profile |-> synth[a].profile, prefs |-> {}]]
    /\ synth' = [synth EXCEPT ![a].pc = "commit"]
    /\ UNCHANGED <<rows, pvars, svars, lock, sched, home, rec, call>>

\* Mutant: each slot is committed as it is flushed, and the task ends early.
CommitSlotsRecent(a) ==
    /\ synth[a].pc = "commit"
    /\ slots' = [slots EXCEPT !["recent"] = [by |-> a, of |-> synth[a].recent]]
    /\ slotLock' = Nobody
    /\ synth' = [synth EXCEPT ![a].pc = "release"]
    /\ UNCHANGED <<rows, pvars, cache, lock, sched, home, rec, call>>
CommitSlots(a) ==
    /\ synth[a].pc = "commit"
    /\ slots' = [recent |-> [by |-> a, of |-> synth[a].recent],
                 profile |-> [by |-> a, of |-> synth[a].profile]]
    /\ slotLock' = Nobody
    /\ synth' = [synth EXCEPT ![a].pc = "release"]
    /\ UNCHANGED <<rows, pvars, cache, lock, sched, home, rec, call>>

\* Any statement or the commit fails: rollback, and another attempt.
SynthesisFails(a) ==
    /\ Faults
    /\ Working(a) /\ synth[a].pc \notin {"backoff", "release"}
    /\ slotLock' = IF slotLock = a THEN Nobody ELSE slotLock
    /\ synth' = [synth EXCEPT ![a].pc = IF synth[a].attempt < MaxAttempts THEN "backoff" ELSE "release",
                              ![a].attempt = IF @ < MaxAttempts THEN @ + 1 ELSE @,
                              ![a].recent = {}, ![a].profile = {}]
    /\ UNCHANGED <<rows, pvars, slots, cache, lock, sched, home, rec, call>>

Retry(a) ==
    /\ synth[a].pc = "backoff"
    /\ synth' = [synth EXCEPT ![a].pc = "traces"]
    /\ UNCHANGED <<rows, pvars, svars, cache, lock, sched, home, rec, call>>

\* finally: release_job_lock, then the pop of whatever task is entered.
Release(a) ==
    /\ synth[a].pc = "release"
    /\ lock' = FALSE
    /\ synth' = [synth EXCEPT ![a].pc = "pop"]
    /\ UNCHANGED <<rows, pvars, svars, cache, sched, home, rec, call>>

Pop(a) ==
    /\ synth[a].pc = "pop"
    /\ sched' = [sched EXCEPT ![home[a]] = Nobody]
    /\ synth' = [synth EXCEPT ![a] = [NoSynthesis EXCEPT !.pc = "done"]]
    /\ UNCHANGED <<rows, pvars, svars, cache, lock, home, rec, call>>

\* SET ... EX: unless SlowSynthesis, no task works that long.
ExpireLock ==
    /\ lock
    /\ SlowSynthesis \/ \A a \in Actor : ~Working(a)
    /\ lock' = FALSE
    /\ UNCHANGED <<rows, pvars, svars, cache, sched, home, rec, call, synth>>

----------------------------------------------------------------------------
TurnStep(t) ==
    EmitTrace(t) \/ SaveFact(t) \/ CommitTrace(t) \/ TurnEnqueue(t) \/ TurnAcquire(t)
CallStep(c) ==
    GetCache(c) \/ ReadDocuments(c) \/ SetCache(c) \/ CallEnqueue(c) \/ CallAcquire(c)
PrefStep(p) == SavePreference(p) \/ Invalidate(p) \/ CommitPreference(p)
SynthStep(a) ==
    \/ ListTraces(a) \/ ListDocuments(a) \/ SetRecent(a) \/ SetProfile(a)
    \/ InvalidateSlots(a) \/ CacheSlots(a) \/ CommitSlots(a) \/ Retry(a)
    \/ Release(a) \/ Pop(a)

Next ==
    \/ \E t \in Turn : TurnCompletes(t) \/ TurnStep(t) \/ AttemptFails(t)
    \/ \E c \in Call : ReceiveCall(c) \/ CallStep(c)
    \/ \E p \in Pref : ReceivePreference(p) \/ PrefStep(p)
    \/ \E a \in Actor : SynthStep(a) \/ SynthesisFails(a)
    \/ \E k \in Key : ExpireCache(k)
    \/ ExpireLock

Spec == Init /\ [][Next]_vars

\* Every coroutine that is ready runs, every awaited statement returns; the
\* time to live of a key is not counted on.
FairSpec ==
    /\ Spec
    /\ \A t \in Turn : WF_vars(TurnStep(t))
    /\ \A c \in Call : WF_vars(CallStep(c))
    /\ \A p \in Pref : WF_vars(PrefStep(p))
    /\ \A a \in Actor : WF_vars(SynthStep(a))

----------------------------------------------------------------------------
(* Properties.                                                             *)

\* One synthesis of a learner's memory at a time, over all workers: the
\* local table is only a shortcut, the Redis lock decides, and a task whose
\* entry another one popped does not let a third in
\* (enqueue_synthesize_l3, _run_synthesize_l3).
OneSynthesis == \A a, b \in Actor : Working(a) /\ Working(b) => a = b

\* The slots are never a mixture of two syntheses, even when the lock has
\* expired and two run, and neither is a text in the shared caches: the slots
\* are written in one transaction and read in one statement (synthesize_l3,
\* read_l3_concat).
SlotsOfOneSynthesis ==
    /\ slots["recent"].by = slots["profile"].by
    /\ \A k \in Key : cache[k] # <<>> => cache[k].by["recent"] = cache[k].by["profile"]

\* A synthesis covers what was recorded when it was scheduled: the turn that
\* asked for it is in the slots it commits, whatever attempt succeeds.
SynthesisCoversRequest ==
    [][\A a \in Actor :
         slots'["recent"].by = a /\ slots["recent"].by # a => synth[a].need \subseteq slots'["recent"].of]_vars

\* A turn's memory is recorded once, or given up for a dead letter and not
\* recorded at all: trace and fact together (record_chat_memory's retries).
RecordedOnce ==
    \A t \in Turn :
        /\ rec[t].pc \in {"enqueue", "acquire", "done"} => traces[t] = 1
        /\ rec[t].pc \in {"open", "save", "commit", "dead"} => traces[t] = 0
        /\ \A i, j \in DOMAIN facts : facts[i] = facts[j] => i = j
        /\ Range(facts) \subseteq Recorded

\* The lock of the synthesis is given back after at most MaxAttempts
\* attempts, without its time to live.
LockFreed == []<>~lock
=============================================================================
