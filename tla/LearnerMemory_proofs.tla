------------------------ MODULE LearnerMemory_proofs ------------------------
(***************************************************************************)
(* A learner's memory is kept consistent by transactions and by one lock   *)
(* in Redis: for any number of turns, reads, preferences, workers, retries *)
(* and entries.                                                            *)
(***************************************************************************)
EXTENDS LearnerMemory, TLAPS

\* The conjuncts of TypeOK, by the actions that touch them.
RecSt   == [pc : {"idle", "open", "save", "commit", "enqueue", "acquire", "done", "dead"},
            attempt : 0..MaxAttempts, seen : Entries]
CallSt  == [pc : {"idle", "get", "read", "set", "enqueue", "acquire", "done"},
            key : Key, text : Block]
PrefSt  == [pc : {"idle", "save", "invalidate", "commit", "done"}, seen : SUBSET Pref]
SynthSt == [pc : {"none", "traces", "facts", "recent", "profile", "invalidate",
                  "cache", "commit", "backoff", "release", "pop", "done"},
            attempt : 0..MaxAttempts,
            recent : SUBSET Turn, profile : SUBSET Turn, need : SUBSET Turn]
SlotSt  == [by : Actor \cup {Nobody}, of : SUBSET Turn]

TypeRec ==
    /\ traces \in [Turn -> 0..MaxAttempts] /\ facts \in Entries
    /\ factLock \in Turn \cup {Nobody} /\ rec \in [Turn -> RecSt]
TypePref == prefs \subseteq Pref /\ prefLock \in Pref \cup {Nobody} /\ pref \in [Pref -> PrefSt]
TypeSynth ==
    /\ slots \in [Slot -> SlotSt] /\ slotLock \in Actor \cup {Nobody}
    /\ lock \in BOOLEAN /\ sched \in [Worker -> Actor \cup {Nobody}] /\ home \in [Actor -> Worker]
    /\ synth \in [Actor -> SynthSt]
TypeText == cache \in [Key -> Block \cup {<<>>}] /\ call \in [Call -> CallSt]

\* TypeOK, by the parts of the state that different operations touch.
LEMMA TypeParts == TypeOK <=> TypeRec /\ TypePref /\ TypeSynth /\ TypeText
  BY DEF TypeOK, TypeRec, TypePref, TypeSynth, TypeText, RecSt, CallSt, PrefSt, SynthSt, SlotSt

\* An attempt has committed its trace at most once: those reported as failed
\* although they had, and no more.
Attempts ==
    \A t \in Turn :
      /\ rec[t].pc = "idle" => traces[t] = 0
      /\ rec[t].pc \in {"open", "save", "commit"} => traces[t] < rec[t].attempt

\* Every text, committed, cached or on its way, has the slots of one task.
Texts ==
    /\ slots["recent"].by = slots["profile"].by
    /\ \A k \in Key : cache[k] # <<>> => cache[k].by["recent"] = cache[k].by["profile"]
    /\ \A c \in Call : call[c].text.by["recent"] = call[c].text.by["profile"]

\* What a synthesis has to cover is recorded, and among what it has read.
Needs ==
    \A a \in Actor :
      /\ synth[a].need \subseteq Recorded
      /\ synth[a].pc \in {"facts", "recent", "profile", "invalidate", "cache", "commit"} =>
            synth[a].need \subseteq synth[a].recent

Inv == TypeRec /\ TypePref /\ TypeSynth /\ TypeText /\ Attempts /\ Texts /\ Needs

----------------------------------------------------------------------------
\* The lists of entries are the short sequences.
LEMMA EntryLists ==
    ASSUME MemoryAssumption
    PROVE  /\ \A s \in Entries : s \in Seq(Turn) /\ Len(s) <= MaxEntries
           /\ \A s \in Seq(Turn) : Len(s) <= MaxEntries => s \in Entries
           /\ <<>> \in Entries
<1>1. MaxEntries \in Nat
  BY DEF MemoryAssumption
<1>2. ASSUME NEW s \in Entries PROVE s \in Seq(Turn) /\ Len(s) <= MaxEntries
  <2>1. PICK n \in 0..MaxEntries : s \in [1..n -> Turn]
    BY DEF Entries
  <2>2. s \in Seq(Turn) /\ Len(s) = n
    BY <1>1, <2>1
  <2>3. QED
    BY <1>1, <2>2
<1>3. ASSUME NEW s \in Seq(Turn), Len(s) <= MaxEntries PROVE s \in Entries
  <2>1. Len(s) \in 0..MaxEntries /\ s \in [1..Len(s) -> Turn]
    BY <1>1, <1>3
  <2>2. QED
    BY <2>1 DEF Entries
<1>4. <<>> \in Entries
  <2> DEFINE s == <<>>
  <2>1. s \in Seq(Turn) /\ Len(s) <= MaxEntries
    BY <1>1
  <2>2. QED
    BY <1>3, <2>1
<1>5. QED
  BY <1>2, <1>3, <1>4

\* The list an attempt saves: the entries it read and the turn itself, the
\* oldest dropped if there are too many.
LEMMA AppendedList ==
    ASSUME MemoryAssumption, TypeRec, NEW t \in Turn
    PROVE  /\ Appended(t) \in Entries
           /\ Range(Appended(t)) \subseteq Range(rec[t].seen) \cup {t}
           /\ t \notin Range(rec[t].seen) /\ (\A i, j \in DOMAIN rec[t].seen : rec[t].seen[i] = rec[t].seen[j] => i = j)
              => \A i, j \in DOMAIN Appended(t) : Appended(t)[i] = Appended(t)[j] => i = j
<1> DEFINE old == rec[t].seen
           s == Append(old, t)
<1>1. old \in Seq(Turn) /\ Len(old) <= MaxEntries /\ MaxEntries \in Nat \ {0}
  BY EntryLists DEF TypeRec, RecSt, MemoryAssumption
<1>2. /\ s \in Seq(Turn) /\ Len(s) = Len(old) + 1
      /\ \A i \in 1..Len(old) : s[i] = old[i]
      /\ s[Len(s)] = t
  BY <1>1
<1> DEFINE app == Appended(t)
<1>3. PICK k \in 0..1 : /\ app \in Seq(Turn) /\ Len(app) = Len(s) - k /\ Len(app) <= MaxEntries
                        /\ \A i \in 1..Len(app) : app[i] = s[i + k]
  <2>1. CASE Len(s) > MaxEntries
    <3>1. app = Tail(s)
      BY <2>1 DEF Appended
    <3>2. /\ app \in Seq(Turn) /\ Len(app) = Len(s) - 1 /\ Len(app) <= MaxEntries
          /\ \A i \in 1..Len(app) : app[i] = s[i + 1]
      BY <1>1, <1>2, <3>1
    <3>3. QED
      BY <3>2
  <2>2. CASE ~(Len(s) > MaxEntries)
    <3>1. app = s
      BY <2>2 DEF Appended
    <3>2. /\ app \in Seq(Turn) /\ Len(app) = Len(s) - 0 /\ Len(app) <= MaxEntries
          /\ \A i \in 1..Len(app) : app[i] = s[i + 0]
      BY <1>1, <1>2, <2>2, <3>1
    <3>3. QED
      BY <3>2
  <2>3. QED
    BY <2>1, <2>2
<1>4. app \in Entries
  BY <1>3, EntryLists
<1> HIDE DEF s, app
<1>5. \A i \in DOMAIN app : i \in 1..Len(app) /\ i + k \in 1..Len(s)
  BY <1>1, <1>2, <1>3
<1>6. ASSUME NEW i \in DOMAIN app
      PROVE  app[i] = s[i + k] /\ (i + k \in 1..Len(old) \/ (i + k = Len(s) /\ app[i] = t))
  BY <1>1, <1>2, <1>3, <1>5
<1>7. DOMAIN old = 1..Len(old)
  BY <1>1
<1>8. Range(app) \subseteq Range(old) \cup {t}
  BY <1>2, <1>6, <1>7 DEF Range
<1>9. ASSUME t \notin Range(old), \A i, j \in DOMAIN old : old[i] = old[j] => i = j,
             NEW i \in DOMAIN app, NEW j \in DOMAIN app, app[i] = app[j]
      PROVE  i = j
  <2>1. \A m \in 1..Len(old) : old[m] # t
    BY <1>7, <1>9 DEF Range
  <2>2. i + k = j + k
    BY SMTT(30), <1>2, <1>6, <1>7, <1>9, <2>1
  <2>3. QED
    BY <1>3, <1>5, <2>2
<1>10. QED
  BY <1>4, <1>8, <1>9 DEF app

----------------------------------------------------------------------------
\* The attempts to record a turn.
RecordStep(t) ==
    \/ TurnCompletes(t) \/ EmitTrace(t) \/ SaveFact(t) \/ CommitTrace(t) \/ TurnEnqueue(t)
    \/ TurnAcquire(t) \/ AttemptFails(t)

\* Only record_chat_memory writes a trace row or moves its attempts.
LEMMA OthersRecordNothing ==
    ASSUME [Next]_vars
    PROVE  UNCHANGED <<rows, rec>> \/ \E t \in Turn : RecordStep(t)
<1>1. ASSUME NEW c \in Call, ReceiveCall(c) \/ CallStep(c) PROVE UNCHANGED <<rows, rec>>
  BY <1>1 DEF ReceiveCall, CallStep, GetCache, ReadDocuments, SetCache, CallEnqueue, CallAcquire
<1>2. ASSUME NEW p \in Pref, ReceivePreference(p) \/ PrefStep(p) PROVE UNCHANGED <<rows, rec>>
  BY <1>2 DEF ReceivePreference, PrefStep, SavePreference, Invalidate, CommitPreference
<1>3. ASSUME NEW a \in Actor, SynthStep(a) \/ SynthesisFails(a) PROVE UNCHANGED <<rows, rec>>
  BY <1>3 DEF SynthStep, ListTraces, ListDocuments, SetRecent, SetProfile, InvalidateSlots, CacheSlots,
              CommitSlots, Retry, Release, Pop, SynthesisFails
<1>4. CASE (\E k \in Key : ExpireCache(k)) \/ ExpireLock \/ UNCHANGED vars
  BY <1>4 DEF ExpireCache, ExpireLock, vars
<1>5. QED
  BY <1>1, <1>2, <1>3, <1>4 DEF Next, TurnStep, RecordStep

\* What a step of turn t makes of its record.
LEMMA RecordMoves ==
    ASSUME MemoryAssumption, TypeRec, Attempts, NEW t \in Turn, RecordStep(t)
    PROVE  \E r \in RecSt, n \in 0..MaxAttempts :
             /\ rec' = [rec EXCEPT ![t] = r] /\ traces' = [traces EXCEPT ![t] = n]
             /\ \/ /\ rec[t].pc = "idle" /\ r.pc = "open" /\ r.attempt = 1 /\ n = traces[t] /\ facts' = facts
                \/ /\ rec[t].pc = "open" /\ r.pc = "save" /\ r.seen = facts
                   /\ r.attempt = rec[t].attempt /\ n = traces[t] /\ facts' = facts
                \/ /\ rec[t].pc = "save" /\ r.pc = "commit" /\ r.seen = rec[t].seen
                   /\ r.attempt = rec[t].attempt /\ n = traces[t] /\ facts' = facts
                \/ /\ rec[t].pc = "commit" /\ n = traces[t] + 1 /\ facts' = Appended(t)
                   /\ r.pc = "enqueue" \/ (LostAcks /\ r.pc = "open" /\ r.attempt = rec[t].attempt + 1)
                                       \/ (LostAcks /\ r.pc = "dead")
                \/ /\ rec[t].pc \in {"open", "save", "commit"} /\ n = traces[t] /\ facts' = facts
                   /\ (r.pc = "open" /\ r.attempt = rec[t].attempt + 1) \/ r.pc = "dead"
                \/ /\ rec[t].pc \in {"enqueue", "acquire"} /\ r.pc \in {"acquire", "done"}
                   /\ n = traces[t] /\ facts' = facts
             /\ factLock' \in Turn \cup {Nobody}
<1>1. /\ traces \in [Turn -> 0..MaxAttempts] /\ rec \in [Turn -> RecSt] /\ rec[t] \in RecSt
      /\ facts \in Entries /\ traces[t] \in 0..MaxAttempts
      /\ factLock \in Turn \cup {Nobody} /\ MaxAttempts \in Nat \ {0} /\ 1 \in 0..MaxAttempts
  BY DEF TypeRec, MemoryAssumption
<1>2. <<>> \in Entries /\ traces = [traces EXCEPT ![t] = traces[t]]
  BY <1>1, EntryLists
<1>3. CASE TurnCompletes(t)
  <2>1. rec' = [rec EXCEPT ![t] = [rec[t] EXCEPT !.pc = "open", !.attempt = 1]]
    BY <1>1, <1>3 DEF TurnCompletes, RecSt
  <2> DEFINE r == [rec[t] EXCEPT !.pc = "open", !.attempt = 1]
  <2>2. r \in RecSt /\ r.pc = "open" /\ r.attempt = 1
    BY <1>1 DEF RecSt
  <2> HIDE DEF r
  <2>3. QED
    BY <1>1, <1>2, <1>3, <2>1, <2>2 DEF TurnCompletes, rows, r
<1>4. CASE EmitTrace(t)
  <2>1. rec' = [rec EXCEPT ![t] = [rec[t] EXCEPT !.pc = "save", !.seen = facts]]
    BY <1>1, <1>4 DEF EmitTrace, RecSt
  <2> DEFINE r == [rec[t] EXCEPT !.pc = "save", !.seen = facts]
  <2>2. r \in RecSt /\ r.pc = "save" /\ r.seen = facts /\ r.attempt = rec[t].attempt
    BY <1>1 DEF RecSt
  <2> HIDE DEF r
  <2>3. QED
    BY <1>1, <1>2, <1>4, <2>1, <2>2 DEF EmitTrace, rows, r
<1>5. CASE SaveFact(t)
  <2>1. rec' = [rec EXCEPT ![t] = [rec[t] EXCEPT !.pc = "commit"]]
    BY <1>1, <1>5 DEF SaveFact, RecSt
  <2> DEFINE r == [rec[t] EXCEPT !.pc = "commit"]
  <2>2. r \in RecSt /\ r.pc = "commit" /\ r.seen = rec[t].seen /\ r.attempt = rec[t].attempt
    BY <1>1 DEF RecSt
  <2> HIDE DEF r
  <2>3. QED
    BY <1>1, <1>2, <1>5, <2>1, <2>2 DEF SaveFact, r
\* Lost acknowledgements and failures take the same way on.
<1>6. ASSUME NextAttempt(t), rec[t].pc \in {"open", "save", "commit"}
      PROVE  \E r \in RecSt : /\ rec' = [rec EXCEPT ![t] = r]
                              /\ (r.pc = "open" /\ r.attempt = rec[t].attempt + 1) \/ r.pc = "dead"
  <2> DEFINE pc == IF rec[t].attempt < MaxAttempts THEN "open" ELSE "dead"
             n  == IF rec[t].attempt < MaxAttempts THEN rec[t].attempt + 1 ELSE rec[t].attempt
             r  == [rec[t] EXCEPT !.pc = pc, !.attempt = n, !.seen = <<>>]
  <2>1. rec' = [rec EXCEPT ![t] = r]
    BY <1>1, <1>6 DEF NextAttempt, RecSt
  <2>2. rec[t].attempt \in 0..MaxAttempts
    BY <1>1 DEF RecSt
  <2>3. /\ n \in 0..MaxAttempts /\ pc \in {"open", "dead"}
        /\ (pc = "open" /\ n = rec[t].attempt + 1) \/ pc = "dead"
    BY <1>1, <2>2
  <2> HIDE DEF pc, n
  <2>4. r \in RecSt /\ r.pc = pc /\ r.attempt = n
    BY <1>1, <1>2, <2>3 DEF RecSt
  <2>5. QED
    BY <2>1, <2>3, <2>4
<1>7. CASE CommitTrace(t)
  <2>1. traces[t] + 1 \in 0..MaxAttempts
    BY <1>1, <1>7 DEF CommitTrace, Attempts, RecSt
  <2>2. /\ rec[t].pc = "commit" /\ traces' = [traces EXCEPT ![t] = traces[t] + 1]
        /\ facts' = Appended(t) /\ factLock' \in Turn \cup {Nobody}
    BY <1>1, <1>7 DEF CommitTrace, FactUnlock
  <2>3. CASE rec' = [rec EXCEPT ![t].pc = "enqueue", ![t].seen = <<>>]
    <3> DEFINE r == [rec[t] EXCEPT !.pc = "enqueue", !.seen = <<>>]
    <3>1. rec' = [rec EXCEPT ![t] = r]
      BY <1>1, <2>3 DEF RecSt
    <3>2. r \in RecSt /\ r.pc = "enqueue"
      BY <1>1, <1>2 DEF RecSt
    <3> HIDE DEF r
    <3>3. QED
      BY <2>1, <2>2, <3>1, <3>2
  <2>4. CASE LostAcks /\ NextAttempt(t)
    <3>1. PICK r \in RecSt : /\ rec' = [rec EXCEPT ![t] = r]
                             /\ (r.pc = "open" /\ r.attempt = rec[t].attempt + 1) \/ r.pc = "dead"
      BY <1>6, <2>2, <2>4
    <3>2. QED
      BY <2>1, <2>2, <2>4, <3>1
  <2>5. QED
    BY <1>7, <2>3, <2>4 DEF CommitTrace
<1>8. CASE AttemptFails(t)
  <2>1. PICK r \in RecSt : /\ rec' = [rec EXCEPT ![t] = r]
                           /\ (r.pc = "open" /\ r.attempt = rec[t].attempt + 1) \/ r.pc = "dead"
    BY <1>6, <1>8 DEF AttemptFails
  <2>2. /\ rec[t].pc \in {"open", "save", "commit"} /\ traces' = [traces EXCEPT ![t] = traces[t]]
        /\ facts' = facts /\ factLock' \in Turn \cup {Nobody}
    BY <1>1, <1>2, <1>8 DEF AttemptFails, FactUnlock
  <2>3. QED
    BY <1>1, <2>1, <2>2
<1>9. CASE TurnEnqueue(t) \/ TurnAcquire(t)
  <2>1. PICK pc \in {"acquire", "done"} : rec' = [rec EXCEPT ![t] = [rec[t] EXCEPT !.pc = pc]]
    BY <1>1, <1>9 DEF TurnEnqueue, TurnAcquire, RecSt
  <2> DEFINE r == [rec[t] EXCEPT !.pc = pc]
  <2>2. r \in RecSt /\ r.pc = pc
    BY <1>1 DEF RecSt
  <2>3. rec[t].pc \in {"enqueue", "acquire"} /\ UNCHANGED rows
    BY <1>9 DEF TurnEnqueue, TurnAcquire
  <2> HIDE DEF r
  <2>4. QED
    BY <1>1, <1>2, <2>1, <2>2, <2>3 DEF rows, r
<1>10. QED
  BY <1>3, <1>4, <1>5, <1>7, <1>8, <1>9 DEF RecordStep

\* Trace rows and attempts keep their types.
LEMMA RecordTypes ==
    ASSUME MemoryAssumption, TypeRec, Attempts, [Next]_vars
    PROVE  TypeRec' /\ Attempts'
<1>1. CASE UNCHANGED <<rows, rec>>
  BY <1>1 DEF rows, TypeRec, Attempts
<1>2. ASSUME NEW t \in Turn, RecordStep(t) PROVE TypeRec' /\ Attempts'
  <2>1. /\ traces \in [Turn -> 0..MaxAttempts] /\ rec \in [Turn -> RecSt] /\ facts \in Entries
        /\ rec[t].attempt \in 0..MaxAttempts
        /\ MaxAttempts \in Nat \ {0} /\ Appended(t) \in Entries
    BY <1>2, AppendedList DEF TypeRec, MemoryAssumption, RecSt
  <2>2. PICK r \in RecSt, n \in 0..MaxAttempts :
             /\ rec' = [rec EXCEPT ![t] = r] /\ traces' = [traces EXCEPT ![t] = n]
             /\ facts' \in {facts, Appended(t)} /\ factLock' \in Turn \cup {Nobody}
             /\ r.pc # "idle" /\ (r.pc \in {"open", "save", "commit"} => n < r.attempt)
    <3>1. traces[t] \in 0..MaxAttempts
      BY <2>1
    <3>2. QED
      BY <1>2, <2>1, <3>1, RecordMoves DEF Attempts
  <2>3. QED
    BY <2>1, <2>2 DEF TypeRec, Attempts
<1>3. QED
  BY <1>1, <1>2, OthersRecordNothing

----------------------------------------------------------------------------
\* RecordedOnce needs to know what an attempt has read.
Once ==
    \A t \in Turn :
      /\ rec[t].pc \in {"enqueue", "acquire", "done"} => traces[t] = 1
      /\ rec[t].pc \in {"idle", "open", "save", "commit", "dead"} => traces[t] = 0
      /\ rec[t].pc \in {"save", "commit"} =>
            /\ Range(rec[t].seen) \subseteq Recorded
            /\ \A i, j \in DOMAIN rec[t].seen : rec[t].seen[i] = rec[t].seen[j] => i = j
Listed == Range(facts) \subseteq Recorded /\ \A i, j \in DOMAIN facts : facts[i] = facts[j] => i = j

\* No step records a turn's trace or fact a second time.
LEMMA OnceStep ==
    ASSUME MemoryAssumption, ~LostAcks, TypeRec, Attempts, Once, Listed, [Next]_vars
    PROVE  Once' /\ Listed'
<1>1. CASE UNCHANGED <<rows, rec>>
  BY <1>1 DEF rows, Once, Listed, Recorded
<1>2. ASSUME NEW t \in Turn, RecordStep(t) PROVE Once' /\ Listed'
  <2>1. /\ traces \in [Turn -> 0..MaxAttempts] /\ rec \in [Turn -> RecSt] /\ MaxAttempts \in Nat
    BY DEF TypeRec, MemoryAssumption
  <2>2. PICK r \in RecSt, n \in 0..MaxAttempts :
             /\ rec' = [rec EXCEPT ![t] = r] /\ traces' = [traces EXCEPT ![t] = n]
             /\ \/ /\ rec[t].pc = "idle" /\ r.pc = "open" /\ n = traces[t] /\ facts' = facts
                \/ /\ rec[t].pc = "open" /\ r.pc = "save" /\ r.seen = facts
                   /\ n = traces[t] /\ facts' = facts
                \/ /\ rec[t].pc = "save" /\ r.pc = "commit" /\ r.seen = rec[t].seen
                   /\ n = traces[t] /\ facts' = facts
                \/ /\ rec[t].pc = "commit" /\ n = traces[t] + 1 /\ facts' = Appended(t)
                   /\ r.pc = "enqueue"
                \/ /\ rec[t].pc \in {"open", "save", "commit"} /\ n = traces[t] /\ facts' = facts
                   /\ r.pc \in {"open", "dead"}
                \/ /\ rec[t].pc \in {"enqueue", "acquire"} /\ r.pc \in {"acquire", "done"}
                   /\ n = traces[t] /\ facts' = facts
    BY <1>2, RecordMoves
  <2>3. \A k \in Turn \ {t} : rec'[k] = rec[k] /\ traces'[k] = traces[k]
    BY <2>1, <2>2
  <2>4. rec'[t] = r /\ traces'[t] = n /\ n >= traces[t] /\ traces[t] \in 0..MaxAttempts
    BY <2>1, <2>2
  <2>5. Recorded \subseteq Recorded' /\ (n > 0 => t \in Recorded')
    BY <2>1, <2>3, <2>4 DEF Recorded
  <2>6. Listed'
    <3>1. CASE facts' = facts
      BY <2>5, <3>1 DEF Listed
    <3>2. CASE rec[t].pc = "commit" /\ facts' = Appended(t) /\ n = traces[t] + 1
      <4>1. t \notin Recorded /\ n > 0
        BY <2>4, <3>2 DEF Once, Recorded
      <4>2. /\ t \notin Range(rec[t].seen) /\ Range(rec[t].seen) \subseteq Recorded
            /\ \A i, j \in DOMAIN rec[t].seen : rec[t].seen[i] = rec[t].seen[j] => i = j
        BY <3>2, <4>1 DEF Once
      <4>3. Range(facts') \subseteq Recorded'
        BY <2>5, <3>2, <4>1, <4>2, AppendedList
      <4>4. \A i, j \in DOMAIN facts' : facts'[i] = facts'[j] => i = j
        BY <3>2, <4>2, AppendedList
      <4>5. QED
        BY <4>3, <4>4 DEF Listed, Range
    <3>3. QED
      BY <2>2, <3>1, <3>2
  <2>7. ASSUME NEW k \in Turn
        PROVE  /\ rec'[k].pc \in {"enqueue", "acquire", "done"} => traces'[k] = 1
               /\ rec'[k].pc \in {"idle", "open", "save", "commit", "dead"} => traces'[k] = 0
    <3>1. CASE k # t
      BY <2>3, <3>1 DEF Once
    <3>2. CASE k = t
      BY <2>2, <2>4, <3>2 DEF Once
    <3>3. QED
      BY <3>1, <3>2
  <2>8. ASSUME NEW k \in Turn, rec'[k].pc \in {"save", "commit"}
        PROVE  /\ Range(rec'[k].seen) \subseteq Recorded'
               /\ \A i, j \in DOMAIN rec'[k].seen : rec'[k].seen[i] = rec'[k].seen[j] => i = j
    <3>1. CASE k # t
      BY <2>3, <2>5, <2>8, <3>1 DEF Once
    <3>2. CASE k = t
      <4>1. \/ r.seen = facts
            \/ rec[t].pc = "save" /\ r.seen = rec[t].seen
        BY <2>2, <2>4, <2>8, <3>2
      <4>2. QED
        BY <2>4, <2>5, <3>2, <4>1 DEF Once, Listed
    <3>3. QED
      BY <3>1, <3>2
  <2>9. Once'
    BY <2>7, <2>8 DEF Once, Range
  <2>10. QED
    BY <2>6, <2>9
<1>3. QED
  BY <1>1, <1>2, OthersRecordNothing

----------------------------------------------------------------------------
\* The preferences.
LEMMA PreferenceTypes == ASSUME TypePref, [Next]_vars PROVE TypePref'
<1>1. CASE UNCHANGED pvars
  BY <1>1 DEF pvars, TypePref
<1>2. ASSUME NEW p \in Pref, ReceivePreference(p) \/ PrefStep(p) PROVE TypePref'
  <2>1. pref \in [Pref -> PrefSt] /\ pref[p] \in PrefSt /\ prefs \subseteq Pref /\ prefLock \in Pref \cup {Nobody}
        /\ pref[p].seen \subseteq Pref
    BY DEF TypePref, PrefSt
  <2>2. prefs' \subseteq Pref /\ prefLock' \in Pref \cup {Nobody}
    BY <1>2, <2>1 DEF ReceivePreference, PrefStep, SavePreference, Invalidate, CommitPreference
  <2>3. CASE ReceivePreference(p)
    <3>1. pref' = [pref EXCEPT ![p] = [pref[p] EXCEPT !.pc = "save", !.seen = prefs]]
      BY <2>1, <2>3 DEF ReceivePreference, PrefSt
    <3>2. [pref[p] EXCEPT !.pc = "save", !.seen = prefs] \in PrefSt
      BY <2>1 DEF PrefSt
    <3>3. QED
      BY <2>1, <2>2, <3>1, <3>2 DEF TypePref
  <2>4. CASE SavePreference(p) \/ Invalidate(p)
    <3>1. pref' \in [Pref -> PrefSt]
      BY <2>1, <2>4 DEF SavePreference, Invalidate, PrefSt
    <3>2. QED
      BY <2>2, <3>1 DEF TypePref
  <2>5. CASE CommitPreference(p)
    <3>1. pref' = [pref EXCEPT ![p] = [pref[p] EXCEPT !.pc = "done", !.seen = {}]]
      BY <2>1, <2>5 DEF CommitPreference, PrefSt
    <3>2. [pref[p] EXCEPT !.pc = "done", !.seen = {}] \in PrefSt
      BY <2>1 DEF PrefSt
    <3>3. QED
      BY <2>1, <2>2, <3>1, <3>2 DEF TypePref
  <2>6. QED
    BY <1>2, <2>3, <2>4, <2>5 DEF PrefStep
<1>3. ASSUME NEW t \in Turn, RecordStep(t) PROVE UNCHANGED pvars
  BY <1>3 DEF RecordStep, TurnCompletes, EmitTrace, SaveFact, CommitTrace, TurnEnqueue, TurnAcquire, AttemptFails
<1>4. ASSUME NEW c \in Call, ReceiveCall(c) \/ CallStep(c) PROVE UNCHANGED pvars
  BY <1>4 DEF ReceiveCall, CallStep, GetCache, ReadDocuments, SetCache, CallEnqueue, CallAcquire
<1>5. ASSUME NEW a \in Actor, SynthStep(a) \/ SynthesisFails(a) PROVE UNCHANGED pvars
  BY <1>5 DEF SynthStep, ListTraces, ListDocuments, SetRecent, SetProfile, InvalidateSlots, CacheSlots,
              CommitSlots, Retry, Release, Pop, SynthesisFails
<1>6. CASE (\E k \in Key : ExpireCache(k)) \/ ExpireLock \/ UNCHANGED vars
  BY <1>1, <1>6 DEF ExpireCache, ExpireLock, vars
<1>7. QED
  BY <1>1, <1>2, <1>3, <1>4, <1>5, <1>6 DEF Next, TurnStep, RecordStep

----------------------------------------------------------------------------
\* What is written of syntheses: by requests, by the tasks, and by time.
SynthVars == <<svars, lock, sched, home, synth>>
Enqueues(a) == TryAcquire(a) /\ UNCHANGED <<svars, home, cache>>
TaskStep(a) == SynthStep(a) \/ SynthesisFails(a)

\* What can change the lock, the job or the texts of a synthesis.
LEMMA SynthesisMoves ==
    ASSUME [Next]_vars
    PROVE  \/ UNCHANGED SynthVars
           \/ ExpireLock
           \/ \E a \in Actor : Enqueues(a) \/ TaskStep(a)
<1>1. ASSUME NEW t \in Turn, RecordStep(t) PROVE UNCHANGED SynthVars \/ \E a \in Actor : Enqueues(a)
  <2>1. CASE TurnAcquire(t)
    <3>1. t \in Actor /\ Enqueues(t)
      BY <2>1 DEF TurnAcquire, Enqueues, Actor
    <3>2. QED
      BY <3>1
  <2>2. QED
    BY <1>1, <2>1 DEF RecordStep, TurnCompletes, EmitTrace, SaveFact, CommitTrace, TurnEnqueue, AttemptFails,
                      SynthVars
<1>2. ASSUME NEW c \in Call, ReceiveCall(c) \/ CallStep(c) PROVE UNCHANGED SynthVars \/ \E a \in Actor : Enqueues(a)
  <2>1. CASE CallAcquire(c)
    <3>1. c \in Actor /\ Enqueues(c)
      BY <2>1 DEF CallAcquire, Enqueues, Actor
    <3>2. QED
      BY <3>1
  <2>2. QED
    BY <1>2, <2>1 DEF ReceiveCall, CallStep, GetCache, ReadDocuments, SetCache, CallEnqueue, SynthVars
<1>3. ASSUME NEW p \in Pref, ReceivePreference(p) \/ PrefStep(p) PROVE UNCHANGED SynthVars
  BY <1>3 DEF ReceivePreference, PrefStep, SavePreference, Invalidate, CommitPreference, SynthVars
<1>4. CASE (\E k \in Key : ExpireCache(k)) \/ UNCHANGED vars
  BY <1>4 DEF ExpireCache, vars, SynthVars
<1>5. QED
  BY <1>1, <1>2, <1>3, <1>4 DEF Next, TurnStep, RecordStep, TaskStep

\* What the task of a makes of its own state.
LEMMA TaskMoves ==
    ASSUME MemoryAssumption, TypeRec, TypeSynth, Needs, NEW a \in Actor, TaskStep(a)
    PROVE  \E s \in SynthSt :
             /\ synth' = [synth EXCEPT ![a] = s]
             /\ s.need \subseteq Recorded
             /\ s.pc \in {"facts", "recent", "profile", "invalidate", "cache", "commit"} => s.need \subseteq s.recent
             /\ synth[a].pc \notin {"none", "done"}
             /\ s.pc \notin {"none", "pop", "done"} => synth[a].pc \notin {"none", "pop", "done"}
             /\ lock' = lock \/ (lock' = FALSE /\ s.pc = "pop" /\ synth[a].pc = "release")
             /\ sched' \in [Worker -> Actor \cup {Nobody}] /\ home' = home
             /\ slotLock' \in Actor \cup {Nobody}
             /\ \/ slots' = slots
                \/ /\ synth[a].pc = "commit" /\ s.pc = "release"
                   /\ slots' = [recent  |-> [by |-> a, of |-> synth[a].recent],
                                profile |-> [by |-> a, of |-> synth[a].profile]]
<1>1. /\ synth \in [Actor -> SynthSt] /\ synth[a] \in SynthSt /\ slotLock \in Actor \cup {Nobody}
      /\ sched \in [Worker -> Actor \cup {Nobody}] /\ home \in [Actor -> Worker] /\ MaxAttempts \in Nat \ {0}
  BY DEF TypeSynth, MemoryAssumption
<1>2. Recorded \subseteq Turn /\ Range(facts) \subseteq Turn
  <2>1. facts \in Seq(Turn)
    BY EntryLists DEF TypeRec
  <2>2. QED
    BY <2>1 DEF Recorded, Range
<1>3. CASE ListTraces(a)
  <2> DEFINE s == [synth[a] EXCEPT !.pc = "facts", !.recent = Recorded]
  <2>1. synth' = [synth EXCEPT ![a] = s]
    BY <1>1, <1>3 DEF ListTraces, SynthSt
  <2>2. s \in SynthSt /\ s.pc = "facts" /\ s.recent = Recorded /\ s.need = synth[a].need
    BY <1>1, <1>2 DEF SynthSt
  <2> HIDE DEF s
  <2>3. QED
    BY <1>1, <1>3, <2>1, <2>2 DEF ListTraces, Needs, svars
<1>4. CASE ListDocuments(a)
  <2> DEFINE s == [synth[a] EXCEPT !.pc = "recent", !.profile = Range(facts)]
  <2>1. synth' = [synth EXCEPT ![a] = s]
    BY <1>1, <1>4 DEF ListDocuments, SynthSt
  <2>2. s \in SynthSt /\ s.pc = "recent" /\ s.recent = synth[a].recent /\ s.need = synth[a].need
    BY <1>1, <1>2 DEF SynthSt
  <2> HIDE DEF s
  <2>3. QED
    BY <1>1, <1>4, <2>1, <2>2 DEF ListDocuments, Needs, svars
<1>5. CASE SetRecent(a) \/ SetProfile(a) \/ InvalidateSlots(a) \/ CacheSlots(a)
  <2>1. PICK pc \in {"profile", "invalidate", "cache", "commit"} :
             synth' = [synth EXCEPT ![a] = [synth[a] EXCEPT !.pc = pc]]
    BY <1>1, <1>5 DEF SetRecent, SetProfile, InvalidateSlots, CacheSlots, SynthSt
  <2> DEFINE s == [synth[a] EXCEPT !.pc = pc]
  <2>2. s \in SynthSt /\ s.pc = pc /\ s.recent = synth[a].recent /\ s.need = synth[a].need
    BY <1>1 DEF SynthSt
  <2> HIDE DEF s
  <2>3. synth[a].pc \in {"recent", "profile", "invalidate", "cache"} /\ UNCHANGED <<slots, lock, sched, home>>
    BY <1>5 DEF SetRecent, SetProfile, InvalidateSlots, CacheSlots, svars
  <2>4. slotLock' \in Actor \cup {Nobody}
    BY <1>1, <1>5 DEF SetRecent, SetProfile, InvalidateSlots, CacheSlots, svars
  <2>5. QED
    BY <1>1, <2>1, <2>2, <2>3, <2>4 DEF Needs, s
<1>6. CASE CommitSlots(a)
  <2> DEFINE s == [synth[a] EXCEPT !.pc = "release"]
  <2>1. synth' = [synth EXCEPT ![a] = s]
    BY <1>1, <1>6 DEF CommitSlots, SynthSt
  <2>2. s \in SynthSt /\ s.pc = "release" /\ s.need = synth[a].need
    BY <1>1 DEF SynthSt
  <2> HIDE DEF s
  <2>3. QED
    BY <1>1, <1>6, <2>1, <2>2 DEF CommitSlots, Needs
<1>7. CASE SynthesisFails(a)
  <2> DEFINE pc == IF synth[a].attempt < MaxAttempts THEN "backoff" ELSE "release"
             n  == IF synth[a].attempt < MaxAttempts THEN synth[a].attempt + 1 ELSE synth[a].attempt
             s  == [synth[a] EXCEPT !.pc = pc, !.attempt = n, !.recent = {}, !.profile = {}]
  <2>1. synth' = [synth EXCEPT ![a] = s]
    BY <1>1, <1>7 DEF SynthesisFails, SynthSt
  <2>2. synth[a].attempt \in 0..MaxAttempts
    BY <1>1 DEF SynthSt
  <2>3. n \in 0..MaxAttempts /\ pc \in {"backoff", "release"}
    BY <1>1, <2>2
  <2> HIDE DEF pc, n
  <2>4. s \in SynthSt /\ s.pc = pc /\ s.need = synth[a].need
    BY <1>1, <2>3 DEF SynthSt
  <2>5. Working(a) /\ UNCHANGED <<slots, lock, sched, home>> /\ slotLock' \in Actor \cup {Nobody}
    BY <1>1, <1>7 DEF SynthesisFails
  <2> HIDE DEF s
  <2>6. QED
    BY <1>1, <2>1, <2>3, <2>4, <2>5 DEF Needs, Working
<1>8. CASE Retry(a) \/ Release(a)
  <2>1. PICK pc \in {"traces", "pop"} :
             /\ synth' = [synth EXCEPT ![a] = [synth[a] EXCEPT !.pc = pc]]
             /\ lock' = lock \/ (lock' = FALSE /\ pc = "pop" /\ synth[a].pc = "release")
    BY <1>1, <1>8 DEF Retry, Release, SynthSt, svars
  <2> DEFINE s == [synth[a] EXCEPT !.pc = pc]
  <2>2. s \in SynthSt /\ s.pc = pc /\ s.recent = synth[a].recent /\ s.need = synth[a].need
    BY <1>1 DEF SynthSt
  <2> HIDE DEF s
  <2>3. /\ synth[a].pc \in {"backoff", "release"} /\ UNCHANGED <<slots, sched, home>>
        /\ slotLock' \in Actor \cup {Nobody}
    BY <1>1, <1>8 DEF Retry, Release, svars
  <2>4. QED
    BY <1>1, <2>1, <2>2, <2>3 DEF Needs, s
<1>9. CASE Pop(a)
  <2> DEFINE s == [NoSynthesis EXCEPT !.pc = "done"]
  <2>1. s \in SynthSt /\ s.pc = "done" /\ s.need = {}
    BY <1>1 DEF NoSynthesis, SynthSt
  <2> HIDE DEF s
  <2>2. /\ synth' = [synth EXCEPT ![a] = s] /\ UNCHANGED <<svars, lock, home>> /\ synth[a].pc = "pop"
        /\ sched' \in [Worker -> Actor \cup {Nobody}]
    BY <1>1, <1>9 DEF Pop, s
  <2>3. QED
    BY <1>1, <2>1, <2>2 DEF svars
<1>10. QED
  BY <1>3, <1>4, <1>5, <1>6, <1>7, <1>8, <1>9 DEF TaskStep, SynthStep

\* What is recorded stays so.
LEMMA RecordedGrows ==
    ASSUME MemoryAssumption, TypeRec, Attempts, [Next]_vars
    PROVE  Recorded \subseteq Recorded'
<1>1. CASE UNCHANGED <<rows, rec>>
  BY <1>1 DEF rows, Recorded
<1>2. ASSUME NEW t \in Turn, RecordStep(t) PROVE Recorded \subseteq Recorded'
  <2>1. traces \in [Turn -> 0..MaxAttempts] /\ traces[t] \in 0..MaxAttempts /\ MaxAttempts \in Nat
    BY DEF TypeRec, MemoryAssumption
  <2>2. PICK n \in 0..MaxAttempts : traces' = [traces EXCEPT ![t] = n] /\ (n = traces[t] \/ n = traces[t] + 1)
    BY <1>2, RecordMoves
  <2>3. QED
    BY <2>1, <2>2 DEF Recorded
<1>3. QED
  BY <1>1, <1>2, OthersRecordNothing

\* A request that gets the lock enters a task that has to cover what is
\* recorded by then.
LEMMA EnqueueMoves ==
    ASSUME MemoryAssumption, TypeSynth, NEW a \in Actor, Enqueues(a)
    PROVE  \/ UNCHANGED SynthVars
           \/ \E s \in SynthSt :
                /\ synth' = [synth EXCEPT ![a] = s] /\ s.pc = "traces" /\ s.need = Recorded
                /\ ~lock /\ lock' = TRUE
                /\ sched' \in [Worker -> Actor \cup {Nobody}] /\ UNCHANGED <<svars, home, cache>>
<1>1. CASE lock
  BY <1>1 DEF Enqueues, TryAcquire, SynthVars
<1>2. CASE ~lock
  <2> DEFINE s == [NoSynthesis EXCEPT !.pc = "traces", !.attempt = 1, !.need = Recorded]
  <2>1. 1 \in 0..MaxAttempts /\ Recorded \subseteq Turn /\ 0 \in 0..MaxAttempts
    BY DEF MemoryAssumption, Recorded
  <2>2. s \in SynthSt /\ s.pc = "traces" /\ s.need = Recorded
    BY <2>1 DEF SynthSt, NoSynthesis
  <2>3. synth' = [synth EXCEPT ![a] = s] /\ lock' = TRUE /\ sched' = [sched EXCEPT ![home[a]] = a]
    BY <1>2 DEF Enqueues, TryAcquire
  <2> HIDE DEF s
  <2>4. sched' \in [Worker -> Actor \cup {Nobody}]
    BY <2>3 DEF TypeSynth
  <2>5. QED
    BY <1>2, <2>2, <2>3, <2>4 DEF Enqueues
<1>3. QED
  BY <1>1, <1>2

\* The state of the synthesis tasks keeps its type.
LEMMA SynthesisTypes ==
    ASSUME MemoryAssumption, TypeRec, Attempts, TypeSynth, Needs, [Next]_vars
    PROVE  TypeSynth' /\ Needs'
<1>1. Recorded \subseteq Recorded'
  BY RecordedGrows
<1>2. CASE UNCHANGED SynthVars
  BY <1>1, <1>2 DEF SynthVars, svars, TypeSynth, Needs
<1>3. CASE ExpireLock
  BY <1>1, <1>3 DEF ExpireLock, svars, TypeSynth, Needs
<1>4. ASSUME NEW a \in Actor, NEW s \in SynthSt, synth' = [synth EXCEPT ![a] = s],
             s.need \subseteq Recorded,
             s.pc \in {"facts", "recent", "profile", "invalidate", "cache", "commit"} => s.need \subseteq s.recent,
             slots' \in [Slot -> SlotSt], slotLock' \in Actor \cup {Nobody}, lock' \in BOOLEAN,
             sched' \in [Worker -> Actor \cup {Nobody}], home' = home
      PROVE  TypeSynth' /\ Needs'
  <2>1. synth' \in [Actor -> SynthSt] /\ synth'[a] = s /\ \A b \in Actor \ {a} : synth'[b] = synth[b]
    BY <1>4 DEF TypeSynth
  <2>2. TypeSynth'
    BY <1>4, <2>1 DEF TypeSynth
  <2>3. Needs'
    <3>1. ASSUME NEW b \in Actor
          PROVE  /\ synth'[b].need \subseteq Recorded'
                 /\ synth'[b].pc \in {"facts", "recent", "profile", "invalidate", "cache", "commit"} =>
                       synth'[b].need \subseteq synth'[b].recent
      <4>1. CASE b = a
        BY <1>1, <1>4, <2>1, <4>1
      <4>2. CASE b # a
        BY <1>1, <2>1, <4>2 DEF Needs
      <4>3. QED
        BY <4>1, <4>2
    <3>2. QED
      BY <3>1 DEF Needs
  <2>4. QED
    BY <2>2, <2>3
<1>5. ASSUME NEW a \in Actor, Enqueues(a) PROVE TypeSynth' /\ Needs'
  <2>1. ASSUME NEW s \in SynthSt,
               synth' = [synth EXCEPT ![a] = s], s.pc = "traces", s.need = Recorded,
               lock' = TRUE, sched' \in [Worker -> Actor \cup {Nobody}], UNCHANGED <<svars, home, cache>>
        PROVE  TypeSynth' /\ Needs'
    <3>1. slots' \in [Slot -> SlotSt] /\ slotLock' \in Actor \cup {Nobody} /\ lock' \in BOOLEAN /\ home' = home
      BY <2>1 DEF svars, TypeSynth
    <3>2. QED
      BY <1>4, <2>1, <3>1
  <2>2. QED
    BY <1>2, <1>5, <2>1, EnqueueMoves
<1>6. ASSUME NEW a \in Actor, TaskStep(a) PROVE TypeSynth' /\ Needs'
  <2>1. PICK s \in SynthSt :
             /\ synth' = [synth EXCEPT ![a] = s]
             /\ s.need \subseteq Recorded
             /\ s.pc \in {"facts", "recent", "profile", "invalidate", "cache", "commit"} => s.need \subseteq s.recent
             /\ lock' = lock \/ lock' = FALSE
             /\ sched' \in [Worker -> Actor \cup {Nobody}] /\ home' = home
             /\ slotLock' \in Actor \cup {Nobody}
             /\ \/ slots' = slots
                \/ slots' = [recent  |-> [by |-> a, of |-> synth[a].recent],
                             profile |-> [by |-> a, of |-> synth[a].profile]]
    BY <1>6, TaskMoves
  <2>2. lock' \in BOOLEAN
    BY <2>1 DEF TypeSynth
  <2>3. slots' \in [Slot -> SlotSt]
    <3>1. CASE slots' = slots
      BY <3>1 DEF TypeSynth
    <3>2. CASE slots' = [recent  |-> [by |-> a, of |-> synth[a].recent],
                         profile |-> [by |-> a, of |-> synth[a].profile]]
      <4>1. [by |-> a, of |-> synth[a].recent] \in SlotSt /\ [by |-> a, of |-> synth[a].profile] \in SlotSt
        BY DEF TypeSynth, SynthSt, SlotSt
      <4>2. slots' = [x \in Slot |-> IF x = "recent" THEN [by |-> a, of |-> synth[a].recent]
                                                     ELSE [by |-> a, of |-> synth[a].profile]]
        BY <3>2 DEF Slot
      <4>3. QED
        BY <4>1, <4>2
    <3>3. QED
      BY <2>1, <3>1, <3>2
  <2>4. QED
    BY <1>4, <2>1, <2>2, <2>3
<1>7. QED
  BY <1>2, <1>3, <1>5, <1>6, SynthesisMoves

----------------------------------------------------------------------------
\* The texts: what a read builds, and what is put in the caches.
OneBlock(b) == b.by["recent"] = b.by["profile"]

\* What a synthesis writes into the slots is of one synthesis.
LEMMA ContentIsOneBlock ==
    ASSUME TypePref, TypeSynth, Texts
    PROVE  Content \in Block /\ OneBlock(Content)
<1>1. slots["recent"] \in SlotSt /\ slots["profile"] \in SlotSt /\ slots \in [Slot -> SlotSt] /\ prefs \subseteq Pref
  BY DEF TypePref, TypeSynth, Slot
<1>2. [s \in Slot |-> slots[s].by] \in [Slot -> Actor \cup {Nobody}]
  BY <1>1 DEF SlotSt
<1>3. [s \in Slot |-> slots[s].by]["recent"] = [s \in Slot |-> slots[s].by]["profile"]
  BY DEF Slot, Texts
<1>4. QED
  BY <1>1, <1>2, <1>3 DEF Content, Block, SlotSt, OneBlock

\* The reads touch their own request and the cache only.
LEMMA ReadsKeepTexts ==
    ASSUME TypePref, TypeSynth, TypeText, Texts, NEW c \in Call, ReceiveCall(c) \/ CallStep(c)
    PROVE  TypeText' /\ Texts'
<1>1. /\ call \in [Call -> CallSt] /\ call[c] \in CallSt /\ call[c].key \in Key /\ call[c].text \in Block
      /\ cache \in [Key -> Block \cup {<<>>}]
  BY DEF TypeText, CallSt
<1>2. OneBlock(call[c].text) /\ UNCHANGED slots
  BY DEF Texts, OneBlock, ReceiveCall, CallStep, GetCache, ReadDocuments, SetCache, CallEnqueue, CallAcquire, svars
<1>3. NoText \in Block /\ OneBlock(NoText)
  <2>1. [s \in Slot |-> Nobody] \in [Slot -> Actor \cup {Nobody}] /\ [s \in Slot |-> Nobody]["recent"] = [s \in Slot |-> Nobody]["profile"]
    BY DEF Slot
  <2>2. QED
    BY <2>1 DEF NoText, Block, OneBlock
<1>4. ASSUME NEW s \in CallSt, call' = [call EXCEPT ![c] = s], OneBlock(s.text),
             cache' = cache \/ cache' = [cache EXCEPT ![call[c].key] = call[c].text]
      PROVE  TypeText' /\ Texts'
  <2>1. call' \in [Call -> CallSt] /\ \A d \in Call : OneBlock(call'[d].text)
    BY <1>1, <1>4 DEF Texts, OneBlock
  <2>2. cache' \in [Key -> Block \cup {<<>>}] /\ \A k \in Key : cache'[k] # <<>> => OneBlock(cache'[k])
    BY <1>1, <1>2, <1>4 DEF Texts, OneBlock
  <2>3. QED
    BY <1>2, <2>1, <2>2 DEF TypeText, Texts, OneBlock
<1>5. CASE ReceiveCall(c)
  <2>1. PICK k \in Key, pc \in {"get", "enqueue"} : call' = [call EXCEPT ![c] = [call[c] EXCEPT !.pc = pc, !.key = k]]
    <3>1. CASE \E k \in Key : call' = [call EXCEPT ![c].pc = "get", ![c].key = k]
      BY <1>1, <3>1 DEF CallSt
    <3>2. CASE call' = [call EXCEPT ![c].pc = "enqueue"]
      <4>1. [call[c] EXCEPT !.pc = "enqueue"] = [call[c] EXCEPT !.pc = "enqueue", !.key = call[c].key]
        BY <1>1 DEF CallSt
      <4>2. QED
        BY <1>1, <3>2, <4>1
    <3>3. QED
      BY <1>5, <3>1, <3>2 DEF ReceiveCall
  <2> DEFINE s == [call[c] EXCEPT !.pc = pc, !.key = k]
  <2>2. s \in CallSt /\ s.text = call[c].text
    BY <1>1 DEF CallSt
  <2> HIDE DEF s
  <2>3. QED
    BY <1>2, <1>4, <1>5, <2>1, <2>2 DEF ReceiveCall, s
<1>6. CASE GetCache(c) \/ CallEnqueue(c) \/ CallAcquire(c)
  <2>1. PICK pc \in {"read", "enqueue", "acquire", "done"} : call' = [call EXCEPT ![c] = [call[c] EXCEPT !.pc = pc]]
    BY <1>1, <1>6 DEF GetCache, CallEnqueue, CallAcquire, Answered, CallSt
  <2> DEFINE s == [call[c] EXCEPT !.pc = pc]
  <2>2. s \in CallSt /\ s.text = call[c].text
    BY <1>1 DEF CallSt
  <2> HIDE DEF s
  <2>3. QED
    BY <1>2, <1>4, <1>6, <2>1, <2>2 DEF GetCache, CallEnqueue, CallAcquire, s
<1>7. CASE ReadDocuments(c)
  <2>1. call' = [call EXCEPT ![c] = [call[c] EXCEPT !.pc = "set", !.text = Content]]
    BY <1>1, <1>7 DEF ReadDocuments, CallSt
  <2> DEFINE s == [call[c] EXCEPT !.pc = "set", !.text = Content]
  <2>2. s \in CallSt /\ s.text = Content
    BY <1>1, ContentIsOneBlock DEF CallSt
  <2> HIDE DEF s
  <2>3. QED
    BY <1>4, <1>7, <2>1, <2>2, ContentIsOneBlock DEF ReadDocuments, s
<1>8. CASE SetCache(c)
  <2> DEFINE pc == Answered(c, call[c].text)
             s  == [call[c] EXCEPT !.pc = pc, !.text = NoText]
  <2>1. call' = [call EXCEPT ![c] = s]
    BY <1>1, <1>8 DEF SetCache, CallSt
  <2>2. pc \in {"enqueue", "done"}
    BY DEF Answered
  <2> HIDE DEF pc
  <2>3. s \in CallSt /\ s.text = NoText
    BY <1>1, <1>3, <2>2 DEF CallSt
  <2> HIDE DEF s
  <2>4. QED
    BY <1>3, <1>4, <1>8, <2>1, <2>3 DEF SetCache
<1>9. QED
  BY <1>5, <1>6, <1>7, <1>8 DEF CallStep

\* Slots and cached texts keep their types, and are of one synthesis.
LEMMA TextTypes ==
    ASSUME TypePref, TypeSynth, TypeText, Texts, [Next]_vars
    PROVE  TypeText' /\ Texts'
<1>1. CASE UNCHANGED <<slots, cache, call>>
  BY <1>1 DEF TypeText, Texts
<1>2. ASSUME UNCHANGED <<slots, call>>, cache' \in [Key -> Block \cup {<<>>}],
             \A k \in Key : cache'[k] \in {cache[k], <<>>} \/ OneBlock(cache'[k])
      PROVE  TypeText' /\ Texts'
  BY <1>2 DEF TypeText, Texts, OneBlock
<1>3. ASSUME NEW t \in Turn, RecordStep(t) PROVE UNCHANGED <<slots, cache, call>>
  BY <1>3 DEF RecordStep, TurnCompletes, EmitTrace, SaveFact, CommitTrace, TurnEnqueue, TurnAcquire,
     AttemptFails, svars
<1>4. ASSUME NEW c \in Call, ReceiveCall(c) \/ CallStep(c) PROVE TypeText' /\ Texts'
  BY <1>4, ReadsKeepTexts
<1>5. ASSUME NEW p \in Pref, ReceivePreference(p) \/ PrefStep(p) PROVE TypeText' /\ Texts'
  <2>1. CASE Invalidate(p)
    <3>1. UNCHANGED <<slots, call>> /\ cache' = [k \in Key |-> <<>>]
      BY <2>1 DEF Invalidate, svars
    <3>2. QED
      BY <1>2, <3>1
  <2>2. QED
    BY <1>1, <1>5, <2>1 DEF ReceivePreference, PrefStep, SavePreference, CommitPreference, svars
<1>6. ASSUME NEW a \in Actor, SynthStep(a) \/ SynthesisFails(a) PROVE TypeText' /\ Texts'
  <2>1. CASE InvalidateSlots(a)
    <3>1. UNCHANGED <<slots, call>> /\ cache' = [k \in Key |-> <<>>]
      BY <2>1 DEF InvalidateSlots, svars
    <3>2. QED
      BY <1>2, <3>1
  <2>2. CASE CacheSlots(a)
    <3> DEFINE b == [by |-> [s \in Slot |-> a], recent |-> synth[a].recent, profile |-> synth[a].profile, prefs |-> {}]
    <3>1. [s \in Slot |-> a] \in [Slot -> Actor \cup {Nobody}] /\ [s \in Slot |-> a]["recent"] = [s \in Slot |-> a]["profile"]
      BY DEF Slot
    <3>2. synth[a].recent \subseteq Turn /\ synth[a].profile \subseteq Turn
      BY DEF TypeSynth, SynthSt
    <3>3. b \in Block /\ OneBlock(b)
      BY <3>1, <3>2 DEF Block, OneBlock
    <3>4. UNCHANGED <<slots, call>> /\ cache' = [cache EXCEPT !["full"] = b]
      BY <2>2 DEF CacheSlots, svars
    <3> HIDE DEF b
    <3>5. /\ cache' \in [Key -> Block \cup {<<>>}]
          /\ \A k \in Key : cache'[k] \in {cache[k], <<>>} \/ OneBlock(cache'[k])
      BY <3>3, <3>4 DEF TypeText
    <3>6. QED
      BY <1>2, <3>4, <3>5
  <2>3. CASE CommitSlots(a)
    <3>1. UNCHANGED <<cache, call>> /\ slots'["recent"].by = slots'["profile"].by
      BY <2>3 DEF CommitSlots
    <3>2. QED
      BY <3>1 DEF TypeText, Texts
  <2>4. QED
    BY <1>1, <1>6, <2>1, <2>2, <2>3 DEF SynthStep, ListTraces, ListDocuments, SetRecent, SetProfile,
              Retry, Release, Pop, SynthesisFails, svars
<1>7. ASSUME NEW k \in Key, ExpireCache(k) PROVE TypeText' /\ Texts'
  <2>1. UNCHANGED <<slots, call>> /\ cache' = [cache EXCEPT ![k] = <<>>]
    BY <1>7 DEF ExpireCache, svars
  <2>2. QED
    BY <1>2, <2>1 DEF TypeText
<1>8. CASE ExpireLock \/ UNCHANGED vars
  BY <1>1, <1>8 DEF ExpireLock, vars, svars
<1>9. QED
  BY <1>1, <1>3, <1>4, <1>5, <1>6, <1>7, <1>8 DEF Next, TurnStep, RecordStep

----------------------------------------------------------------------------
\* The invariant is inductive.
LEMMA InvInitially == ASSUME MemoryAssumption PROVE Init => Inv
<1> SUFFICES ASSUME Init PROVE Inv
  OBVIOUS
<1>1. 0 \in 0..MaxAttempts /\ <<>> \in Entries
  BY EntryLists DEF MemoryAssumption
<1>2. TypeRec /\ TypePref /\ Attempts
  BY <1>1 DEF Init, TypeRec, TypePref, Attempts, RecSt, PrefSt
<1>3. NoText \in Block /\ OneBlock(NoText)
  <2>1. [s \in Slot |-> Nobody] \in [Slot -> Actor \cup {Nobody}] /\ [s \in Slot |-> Nobody]["recent"] = [s \in Slot |-> Nobody]["profile"]
    BY DEF Slot
  <2>2. QED
    BY <2>1 DEF NoText, Block, OneBlock
<1>4. TypeSynth /\ Needs
  BY <1>1 DEF Init, TypeSynth, Needs, SynthSt, SlotSt, NoSynthesis
<1>5. TypeText
  <2>1. [pc |-> "idle", key |-> "full", text |-> NoText] \in CallSt
    BY <1>3 DEF CallSt, Key
  <2>2. QED
    BY <2>1 DEF Init, TypeText
<1>6. Texts
  BY <1>3 DEF Init, Texts, OneBlock, Slot
<1>7. QED
  BY <1>2, <1>4, <1>5, <1>6 DEF Inv

\* Every step keeps the invariant.
LEMMA InvStep == ASSUME MemoryAssumption, Inv, [Next]_vars PROVE Inv'
  BY RecordTypes, PreferenceTypes, SynthesisTypes, TextTypes DEF Inv

\* It implies the types and SlotsOfOneSynthesis.
LEMMA InvSuffices == Inv => TypeOK /\ SlotsOfOneSynthesis
  BY TypeParts DEF Inv, Texts, SlotsOfOneSynthesis

\* Every variable keeps its type (LearnerMemory.tla's TypeOK).
THEOREM TypeCorrect == ASSUME MemoryAssumption PROVE Spec => []TypeOK
<1>1. Init => Inv
  BY InvInitially
<1>2. Inv /\ [Next]_vars => Inv'
  BY InvStep
<1>3. QED
  BY <1>1, <1>2, InvSuffices, PTL DEF Spec

\* Slots and cached texts are never a mixture of two syntheses, even when the
\* lock has expired and two run (synthesize_l3, read_l3_concat).
THEOREM SlotsOfOneSynthesisHolds == ASSUME MemoryAssumption PROVE Spec => []SlotsOfOneSynthesis
<1>1. Init => Inv
  BY InvInitially
<1>2. Inv /\ [Next]_vars => Inv'
  BY InvStep
<1>3. QED
  BY <1>1, <1>2, InvSuffices, PTL DEF Spec

\* A turn's trace and fact are recorded once, together, or not at all, unless
\* a commit that succeeded is reported as failed (record_chat_memory).
RecordInv == Inv /\ Once /\ Listed

\* The invariant of the recordings holds initially,
LEMMA RecordInvInitially == ASSUME MemoryAssumption PROVE Init => RecordInv
<1>1. Init => Inv
  BY InvInitially
<1>2. Init => Once
  BY DEF Init, Once
<1>3. Init => Listed
  BY DEF Init, Listed, Range
<1>4. QED
  BY <1>1, <1>2, <1>3 DEF RecordInv

\* every step keeps it while no acknowledgement is lost,
LEMMA RecordInvStep == ASSUME MemoryAssumption, ~LostAcks, RecordInv, [Next]_vars PROVE RecordInv'
  BY InvStep, OnceStep DEF RecordInv, Inv

\* and it implies RecordedOnce.
LEMMA RecordInvSuffices == RecordInv => RecordedOnce
  BY DEF RecordInv, Once, Listed, RecordedOnce

\* Unless a commit that succeeded is reported as failed, the trace and the fact
\* of a turn are recorded once or not at all (record_chat_memory and its retries).
THEOREM RecordedOnceHolds == ASSUME MemoryAssumption, ~LostAcks PROVE Spec => []RecordedOnce
<1>1. Init => RecordInv
  BY RecordInvInitially
<1>2. RecordInv /\ [Next]_vars => RecordInv'
  BY RecordInvStep
<1>3. QED
  BY <1>1, <1>2, RecordInvSuffices, PTL DEF Spec

\* Who works holds the lock, unless a synthesis outlives its time to live.
LockInv == Inv /\ OneSynthesis /\ ((\E a \in Actor : Working(a)) => lock)

\* The invariant of the synthesis lock holds initially,
LEMMA LockInvInitially == ASSUME MemoryAssumption PROVE Init => LockInv
<1>1. Init => Inv
  BY InvInitially
<1>2. Init => \A a \in Actor : ~Working(a)
  BY DEF Init, Working, NoSynthesis
<1>3. QED
  BY <1>1, <1>2 DEF LockInv, OneSynthesis

\* and every step keeps it while no synthesis outlives its lock.
LEMMA LockInvStep == ASSUME MemoryAssumption, ~SlowSynthesis, LockInv, [Next]_vars PROVE LockInv'
<1>1. Inv' /\ Inv
  BY InvStep DEF LockInv
<1>2. synth \in [Actor -> SynthSt] /\ lock \in BOOLEAN
  BY <1>1 DEF Inv, TypeSynth
<1>3. CASE UNCHANGED SynthVars
  BY <1>1, <1>3 DEF SynthVars, LockInv, OneSynthesis, Working
<1>4. CASE ExpireLock
  BY <1>1, <1>4 DEF ExpireLock, LockInv, OneSynthesis, Working
<1>5. ASSUME NEW a \in Actor, NEW s \in SynthSt,
             synth' = [synth EXCEPT ![a] = s], s.pc = "traces", ~lock, lock' = TRUE
      PROVE  LockInv'
  <2>1. \A b \in Actor \ {a} : ~Working(b) /\ synth'[b] = synth[b]
    BY <1>2, <1>5 DEF LockInv
  <2>2. QED
    BY <1>1, <1>5, <2>1 DEF LockInv, OneSynthesis, Working
<1>6. ASSUME NEW a \in Actor, TaskStep(a) PROVE LockInv'
  <2>1. PICK s \in SynthSt :
             /\ synth' = [synth EXCEPT ![a] = s]
             /\ s.pc \notin {"none", "pop", "done"} => synth[a].pc \notin {"none", "pop", "done"}
             /\ lock' = lock \/ (lock' = FALSE /\ s.pc = "pop" /\ synth[a].pc = "release")
    BY <1>1, <1>6, TaskMoves DEF Inv
  <2>2. synth'[a] = s /\ \A b \in Actor \ {a} : synth'[b] = synth[b]
    BY <1>2, <2>1
  <2>3. \A b \in Actor : Working(b)' => Working(b)
    BY <2>1, <2>2 DEF Working
  <2>4. CASE lock' = lock
    BY <1>1, <2>3, <2>4 DEF LockInv, OneSynthesis
  <2>5. CASE lock' = FALSE /\ s.pc = "pop" /\ synth[a].pc = "release"
    <3>1. \A b \in Actor : ~Working(b)'
      BY <2>2, <2>3, <2>5 DEF LockInv, OneSynthesis, Working
    <3>2. QED
      BY <1>1, <3>1 DEF LockInv, OneSynthesis
  <2>6. QED
    BY <2>1, <2>4, <2>5
<1>7. ASSUME NEW a \in Actor, Enqueues(a) PROVE LockInv'
  BY <1>1, <1>3, <1>5, <1>7, EnqueueMoves DEF Inv
<1>8. QED
  BY <1>3, <1>4, <1>6, <1>7, SynthesisMoves

\* One synthesis of a learner's memory at a time, over all workers
\* (enqueue_synthesize_l3, _run_synthesize_l3).
THEOREM OneSynthesisHolds == ASSUME MemoryAssumption, ~SlowSynthesis PROVE Spec => []OneSynthesis
<1>1. Init => LockInv
  BY LockInvInitially
<1>2. LockInv /\ [Next]_vars => LockInv'
  BY LockInvStep
<1>3. LockInv => OneSynthesis
  BY DEF LockInv
<1>4. QED
  BY <1>1, <1>2, <1>3, PTL DEF Spec

\* What a synthesis had to cover when it was scheduled is in what it commits,
\* whatever attempt succeeds (enqueue_synthesize_l3, synthesize_l3).
Covers ==
    \A a \in Actor :
        slots'["recent"].by = a /\ slots["recent"].by # a => synth[a].need \subseteq slots'["recent"].of

\* A synthesis that commits has read what was recorded when it was asked for.
LEMMA CoversStep == ASSUME MemoryAssumption, Inv, [Next]_vars PROVE Covers
<1>1. CASE slots' = slots
  BY <1>1 DEF Covers
<1>2. ASSUME NEW a \in Actor, TaskStep(a) PROVE Covers
  <2>1. \/ slots' = slots
        \/ /\ synth[a].pc = "commit"
           /\ slots' = [recent  |-> [by |-> a, of |-> synth[a].recent],
                        profile |-> [by |-> a, of |-> synth[a].profile]]
    BY <1>2, TaskMoves DEF Inv
  <2>2. QED
    BY <1>1, <2>1 DEF Inv, Needs, Covers
<1>3. CASE UNCHANGED SynthVars \/ ExpireLock \/ \E a \in Actor : Enqueues(a)
  BY <1>1, <1>3 DEF SynthVars, ExpireLock, Enqueues, svars
<1>4. QED
  BY <1>2, <1>3, SynthesisMoves

\* The slots a synthesis commits cover every fact recorded before the request
\* that enqueued it (synthesize_memory, enqueue_synthesis).
THEOREM SynthesisCoversRequestHolds == ASSUME MemoryAssumption PROVE Spec => SynthesisCoversRequest
<1>1. Init => Inv
  BY InvInitially
<1>2. Inv /\ [Next]_vars => Inv'
  BY InvStep
<1>3. Inv /\ [Next]_vars => [Covers]_vars
  BY CoversStep
<1>4. QED
  BY <1>1, <1>2, <1>3, PTL DEF Spec, SynthesisCoversRequest, Covers
=============================================================================
