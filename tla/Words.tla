-------------------------------- MODULE Words --------------------------------
(***************************************************************************)
(* The Dutch word list and what is kept for a learner about it             *)
(* (modules/learning/engine.py, api.py, quiz, notebook). The list is       *)
(* inserted by whichever transaction finds the table empty first, at the   *)
(* start of a worker or in a request; the level counts are cached in Redis *)
(* and in each worker. One transaction per request, committed by get_db    *)
(* after the route, by save_entry itself, or by session_scope.             *)
(***************************************************************************)
EXTENDS Naturals, FiniteSets

CONSTANTS
    Worker,
    Request,        \* requests of one learner
    Nobody,
    InsertFaults,   \* BOOLEAN: the insert of the list may fail for another reason
    MaxRestarts     \* workers that stop and start again

WordsAssumption ==
    /\ Worker # {} /\ Request \cap Worker = {} /\ Nobody \notin Request \cup Worker
    /\ InsertFaults \in BOOLEAN /\ MaxRestarts \in Nat

VARIABLES
    words,      \* is the list in the table (committed)?
    writer,     \* who has inserted it and not committed; others' inserts wait
    failed,     \* _seed_failed of each worker
    everFailed, \* has an insert failed for another reason, ever?
    levels,     \* the level counts in Redis: "none", "empty" or "full"
    memory,     \* _levels_memory of each worker
    saved,      \* the learner's rows: graded attempts and notebook entries
    req,        \* the requests and the warm-up of each worker
    restarts

wordsVars == <<words, writer, failed, everFailed, levels, memory, saved, req, restarts>>

Counts == {"empty", "full"}
Actor  == Request \cup Worker      \* a worker stands for its own warm-up

\* What a request does around ensure_words_seeded: GET /levels, a read (words,
\* story, quiz, progress summary), an answer on the path, which saves before
\* it, and the saves of the notebook, which save after it.
Kinds == {"levels", "read", "grade", "entry", "corpus"}

\* "on": the worker of a request; "pending": its transaction holds rows of its
\* own; "late": the list was there when the request began.
Idle(w) == [pc |-> "new", kind |-> "read", on |-> w, saw |-> "none", pending |-> FALSE, late |-> FALSE]
Init ==
    /\ words = FALSE /\ writer = Nobody
    /\ failed = [w \in Worker |-> FALSE] /\ everFailed = FALSE
    /\ levels = "none" /\ memory = [w \in Worker |-> "none"]
    /\ saved = {}
    /\ req = [a \in Actor |->
                 IF a \in Worker THEN [Idle(a) EXCEPT !.pc = "count", !.kind = "levels"]
                 ELSE Idle(CHOOSE w \in Worker : TRUE)]
    /\ restarts = 0

On(a)    == req[a].on
Go(a, pc) == req' = [req EXCEPT ![a].pc = pc]
\* What the transaction of a sees in the table.
Visible(a) == words \/ writer = a

-----------------------------------------------------------------------------
\* The routes. An answer is graded and its row flushed before the seeding; a
\* hit in the memory of the worker answers at once.
First(w, kind) ==
    CASE kind = "levels" /\ memory[w] # "none" -> "done"
      [] kind = "levels" -> "fetch"
      [] OTHER -> "count"
Begin(r, w, kind) ==
    /\ r \in Request /\ req[r].pc = "new"
    /\ req' = [req EXCEPT ![r] = [Idle(w) EXCEPT !.pc = First(w, kind), !.kind = kind,
                                                 !.pending = kind = "grade", !.late = words]]
    /\ UNCHANGED <<words, writer, failed, everFailed, levels, memory, saved, restarts>>
\* get_cached_levels: the answer of Redis, then the copy in the worker.
Fetch(r) ==
    /\ req[r].pc = "fetch"
    /\ req' = [req EXCEPT ![r].pc = IF levels = "none" THEN "count" ELSE "copy", ![r].saw = levels]
    /\ UNCHANGED <<words, writer, failed, everFailed, levels, memory, saved, restarts>>
Copy(r) ==
    /\ req[r].pc = "copy"
    /\ memory' = [memory EXCEPT ![On(r)] = req[r].saw]
    /\ Go(r, "done")
    /\ UNCHANGED <<words, writer, failed, everFailed, levels, saved, restarts>>

\* The checks of ensure_words_seeded.
\* Mutant: the rows of the table are not counted before the insert.
InsertAnyway(a) ==
    /\ req[a].pc = "count"
    /\ Go(a, IF failed[On(a)] \/ writer = a THEN "work" ELSE "insert")
    /\ UNCHANGED <<words, writer, failed, everFailed, levels, memory, saved, restarts>>
Count(a) ==
    /\ req[a].pc = "count"
    /\ Go(a, IF failed[On(a)] \/ Visible(a) THEN "work" ELSE "insert")
    /\ UNCHANGED <<words, writer, failed, everFailed, levels, memory, saved, restarts>>
\* The ranks are unique: the insert waits for another's transaction and fails
\* when that one has committed. A failure rolls the whole session back, rows
\* of the request included, and the request goes on.
Insert(a) ==
    /\ req[a].pc = "insert" /\ writer = Nobody /\ ~words
    /\ writer' = a
    /\ Go(a, "clear")
    /\ UNCHANGED <<words, failed, everFailed, levels, memory, saved, restarts>>
Conflict(a) ==
    /\ req[a].pc = "insert" /\ words
    /\ req' = [req EXCEPT ![a].pc = "work", ![a].pending = FALSE]
    /\ UNCHANGED <<words, writer, failed, everFailed, levels, memory, saved, restarts>>
InsertError(a) ==
    /\ req[a].pc = "insert" /\ InsertFaults
    /\ failed' = [failed EXCEPT ![On(a)] = TRUE] /\ everFailed' = TRUE
    /\ req' = [req EXCEPT ![a].pc = "work", ![a].pending = FALSE]
    /\ UNCHANGED <<words, writer, levels, memory, saved, restarts>>
\* invalidate_levels_cache, in the transaction that is still open.
Clear(a) ==
    /\ req[a].pc = "clear"
    /\ memory' = [memory EXCEPT ![On(a)] = "none"] /\ levels' = "none"
    /\ Go(a, "work")
    /\ UNCHANGED <<words, writer, failed, everFailed, saved, restarts>>

-----------------------------------------------------------------------------
\* build_levels_payload counts the words, set_cached_levels keeps the counts.
CountLevels(a) ==
    /\ req[a].pc = "work" /\ req[a].kind = "levels"
    /\ req' = [req EXCEPT ![a].pc = "store", ![a].saw = IF Visible(a) THEN "full" ELSE "empty"]
    /\ UNCHANGED <<words, writer, failed, everFailed, levels, memory, saved, restarts>>
Store(a) ==
    /\ req[a].pc = "store"
    /\ memory' = [memory EXCEPT ![On(a)] = req[a].saw] /\ levels' = req[a].saw
    /\ Go(a, "commit")
    /\ UNCHANGED <<words, writer, failed, everFailed, saved, restarts>>
\* save_entry upserts the learner's row of a lemma that is not in the list.
SaveEntry(a) ==
    /\ req[a].pc = "work" /\ (req[a].kind = "entry" \/ (req[a].kind = "corpus" /\ ~Visible(a)))
    /\ req' = [req EXCEPT ![a].pc = "commit", ![a].pending = TRUE]
    /\ UNCHANGED <<words, writer, failed, everFailed, levels, memory, saved, restarts>>
Other(a) ==
    /\ req[a].pc = "work" /\ req[a].kind \in {"read", "grade"}
    /\ Go(a, "commit")
    /\ UNCHANGED <<words, writer, failed, everFailed, levels, memory, saved, restarts>>
Rollback(a, pc) ==
    /\ writer' = IF writer = a THEN Nobody ELSE writer
    /\ req' = [req EXCEPT ![a].pc = pc, ![a].pending = FALSE]
\* update_word_progress of a word the learner has no row for: the columns have
\* server defaults only, so the strengths of a new object are None until they
\* are read back, and None + delta raises TypeError. No other code creates a
\* row: the save of a word of the list, POST /progress/word and the answer to
\* a quiz question with a word all end here.
UpdateWordProgress(a) ==
    /\ req[a].pc = "work" /\ req[a].kind = "corpus" /\ Visible(a)
    /\ Rollback(a, "error")
    /\ UNCHANGED <<words, failed, everFailed, levels, memory, saved, restarts>>
Commit(a) ==
    /\ req[a].pc = "commit"
    /\ words' = Visible(a) /\ writer' = IF writer = a THEN Nobody ELSE writer
    /\ saved' = IF req[a].pending THEN saved \cup {a} ELSE saved
    /\ req' = [req EXCEPT ![a].pc = "done", ![a].pending = FALSE]
    /\ UNCHANGED <<failed, everFailed, levels, memory, restarts>>

-----------------------------------------------------------------------------
Closed == {"new", "done", "error"}
\* A worker stops and starts: its transactions are rolled back.
Restart(w) ==
    /\ restarts < MaxRestarts
    /\ restarts' = restarts + 1
    /\ req' = [a \in Actor |->
                  IF On(a) # w THEN req[a]
                  ELSE IF a = w THEN [Idle(w) EXCEPT !.pc = "count", !.kind = "levels"]
                  ELSE IF req[a].pc \in Closed THEN req[a]
                  ELSE [req[a] EXCEPT !.pc = "error", !.pending = FALSE]]
    /\ writer' = IF writer # Nobody /\ On(writer) = w THEN Nobody ELSE writer
    /\ failed' = [failed EXCEPT ![w] = FALSE]
    /\ memory' = [memory EXCEPT ![w] = "none"]
    /\ UNCHANGED <<words, everFailed, levels, saved>>
Expire ==
    /\ levels # "none"
    /\ levels' = "none"
    /\ UNCHANGED <<words, writer, failed, everFailed, memory, saved, req, restarts>>
ExpireMemory(w) ==
    /\ memory[w] # "none"
    /\ memory' = [memory EXCEPT ![w] = "none"]
    /\ UNCHANGED <<words, writer, failed, everFailed, levels, saved, req, restarts>>

Step(a) ==
    \/ Fetch(a) \/ Copy(a) \/ Count(a) \/ Insert(a) \/ Conflict(a) \/ InsertError(a) \/ Clear(a)
    \/ CountLevels(a) \/ Store(a) \/ SaveEntry(a) \/ Other(a) \/ UpdateWordProgress(a) \/ Commit(a)
Next ==
    \/ Expire \/ \E w \in Worker : Restart(w) \/ ExpireMemory(w)
    \/ \E r \in Request, w \in Worker, kind \in Kinds : Begin(r, w, kind)
    \/ \E a \in Actor : Step(a)
Spec == Init /\ [][Next]_wordsVars

-----------------------------------------------------------------------------
TypeOK ==
    /\ words \in BOOLEAN /\ writer \in Actor \cup {Nobody}
    /\ failed \in [Worker -> BOOLEAN] /\ everFailed \in BOOLEAN
    /\ levels \in Counts \cup {"none"} /\ memory \in [Worker -> Counts \cup {"none"}]
    /\ saved \subseteq Request
    /\ req \in [Actor -> [pc : Closed \cup {"fetch", "copy", "count", "insert", "clear", "work", "store", "commit"},
                          kind : Kinds, on : Worker, saw : Counts \cup {"none"},
                          pending : BOOLEAN, late : BOOLEAN]]
    /\ restarts \in 0..MaxRestarts

\* Once the list is in the table, an answer or an entry that was acknowledged
\* is in its row: only the race for the very first insert can lose one.
AcknowledgedIsKept ==
    \A r \in Request :
        req[r].pc = "done" /\ req[r].late /\ req[r].kind \in {"grade", "entry"} => r \in saved

\* A learner sees levels without words only where an insert has failed: a
\* worker that loses the race counts the words of the winner.
LevelsHaveWords ==
    ~everFailed => levels # "empty" /\ \A w \in Worker : memory[w] # "empty"

\* "Corpus-linked words join your spaced-repetition queue": with the list in
\* place the save of one of its words succeeds.
CorpusWordsQueue ==
    \A r \in Request : ~(req[r].kind = "corpus" /\ req[r].pc = "error" /\ restarts = 0)
=============================================================================
