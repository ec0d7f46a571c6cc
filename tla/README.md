# LangTutor: models, checks and proofs

TLA+ modules for the parts of LangTutor in which state is shared between
requests, tasks, worker processes and browsers, and for the rules whose result
a learner or a language model sees. TLC checks them on small instances; TLAPS
proves the most important results for every instance. Every definition is a
translation of the code at the lines `PROJECT.json` gives under `map`.

Paths below are relative to `src/backend/app/` unless they start with
`frontend` (`src/frontend/src/`).

## 1. The system

A FastAPI backend runs as several worker processes. Each is one asyncio event
loop: code between two awaits is not interleaved with anything in its process,
and nothing keeps two workers apart but PostgreSQL and Redis. PostgreSQL holds
what lasts; Redis holds turn records, locks, progress and caches, all with a
time to live; module-level dictionaries hold what one process knows. A React
frontend talks to it over HTTP and one websocket.

| Component | State | Operations | What is hard | What makes it correct |
|---|---|---|---|---|
| **Tutor turns** `modules/tutor/{turn_runtime,turn_state_store,ws}.py` | Redis `tutor:turn:<id>`, `tutor:session:<id>`; `_local_tasks` of a process; row `tutor_chat_turns` | start, reply, cancel over the websocket; the task that executes a turn; expiry | a handler, a task and other workers between any two Redis commands; `task.cancel()` at every await; worker death; pauses and resumptions | one executor of a turn; a running record is settled by someone; session keys go; the row agrees with the record |
| **Tutor persistence, sessions, SSE** `modules/tutor/{persistence,api,turn_executor}.py`, `sessions/` | `tutor_chat_turns`, dead letters | `persist_tutor_turn`, `record_chat_memory`, list, delete | retries of what was already done; failure after the record was saved | events once and in order; memory once or a dead letter |
| **Agent loop and tools** `modules/agent/` | the conversation of a turn, the event queue, the borrowed database session | one LLM call after the other, tools in parallel, `ask_user` pauses, orchestrator and owner | a pause in the middle of a batch; cancellation while tools run; iteration limit; three owners with one contract | the conversation stays whole; all or nothing is written; the loop ends having said something |
| **Tutor chat client** `frontend modules/tutor/` | busy flag, active turn, pending question, reconnection | send, reply, cancel, every inbound frame | a socket that drops in a turn; frames of two turns | the input is unlocked; Stop works |
| **Browser session** `frontend context/AuthContext.tsx`, `auth.tsx`, `pages/Home/` | the token in React state and in two storages, the query of `/auth/me`, the chat kept in the tab | sign in with a form or Google, check, retry, log out, reload | sign-ins and checks still in flight when the session changes; other tabs share one storage | token, user and chat belong together; the check ends |
| **Learner memory** `modules/memory/` | `user_memory_traces`, `user_memory_documents` (L2 facts, L3 slots, preferences), Redis caches, `lock:jobs:memory:l3:<user>`, `_scheduled_tasks` | record, read, add preference, synthesize in the background | read-modify-write without a version check; lock with a time to live; caches invalidated before the commit | one synthesis; slots from one synthesis; nothing recorded twice; the lock is given back |
| **Document indexing** `modules/rag/application/{document_ingestion_service,indexing_tasks}.py` | `rag_documents`, `rag_ingestion_jobs`, `rag_chunks`, files, Redis progress and lock | index, delete, run a job | row locks in different orders; a job that outlives its lock; a task that starts before its request commits | one generation of chunks; a deleted document stays deleted; transactions end |
| **Document retrieval** `modules/rag/application/{retrieval_service,retrieve_cache,answer_cache,rag_policy_service}.py` | two Redis caches, grants | query, answer | stale caches around indexing; a grant that is revoked; fused scores against a threshold | no grant, no passage; the owner sees a change |
| **Mastery path** `modules/learning/mastery/`, `learning/path_api.py`, `agent/tools/mastery.py` | row `learning_progress` (one JSON document with attempts, scores, schedule, errors, pending question) | map, next drill, answer, assess, register a quiz, grade from chat | requests that overlap and write the document back whole; answers without a question id; scoring, gates and scheduling that decide what comes next | mastered means earned; no question graded twice; a learner who answers gets done |
| **Mastery panel** `frontend modules/learning/components/MasteryPathPanel.tsx` | the drill on screen | fetch, answer, refresh | answers sent twice; replies that are lost or late | the answer is graded against what was shown |
| **Words, notebook, quizzes** `modules/learning/{engine,api,response_cache}.py`, `learning/quiz/`, `notebook/` | the word list, `user_word_progress`, attempts, level counts in Redis and in each worker, quiz cache | seed, levels, grade, save an entry, quiz | seeding inside another's transaction; counts cached before the commit | an acknowledged answer is kept; a level with words is not empty |
| **Locks and background jobs** `core/{redis_lock,background}.py` | Redis keys, process memory when Redis is down | acquire, release, schedule | release without an owner; fallback | mutual exclusion; no lock nobody has |
| **LLM clients** `modules/llm/` | circuit breakers, client caches | call, stream, retry, fall back | concurrent calls around the threshold; a stream that fails in the middle | one answer; opens when it should; counted once; what is sent fits |
| **AI settings** `modules/{ai,settings}/` | two files, caches in each process | read, change, delete, route | two files replaced one after the other; a cache refilled during a save | a change arrives |
| **Rate limits** `core/rate_limit.py`, `main.py` | Redis counters, buckets in memory | hit | two commands; a failure between them | what passes is bounded |
| **Accounts** `modules/{auth,users,privacy}/` | `users`, OAuth states in Redis or memory | sign up, log in, Google callback, delete | two inserts of one email; a state taken twice; deletion during a sign-in | one account; deleted stays deleted |
| **Reading, translation** `modules/{reading,translation}/`, `frontend modules/reading/` | feed items, results and translations in caches, saved readings in memory | generate, save, list | up to three attempts, each of which may fail or make it worse | the best text is kept |
| **Knowledge base** `modules/knowledge/` | chunks, revision, an index and results per worker, results in Redis | ingest, warm up, search | an ingest commits on another worker in the middle of a search | a search answers with what the base held |
| **Stories, cards, prompts** `learning/engine.py`, `agent/tools/ask_user_payload.py`, `rag/application/rag_context_builder.py` | none | functions | limits, duplicates, empty inputs | within limits, nothing lost |
| Book, extensions, persona, skills, start-up, schema, pages | none shared beyond a row or a cache | one request each | little | section 8 |

How they interact: the **chat client** sends messages over a websocket whose
handler starts a **tutor turn**; its task runs the **agent loop**, which calls
**language models** as the **AI settings** route them, may call the **mastery
path**, the **knowledge base** or **document retrieval** through tools, and
reads the **learner memory** through the context loader. When the turn is over
it records **memory**, which schedules a synthesis as a **background job** under
a **lock**. **Indexing** is another background job under the same kind of lock
and invalidates the cache of retrieval. The **panel** talks to the mastery path
alone; the path, stories and quizzes read the **word list**.

The hazards of this code, each at its line and with the properties that would
catch it, are listed in `PROJECT.json`.

## 2. The modules

| Module | Models | Run |
|---|---|---|
| `TutorTurns` | turns over the websocket: runtime, store, tasks, row, crashes | `tutor_*` |
| `TurnLife` | the life of a turn as a learner sees it, which `TutorTurns` implements | `tutor_roaming` |
| `TutorTurns_proofs` | theorems about `TutorTurns` | |
| `AgentLoop` | a turn inside the agent: loop, tools, orchestrator, owner, session | `chat` |
| `TutorChat` | the chat in the browser against an abstract server | `chat` |
| `SignIn` | the session of a browser tab | `chat` |
| `MCChat_proofs` | theorems about the three above | |
| `LearnerMemory` | recording, preferences, synthesis, caches | `shared_data`, `services`, `progress` |
| `LearnerMemory_proofs` | theorems about it | |
| `RagIndexing` | index and delete requests, jobs, locks, rows | `shared_data`, `progress`, `rag_early_start` |
| `RagIndexing_proofs` | theorems about it | |
| `Retrieval` | both retrieval caches, policy, ranking, answers | `services`, `documents_found` |
| `Mastery` | score, schedule, error records, gates, choice of the next objective, as operators | through `MasteryPath` |
| `MasteryPath` | the row, the requests and the panels; EXTENDS `Mastery` | `shared_data`, `progress`, `path_words` |
| `MasteryPath_proofs` | theorems about both | |
| `Words` | seeding, levels, attempts, notebook and word progress | `services`, `words_review` |
| `JobLock`, `Mutex` | the job lock with its fallback; the abstract lock it implements | `services`, `progress` |
| `LlmCalls` | retries, breakers, fallback, streams, client cache, usage | `services` |
| `AiSettings` | profiles, routing, keys, caches, a call that uses them | `services`, `progress`, `settings_key` |
| `RateLimit` | the two limiters | `services` |
| `Accounts` | sign-up, log-in, Google, deletion | `services` |
| `Reading` | generation with repairs, caches, saved readings, the panel | `services` |
| `Knowledge` | ingests, revisions, indexes, caches, searches | `services` |
| `Rules` | what is sent to a model, chunks of a prompt, cards, stories, quizzes, verdicts | `services` |
| `MC*` | constants, bounds, symmetry and composition of the runs | |
| `MCShared_proofs`, `MCServices_proofs`, `MCProgress_proofs` | theorems about the compositions and about their parts without a module of proofs of their own | |

An operator whose comment starts with "Mutant" is not part of the model: it is
a plausible slip in the code, kept beside the definition it would replace.
Each property of the passing runs is broken by one of them.

`MCShared`, `MCChat`, `MCServices` and `MCProgress` put independent components
side by side: `part` is chosen in the initial state and names the one that
moves, so a run explores the sum of their state spaces and not the product.
Components that do interact meet inside a module: turns, tasks and the session
in `TutorTurns`; loop, orchestrator, owner and transaction in `AgentLoop`; jobs,
requests and deletions in `RagIndexing`; settings and calls in `AiSettings`;
indexing and retrieval in `Retrieval`; seeding and its callers in `Words`.

What these compositions give their parts (sets, bounds, which failures may
happen) are constants of the `MC*` modules too, with values in the `.cfg`, so
that the theorems about a composition hold for every instance and not only for
the one TLC checks.

### TutorTurns

One action is one awaited command with the code up to the next await, so
exactly the interleavings the event loops and Redis allow are there.

- `rec[t]`, `key[s]`: the two Redis keys. `save_turn` is two actions
  (`SaveTurnKey`, then `SaveSessionKey`); `acquire_session` is SET NX, GET, GET
  of the record and an unconditional SET (`Acquire`, `GetExisting`,
  `GetExistingRecord`, `Overwrite`); `release_session` is GET, compare, DELETE.
- `conn[c]`: a websocket handler, which takes one message at a time. `task[k]`
  with `k = <<t, n>>` is the n-th execution of turn `t` with its local
  `TurnRecord`; `local[w][t]` is its entry in `_local_tasks`.
- `Interrupt` is `task.cancel()`: a task that never ran ends without running a
  handler, one in its `try` goes to the `CancelledError` handler, one in a
  handler leaves through `finally`.
- `TaskPersist` is the transaction of `persist_tutor_turn` with its retries: it
  commits or leaves a dead letter. `TaskCommit` may fail after the row was
  written, and the error handler then persists again.
- `Crash`, `Reconnect`, `ExpireTurn`, `ExpireSession` are the environment.

`TurnLife` is what this promises: a turn is new, running, waiting or over; an
execution begins a new turn or goes on from a pause, and no two run at once.
`Life` reads it off the state: `Executions` are the tasks created, a turn runs
while one is `Active`, and waits while its record says "paused" or a handler
(`Resuming`) has accepted a reply and not yet created the task.

Abstracted: events are numbers; the agent loop is a stream that yields at most
`MaxEvents` events, may ask (pause) and may raise at any point.

### AgentLoop

The capability's task (`pc`), the queue (`bus`) and the owner (`owner`) are three
processes. The task is `AgentLoopRunner.run`: one response of the model, its
batch of calls (parallel ones start together, serial ones follow in order), the
results appended in the order of the calls, the grounding reminder, the fallback
at the iteration limit. The owner is the websocket runtime, the HTTP route or
the SSE route (`turn.entry`), and they differ where the code does: in what a
cancellation reaches and in who resumes. `bound` is the session in the context:
a tool that finds none opens and commits its own (`resolve_agent_db`). `written`,
`kept` and `loose` are the writes in the open transaction, committed by the
owner, and committed by a tool.

### TutorChat

`hook` is the state of `useTutorChat`, `conn` and `tries` that of `TutorWsClient`
and the reconnection, `outbox` and `inbox` the frames in flight; `served` is what
the server knows of a turn. A socket drops with what is in flight; the client
tries again at most `MaxAttempts` times; the page may be reloaded, and reads its
session from `sessionStorage`.

### SignIn

`store` is the token in each storage, `token` the state of `AuthProvider`,
`query` and `fetch` the query of the current user and its request, which reads
the storage at each attempt and is retried once unless it was refused. `forms`
are sign-ins that wait for the server, also those whose form was switched away;
`hash` is what Google's return left in the address. A render and its effects are
one step with what caused them. The query library is modelled by what the code
relies on: one request at a time, data kept over a failed refetch, a removed
query's request dropped. `mixed` marks behaviours in which another tab changed
the storage, or a sign-in was answered over another one (section 5).

### RagIndexing

A transaction's writes are seen at its commit. `held[d]` is the row lock of the
document; `seen` and `removed` are the chunks a DELETE saw when it began and
those it has removed, so that two transactions wait for each other as
PostgreSQL makes them. `BreakDeadlock` is PostgreSQL ending one of two that
wait in a cycle. A generation of chunks is named by the job that inserted it.

`StoreWrites` says what the vector store's statements may do. In the code as it
stands they raise: `rag/infrastructure/pgvector_adapter.py` calls `delete`
(line 184) and `insert` (line 42) and imports neither (line 7), so a job and a
deletion fail with `NameError` in the middle of their transaction. With `{TRUE}`
the model is the code with the import; `progress` allows both outcomes.

### LearnerMemory

`rec` is `record_chat_memory` of each turn (trace and fact in one session, with
retries and a dead letter), `pref` and `call` the requests, `synth` the
background synthesis with its retries, `sched` the table of each worker, `lock`
the Redis lock. A document is read, changed and written back whole, whatever
its version says: `seen` is what was read. Text is abstracted to the turns and
preferences it mentions, and to the task that wrote each slot.

### Mastery and MasteryPath

Scores are thousandths rounded down; every threshold they meet is a whole
number of thousandths, so the comparisons are exact. Attempts are kept to the
last five outcomes of an objective, all the code reads (`mastery.py`). Dates
are days left until the review. `MasteryPath` stores the whole document as one
row. A request takes its snapshot when it starts (`Start`) and writes it back
when it ends (`EndGrade`, `EndDrill`, ...); two may overlap, and a request that
inserts a row another one inserted fails on the unique key (`InsertConflict`).
A panel sends `grade` without a question id; `about` in the model is the
question it showed, read by the properties and never by the server. It may send a
second answer before the first has its reply: the button is disabled then, Enter
is not (`MasteryPathPanel.tsx:147`). A reply that is lost leaves the panel with
the old question. Both spend the bound `cross`.

### Words, Retrieval

`Words` is the word list inserted by whoever finds it missing: start-up, or any
request, in its own transaction. A second insert waits for the first and fails
with it committed, and the code rolls back everything the request did before it.
`Retrieval` follows one generation of chunks per document; a question passes
policy, cache, search, ranking, model and answer cache with the owner's index
and delete transactions between any two of its steps. Both caches swallow the
errors of Redis: a read may miss, a write may be lost, and an invalidation may leave
any of the owner's keys while its transaction goes on to commit. `raced` are chunks
that may have been cached after their invalidation, or that a key it left still
holds: the exceptions the properties name.

### LlmCalls, AiSettings, RateLimit, JobLock, Accounts

`LlmCalls` has one breaker per backend shared by all calls, attempts that fail
in ways that are retried or not, streams that fail before or after their first
chunk, the fallback backend and the cached client. `AiSettings` writes the
settings and the secrets file one after the other by replacement, with a crash
between them, and caches the effective settings and a task client in the
process. `RateLimit` is INCR and EXPIRE as two commands, with the bucket in
memory from the moment a command raises. `JobLock` decides at each command
whether Redis answers; `JobLock!Lock` reads it as `Mutex`, with the working job
as holder. `Accounts` has one transaction per request; `inserted` is the email
whose unique key it holds until it commits.

### Reading, Knowledge, Rules

In `Reading` a text is a sequence of sentences and a sentence the number of its
unknown words; the model returns any text of `Written` or fails, at each attempt.
`Knowledge` has the chunks and the revision, an index and results per worker and
results in Redis, keyed by revision. A `Rules` state is one input: the run takes
some 15,700 of them as initial states and compares what the functions return with
what they are for. Loops are recursive functions, and what a rule keeps of a list
is a set of its places, so that `Weight` is the size of any part of a conversation.

## 3. What the runs check

| Run | Instance | Properties | Shows |
|---|---|---|---|
| `tutor_session` | 2 turns, 1 session, 2 executions of 2 events, 1 worker | `TypeOK`, `RowMatchesRecord`, `SessionsReleased` | at rest the row agrees with the record event for event; no session key names an ended turn |
| `tutor_roaming` | 1 turn, 2 workers, reconnection to either, 1 crash, live records may expire, fairness | `TurnsLive`, `RunningIsServed`, `CancelStopsLocalTask`, `RequestsEnd`, `SessionFreed` | turns implement `TurnLife`, so one executor; a running record is settled by someone; a cancellation stops the local task; every message is answered; a session does not stay busy |
| `shared_data` | path: 1 objective, panel, chat, assess, register, 2 requests at once; memory: 2 turns, 3 attempts, 1 preference, 2 workers; indexing: 3 jobs, any number of deletions, faults, crashes, expiring locks | `SharedTypeOK`, `MasteryIsEarned`, `GradedOnce`, `RecordedOnce`, `OneSynthesis`, `DocumentsConsistent`, `SynthesisCoversRequest` | overlapping requests overwrite each other and yet nothing is mastered unearned or graded again; a turn is recorded once or not at all; one synthesis, which covers the turn that asked; the row locks alone keep one generation of chunks and a deleted document deleted |
| `chat` | loop: 3 entries, 3 iterations, batches of 2, 3 calls, 2 executions, cancellations, faults; client: 2 turns, 2 drops or reloads, 1 question; tab: 2 sign-ins, 3 failed requests, 2 reloads or changes by other tabs; fairness | `BothTypeOK`, `ConversationIsWhole`, `AllOrNothing`, `AnswersLearner`, `LockIsJustified`, `OneIdentity`, `ExecutionEnds`, `PagesUnlock` | what the model is sent is whole through pauses; the owner decides what is written; the loop ends and says something; a locked input waits for a turn that runs, can be stopped, and is unlocked in the end; the user shown, the token and the chat are of one sign-in; the page does not check a session for ever |
| `services` | ten components with 2 or 3 requests, 1 or 2 workers and failures each, and 15,700 inputs of `Rules` | `ServicesTypeOK`, `SignInsAreSingle`, `DeletedStays`, `PassesAreBounded`, `MemoryServed`, `CallsAreSound`, `RetrievalIsCurrent`, `WordsAreKept`, `SlotsOfOneSynthesis`, `ReadingIsBest`, `MaterialIsSound` | the safety of each, as the comments of `MCServices` say |
| `progress` | indexing: 2 jobs, deletions, statements that work or raise; memory: 1 turn, 1 reader, lost acknowledgements; path: 2 objectives, 2 requests, 1 wrong answer, 1 pause, 1 failed request, 1 answer sent over another or reply lost; settings: 2 profiles, 2 requests, 1 crash; lock: 2 jobs; fairness | `IndexingIsLocked`, `GradedAsShown`, `JobsEnd`, `PathCompletes`, `SettingsReachCalls`, `IsMutex` | no wait is for ever and locks are given back; an answer is graded against what was shown until answers or replies cross; the path is completed and stays so, or a question is pending that no panel shows; a saved setting reaches the calls; with Redis the job lock implements `Mutex` |
| `tutor_two_running` | as `tutor_session` | `OneTurnPerSession`, violated | finding 1 |
| `rag_early_start` | 1 job, no faults, fairness | `JobCompletes`, violated | finding 2 |
| `path_words` | 1 vocabulary objective at level A2, fairness | `PathCompletes`, violated | finding 3 |
| `settings_key` | 2 profiles, 1 key | `BlankKeepsKey`, violated | finding 4 |
| `words_review` | 1 request, nothing fails | `CorpusWordsQueue`, violated | finding 5 |
| `documents_found` | 1 document, 1 question, the configured threshold | `IndexedIsFound`, violated | finding 6 |

### Bounds, and why they are enough

Each bound is a constant of the module and is named where it is used.

- **Turns.** The record, the key and the executions of a turn meet those of
  another only through the session key, so one session and two turns contain
  the conflicts of `acquire_session` and `release_session`; a third would only
  repeat the part of the second. Two executions are a pause and its resumption;
  two events distinguish a lost, a repeated and a swapped fragment. The runs
  have one connection because one client is what can be checked exhaustively
  with everything else; the proofs take any number of connections.
- **Loop.** Two calls in a batch are one before and one behind a pause, in
  parallel or in order; three iterations are a batch, the reminder and the last
  one; three calls let a second batch follow a pause.
- **Client.** Two turns are the one the hook waits for and one whose frames
  arrive beside it; one question is asked before a drop and answered after it.
- **Tab.** Two sign-ins are the one before and the one after a logout, or two at
  once; three failures are a check that fails for good and a retry that
  fails once more.
- **Indexing.** Three jobs are a lock that expired under its holder and a third
  that enters when the first one releases what it no longer owns. Documents do
  not share rows or locks, so one is enough.
- **Memory.** Two actors with a synthesis each are what can overlap; one or two
  entries make the trim happen (the code keeps 80); two or three attempts are
  first, last and one in between. The first actor works on a fixed worker, which
  only names the workers: the other may be on the same or on another.
- **Path.** Six questions are more than can be referred to at once (a panel, two
  snapshots, the row and the error records the wrong answers leave); ids are
  reused only when nothing refers to them. Wrong answers, pauses, failed
  requests, crossings (an answer sent over another, a lost reply) and stray client
  events (a refresh, a posted assessment or question) are bounded by `Budget`;
  right answers are not, so the whole way to the gate is in every passing run.
  `progress` has one of each but the stray events, which `shared_data` has beside
  a wrong answer.
- **Services.** Two actors race for every shared item; where a counter matters
  there is one more than its limit (three requests against a limit of 1 in a
  window, three calls against a threshold of 2). Two generations of chunks are
  an old and a new one; two ingests are two revisions and the empty base.
- **Reading.** The code's three attempts; sources and texts of at most three
  sentences with up to two unknown words are better, worse, equal, shorter and
  longer than one another.
- **Rules.** Conversations and lists of chunks of at most four, of 1 to 3 tokens
  in budgets of 3, 5 and 7, so that all, some or none fit, with a summary or
  without; cards with one question more than the limit, and ids that collide when a
  suffix is given; levels of up to 12 words and every share of them.

### Fairness

- `TutorTurns.FairSpec`: every handler and every task takes its next step. That
  is asyncio running ready coroutines, awaits on Redis and the database
  returning, and the agent loop ending within its iteration limit. Redis expires
  a record whose worker died: nothing else frees that session. Clients are not
  fair: nobody has to send, reply or cancel, and no other expiry is counted on.
- `MCChat`: every step of the loop and of its owner, for the same reason; models
  and tools answer or raise, since the clients have timeouts. In the browser,
  frames arrive while the socket is up, the client retries as its timer does, a
  turn works on, and a learner before a locked input presses Stop sooner or
  later (strong, since the button needs a socket). A request of the session is
  answered or aborted after 30 seconds, and goes out again after a failure (a
  browser that is offline holds it back until it is online).
- `RagIndexing`: the same for requests, tasks and deletions. Strong fairness for
  the two statements that wait for rows: PostgreSQL queues waiters, so a job
  gets the row between two deletions. `BreakDeadlock` is fair because the
  deadlock detector runs after a second. `progress` allows no crash and no
  expiry of a lock in use: it asks what the code does by itself.
- `LearnerMemory`: every step of every coroutine, but not failures, expiries or
  requests.
- `MasteryPath`: the server finishes requests and replies arrive; the panel
  fetches the drill it lacks and the learner answers the one shown (strong
  fairness, since both need a free request slot). That the learner answers is an
  assumption about a person; that answers are right in the end is the bound on
  slips.
- `AiSettings`: saves and calls go on, and the two caches expire.
- `MCProgress` states the fairness of all of these. As only one component moves,
  actions of several share one formula (`Work`, `Reply`, `Often`): in any
  behaviour all disjuncts but those of `part` are disabled.

`CHECK_DEADLOCK FALSE` is set where a run really may stop: when all requests of
an instance have been made, or a `Rules` input has been looked at.

## 4. Findings

1. **Two turns of a session run at once** (`tutor_two_running`). The runtime
   refuses a second turn with "A turn is already running for this session."
   (`tutor/ws.py:81`), and `acquire_session` exists for that. But replying to
   or cancelling a turn calls `save_turn`, which sets the session key
   unconditionally. One client, one worker: turn 1 pauses, turn 2 starts (a
   paused turn does not count as running), the learner answers turn 1, both run.
2. **A job may stay pending for ever** (`rag_early_start`). The index route
   schedules the task before `get_db` commits its transaction
   (`rag/api/routes.py:229`); a task that gets to its first statement first
   finds no job, raises `LookupError` and releases the lock. The job then stays
   pending and every later request for the document is answered with it.
3. **The path stops at every level but A1** (`path_words`).
   `ensure_words_seeded` ranks words over all levels in one run
   (`learning/engine.py:243`) while the path definitions name the ranks 1 to 80
   at each level, so a vocabulary objective beyond A1 has no word and no drill.
4. **Editing a profile deletes its key** (`settings_key`). A blank key in the
   dialog is replaced by the mask (`ai/service.py:140`), and the secrets file,
   which is written whole, leaves masked keys out. The dialog says "Leave blank
   to keep existing key." (`frontend
   modules/settings/components/LlmProfileDialog.tsx:245`).
5. **Words never enter the review queue** (`words_review`).
   `update_word_progress` creates the row of a first contact without values for
   its counters, whose defaults are the server's (`learning/engine.py:417`): the
   additions that follow raise `TypeError`, and nothing else creates the row.
   "Corpus-linked words join your spaced-repetition queue." (`frontend
   modules/notebook/components/WordBankPanel.tsx:67`).
6. **No document is ever found** (`documents_found`). The threshold of 0.3
   (`rag/README.md:15`) is compared with scores of reciprocal rank fusion, which
   are at most 2/61 (`rag/application/rerank_service.py:46`).

## 5. Observations

What the models, or the reading they took, showed and no document of the
repository denies, hence no run.

Turns, loop and client:
- *A reply from a second connection* that overtakes a cancellation of a task
  that has not started leaves a record "running" that nobody serves
  (`turn_runtime.py:217`), so `RunningIsServed` needs one connection a session.
- *Two quick first messages* start two sessions; a `turn_busy` error unlocks the
  input while a turn runs (`useTutorChat.ts`), which is why `LockIsJustified` goes
  from locked to running and not back.
- *Stop between `ask_user` and `turn_paused`* leaves a question on the page whose
  replies are dropped.
- *Two identities in a tab.* A form that was switched away still signs in: the
  page then shows the user of one sign-in and sends the token of another, for
  `loginWithToken` keeps the user that was found (`AuthContext.tsx:71`). A second
  tab that signs in as somebody else does the same through `localStorage`; one
  that signs out leaves the tutor chat in `sessionStorage` of this tab, where
  the next learner finds it. A 401 for the old token signs the new one out.
- *Retry of a degraded session* replaces the dashboard by "Checking your
  session…" while it asks, and the chat with it; after a refetch that
  succeeds by itself the banner stays.
- *Calls behind a pause* in a batch are executed and their results dropped
  (`runner.py:255`); the resumed conversation holds calls without answers.
  `CallsAnswered` excepts exactly those.
- *After a cancellation* a tool that is still running finds no bound session and
  commits by itself, against `agent/db_session.py:5`; `OwnerDecides` excepts it.
  Read-only tools of a batch share one `AsyncSession`.
- *A streamed answer* is out before the grounding check of `runner.py:151` looks
  at it; a capability that failed still ends "completed" and is recorded.

Documents and memory:
- *"Indexing started. Status updates automatically."* (`DocumentsPanel.tsx:94`):
  the list is polled only while a document has a status of the middle of a job
  (`useDocumentsQueries.ts:27`), and those are committed at the job's end.
- *Indexing fails* as long as the vector store raises `NameError` (section 2);
  the FAILED status is written in the transaction its own `raise` rolls back
  (`document_ingestion_service.py:251`), so the job stays pending; the file is
  unlinked before the commit (line 310).
- *A student keeps a deleted chunk* of a teacher's document for the cache's time
  to live, since only the owner's cache is invalidated, and so does the owner when
  Redis fails during the invalidation, which then does nothing
  (`rag/application/retrieve_cache.py:145`); the answer cache is never invalidated.
- *A fact is lost* when two turns of a learner end together
  (`memory/service.py:78`); *a cache keeps the old text* when it is read between
  invalidation and commit (line 129); *the cached text of a synthesis* leaves
  out the preferences until it expires (line 265).

Path, words, quizzes:
- *A drill that is lost is not shown again.* `build_drill` answers without a
  drill while a question is pending (`mastery/runtime.py:167`), and the panel
  shows nothing to answer then (`MasteryPathPanel.tsx:119`): after a refresh, a
  reply that did not arrive, or an answer sent over another, the path is stuck
  until something else clears the question. `PathCompletes` names that outcome
  (`OutOfSight`) and allows it after such an event only; the run fails without it.
- *An answer sent twice is graded twice.* Enter submits again while the first
  answer is under way (`MasteryPathPanel.tsx:147`): the second is graded against
  the question that follows, which nobody has seen. `GradedAsShown` holds until
  that happens, or a reply is lost.
- *Recency does not count.* `for w, c in zip(recent, weights)`
  (`mastery/mastery.py:12`) binds outcome and weight the other way round: the
  score is the number of right answers over the sum of weights. `GateIsEarned`
  below states what that amounts to.
- *Concept and design objectives* pass their gate only through `POST /assess`
  (`path_api.py:90`), which no client calls. The liveness runs hold memory and
  procedure objectives only.
- *An attempt is lost* when the seeding of the same request loses the race and
  rolls back (`engine.py:261`), hence "once the list is there" in
  `WordsAreKept`; a seeding that failed is not tried again by its process
  (`_seed_failed`); level counts may be cached by a transaction that then fails.
- *A quiz never completes*: the index of `QuizPracticePanel.tsx:63` stops at the
  last question, so "Session complete" is not reached. *A matching answer is
  wrong*: `submit_answer` passes the type of a question on
  (`quiz/application/service.py:134`) and `grade_answer` accepts nothing for a
  `fill_blank` (`mastery/grading.py:28`), which `judge_only` takes for a short
  answer (line 178); types come from a model and are not validated.
  `MatchIsRight` excepts that case. *A notebook look-up*
  by lemma expects one row where nothing keeps a second away.

Locks, calls, settings, limits, accounts:
- *Job locks overlap* when Redis fails for one of two jobs, on one worker too:
  `IsMutex` holds with `MaxFailures = 0` only.
- *A limiter key without a time to live* (INCR done, EXPIRE failed) refuses its
  client until someone deletes it.
- *Connection errors and timeouts are not retried*, although the hints of
  `llm/retry.py` name them; after its cooldown a breaker lets every call through,
  and a cached client is used while its breaker is open.
- *Two saves of the settings* may leave one's document with the other's secrets;
  an effective cache may be refilled with the old settings after the
  invalidation; deleting the last profile brings back the built-in ones.
- *Conversations lose their last question.* `fit_messages` does not reduce
  `used` when it pops kept messages (`llm/context_guard.py:91`): if the summary does not
  fit beside what is kept, often all of the conversation is dropped.
  No property forbids that: `ConversationFits` only says that what is sent fits and
  that a *part* is not left out without a summary. Tool results may stay without
  their calls.
- *`google_login` always raises* (`urllib_parse` is not imported); `services`
  also looks at the code with the import. A state is stored twice if the
  acknowledgement of its SET is lost. The email of a deleted account cannot be
  used again; a websocket is authenticated at its opening only.

Reading, knowledge, book, metrics:
- *A repair attempt that fails* counts as better, being equal: the text is the
  model's, but mode, warnings, glossary, title and quiz are those of the rules
  (`reading/service.py:334`). Saved readings are in the memory of the process, for
  want of a migration, and lost at a restart.
- *Two ingests at once* leave the statistics of the last one only.
- *A page of the book completed twice at once* has two rows, and every later
  completion raises (`book/service.py:73`). Pages from A2 on use ranks 1 to 60
  of all levels and compile to the first words of the level.
- *Histogram buckets* are accumulated twice (`core/metrics.py:47` and `:107`).

## 6. What is proved

Every proof is for all values of the constants that satisfy the named
assumptions. These say that sets are disjoint, that bounds are numbers, and
where a set is counted that it is finite: `BoundsAssumption`,
`NamesAssumption` (turns), `PathAssumption`, `ClientAssumption` (path; "None"
is no objective and no question), `RagAssumption`, `MemoryAssumption`,
`SharedAssumption`, `LoopAssumption`, `ChatAssumption`, `SignInAssumption`,
`ServicesAssumption`, `ContentAssumption` and `ProfilesAssumption`, which
collect `AccountsAssumption`, `LimitAssumption` (the limit and the window are
not 0), `LockAssumption`, `CallAssumption`, `RetrievalAssumption`,
`WordsAssumption`, `ReadingAssumption` (texts are not empty),
`KnowledgeAssumption` and `SettingsAssumption`, and `ProgressAssumption`. A
theorem that needs more says so in an ASSUME of its own, and the constant it
restricts is one the run sets the same way.

Each theorem rests on an inductive invariant, with one lemma per action (or per
group of actions that change the same variables), and the temporal step at the
end. What a composition adds is one lemma, `StepOrStutter` in each of its
modules: a step of the composition is a step of one part and leaves the
variables of the others alone.

### Turns (`TutorTurns_proofs`)

**`TypeCorrect`**: `Spec => []TypeOK`. `TypeOK` is not inductive: a handler that
saves the session key writes the turn it holds, and `TypeOK` allows it to hold
none. `InHand` adds that a starting handler has a session in hand and a working
one a turn.

**`OneExecutorHolds`, `RunningIsServedHolds`, `CancelStopsLocalTaskHolds`**: for
any number of turns, sessions, connections, workers, executions, events and
crashes, with or without roaming and expiry. They assume `Exclusive`: no two connections reach one session;
without it `RunningIsServed` is false (section 5). The invariant `Inv`:
  - `Handlers`: what a handler's program counter says about its turn: `HomeOK`
    (its session is one the connection reaches, so that by `Exclusive` no other
    handler works on the turn), `BeforeOK` (a handler about to create a task
    finds no execution active and none registered on its worker), `SavedOK`
    (until the cancelling handler has reached the task, the record does not say
    "running"), `DoneOK` (afterwards nothing of the turn is active on its
    worker);
  - `FreshTurns`: a turn nobody has started has no task;
  - `PausedIsQuiet`: while a record says "paused", no execution of the turn is
    active and no handler is about to create one. This is what makes accepting
    a reply safe on *another* worker, whose `_local_tasks` know nothing of it;
  - `Registry`: `_local_tasks` finds every task that has not reached its
    `finally` block; `Entries`: and names no other live one;
  - `Outcome`: what a task saves is an outcome, never "running";
  - `OneExecutor` and `RunningIsServed` themselves.

**`TurnsLiveHolds`**, under the same assumptions: `TutorTurns` implements
`TurnLife`. `Inv` is not enough, since a handler about to create the first task
of a turn must find it without executions (`NewTurns`). Each step is then one of
three kinds. `StepExecutes`: a task is created, and by `NewTurns` its turn is
new, or by `WaitsIsQuiet` (`PausedIsQuiet` and `BeforeOK` again) it waits and
nothing of it runs. `StepPauses`: a task saves "paused"; by `OneExecutor` it was
the only one, so the turn ran until now. `StepEnds`: every other step begins no
execution and lets no turn wait that did not (`QuietStep`), so that turns only
end; a crash may end several at once, and the cancellation of a paused turn, the
expiry of its record or the death of a worker that was resuming it ends one that
waits. One lemma per group of actions (`RequestLives` to `CrashLives`) shows
which kind it is.

**`RowMatchesRecordHolds`, `SessionsReleasedHolds`**: the two properties of
`tutor_session`, with `~Roaming` as well: the client keeps to one worker. With a
reconnection to another worker a cancellation does not reach the task, which
goes on to write its own outcome over the cancelled record, so that row and
record need not agree. The invariant `OutcomeInv` says of each turn what its one
task and the one handler have done and have yet to do:
  - `Alone`, `Unstarted`: one task at a time, on the connection's worker;
  - `RowKept`: a settled record has its row, unless a task is still going to
    write it; `NotYetSettled`: a task that has not saved leaves the record as it
    was; `Numbered`, `ReplyNumbered`: what is in the row and in the task's hand
    together are the events 1 to `seq`, each once, also across a pause;
  - `SavedIsTask`, `HandlerStatus`, `Awaited`: which record, task status and
    waiting handler go together while a cancellation or an error is handled;
  - `WillRelease`, `PausedHeld`, `OwnSession`: a session key that names a turn
    has a task or handler that will release it, or the turn is paused.

### Agent loop, chat and tab (`MCChat_proofs`)

**`ConversationIsWholeHolds`, `AllOrNothingHolds`, `AnswersLearnerHolds`**: for
any number of calls, batches, iterations, executions and faults. `LoopInv` has
the places of the calls in a batch (`Batches`, `InOrder`: serial calls follow in
order, nothing runs behind a pause that was seen; `AllSettled`), the conversation
(`AnswersPlaced`: answers follow their calls; `PauseKept`, `AskLast`: a question
is the last thing an execution does; `Kept`), what was said (`Deltas`, `Spoken`,
`GroundedYet`) and who holds the transaction (`Owners`, `Writes`, `Made`).

**`LockIsJustifiedHolds`** for any number of turns, drops and reloads. `ChatInv`
follows the frames in flight: a frame that locks the input is about a turn that
runs, or has one that unlocks it behind it (`Waits`, `WillWait`); what is said of
a turn names it (`Named`, `StopWorks`), and while no socket dropped a turn that
runs still has its own (`AllHeard`).

**`OneIdentityHolds`** for any number of sign-ins, failures and reloads. The
invariant adds the request in flight, whose answer becomes the user, and that a
tab without a token asks nothing and knows nobody, which is what makes the next
sign-in start afresh. **`BothTypes`**: types of all three.

### Documents and memory

**`DocumentsStayConsistent`** (`RagIndexing_proofs`; `DocumentsConsistentHolds`
for the composition): one generation of chunks, and deleted for good, for any
number of jobs, deletions, crashes and expired locks. The invariant says of a job
in the middle of its transaction that what its DELETE saw is what the row lock
still protects (`Chunks`, `Rows`), of requests that they name their document
(`Requests`), and that a deleted document has no file (`Files`).
**`IndexingStaysLocked`, `OneIndexerHolds`**: without a lock that expires under
its holder, one task per document, and without crashes the lock says exactly that.

**`RecordedOnceHolds`** (`LearnerMemory_proofs`, `MCShared_proofs`): assumes
that no commit that succeeded is reported as failed; otherwise the retry records
the turn again. **`OneSynthesisHolds`** assumes that no synthesis outlives its
lock. **`SlotsOfOneSynthesisHolds`** and **`SynthesisCoversRequestHolds`** assume
neither: what a synthesis writes was computed from one reading, and `Needs`
says that what was recorded when it was asked for is part of that reading,
in whichever attempt.

### Path (`MasteryPath_proofs`, `MCProgress_proofs`)

**`GateIsEarned`**: the score of a history reaches the gate if and only if there
are at least three answers and none of the last five is wrong, one at most once
there are five. **`ScheduleIsMonotone`**: `ScheduleNext` keeps the index inside
the sequence of the type; a right answer never brings the review closer than
the current interval, and a wrong one never moves it further away.

**`PathTypes`, `MasteryIsEarnedHolds`, `GradedOnceHolds`**: for every path, every
number of panels and requests and every client. The invariants hold of the row
*and of every snapshot a request holds*, because a request writes back what it
read, however old that is: levels are the scores of the histories or were set by
an assessment (`Sound`), and a pending question is in no error record (`Asked`).

**`GradedAsShownHolds`**: with one panel and no other client (`Alone`), an
answer is graded against the question that was shown, for every budget and until
an answer is sent over another or a reply is lost; with two clients this is
false, since a request does not name its question. `ShownInv` holds of states in
which nothing has crossed: it says of each request in flight what it will make
pending or show (`Knows`), that no two ask or answer at once, and that what is
shown is pending unless the reply to its answer is on the way. A refresh may
find a question pending that the panel shows and take it away; then nothing is
shown and nothing can be answered.

**`IsMutexHolds`** (`MCProgress_proofs`): with `MaxFailures = 0` the job lock
implements `Mutex` for any number of jobs and workers. The key is there exactly
while a job works, no two do, and no memory is used; each step then takes or
gives back the abstract lock or leaves its holder alone.

### Services (`MCServices_proofs`)

- **`SignInsAreSingleHolds`, `DeletedStaysHolds`**: `AccInv` ties every row to
  the request that inserted it (`Rows`) and every callback that is past its
  `take` to its state (`Uses`).
- **`PassesAreBoundedHolds`**: in memory, a bucket holds every pass of the window
  (`Noted`, counted by induction over the bucket). In Redis, `RedisInv` looks for
  the moment the key last expired (`Epoch`): the counts given out since are all
  different, so at most `Limit` pass; a window touches two such epochs, hence
  twice the limit, which is what the property says.
- **`MemoryServedHolds`**: inductive as it stands, with the types.
- **`CallsAreSoundHolds`**: `Failing` ties a breaker's counter to the results
  it was told of, `Streams` a caller's text to one attempt.
- **`RetrievalIsCurrentHolds`**: `Refused` (a question that began after the grant
  was revoked is not past its policy check) and `Fresh` (what is cached, or in the hands
  of a question, is live, raced, or of a question that began before the change; a key
  that an invalidation left makes its chunk one of `raced`). For
  the knowledge base: an ingest that has counted has a revision of its own
  (`Revisions`), and an index or result under a revision is that of the base
  at that revision (`Indexes`, `Results`), whichever worker computed it.
- **`WordsAreKeptHolds`**: `Inserted` and `Late` say who has the list in its
  transaction and who lost the race; `Full` that nobody counted an empty list.
- **`ReadingIsBestHolds`**: `BestSoFar` keeps the best text against the previous
  one. What the recursive functions over sentences give is shown from the least
  place where a claim about them would fail (`AllValues`, `Recursion`).
- **`MaterialIsSoundHolds`**: rule by rule, for every size, budget and limit
  (`RulesGive`). A conversation: the weight of places grows with them
  (`WeightGrows`), what is kept fits after each message (`KeptFits`), and what is
  sent is part of it (`SentFits`). A card: among one more suffixes than there are
  ids one is free (`NumberedIsNew`). A story: the steps of the selection do not
  meet, so that it has as many words as steps (`PickedWords`). An answer: by cases
  on its type, the unknown ones included.
- **`SlotsOfOneSynthesisHolds`**: as above, beside the other services.
- **`ServicesTypes`**: all types, from the conjunction of these invariants.

### Only model-checked

- Liveness (`RequestsEnd`, `SessionFreed`, `JobsEnd`, `PathCompletes`,
  `ExecutionEnds`, `PagesUnlock`, `SettingsReachCalls`):
  fairness and ENABLED are outside the prover's reach.
- That what the rules compute is more than their properties say (which messages
  are kept, which words are picked): the provers cannot instantiate the
  induction theorems, so each fact about a recursive function is proved from the
  least place where it would fail, and only the facts a property needs are.

Every invariant and every safety action property of the passing runs has a theorem.

## 7. Plan

Done: the components of section 2, and a theorem for every invariant and every
safety action property of the passing runs. The set of
runs is deliberately small: a new question joins a run or takes the place of
one it answers.

Theorems: that the server inside `TutorChat` implements `TurnLife` too.

Models: the book's progress row; the job websocket.

## 8. Not modelled

- *What models write, and ranking*: prose, embeddings and scores are data; where
  a score is compared (retrieval, knowledge, mastery) the comparison is modelled.
- *Provider clients, scraping, feeds, parsing of documents*: network and file
  input and output.
- *Job websocket* (`rag/api/ws.py`): it polls the progress key and closes when
  that says completed, which is written before the commit.
- *Book*: a deterministic compilation and one row per page (section 5).
- *Sessions list, exports, dashboards*: reads in one transaction.
- *Full-text search and `reset_kb`* of the knowledge base: off by default, and
  without a caller.
- *Extensions, persona, prompts, skills, content*: registries, templates and
  caches of pure functions.
- *Start-up, configuration, logging, metrics, migrations, pages*: wiring, layout
  and data; Redis time-outs are failures of the commands that are modelled.
