----------------------------- MODULE MCServices -----------------------------
(***************************************************************************)
(* The safety of the services around the tutor, for TLC, one beside the    *)
(* other: accounts, limiters, locks, calls of language models, settings,   *)
(* retrieval, the word list, the memory's slots, texts to read, the        *)
(* knowledge base, and rules that only compute. A behaviour is one of the  *)
(* component "part" names; the others stay in their initial state.         *)
(***************************************************************************)
EXTENDS Naturals, FiniteSets, Sequences, TLC

CONSTANTS
    q1, q2, q3, e1, s1, d1, r1, r2, t1, c1, k1, w1, w2, ollama, claude,
    Visit, Query, Lesson, Turn, Call, Pref, Worker, Nobody, None,
    Email, State, Redirects, Faults,
    Limit, Window, MaxTime, MaxFailures,
    Profile, Backend, Threshold, Cooldown, MaxAttempts, ClientTtl,
    Doc, Asker, MaxGeneration, TopK, MinScore,
    MaxRestarts, MaxEntries, LostAcks, SlowSynthesis,
    Builtin, ApiKey, MaxCrashes, Score, Floor, FetchK,
    Feed, Topic, Article, Requested, MinimumFacts, MaxTries, AgentEnabled, Written, MaxReadings, MaxSaved,
    MaxLength, MaxWords, MaxCount, Sizes, Budgets, LineSize, MaxLines, Heading, MaxQuestions, MaxOptions,
    Ids, Labels, FreeLabel

Backends == ollama :> "ollama" @@ claude :> "anthropic"
Askers   == {<<"teacher", FALSE>>, <<"student", TRUE>>}
Articles == d1 :> <<0, 1, 2>> @@ e1 :> <<1>>
Drafts   == {<<0>>, <<1>>, <<0, 0>>, <<0, 1>>, <<1, 1>>}
Scores   == r1 :> 2 @@ r2 :> 5
Builtins == <<ollama>>
SomeIds  == {<<>>, <<2>>, <<2, 2>>}

VARIABLES
    part,
    users, inserted, states, browser, visit,
    now, counter, buckets, asked, failed,
    key, memory, jobs, failures,
    breaker, recorded, cached, calls, counted,
    file, secrets, effective, client, save, crashes,
    chunk, writer, grant, found, answers, question, raced,
    words, inserting, gaveUp, everFailed, levels, levelsMemory, saved, lesson, restarts,
    traces, facts, factLock, prefs, prefLock, slots, slotLock, cache, lock, sched, home,
    rec, call, pref, synth,
    fresh, results, translated, task, given, kept, readings, reboots,
    chunks, revision, stamp, ingest, index, local, shared, search,
    input

Accounts == INSTANCE Accounts WITH
    Request <- Visit
Limiter == INSTANCE RateLimit WITH
    Request <- Visit
JobLock == INSTANCE JobLock WITH
    Job <- Visit, NoJob <- Nobody
Llm == INSTANCE LlmCalls WITH
    Primary <- ollama, Call <- Visit, call <- calls
Settings == INSTANCE AiSettings WITH
    Key <- ApiKey, NoKey <- Nobody, Request <- Query, cache <- effective, req <- save
Retrieval == INSTANCE Retrieval WITH
    Request <- Query, Threshold <- MinScore, Asked <- Asker, req <- question
Dutch == INSTANCE Words WITH
    Request <- Lesson, InsertFaults <- Faults,
    writer <- inserting, failed <- gaveUp, memory <- levelsMemory, req <- lesson
Memory == INSTANCE LearnerMemory
Reading == INSTANCE Reading WITH
    MaxAttempts <- MaxTries, NoText <- Nobody, MaxRequests <- MaxReadings,
    asked <- readings, restarts <- reboots
Knowledge == INSTANCE Knowledge WITH
    Chunk <- Query, Ingest <- Query, Search <- Query, NoResult <- Nobody
Rules == INSTANCE Rules WITH
    Corrupt <- None

ASSUME ServicesAssumption ==
    /\ Accounts!AccountsAssumption /\ Limiter!LimitAssumption /\ JobLock!LockAssumption
    /\ Llm!CallAssumption /\ Retrieval!RetrievalAssumption /\ Dutch!WordsAssumption
    /\ Memory!MemoryAssumption
ASSUME ContentAssumption == Reading!ReadingAssumption /\ Knowledge!KnowledgeAssumption /\ Rules!RulesAssumption
ASSUME ProfilesAssumption == Settings!SettingsAssumption

accountVars   == <<users, inserted, states, browser, visit>>
limitVars     == <<now, counter, buckets, asked, failed>>
lockVars      == <<key, memory, jobs, failures>>
llmVars       == <<breaker, recorded, cached, calls, counted>>
settingsVars  == <<file, secrets, effective, client, save, crashes>>
retrievalVars == <<chunk, writer, grant, found, answers, question, raced>>
wordsVars     == <<words, inserting, gaveUp, everFailed, levels, levelsMemory, saved, lesson, restarts>>
memoryVars    == <<traces, facts, factLock, prefs, prefLock, slots, slotLock, cache, lock, sched, home,
                   rec, call, pref, synth>>
readingVars   == <<fresh, results, translated, task, given, kept, readings, reboots>>
knowledgeVars == <<chunks, revision, stamp, ingest, index, local, shared, search>>
frontVars     == <<accountVars, limitVars, lockVars, llmVars>>
backVars      == <<settingsVars, retrievalVars, wordsVars, memoryVars>>
contentVars   == <<readingVars, knowledgeVars, input>>

Parts == {"accounts", "limit", "lock", "calls", "settings", "retrieval", "words", "memory",
          "reading", "knowledge", "rules"}
NoInput == [kind |-> "none"]
First == CHOOSE w \in Worker : TRUE
ServicesInit ==
    /\ part \in Parts
    /\ Accounts!Init
    /\ Limiter!Init /\ \A r \in Visit : part # "limit" \/ r = q1 => asked[r].on = First
    /\ JobLock!Init /\ \A j \in Visit : part # "lock" \/ j = q1 => jobs[j].on = First
    /\ Memory!Init /\ \A a \in DOMAIN home : part # "memory" \/ a = t1 => home[a] = First
    /\ Knowledge!Init
    /\ \A q \in Query : /\ ingest[q].files = {q} /\ ingest[q].on = First
                        /\ part # "knowledge" \/ q = r1 => search[q].on = First
    /\ Llm!Init /\ Settings!Init /\ Retrieval!Init /\ Dutch!Init /\ Reading!Init
    /\ IF part = "rules" THEN Rules!Init ELSE input = NoInput

AccountStep   == part = "accounts" /\ Accounts!Next
                    /\ UNCHANGED <<part, limitVars, lockVars, llmVars, backVars, contentVars>>
LimitStep     == part = "limit" /\ Limiter!Next
                    /\ UNCHANGED <<part, accountVars, lockVars, llmVars, backVars, contentVars>>
LockStep      == part = "lock" /\ JobLock!Next
                    /\ UNCHANGED <<part, accountVars, limitVars, llmVars, backVars, contentVars>>
CallStep      == part = "calls" /\ Llm!Next
                    /\ UNCHANGED <<part, accountVars, limitVars, lockVars, backVars, contentVars>>
SettingsStep  == part = "settings" /\ Settings!Next
                    /\ UNCHANGED <<part, frontVars, retrievalVars, wordsVars, memoryVars, contentVars>>
RetrievalStep == part = "retrieval" /\ Retrieval!Next
                    /\ UNCHANGED <<part, frontVars, settingsVars, wordsVars, memoryVars, contentVars>>
WordsStep     == part = "words" /\ Dutch!Next
                    /\ UNCHANGED <<part, frontVars, settingsVars, retrievalVars, memoryVars, contentVars>>
MemoryStep    == part = "memory" /\ Memory!Next
                    /\ UNCHANGED <<part, frontVars, settingsVars, retrievalVars, wordsVars, contentVars>>
ReadingStep   == part = "reading" /\ Reading!Next
                    /\ UNCHANGED <<part, frontVars, backVars, knowledgeVars, input>>
KnowledgeStep == part = "knowledge" /\ Knowledge!Next
                    /\ UNCHANGED <<part, frontVars, backVars, readingVars, input>>
ServicesNext ==
    \/ AccountStep \/ LimitStep \/ LockStep \/ CallStep
    \/ SettingsStep \/ RetrievalStep \/ WordsStep \/ MemoryStep
    \/ ReadingStep \/ KnowledgeStep
ServicesSpec == ServicesInit /\ [][ServicesNext]_<<part, frontVars, backVars, contentVars>>

----------------------------------------------------------------------------
(* The properties, stated in the modules.                                  *)

\* Values of the right kind in every component.
ServicesTypeOK ==
    CASE part = "accounts"  -> Accounts!TypeOK
      [] part = "limit"     -> Limiter!TypeOK
      [] part = "lock"      -> JobLock!TypeOK
      [] part = "calls"     -> Llm!TypeOK
      [] part = "settings"  -> Settings!TypeOK
      [] part = "retrieval" -> Retrieval!TypeOK
      [] part = "words"     -> Dutch!TypeOK
      [] part = "reading"   -> Reading!TypeOK
      [] part = "knowledge" -> Knowledge!TypeOK
      [] part \in {"memory", "rules"} -> TRUE  \* checked in MCShared; no step
\* One account of an email, whoever signs up at once, and an OAuth state lets
\* one callback through (signup, google_callback, google_oauth_state_take).
SignInsAreSingle == part = "accounts" => Accounts!OneAccount /\ Accounts!StateUsedOnce
\* No token for a deleted account (delete_account, get_current_user).
DeletedStays == Accounts!DeletedStays
\* What passes the two limiters is bounded (rate_limit_middleware).
PassesAreBounded == part = "limit" => Limiter!PassesAreBounded
\* A worker's memory keeps no lock that nobody has (release_job_lock).
MemoryServed == part = "lock" => JobLock!MemoryServed
\* A breaker is open only after Threshold failures in a row, a caller is given
\* the text of one attempt and its call is counted once (LLMCircuitBreaker, RetryLLMClient,
\* LLMTaskClient).
CallsAreSound == part = "calls" => Llm!OpenAfterFailures /\ Llm!OneAnswer /\ Llm!CallsCounted
\* Without the grant a student's question finds nothing, and the owner sees a
\* change unless a retrieval overlapped it or Redis kept a list from being
\* cleared (RagPolicyService, invalidate_user_retrieve_cache); a search of the
\* knowledge base gives what it held while the search ran (load_index).
RetrievalIsCurrent ==
    /\ part = "retrieval" => Retrieval!RevokedSeesNothing /\ Retrieval!OwnerSeesChange
    /\ part = "knowledge" => Knowledge!FoundIsCurrent
\* Once the list is there, what is acknowledged is kept; levels without words
\* only after a failed insert (ensure_words_seeded, build_levels_payload).
WordsAreKept == part = "words" => Dutch!AcknowledgedIsKept /\ Dutch!LevelsHaveWords
\* The slots are those of one synthesis (synthesize_l3, read_l3_concat).
SlotsOfOneSynthesis == part = "memory" => Memory!SlotsOfOneSynthesis
\* Of the texts an LLM writes for a reader the best is kept, and what passed
\* is not spoilt by repairs (ReadingService.generate, merge_sentence_repairs).
ReadingIsBest == Reading!BestIsKept /\ Reading!PassingSentencesStay
\* What is put before a model or a learner: conversations that fit, chunks,
\* cards, stories and quizzes within their limits (fit_messages,
\* build_context_block, build_ask_user_payload, pick_story_words, QuizService).
MaterialIsSound == part = "rules" => Rules!RulesHold
=============================================================================
