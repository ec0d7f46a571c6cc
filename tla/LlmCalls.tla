------------------------------ MODULE LlmCalls ------------------------------
(***************************************************************************)
(* Calls to the language models (modules/llm): the client of a task is     *)
(* made from the profiles and kept for a while, every call passes the      *)
(* circuit breaker of its provider, is tried again a bounded number of     *)
(* times, and its result is counted by the breaker and by the metrics.     *)
(* All of it is the state of one process.                                  *)
(***************************************************************************)
EXTENDS Naturals, Sequences, FiniteSets

CONSTANTS
    Profile,        \* enabled profiles, one provider each
    Primary,        \* the profile resolve_profile_id_for_task names
    Call,
    None,
    Threshold,      \* _FAILURE_THRESHOLD
    Cooldown,       \* _COOLDOWN_SECONDS, in ticks
    MaxAttempts,    \* RetryLLMClient._max_attempts
    ClientTtl,      \* LLM_TASK_CLIENT_CACHE_TTL_SECONDS, in ticks
    Backend         \* the backend of each profile's provider

CallAssumption ==
    /\ IsFiniteSet(Call) /\ Primary \in Profile /\ None \notin Profile \cup Nat
    /\ {Threshold, MaxAttempts} \subseteq Nat \ {0} /\ {Cooldown, ClientTtl} \subseteq Nat
    /\ Backend \in [Profile -> {"openai_compat", "ollama", "anthropic"}]

\* What a provider can do with a request: an HTTP status, a body that is
\* not an object, or no answer (httpx.ConnectError, a timeout).
Kinds == {"chat", "stream", "tools"}   \* a chat, a stream, a stream with tools
Replies == {"200", "401", "404", "503", "shape", "silent"}

VARIABLES
    breaker,    \* _breakers: failures, and how long each is open (None: closed)
    recorded,   \* what each breaker was told, the latest last
    cached,     \* the client of the task: its profile and its age
    call,       \* the calls of the process
    counted     \* observe_llm_call: calls and errors of each provider

llmVars == <<breaker, recorded, cached, call, counted>>

-----------------------------------------------------------------------------
(* How a reply comes out of the clients of the three backends: an answer,  *)
(* an error that is worth another attempt, or one that is not.             *)

\* _is_retryable finds "503" in the message of LLMProviderUnavailableError,
\* and takes every LLMNetworkError.
OpenAiChat(reply) ==
    CASE reply = "200" -> "answer"
      [] reply \in {"503", "shape"} -> "again"
      [] OTHER -> "error"
OllamaChat(reply) ==
    CASE reply = "200" -> "answer"
      [] reply \in {"503", "shape"} -> "again"
      [] OTHER -> "error"
AnthropicChat(reply) ==
    CASE reply = "200" -> "answer"
      [] reply \in {"503", "shape"} -> "again"
      [] OTHER -> "error"
\* stream_post_lines raises RuntimeError for a status, and what is not an
\* event of the stream is skipped: nothing is tried again.
StreamLines(reply) == IF reply \in {"200", "shape"} THEN "answer" ELSE "error"
ChatOutcome(backend, reply) ==
    CASE backend = "ollama" -> OllamaChat(reply)
      [] backend = "anthropic" -> AnthropicChat(reply)
      [] OTHER -> OpenAiChat(reply)
\* With tools the two first backends call chat and give its text at once.
OpenAiStream(kind, reply) == IF kind = "tools" THEN OpenAiChat(reply) ELSE StreamLines(reply)
OllamaStream(kind, reply) == IF kind = "tools" THEN OllamaChat(reply) ELSE StreamLines(reply)
AnthropicStream(reply) == StreamLines(reply)
StreamOutcome(backend, kind, reply) ==
    CASE backend = "ollama" -> OllamaStream(kind, reply)
      [] backend = "anthropic" -> AnthropicStream(reply)
      [] OTHER -> OpenAiStream(kind, reply)

-----------------------------------------------------------------------------
Init ==
    /\ breaker = [p \in Profile |-> [failures |-> 0, opened |-> None]]
    /\ recorded = [p \in Profile |-> <<>>]
    /\ cached = [profile |-> None, age |-> 0]
    /\ call = [c \in Call |-> [pc |-> "new", profile |-> None, kind |-> "chat",
                               attempt |-> 0, chunks |-> 0, from |-> {}]]
    /\ counted = [p \in Profile |-> [calls |-> 0, errors |-> 0]]

Older(age, limit) == IF age = None THEN None ELSE IF age < limit THEN age + 1 ELSE age
Tick ==
    /\ breaker' = [p \in Profile |-> [breaker[p] EXCEPT !.opened = Older(@, Cooldown)]]
    /\ cached' = [cached EXCEPT !.age = Older(@, ClientTtl)]
    /\ UNCHANGED <<recorded, call, counted>>

Allow(p) == breaker[p].opened \in {None, Cooldown}
\* allow() closes a breaker whose time is over, for every caller.
Asked(b, p) ==
    IF b[p].opened = Cooldown
    THEN [b EXCEPT ![p] = [failures |-> 0, opened |-> None]] ELSE b
Succeed(p) ==
    /\ breaker' = [breaker EXCEPT ![p] = [failures |-> 0, opened |-> None]]
    /\ recorded' = [recorded EXCEPT ![p] = Append(@, "success")]
Fail(p) ==
    LET failures == breaker[p].failures + 1 IN
    /\ breaker' = [breaker EXCEPT ![p] =
           [failures |-> failures,
            opened |-> IF failures >= Threshold /\ @.opened = None THEN 0 ELSE @.opened]]
    /\ recorded' = [recorded EXCEPT ![p] = Append(@, "failure")]

Observe(c, failed) ==
    counted' = [counted EXCEPT ![call[c].profile].calls = @ + 1,
                               ![call[c].profile].errors = IF failed THEN @ + 1 ELSE @]

-----------------------------------------------------------------------------
\* The primary first, then the others.
Ordered(p, q) == p = Primary \/ q # Primary

\* create_task_client asks the breakers in order, which closes those whose
\* time is over, and takes the first profile when none may be called.
Pick(p) ==
    \/ Allow(p) /\ \A q \in Profile : Allow(q) => Ordered(p, q)
    \/ p = Primary /\ \A q \in Profile : ~Allow(q)
NewClient(c, p, kind) ==
    /\ call[c].pc = "new"
    /\ cached.profile = None \/ cached.age >= ClientTtl
    /\ Pick(p)
    /\ breaker' = Asked(breaker, p)
    /\ cached' = [profile |-> p, age |-> 0]
    /\ call' = [call EXCEPT ![c] = [@ EXCEPT !.pc = "asks", !.profile = p, !.kind = kind]]
    /\ UNCHANGED <<recorded, counted>>
OldClient(c, kind) ==
    /\ call[c].pc = "new"
    /\ cached.profile # None /\ cached.age < ClientTtl
    /\ call' = [call EXCEPT ![c] = [@ EXCEPT !.pc = "asks", !.profile = cached.profile, !.kind = kind]]
    /\ UNCHANGED <<breaker, recorded, cached, counted>>
\* A save of the settings.
InvalidateClients ==
    /\ cached.profile # None
    /\ cached' = [profile |-> None, age |-> 0]
    /\ UNCHANGED <<breaker, recorded, call, counted>>

Admit(c) ==
    LET p == call[c].profile IN
    /\ call[c].pc = "asks"
    /\ Allow(p)
    /\ breaker' = Asked(breaker, p)
    /\ call' = [call EXCEPT ![c].pc = "tries", ![c].attempt = 1]
    /\ UNCHANGED <<recorded, cached, counted>>
Refuse(c) ==
    /\ call[c].pc = "asks"
    /\ ~Allow(call[c].profile)
    /\ call' = [call EXCEPT ![c].pc = "refused"]
    /\ Observe(c, TRUE)
    /\ UNCHANGED <<breaker, recorded, cached>>

Outcome(c, reply) ==
    LET backend == Backend[call[c].profile] IN
    IF call[c].kind = "chat" THEN ChatOutcome(backend, reply) ELSE StreamOutcome(backend, call[c].kind, reply)

\* The answer of a call is whole; a stream has given all its chunks.
Answer(c, reply) ==
    /\ call[c].pc = "tries"
    /\ Outcome(c, reply) = "answer"
    /\ call' = [call EXCEPT ![c].pc = "answered", ![c].attempt = 0, ![c].from = @ \cup {call[c].attempt}]
    /\ Succeed(call[c].profile)
    /\ Observe(c, FALSE)
    /\ UNCHANGED <<cached>>
\* A chunk of the stream, given to the caller at once.
Chunk(c) ==
    /\ call[c].pc = "tries" /\ call[c].kind = "stream"
    /\ call[c].chunks = 0
    /\ call' = [call EXCEPT ![c].chunks = 1, ![c].from = @ \cup {call[c].attempt}]
    /\ UNCHANGED <<breaker, recorded, cached, counted>>
\* Mutant: whatever went wrong is tried again.
RetriesAll(c, outcome) == call[c].attempt < MaxAttempts
Retries(c, outcome) ==
    outcome = "again" /\ call[c].attempt < MaxAttempts /\ call[c].chunks = 0
Error(c, reply) ==
    /\ call[c].pc = "tries"
    /\ Outcome(c, reply) # "answer" \/ call[c].chunks = 1   \* a stream that breaks off
    /\ IF Retries(c, Outcome(c, reply))
       THEN /\ call' = [call EXCEPT ![c].pc = "waits"]
            /\ UNCHANGED <<breaker, recorded, counted>>
       ELSE /\ call' = [call EXCEPT ![c].pc = "failed", ![c].attempt = 0]
            /\ Fail(call[c].profile)
            /\ Observe(c, TRUE)
    /\ UNCHANGED <<cached>>
\* The delay is over.
TryAgain(c) ==
    /\ call[c].pc = "waits"
    /\ call' = [call EXCEPT ![c].pc = "tries", ![c].attempt = @ + 1]
    /\ UNCHANGED <<breaker, recorded, cached, counted>>
\* The turn is cancelled, or the stream is closed by its reader: the breaker
\* is told nothing.
Abandon(c) ==
    /\ call[c].pc \in {"tries", "waits"}
    /\ call' = [call EXCEPT ![c].pc = "abandoned", ![c].attempt = 0]
    /\ Observe(c, TRUE)
    /\ UNCHANGED <<breaker, recorded, cached>>

Done == {"refused", "answered", "failed", "abandoned"}
Next ==
    \/ Tick \/ InvalidateClients
    \/ \E c \in Call :
        \/ \E kind \in Kinds : (\E p \in Profile : NewClient(c, p, kind)) \/ OldClient(c, kind)
        \/ Admit(c) \/ Refuse(c) \/ Chunk(c) \/ TryAgain(c) \/ Abandon(c)
        \/ \E reply \in Replies : Answer(c, reply) \/ Error(c, reply)
Spec == Init /\ [][Next]_llmVars

TypeOK ==
    /\ breaker \in [Profile -> [failures : 0..Cardinality(Call), opened : {None} \cup 0..Cooldown]]
    /\ recorded \in [Profile -> Seq({"success", "failure"})]
    /\ cached \in [profile : Profile \cup {None}, age : 0..ClientTtl]
    /\ call \in [Call -> [pc : {"new", "asks", "tries", "waits"} \cup Done, profile : Profile \cup {None},
                           kind : Kinds, attempt : 0..MaxAttempts, chunks : 0..1,
                           from : SUBSET (1..MaxAttempts)]]
    /\ counted \in [Profile -> [calls : 0..Cardinality(Call), errors : 0..Cardinality(Call)]]

\* A breaker is open only when the last Threshold results it was told of,
\* late ones of calls it had let through included, were all failures.
OpenAfterFailures ==
    \A p \in Profile : breaker[p].opened # None =>
        LET n == Len(recorded[p]) IN
        n >= Threshold /\ \A i \in (n - Threshold + 1)..n : recorded[p][i] = "failure"

\* The text a caller receives comes from one attempt: a stream that has given
\* a part of an answer is not begun again.
OneAnswer == \A c \in Call : Cardinality(call[c].from) <= 1

\* The metrics of a provider count every call that has ended once, however
\* it ended, and as errors those that gave no answer.
CallsCounted ==
    \A p \in Profile :
        /\ counted[p].calls = Cardinality({c \in Call : call[c].profile = p /\ call[c].pc \in Done})
        /\ counted[p].errors = Cardinality({c \in Call : call[c].profile = p /\ call[c].pc \in Done \ {"answered"}})
=============================================================================
