------------------------------- MODULE Reading ------------------------------
(***************************************************************************)
(* Texts for the reader's level (modules/reading, translation): a source   *)
(* from the feeds, an LLM that rewrites it, the sentences that still have  *)
(* unknown words sent back for repair a bounded number of times, the best  *)
(* text kept, its translation, the shared cache of results and the list of *)
(* saved readings. A text is a sequence of sentences, a sentence stands    *)
(* for its number of unknown words; all sentences have the same length.    *)
(* One request at a time is followed: others reach it by the caches only.  *)
(***************************************************************************)
EXTENDS Naturals, Sequences, FiniteSetsExt

CONSTANTS
    Feed,          \* get_direct_rss_sources_for_interest(interest)
    Topic,         \* the text written for the interest, without a source
    Article,       \* the text of each feed's richest item and of the topic
    Requested,     \* word_count, in sentences
    MinimumFacts,  \* the length at which a source has enough facts
    MaxAttempts,   \* READING_COVERAGE_MAX_ATTEMPTS
    AgentEnabled,  \* AI_AGENT_ENABLED
    Written,       \* texts the LLM may write
    NoText,
    MaxRequests,   \* requests that are looked at
    MaxSaved,      \* saves that are looked at
    MaxRestarts

ReadingAssumption ==
    /\ Topic \notin Feed
    /\ Article \in [Feed \union {Topic} -> Seq(Nat) \ {<<>>}]
    /\ Written \subseteq Seq(Nat) \ {<<>>}
    /\ {Requested, MaxAttempts} \subseteq Nat \ {0} /\ {MaxRequests, MaxRestarts} \subseteq Nat

VARIABLES
    fresh,     \* the feeds whose items are cached
    results,   \* the cache of results, by source
    translated,\* texts whose translation is cached
    task,      \* the request: what generate() holds between two awaits
    given,     \* what the page shows
    kept,      \* saved readings: all in the memory of the process
    asked, restarts

readingVars == <<fresh, results, translated, task, given, kept, asked, restarts>>

Source  == Feed \union {Topic}
Texts   == Seq(Nat)

----------------------------------------------------------------------------
(* Coverage.                                                               *)

Unknown(text) ==
    LET upTo[n \in 0..Len(text)] == IF n = 0 THEN 0 ELSE upTo[n - 1] + text[n]
    IN  upTo[Len(text)]
\* 80 % of the words asked for.
MinimumWords  == (Requested * 4 + 2) \div 5
Enough(text)  == Len(text) >= MinimumWords
Failures(text) == {i \in DOMAIN text : text[i] > 0}
\* The score is compared from left to right: fewest unknown words, length up
\* to the minimum, coverage (one sentence is one unit of length).
AtLeast(text, best) ==
    LET words(t) == Min({Len(t), MinimumWords})
    IN  \/ Unknown(text) < Unknown(best)
        \/ /\ Unknown(text) = Unknown(best)
           /\ \/ words(text) > words(best)
              \/ /\ words(text) = words(best)
                 /\ Unknown(text) * Len(best) <= Unknown(best) * Len(text)

\* Without an LLM: the sentences that are easy enough, or the first four, cut
\* at the length asked for (adapt_text_with_rules).
IsEasy(sentence) == sentence < 2
Easy(text) ==
    LET upTo[n \in 0..Len(text)] ==
            IF n = 0 THEN <<>>
            ELSE IF IsEasy(text[n]) THEN Append(upTo[n - 1], text[n]) ELSE upTo[n - 1]
    IN  upTo[Len(text)]
Clip(text, count) == SubSeq(text, 1, Min({count, Len(text)}))
RulesText(source) ==
    LET easy == Easy(Article[source])
    IN  Clip(IF easy = <<>> THEN Clip(Article[source], 4) ELSE easy, Requested)

\* The repaired sentences go where the failing ones were; another number of
\* sentences than asked for changes nothing.
Merged(text, repairs) ==
    LET rank(i) == Cardinality({j \in Failures(text) : j <= i})
    IN  IF Len(repairs) # Cardinality(Failures(text)) THEN text
        ELSE [i \in DOMAIN text |-> IF text[i] = 0 THEN 0 ELSE repairs[rank(i)]]

----------------------------------------------------------------------------

Result == [text : Texts, mode : {"llm", "rules"}, english : BOOLEAN]
NoResult == [text |-> NoText, mode |-> "rules", english |-> FALSE]
Resting == [at |-> "page", source |-> Topic, connected |-> TRUE, attempt |-> 0,
            previous |-> NoText, best |-> NoText, mode |-> "rules"]
Working == {"lookup", "attempt", "translate", "reuse"}

TypeOK ==
    /\ fresh \subseteq Feed /\ translated \subseteq Texts
    /\ results \in [Source -> Result \union {NoResult}]
    /\ task \in [at : Working \union {"page"}, source : Source, connected : BOOLEAN, attempt : 0..MaxAttempts,
                 previous : Texts \union {NoText}, best : Texts \union {NoText}, mode : {"llm", "rules"}]
    /\ given \in Result \union {NoResult}
    /\ kept \in Seq(Result) /\ asked \in 0..MaxRequests /\ restarts \in 0..MaxRestarts

Init ==
    /\ fresh = {} /\ translated = {} /\ results = [s \in Source |-> NoResult]
    /\ task = Resting /\ given = NoResult /\ kept = <<>> /\ asked = 0 /\ restarts = 0

\* All feeds are asked at once; those that answer within the budget count, and
\* those whose items are cached. One with enough facts is drawn, else the
\* richest taken; without any, the topic's text.
Detailed(s) == Len(Article[s]) >= MinimumFacts
ChooseSource(available) ==
    CASE available = {} -> {Topic}
      [] \E s \in available : Detailed(s) -> {s \in available : Detailed(s)}
      [] OTHER -> {CHOOSE s \in available : \A o \in available : Len(Article[o]) <= Len(Article[s])}
\* A feed that fails is left out.
Available(answering) == fresh \union answering
Fetch(answering, source) ==
    /\ task.at = "page" /\ asked < MaxRequests
    /\ source \in ChooseSource(Available(answering))
    /\ fresh' = fresh \union answering
    /\ task' = [Resting EXCEPT !.at = "lookup", !.source = source]
    /\ asked' = asked + 1
    /\ UNCHANGED <<results, translated, given, kept, restarts>>
\* source_mode "generated".
FetchTopic ==
    /\ task.at = "page" /\ asked < MaxRequests
    /\ task' = [Resting EXCEPT !.at = "lookup"]
    /\ asked' = asked + 1
    /\ UNCHANGED <<fresh, results, translated, given, kept, restarts>>

Leave == task' = Resting /\ UNCHANGED <<fresh, results, translated, given, kept, asked, restarts>>
Show(result) == task' = Resting /\ given' = IF task.connected THEN result ELSE given

\* A cached result is given as it is when it has its translation; Redis may
\* fail to answer.
Lookup(answers) ==
    /\ task.at = "lookup"
    /\ LET hit == IF answers THEN results[task.source] ELSE NoResult
       IN  IF hit # NoResult /\ hit.english
           THEN Show(hit) /\ UNCHANGED <<fresh, results, translated, kept, asked, restarts>>
           ELSE /\ task' = IF hit = NoResult THEN [task EXCEPT !.at = "attempt"]
                           ELSE [task EXCEPT !.at = "reuse", !.best = hit.text, !.mode = hit.mode]
                /\ UNCHANGED <<fresh, results, translated, given, kept, asked, restarts>>

\* is_disconnected, asked before each attempt: 409, and nothing is kept.
Cancel ==
    /\ task.at = "attempt" /\ ~task.connected
    /\ Leave

\* A text as good as the best takes its place, with the mode of its attempt.
\* Mutant: the latest text is the best one.
KeepLatest(text, mode) == [best |-> text, mode |-> mode]
Keep(text, mode) ==
    IF task.best = NoText \/ AtLeast(text, task.best) THEN [best |-> text, mode |-> mode]
    ELSE [best |-> task.best, mode |-> task.mode]
\* What the LLM is asked for: the whole text, or only the failing sentences.
Repairing == task.previous # NoText /\ Enough(task.previous) /\ Failures(task.previous) # {}
Attempt(reply, mode) ==
    /\ task.at = "attempt" /\ task.connected
    /\ LET text == IF Repairing THEN Merged(task.previous, reply) ELSE reply
           kept2 == Keep(text, mode)
           done == (Unknown(text) = 0 /\ Enough(text)) \/ mode # "llm" \/ task.attempt + 1 = MaxAttempts
       IN  task' = [task EXCEPT !.at = IF done THEN "translate" ELSE @,
                                !.attempt = @ + 1, !.previous = text,
                                !.best = kept2.best, !.mode = kept2.mode]
    /\ UNCHANGED <<fresh, results, translated, given, kept, asked, restarts>>
\* A valid object at once, or after one call that repairs the JSON.
Adapt == AgentEnabled /\ \E text \in Written : Attempt(text, "llm")
\* Any error of the LLM, a second invalid answer, or no agent.
AdaptByRules == Attempt(RulesText(task.source), "rules")

\* A call of the translation service gives a text or fails.
TranslateText == BOOLEAN
\* The English text, from the cache or from the service, or a warning.
Translation(english) ==
    /\ task.best \in translated => english
    /\ translated' = IF english THEN translated \union {task.best} ELSE translated
Outcome(english) == [text |-> task.best, mode |-> task.mode, english |-> english]
Finish(english, stored) ==
    /\ task.at = "translate"
    /\ Translation(english)
    /\ results' = IF stored THEN [results EXCEPT ![task.source] = Outcome(english)] ELSE results
    /\ Show(Outcome(english))
    /\ UNCHANGED <<fresh, kept, asked, restarts>>
\* A cached result without translation is translated again, not stored again.
Reuse(english) ==
    /\ task.at = "reuse"
    /\ Translation(english)
    /\ Show(Outcome(english))
    /\ UNCHANGED <<fresh, results, kept, asked, restarts>>

\* wait_for cancels the request at whatever await: 504. A page that is closed
\* loses what it shows.
TimeOut == task.at \in Working /\ Leave
Disconnect ==
    /\ task.at \in Working /\ task.connected
    /\ task' = [task EXCEPT !.connected = FALSE]
    /\ given' = NoResult
    /\ UNCHANGED <<fresh, results, translated, kept, asked, restarts>>

\* The table has no migration: the commit fails and the reading goes to the
\* memory of the process.
Save ==
    /\ given # NoResult /\ Len(kept) < MaxSaved
    /\ kept' = Append(kept, given)
    /\ UNCHANGED <<fresh, results, translated, task, given, asked, restarts>>
ExpireResult(s) ==
    /\ results[s] # NoResult
    /\ results' = [results EXCEPT ![s] = NoResult]
    /\ UNCHANGED <<fresh, translated, task, given, kept, asked, restarts>>
ExpireFeed(f) ==
    /\ f \in fresh
    /\ fresh' = fresh \ {f}
    /\ UNCHANGED <<results, translated, task, given, kept, asked, restarts>>
ExpireTranslation(text) ==
    /\ text \in translated
    /\ translated' = translated \ {text}
    /\ UNCHANGED <<fresh, results, task, given, kept, asked, restarts>>
\* The feeds' items and the saved readings are gone, Redis stays.
Restart ==
    /\ restarts < MaxRestarts
    /\ restarts' = restarts + 1
    /\ fresh' = {} /\ kept' = <<>> /\ task' = Resting
    /\ UNCHANGED <<results, translated, given, asked>>

Next ==
    \/ \E answering \in SUBSET Feed, s \in Source : Fetch(answering, s)
    \/ FetchTopic \/ Cancel \/ Adapt \/ AdaptByRules \/ TimeOut \/ Disconnect \/ Save \/ Restart
    \/ \E answers \in BOOLEAN : Lookup(answers)
    \/ \E english \in TranslateText, stored \in BOOLEAN : Finish(english, stored)
    \/ \E english \in TranslateText : Reuse(english)
    \/ \E s \in Source : ExpireResult(s)
    \/ \E f \in Feed : ExpireFeed(f)
    \/ \E text \in translated : ExpireTranslation(text)

Spec == Init /\ [][Next]_readingVars

----------------------------------------------------------------------------
(* Properties.                                                             *)

\* A repair may make a text worse: the best one stays at least as good as the
\* last candidate and never gets worse, so no attempt after a good one spoils
\* the text (the loop of generate).
BestIsKept ==
    /\ [](task.previous # NoText => AtLeast(task.best, task.previous))
    /\ [][task.best # NoText /\ task'.best # NoText => AtLeast(task'.best, task.best)]_readingVars
\* A sentence that passed stays as it is when others are repaired, however
\* many sentences the LLM sends back (merge_sentence_repairs).
PassingSentencesStay ==
    [][task.at = "attempt" /\ task'.attempt > task.attempt /\ Repairing
        => /\ Len(task'.previous) = Len(task.previous)
           /\ \A i \in DOMAIN task.previous \ Failures(task.previous) : task'.previous[i] = 0]_readingVars
=============================================================================
