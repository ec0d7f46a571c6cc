-------------------------------- MODULE Rules -------------------------------
(***************************************************************************)
(* Rules that only compute: what of a conversation fits the window of a    *)
(* model (llm/context_guard.py), which chunks go in a prompt               *)
(* (rag_context_builder.py), the questions of an ask_user card             *)
(* (ask_user_payload.py), the words of a story (learning/engine.py), and   *)
(* the quizzes and their verdicts (learning/quiz). A state is one input;   *)
(* the invariants compare what the rules give with what they are for.      *)
(***************************************************************************)
EXTENDS Naturals, Sequences, FiniteSets, FiniteSetsExt

CONSTANTS
    MaxLength,   \* of a sequence in an input
    MaxWords, MaxCount, \* words of a level, questions of a quiz
    Sizes,       \* tokens of a message or a chunk
    Budgets,     \* tokens there is room for
    LineSize, MaxLines, Heading,  \* tokens of a line of the summary, lines, tokens of its heading
    MaxQuestions, MaxOptions,
    Ids,         \* ids a card comes with: <<>> is none, <<2>> is "q2", <<2, 3>> is "q2_3"
    Labels, FreeLabel, \* labels of options; the one that says "other"
    Corrupt      \* a cached quiz that does not parse

RulesAssumption ==
    /\ {MaxLength, MaxWords, MaxCount, LineSize, MaxLines, Heading, MaxQuestions, MaxOptions} \subseteq Nat \ {0}
    /\ Sizes \subseteq Nat \ {0} /\ Budgets \subseteq Nat
    /\ Ids \subseteq Seq(Nat) /\ FreeLabel \in Labels

VARIABLE input

Upto(set) == UNION {[1..n -> set] : n \in 0..MaxLength}
Least(m, n) == IF m < n THEN m ELSE n
\* The sum of the sizes at the places of a set.
Weight(sizes, places) ==
    LET sum[n \in 0..Len(sizes)] ==
            IF n = 0 THEN 0 ELSE sum[n - 1] + (IF n \in places THEN sizes[n] ELSE 0)
    IN  sum[Len(sizes)]

----------------------------------------------------------------------------
(* fit_messages. Messages are records of a role and a size, and what is    *)
(* kept of a conversation is a set of its places.                          *)

Messages == [role : {"system", "user"}, size : Sizes]
SizesOf(messages) == [i \in DOMAIN messages |-> messages[i].size]
Systems(messages) == {i \in DOMAIN messages : messages[i].role = "system"}
Others(messages) == DOMAIN messages \ Systems(messages)
\* System messages are kept in order up to the first that does not fit.
KeptSystem(messages, budget) ==
    {i \in Systems(messages) : Weight(SizesOf(messages), Systems(messages) \cap 1..i) <= budget}
\* With them, from the last message back, each other one that still fits:
\* kept[k] is what is kept after the last k.
Kept(messages, systems, budget) ==
    LET end == Len(messages) + 1
        kept[k \in 0..Len(messages)] ==
            IF k = 0 THEN systems
            ELSE IF /\ end - k \in Others(messages)
                    /\ Weight(SizesOf(messages), kept[k - 1] \union {end - k}) <= budget
                 THEN kept[k - 1] \union {end - k}
                 ELSE kept[k - 1]
    IN  kept[Len(messages)]
\* Lines for the first of what is dropped: the last that gave way comes first.
SummarySize(messages, gone, out) ==
    LET line(i) == \/ i \in gone /\ Cardinality({j \in gone : j > i}) < MaxLines
                   \/ i \in out /\ Cardinality(gone) + Cardinality({j \in out : j < i}) < MaxLines
    IN  Heading + Weight([i \in DOMAIN messages |-> Least(messages[i].size, LineSize)],
                         {i \in gone \union out : line(i)})

\* The oldest kept messages go until the summary of what is dropped fits. The
\* room they leave is not counted, so that only a smaller summary can end it
\* before all are gone.
Fit(messages, budget) ==
    LET sizes == SizesOf(messages)
        systems == KeptSystem(messages, budget)
        kept == Kept(messages, systems, budget)
        out == Others(messages) \ kept
        gone(i) == {j \in kept \ systems : j < i}
        summary(i) == SummarySize(messages, gone(i), out)
        fits(i) == Weight(sizes, kept) + summary(i) <= budget
        first == Min({i \in 1..(Len(messages) + 1) : fits(i) \/ gone(i) = kept \ systems})
    IN  CASE Weight(sizes, DOMAIN messages) <= budget -> [places |-> DOMAIN messages, summary |-> 0]
          [] Weight(sizes, DOMAIN messages) > budget /\ out = {} -> [places |-> kept, summary |-> 0]
          [] Weight(sizes, DOMAIN messages) > budget /\ out # {} ->
                [places |-> kept \ gone(first), summary |-> IF fits(first) THEN summary(first) ELSE 0]

\* build_context_block: chunks in order while they fit, the first one always.
Included(sizes, budget) ==
    Max({n \in 0..Len(sizes) : \A k \in 2..n : Weight(sizes, 1..k) <= budget})

----------------------------------------------------------------------------
(* build_ask_user_payload. A question is refused when it is not an object  *)
(* or has no prompt; a label may be empty.                                 *)

NoLabel == ""
Questions == [refused : BOOLEAN, id : Ids, free : BOOLEAN, options : Upto(Labels \union {NoLabel})]

\* Mutant: an id that is taken gets the suffix 2.
NumberedTwo(id, taken) == IF id \notin taken THEN id ELSE Append(id, 2)
\* An id that is taken gets the first suffix that is free.
Numbered(id, taken) ==
    IF id \notin taken THEN id
    ELSE Append(id, Min({k \in 2..(Cardinality(taken) + 2) : Append(id, k) \notin taken}))
\* The ids of the first n questions, one after the other.
CardIds(questions, n) ==
    LET wanted(i) == IF questions[i].id = <<>> THEN <<i>> ELSE questions[i].id
        ids[i \in 0..n] ==
            IF i = 0 THEN <<>>
            ELSE Append(ids[i - 1], Numbered(wanted(i), {ids[i - 1][j] : j \in 1..(i - 1)}))
    IN  ids[n]
\* The labels that are left, by their places.
CardOptions(q) ==
    LET usable(i) == q.options[i] # NoLabel /\ ~(q.free /\ q.options[i] = FreeLabel)
        cleaned[i \in 0..Len(q.options)] ==
            IF i = 0 THEN {}
            ELSE IF /\ usable(i) /\ Cardinality(cleaned[i - 1]) < MaxOptions
                    /\ \A j \in cleaned[i - 1] : q.options[j] # q.options[i]
                 THEN cleaned[i - 1] \union {i}
                 ELSE cleaned[i - 1]
    IN  [i \in cleaned[Len(q.options)] |-> q.options[i]]
\* An empty sequence is an error.
Card(questions) ==
    LET asked == Least(MaxQuestions, Len(questions))
        ids == CardIds(questions, asked)
    IN  IF \E i \in 1..asked : questions[i].refused THEN <<>>
        ELSE [i \in 1..asked |-> [id |-> ids[i], options |-> CardOptions(questions[i]), free |-> questions[i].free]]

----------------------------------------------------------------------------
(* The words of a story, numbered in the order of their ranks.             *)

\* _pick_diverse_words, without the completion that is never needed.
Diverse(size, count) ==
    LET step == IF size \div count > 1 THEN size \div count ELSE 1
    IN  CASE count = 0 -> {}
          [] count > 0 /\ size <= count -> 1..size
          [] count > 0 /\ size > count -> {Least(i * step + 1, size) : i \in 0..(count - 1)}
\* round(0.3 * count), to the even number when half way; A1 has new words only.
NewCount(count, first) ==
    LET tenths == 3 * count
        even == (tenths \div 10) % 2 = 0
        rounded == IF tenths % 10 > 5 \/ (tenths % 10 = 5 /\ ~even) THEN tenths \div 10 + 1 ELSE tenths \div 10
    IN  CASE first -> count
          [] ~first /\ rounded = 0 -> 1
          [] ~first /\ rounded > 0 -> rounded
\* pick_story_words: new words of the level, then words of earlier levels,
\* then more of the level's: how many of each.
StoryWords(size, earlier, count, first) ==
    LET picked == Diverse(size, NewCount(count, first))
        review == count - Least(NewCount(count, first), count)
        again == Least(earlier, review)
    IN  [picked |-> picked, again |-> again, more |-> Least(review - again, Cardinality(1..size \ picked))]

----------------------------------------------------------------------------
(* Quizzes: QuizService.generate, build_template_quiz, submit_answer,      *)
(* judge_only.                                                             *)

\* A question of the templates: its word and how many wrong options it has.
Template(size, count) ==
    [i \in 1..Least(IF count > 0 THEN count ELSE 1, size) |-> [word |-> i, wrong |-> Least(3, size - 1)]]
\* A cached quiz, else what a model writes (0 when it fails or nothing it
\* writes is complete), else the templates. Only a model's quiz is cached.
Quiz(in) ==
    LET written == IF in.model THEN Least(in.written, in.count) ELSE 0
        short == Len(Template(in.words, in.count))
    IN  CASE in.model /\ in.cached \notin {0, Corrupt} -> [source |-> "llm", size |-> in.cached, stores |-> 0]
          [] ~(in.model /\ in.cached \notin {0, Corrupt}) /\ written > 0 ->
                [source |-> "llm", size |-> written, stores |-> written]
          [] ~(in.model /\ in.cached \notin {0, Corrupt}) /\ written = 0 ->
                [source |-> "template", size |-> short, stores |-> 0]

\* _verdict_from_text, of the marks in a model's text.
Verdict(marks) ==
    CASE "wrong" \in marks -> "incorrect"
      [] "wrong" \notin marks /\ "partly" \in marks -> "partial"
      [] {"wrong", "partly"} \cap marks = {} /\ "right" \in marks -> "correct"
      [] OTHER -> "incorrect"
\* A question's type is what the model or the client wrote. Judging takes a
\* blank to fill in for a short answer.
Named == {"choice", "short", "fill_blank"}
AsShort(type) == IF type = "fill_blank" THEN "short" ELSE type
\* grade_answer: it knows no other types, open ones apart, which a model judges.
Compared(in, type) == IF in.match /\ type \in {"choice", "short"} THEN "correct" ELSE "incorrect"
\* judge_with_llm: a match needs no model when the type has a name.
Judged(in) == IF in.match /\ in.type \in Named THEN "correct" ELSE Verdict(in.marks)
Submitted(in) == IF in.ai \/ in.type = "open" THEN Judged(in) ELSE Compared(in, in.type)
\* judge_only: a prompt that asks to write something is for the model.
JudgedOnly(in) ==
    IF in.type \in Named /\ ~in.looksOpen THEN Compared(in, AsShort(in.type)) ELSE Judged(in)

----------------------------------------------------------------------------
(* The inputs.                                                             *)

Conversations == [kind : {"fit"}, messages : Upto(Messages), budget : Budgets]
Blocks  == [kind : {"block"}, sizes : Upto(Sizes), budget : Budgets]
Cards   == [kind : {"card"}, questions : Upto([refused : BOOLEAN, id : Ids, free : {TRUE}, options : {<<>>}])
                \union [1..1 -> Questions]]
Stories == [kind : {"story"}, words : 0..MaxWords, earlier : 0..MaxWords, count : 1..MaxWords, first : BOOLEAN]
\* The number of questions is part of the key of a cached quiz.
Quizzes == {in \in [kind : {"quiz"}, model : BOOLEAN, cached : 0..MaxCount \union {Corrupt},
                    written : 0..(MaxCount + 1), words : 0..MaxWords, count : 1..MaxCount] :
               in.cached \in 0..in.count \union {Corrupt}}
Answers == [kind : {"answer"}, type : Named \union {"open", "other"}, ai : BOOLEAN, looksOpen : BOOLEAN,
            match : BOOLEAN, marks : SUBSET {"wrong", "partly", "right"}]
Init == input \in Conversations \union Blocks \union Cards \union Stories \union Quizzes \union Answers

----------------------------------------------------------------------------
(* Properties.                                                             *)

\* What is sent fits the budget, and a part of the conversation is left out
\* only with a summary of it. All of it may go without one: fit_messages drops
\* what it kept for a summary that then does not fit either.
ConversationFits ==
    input.kind = "fit" =>
        LET sent == Fit(input.messages, input.budget)
            spoken == Others(input.messages)
        IN  /\ Weight(SizesOf(input.messages), sent.places) + sent.summary <= input.budget
            /\ spoken \subseteq sent.places \/ spoken \cap sent.places = {} \/ sent.summary > 0
\* A prompt has a chunk when one is found, and more than one only in budget.
BlockFits ==
    input.kind = "block" =>
        LET n == Included(input.sizes, input.budget)
        IN  /\ n = 0 => input.sizes = <<>>
            /\ n > 1 => Weight(input.sizes, 1..n) <= input.budget
\* Ids and options of a card are distinct and within the limits, and no
\* option repeats the free answer.
CardIsClear ==
    input.kind = "card" =>
        LET card == Card(input.questions)
        IN  /\ Len(card) <= MaxQuestions
            /\ \A i, j \in DOMAIN card : i # j => card[i].id # card[j].id
            /\ \A i \in DOMAIN card :
                  LET labels == card[i].options
                  IN  /\ Cardinality(DOMAIN labels) <= MaxOptions
                      /\ \A j, k \in DOMAIN labels : j # k => labels[j] # labels[k]
                      /\ card[i].free => \A j \in DOMAIN labels : labels[j] # FreeLabel
\* The new words of a story are as many as asked or all there are, and its
\* words never more than asked.
StoryHasWords ==
    input.kind = "story" =>
        LET story == StoryWords(input.words, input.earlier, input.count, input.first)
            new == Cardinality(story.picked)
        IN  /\ new = Least(input.words, NewCount(input.count, input.first))
            /\ story.picked \subseteq 1..input.words
            /\ new + story.again + story.more <= input.count
\* A quiz has questions when the level has words, no more than asked for, and
\* only what a model wrote is cached.
QuizIsUsable ==
    input.kind = "quiz" =>
        LET quiz == Quiz(input)
        IN  /\ input.words > 0 => quiz.size > 0
            /\ quiz.size <= input.count
            /\ quiz.stores > 0 => quiz.source = "llm" /\ input.cached \in {0, Corrupt}
\* An answer that matches is right wherever it is judged, but for a blank that
\* is submitted without a judge: submit_answer compares it by a type that
\* grade_answer does not know. What is accepted without a judge is right by
\* judge_only as well, and for choices and short answers the two agree.
MatchIsRight ==
    input.kind = "answer" =>
        /\ input.match /\ input.type \in Named =>
              /\ JudgedOnly(input) = "correct"
              /\ input.type # "fill_blank" \/ input.ai => Submitted(input) = "correct"
        /\ ~input.ai /\ input.type # "open" /\ Submitted(input) = "correct" => JudgedOnly(input) = "correct"
        /\ ~input.ai /\ ~input.looksOpen /\ input.type \in {"choice", "short"} =>
              Submitted(input) = JudgedOnly(input)
RulesHold == ConversationFits /\ BlockFits /\ CardIsClear /\ StoryHasWords /\ QuizIsUsable /\ MatchIsRight
=============================================================================
