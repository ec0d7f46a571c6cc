------------------------------ MODULE AgentLoop -----------------------------
(***************************************************************************)
(* One tutor turn inside the agent: the loop that calls the model and the  *)
(* tools (AgentLoopRunner), the task and the queue the orchestrator puts   *)
(* it behind, and the owner of the turn at the other end of the queue: the *)
(* websocket runtime, the HTTP route or the SSE route, each with a         *)
(* database session that the tools borrow.                                 *)
(*                                                                         *)
(* A call is named by its number in the turn. The conversation keeps who   *)
(* said what about which call; texts are left out.                         *)
(***************************************************************************)
EXTENDS Naturals, Sequences, FiniteSets

CONSTANTS
    Entries,        \* the ways in that are looked at, among "ws", "http", "sse"
    MaxIterations,  \* DEFAULT_MAX_ITERATIONS (8 in the code)
    MaxBatch,       \* calls the model may make at once
    MaxCalls,       \* calls the model makes in the whole turn
    MaxRounds,      \* executions of the turn: the first and its resumptions
    Cancels,        \* may the turn be cancelled, or an SSE client go away?
    Faults          \* may the model, a tool or the commit fail?

LoopAssumption ==
    /\ Entries \subseteq {"ws", "http", "sse"} /\ {Cancels, Faults} \subseteq BOOLEAN
    /\ {MaxIterations, MaxBatch, MaxRounds} \subseteq Nat \ {0} /\ MaxCalls \in Nat

VARIABLES
    turn,     \* what was asked: the entry, does the client stream, the grounding hints
    pc,       \* the capability's task
    iter,     \* the iteration of the loop
    conv,     \* its messages
    tools,    \* tools[c]: the tool call c names
    phase,    \* phase[c]: how far call c is
    batch,    \* the calls of the response at hand
    memo,     \* grounding_retries, is search_knowledge in tools_called, is the answer empty
    bus,      \* events in the queue
    heard,    \* events the owner has taken
    owner,    \* the coroutine that owns the turn
    outcome,  \* how the execution ended for it
    round,    \* the execution of the turn
    bound,    \* is the owner's session bound to the context?
    written,  \* calls whose writes are in the owner's open transaction
    kept,     \* calls whose writes the owner committed
    loose     \* calls whose writes a tool committed itself

loopVars  == <<pc, iter, conv, tools, phase, batch, memo>>
dbVars    == <<written, kept, loose>>
ownerVars == <<turn, heard, owner, outcome, round, bound>>
vars == <<loopVars, bus, ownerVars, dbVars>>

----------------------------------------------------------------------------
\* ask_user pauses unless its payload is refused; an unknown name gets a text.
Tool     == {"ask_user", "search_knowledge", "write_memory", "unknown"}
ReadOnly == {"search_knowledge"}
UsesDb   == {"search_knowledge", "write_memory"}
Call     == 1..MaxCalls
Event    == {"delta", "content", "ask_user", "error", "done"}
Message  == [role : {"user", "assistant", "tool", "system"}, calls : Seq(Call), of : Call \cup {0}]
Ended    == {"answered", "pauses", "failed"}

TypeOK ==
    /\ turn \in [entry : Entries, streaming : BOOLEAN, meaning : BOOLEAN]
    /\ pc \in {"model", "stream", "tools", "closed"}
    /\ iter \in 1..MaxIterations
    /\ conv \in Seq(Message) /\ batch \in Seq(Call)
    /\ tools \in Seq(Tool) /\ Len(tools) <= MaxCalls
    /\ phase \in [1..Len(tools) -> {"waiting", "turn", "own"} \cup Ended]
    /\ memo \in [reminded : BOOLEAN, searched : BOOLEAN, mute : BOOLEAN]
    /\ bus \in Seq(Event) /\ heard \in Seq(Event)
    /\ owner \in {"drain", "settle", "rollback", "leave", "left", "gone"}
    /\ outcome \in {"open", "saved", "failed", "cancelled"}
    /\ round \in 1..MaxRounds /\ bound \in BOOLEAN
    /\ {written, kept, loose} \subseteq SUBSET (1..Len(tools))

Said(role)         == [role |-> role, calls |-> <<>>, of |-> 0]
CallsMade(cs)      == [role |-> "assistant", calls |-> cs, of |-> 0]
Answer(c)          == [role |-> "tool", calls |-> <<>>, of |-> c]
NoMemo             == [reminded |-> FALSE, searched |-> FALSE, mute |-> FALSE]

Init ==
    /\ turn \in [entry : Entries, streaming : BOOLEAN, meaning : BOOLEAN]
    /\ pc = "model" /\ iter = 1
    /\ conv = <<Said("user")>>
    /\ tools = <<>> /\ phase = <<>> /\ batch = <<>>
    /\ memo = NoMemo
    /\ bus = <<>> /\ heard = <<>>
    /\ owner = "drain" /\ outcome = "open" /\ round = 1 /\ bound = TRUE
    /\ written = {} /\ kept = {} /\ loose = {}

----------------------------------------------------------------------------
\* The end of the capability's task: the last events, DONE and the sentinel
\* go into the queue without a suspension between them.
Close(events) ==
    /\ bus' = bus \o events \o <<"done">>
    /\ pc' = "closed"
    /\ UNCHANGED iter

\* orchestrator._run turns an exception into an event.
Raise == Close(<<"error">>)

\* The loop goes on, unless the limit is reached: then the last text there
\* was, or an apology, is the answer.
\* Mutant: one iteration too many.
NextIterationLate ==
    IF iter <= MaxIterations
    THEN pc' = "model" /\ iter' = iter + 1 /\ UNCHANGED bus
    ELSE Close(<<"content">>)
NextIteration ==
    IF iter < MaxIterations
    THEN pc' = "model" /\ iter' = iter + 1 /\ UNCHANGED bus
    ELSE Close(<<"content">>)

\* Tools are always enabled, so a final answer is streamed only when the last
\* message is a tool's; the request then offers no tools.
StreamsFinal == turn.streaming /\ conv[Len(conv)].role = "tool"

StreamDelta ==
    /\ pc = "model" /\ StreamsFinal
    /\ bus' = Append(bus, "delta")
    /\ pc' = "stream"
    /\ UNCHANGED <<iter, conv, tools, phase, batch, memo, ownerVars, dbVars>>

\* The stream is over: with a text the turn is answered; an empty or blank
\* one is asked for again.
InStream == pc = "stream" \/ (pc = "model" /\ StreamsFinal)
StreamEnd ==
    /\ \/ pc = "stream" /\ Close(<<>>)
       \/ InStream /\ NextIteration
       \/ Faults /\ InStream /\ Raise
    /\ UNCHANGED <<conv, tools, phase, batch, memo, ownerVars, dbVars>>

\* llm_client.chat: the model calls tools.
ModelCalls ==
    /\ pc = "model" /\ ~StreamsFinal
    /\ \E n \in 1..MaxBatch : \E names \in [1..n -> Tool] :
         /\ Len(tools) + n <= MaxCalls
         /\ tools' = tools \o names
         /\ phase' = phase \o [i \in 1..n |-> "waiting"]
         /\ batch' = [i \in 1..n |-> Len(tools) + i]
         /\ conv' = Append(conv, CallsMade(batch'))
    /\ pc' = "tools"
    /\ UNCHANGED <<iter, memo, bus, ownerVars, dbVars>>

\* The model answers, perhaps with nothing. A question about the language
\* that was not looked up is put to it once more.
NeedsGrounding ==
    turn.meaning /\ round = 1 /\ ~memo.reminded /\ ~memo.searched
\* Mutant: an answer is never sent back.
ModelAnswersUnchecked ==
    /\ pc = "model" /\ ~StreamsFinal
    /\ \E text \in BOOLEAN :
         /\ Close(IF text THEN <<"content">> ELSE <<>>)
         /\ memo' = [memo EXCEPT !.mute = ~text]
         /\ UNCHANGED conv
    /\ UNCHANGED <<tools, phase, batch, ownerVars, dbVars>>
ModelAnswers ==
    /\ pc = "model" /\ ~StreamsFinal
    /\ \E text \in BOOLEAN :
         IF text /\ NeedsGrounding
         THEN /\ memo' = [memo EXCEPT !.reminded = TRUE]
              /\ conv' = Append(conv, Said("system"))
              /\ NextIteration
         ELSE /\ memo' = [memo EXCEPT !.mute = ~text]
              /\ Close(IF text THEN <<"content">> ELSE <<>>)
              /\ UNCHANGED conv
    /\ UNCHANGED <<tools, phase, batch, ownerVars, dbVars>>

ModelFails ==
    /\ Faults
    /\ pc = "model" /\ ~StreamsFinal
    /\ Raise
    /\ UNCHANGED <<conv, tools, phase, batch, memo, ownerVars, dbVars>>

----------------------------------------------------------------------------
\* Tools

Parallel == Len(batch) > 1 /\ \A i \in DOMAIN batch : tools[batch[i]] \in ReadOnly

\* One after the other; read-only ones together, which then also go on when
\* one of them has failed and the loop has left (asyncio.gather).
\* Mutant: what stands behind a pause is not started.
MayStartAnswered(c) ==
    /\ phase[c] = "waiting"
    /\ \E i \in DOMAIN batch :
         batch[i] = c /\ (Parallel \/ \A j \in 1..(i - 1) : phase[batch[j]] = "answered")
MayStart(c) ==
    /\ phase[c] = "waiting"
    /\ \E i \in DOMAIN batch :
         batch[i] = c /\ (Parallel \/ \A j \in 1..(i - 1) : phase[batch[j]] \in Ended \ {"failed"})

\* resolve_agent_db: the bound session if there is one, else one of its own.
ToolStart(c) ==
    /\ MayStart(c) /\ tools[c] \in UsesDb
    /\ phase' = [phase EXCEPT ![c] = IF bound THEN "turn" ELSE "own"]
    /\ UNCHANGED <<pc, iter, conv, tools, batch, memo, bus, ownerVars, dbVars>>

\* The tool has worked and asks whether a session is bound: if not, it commits
\* the session it has, with all that is open in it.
CommitIfUnbound(c, open) ==
    IF phase[c] = "turn" /\ bound
    THEN written' = open /\ UNCHANGED <<kept, loose>>
    ELSE /\ loose' = loose \cup (IF phase[c] = "own" THEN open \cap {c} ELSE open)
         /\ written' = IF phase[c] = "own" THEN written ELSE {}
         /\ UNCHANGED kept

ToolEnd(c) ==
    /\ phase[c] \in {"turn", "own"}
    /\ CommitIfUnbound(c, IF tools[c] = "write_memory" THEN written \cup {c} ELSE written)
    /\ phase' = [phase EXCEPT ![c] = "answered"]
    /\ memo' = [memo EXCEPT !.searched = @ \/ tools[c] = "search_knowledge"]
    /\ UNCHANGED <<pc, iter, conv, tools, batch, bus, ownerVars>>

\* ask_user builds its card and asks for a pause, or is refused with a text;
\* an unknown tool gets a text. Neither awaits anything.
ToolAtOnce(c) ==
    /\ MayStart(c) /\ tools[c] \notin UsesDb
    /\ \E end \in {"answered"} \cup (IF tools[c] = "ask_user" THEN {"pauses"} ELSE {}) :
         phase' = [phase EXCEPT ![c] = end]
    /\ UNCHANGED <<pc, iter, conv, tools, batch, memo, bus, ownerVars, dbVars>>

ToolFails(c) ==
    /\ Faults
    /\ phase[c] \in {"turn", "own"}
    /\ phase' = [phase EXCEPT ![c] = "failed"]
    /\ IF pc = "tools" THEN Raise ELSE UNCHANGED <<pc, iter, bus>>
    /\ UNCHANGED <<conv, tools, batch, memo, ownerVars, dbVars>>

\* The results enter the conversation in the order of the calls, up to the
\* first that pauses: its event ends the execution, what follows is dropped.
Pausing == {i \in DOMAIN batch : phase[batch[i]] = "pauses"}
First(S) == CHOOSE i \in S : \A j \in S : i <= j
AnswersTo(cs) == [i \in DOMAIN cs |-> Answer(cs[i])]
AllEnded == pc = "tools" /\ \A i \in DOMAIN batch : phase[batch[i]] \in Ended
Collect ==
    /\ AllEnded
    /\ IF Pausing = {}
       THEN conv' = conv \o AnswersTo(batch) /\ NextIteration
       ELSE /\ conv' = conv \o AnswersTo(SubSeq(batch, 1, First(Pausing) - 1))
            /\ Close(<<"ask_user">>)
    /\ UNCHANGED <<tools, phase, batch, memo, ownerVars, dbVars>>

----------------------------------------------------------------------------
\* The owner

Heard(e) == \E i \in DOMAIN heard : heard[i] = e

\* The next event; the SSE route leaves at a pause without draining the rest.
Receive ==
    /\ owner = "drain" /\ bus # <<>>
    /\ heard' = Append(heard, Head(bus))
    /\ bus' = Tail(bus)
    /\ owner' = IF turn.entry = "sse" /\ Head(bus) = "ask_user" THEN "settle" ELSE "drain"
    /\ UNCHANGED <<loopVars, turn, outcome, round, bound, dbVars>>

StreamOver ==
    /\ owner = "drain" /\ bus = <<>> /\ pc = "closed"
    /\ owner' = "settle"
    /\ UNCHANGED <<loopVars, bus, turn, heard, outcome, round, bound, dbVars>>

\* The transaction of the turn: paused and completed turns commit, those whose
\* capability failed too, since the failure is an event to the owner.
\* Mutant: a turn that ends in a pause is not committed.
CommitCompleted ==
    /\ owner = "settle"
    /\ IF Heard("ask_user") THEN UNCHANGED kept ELSE kept' = kept \cup written
    /\ written' = {} /\ owner' = "leave" /\ outcome' = "saved"
    /\ UNCHANGED <<loopVars, bus, turn, heard, round, bound, loose>>
Commit ==
    /\ owner = "settle"
    /\ \/ kept' = kept \cup written /\ written' = {} /\ owner' = "leave" /\ outcome' = "saved"
       \/ Faults /\ owner' = "rollback" /\ outcome' = "failed" /\ UNCHANGED <<written, kept>>
    /\ UNCHANGED <<loopVars, bus, turn, heard, round, bound, loose>>

\* task.cancel() on the websocket task, or an SSE client that goes away, at
\* any await. It ends the owner; nothing ends the capability's task.
Cancel ==
    /\ Cancels /\ turn.entry \in {"ws", "sse"}
    /\ owner \in {"drain", "settle"}
    /\ owner' = IF turn.entry = "ws" THEN "rollback" ELSE "leave"
    /\ outcome' = "cancelled"
    /\ UNCHANGED <<loopVars, bus, turn, heard, round, bound, dbVars>>

\* The owner finds at an event that another worker cancelled the turn.
FindCancelled ==
    /\ Cancels /\ turn.entry = "ws"
    /\ owner = "drain" /\ bus # <<>>
    /\ bus' = Tail(bus)
    /\ owner' = "leave" /\ outcome' = "cancelled"
    /\ UNCHANGED <<loopVars, turn, heard, round, bound, dbVars>>

RollBack ==
    /\ owner = "rollback"
    /\ written' = {}
    /\ owner' = "leave"
    /\ UNCHANGED <<loopVars, bus, turn, heard, outcome, round, bound, kept, loose>>

\* finally: clear_turn_db_session, then an await (release_session) before the
\* session is closed, which rolls back what is open in it.
Unbind ==
    /\ owner = "leave"
    /\ bound' = FALSE
    /\ owner' = "left"
    /\ UNCHANGED <<loopVars, bus, turn, heard, outcome, round, dbVars>>
CloseSession ==
    /\ owner = "left"
    /\ written' = {}
    /\ owner' = "gone"
    /\ UNCHANGED <<loopVars, bus, turn, heard, outcome, round, bound, kept, loose>>

\* The learner answers a turn that was saved as paused: the snapshot of the
\* event and the answer are the conversation of the next execution.
Paused == turn.entry = "ws" /\ outcome = "saved" /\ Heard("ask_user")
\* Mutant: the answer is given to the first call of the batch.
ResumeFirst ==
    /\ owner = "gone" /\ Paused /\ round < MaxRounds
    /\ conv' = Append(conv, Answer(batch[1]))
    /\ pc' = "model" /\ iter' = 1 /\ batch' = <<>> /\ memo' = NoMemo
    /\ heard' = <<>> /\ owner' = "drain" /\ outcome' = "open"
    /\ round' = round + 1 /\ bound' = TRUE
    /\ UNCHANGED <<turn, tools, phase, bus, dbVars>>
Resume ==
    /\ owner = "gone" /\ Paused /\ round < MaxRounds
    /\ conv' = Append(conv, Answer(batch[First(Pausing)]))
    /\ pc' = "model" /\ iter' = 1 /\ batch' = <<>> /\ memo' = NoMemo
    /\ heard' = <<>> /\ owner' = "drain" /\ outcome' = "open"
    /\ round' = round + 1 /\ bound' = TRUE
    /\ UNCHANGED <<turn, tools, phase, bus, dbVars>>

----------------------------------------------------------------------------
LoopStep ==
    \/ StreamDelta \/ StreamEnd \/ ModelCalls \/ ModelAnswers \/ ModelFails \/ Collect
    \/ \E c \in 1..Len(tools) : ToolStart(c) \/ ToolEnd(c) \/ ToolAtOnce(c) \/ ToolFails(c)
OwnerStep == Receive \/ StreamOver \/ Commit \/ RollBack \/ Unbind \/ CloseSession
Next == LoopStep \/ OwnerStep \/ Cancel \/ FindCancelled \/ Resume

\* The model and the tools answer or fail, ready coroutines run.
Fairness == WF_vars(LoopStep) /\ WF_vars(OwnerStep)
Spec == Init /\ [][Next]_vars /\ Fairness

----------------------------------------------------------------------------
(* Properties.                                                             *)

CallMessage(c) == CHOOSE i \in DOMAIN conv : \E j \in DOMAIN conv[i].calls : conv[i].calls[j] = c
AnswersIn(c)   == {i \in DOMAIN conv : conv[i].of = c}
\* A call that stands behind one that paused in the response that made both.
Dropped(c) ==
    LET cs == conv[CallMessage(c)].calls
    IN  \E i, j \in DOMAIN cs : i < j /\ phase[cs[i]] = "pauses" /\ cs[j] = c

\* When the model is asked, every tool call before has one answer, in the
\* order of the calls and before anything else is said, through pauses and
\* resumptions; only what stood behind a pause has none. Providers refuse
\* other conversations (AgentLoopRunner._execute_tool_calls, submit_user_reply).
CallsAnswered ==
    pc = "model" =>
        \A c \in 1..Len(tools) :
            IF Dropped(c) THEN AnswersIn(c) = {}
            ELSE LET cs == conv[CallMessage(c)].calls
                     at == CHOOSE j \in DOMAIN cs : cs[j] = c
                 IN  AnswersIn(c) = {CallMessage(c) + at}

\* An execution asks the learner once, and after the question the owner hears
\* only DONE: what it saves as the paused state is the whole of it
\* (_execute_tool_calls, iter_orchestrator_turn_frames, _execute_turn).
PauseIsLast ==
    \A i \in DOMAIN heard : heard[i] = "ask_user" =>
        \A j \in DOMAIN heard : j > i => heard[j] = "done"

\* Tools write in the transaction of the turn and the owner decides: a tool
\* commits by itself only in a turn that was cancelled (resolve_agent_db, the
\* session ownership contract of agent/db_session.py).
OwnerDecides == loose # {} => outcome = "cancelled"

Wrote == {c \in 1..Len(tools) : tools[c] = "write_memory" /\ phase[c] = "answered"}
\* The call was made before the last pause.
MadeBefore(c) ==
    \E i \in DOMAIN conv :
        i > CallMessage(c) /\ conv[i].of # 0 /\ phase[conv[i].of] = "pauses"
\* Whatever the tools of a finished execution wrote is kept, and nothing of a
\* failed one: also what was written before a pause, before a tool failed, and
\* by calls whose results were dropped (_execute_turn, stream_tutor_turn_http).
AllOrNothing ==
    /\ outcome = "saved" => Wrote \subseteq kept
    /\ outcome \in {"open", "failed"} =>
         \A c \in kept : MadeBefore(c)

\* A question about the language is answered without a look into the
\* knowledge base only after a reminder, or when the model had used another
\* tool and its answer was streamed, or at the limit of iterations (the
\* grounding retry of AgentLoopRunner.run).
Grounded ==
    Heard("content") /\ turn.meaning /\ round = 1 /\ ~memo.searched
        => memo.reminded \/ iter = MaxIterations

\* An execution that neither fails nor pauses says something, unless the
\* model itself answered with nothing (the fallback after the loop).
NoSilentTurn ==
    outcome = "saved" =>
        memo.mute \/ \E e \in {"delta", "content", "ask_user", "error"} : Heard(e)

\* Every execution ends, and its owner with it, whatever fails.
ExecutionEnds ==
    /\ pc # "closed" ~> pc = "closed"
    /\ owner # "gone" ~> owner = "gone"
=============================================================================
