------------------------------- MODULE MCChat ------------------------------
(***************************************************************************)
(* Both ends of the tutor's websocket for TLC, and the session of the      *)
(* browser tab the chat is in, one beside the other: a behaviour is one of *)
(* the agent loop behind a turn (part "loop"), of the chat in the browser  *)
(* (part "chat") or of the session (part "session"), each against the      *)
(* others as its own module abstracts them.                                *)
(***************************************************************************)
EXTENDS TutorChat

CONSTANTS Parts, Entries, MaxIterations, MaxBatch, MaxCalls, MaxRounds, Cancels, Faults,
          MaxTokens, MaxFailures, MaxLoads

VARIABLES
    part,
    turn, pc, iter, conv, tools, phase, batch, memo, bus, heard, owner, outcome,
    round, bound, written, kept, loose,
    store, token, query, fetch, degraded, retrying, forms, hash, chat,
    issued, expired, failures, loads, mixed

Loop == INSTANCE AgentLoop
Tab == INSTANCE SignIn
ASSUME ChatAndLoopAssumption == Loop!LoopAssumption /\ Tab!SignInAssumption

loopVars == <<turn, pc, iter, conv, tools, phase, batch, memo, bus, heard, owner, outcome,
              round, bound, written, kept, loose>>
sessionVars == <<store, token, query, fetch, degraded, retrying, forms, hash, chat,
                 issued, expired, failures, loads, mixed>>
vars     == <<part, loopVars, chatVars, sessionVars>>

BothInit ==
    /\ part \in Parts
    /\ Loop!Init /\ Init /\ Tab!Init
    /\ part # "loop" => turn = [entry |-> CHOOSE e \in Entries : TRUE, streaming |-> FALSE, meaning |-> FALSE]

OnlyLoop    == UNCHANGED <<part, chatVars, sessionVars>>
OnlyChat    == UNCHANGED <<part, loopVars, sessionVars>>
OnlySession == UNCHANGED <<part, loopVars, chatVars>>

LoopStep  == part = "loop" /\ Loop!LoopStep /\ OnlyLoop
OwnerStep == part = "loop" /\ Loop!OwnerStep /\ OnlyLoop
LoopOther == part = "loop" /\ (Loop!Cancel \/ Loop!FindCancelled \/ Loop!Resume) /\ OnlyLoop
ChatStep  == part = "chat" /\ Next /\ OnlyChat
TabStep   == part = "session" /\ Tab!Next /\ OnlySession
BothNext  == LoopStep \/ OwnerStep \/ LoopOther \/ ChatStep \/ TabStep

\* The fairness of the modules; an action of the one that does not run is
\* not enabled, so that two of them may share a formula.
InChat == part = "chat" /\ OnlyChat
InTab  == part = "session" /\ OnlySession
BothSpec ==
    /\ BothInit /\ [][BothNext]_vars
    /\ WF_vars(LoopStep) /\ WF_vars(OwnerStep)
    /\ WF_vars((Opened /\ InChat) \/ (Tab!Answer /\ InTab))
    /\ WF_vars((Retry /\ InChat) \/ (Tab!Resend /\ InTab))
    /\ WF_vars(Serve /\ InChat) /\ WF_vars(HandleInbound /\ InChat)
    /\ \A t \in Turn : WF_vars(Work(t) /\ InChat)
    /\ SF_vars(Stop /\ InChat)

----------------------------------------------------------------------------
(* The properties of the loop, stated in AgentLoop; those of the chat are   *)
(* used as they stand in TutorChat.                                         *)

\* Values of the right kind (AgentLoop, TutorChat, SignIn).
BothTypeOK == TypeOK /\ Loop!TypeOK /\ Tab!TypeOK
\* The conversation a model is sent: every call that is not behind a pause
\* has one answer, in order, and a question ends the execution
\* (AgentLoopRunner._execute_tool_calls).
ConversationIsWhole == Loop!CallsAnswered /\ Loop!PauseIsLast
\* All a finished execution wrote is kept, nothing of a failed one, and no
\* tool commits by itself in a turn that was not cancelled (_execute_turn,
\* run_tutor_turn_with_session, resolve_agent_db).
AllOrNothing == Loop!AllOrNothing /\ Loop!OwnerDecides
\* A question about the language is answered after a look-up or a reminder,
\* and an execution that ends has said something (AgentLoopRunner.run).
AnswersLearner == Loop!Grounded /\ Loop!NoSilentTurn
\* A locked input waits for a turn that is running and that Stop can reach
\* (useTutorChat).
LockIsJustified == StopWorks /\ LockedMeansRunning
\* Every execution ends, and its owner with it (orchestrator.handle).
ExecutionEnds == part = "loop" => Loop!ExecutionEnds
\* The user shown, the token sent and the chat kept are of one sign-in
\* (logout, useCurrentUserQuery).
OneIdentity == Tab!OneIdentity
\* The input of the chat is unlocked in the end (useTutorChat), and the page
\* does not check the session for ever (AuthContext).
PagesUnlock ==
    /\ part = "chat" => InputUnlocks
    /\ part = "session" => Tab!SessionSettles
=============================================================================
