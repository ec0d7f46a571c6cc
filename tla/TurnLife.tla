------------------------------ MODULE TurnLife ------------------------------
(***************************************************************************)
(* What a learner may rely on about a turn: it is executed by one          *)
(* execution at a time, goes on only from a pause, with an execution of    *)
(* its own, and once it is over it is never executed again.                *)
(***************************************************************************)
CONSTANTS Turn, Execution

VARIABLES
    phase,      \* of each turn: new, running, waiting for a reply, over
    executions  \* the executions each turn has had

lifeVars == <<phase, executions>>

Init ==
    /\ phase = [t \in Turn |-> "new"]
    /\ executions = [t \in Turn |-> {}]

Execute(t, n) ==
    /\ n \notin executions[t]
    /\ phase' = [phase EXCEPT ![t] = "running"]
    /\ executions' = [executions EXCEPT ![t] = @ \union {n}]
Start(t, n)  == phase[t] = "new" /\ executions[t] = {} /\ Execute(t, n)
Resume(t, n) == phase[t] = "waiting" /\ Execute(t, n)
Pause(t) ==
    /\ phase[t] = "running"
    /\ phase' = [phase EXCEPT ![t] = "waiting"]
    /\ UNCHANGED executions
\* Turns end one by one, or all that a worker executes when it dies.
End(turns) ==
    /\ \A t \in turns : phase[t] \in {"running", "waiting"}
    /\ phase' = [t \in Turn |-> IF t \in turns THEN "over" ELSE phase[t]]
    /\ UNCHANGED executions

Next ==
    \/ \E t \in Turn : Pause(t) \/ \E n \in Execution : Start(t, n) \/ Resume(t, n)
    \/ \E turns \in SUBSET Turn : End(turns)

Spec == Init /\ [][Next]_lifeVars
=============================================================================
