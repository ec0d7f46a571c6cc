-------------------------------- MODULE Mutex -------------------------------
(* What the background jobs expect of the lock of a document or a learner:  *)
(* one of them has it, and gives it back.                                   *)
CONSTANTS Job, NoJob

VARIABLE holder

Init == holder = NoJob
Take(j) == holder = NoJob /\ holder' = j
Give(j) == holder = j /\ holder' = NoJob
Next == \E j \in Job : Take(j) \/ Give(j)
Spec == Init /\ [][Next]_holder
=============================================================================
