---------------------------- MODULE MCTutorTurns ----------------------------
(* Instances of TutorTurns for TLC: one chat session.                      *)
EXTENDS TutorTurns, TLC

MCReach == [c \in Conn |-> Session]
Symmetry == Permutations(Turn)
=============================================================================
