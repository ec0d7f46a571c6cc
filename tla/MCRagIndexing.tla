---------------------------- MODULE MCRagIndexing ---------------------------
(* Instances of RagIndexing for TLC: each request is used once, so the      *)
(* constant Job bounds the index requests; deletions are not bounded.       *)
EXTENDS RagIndexing, TLC

CONSTANTS d1, d2, j1, j2, j3

Symmetry == Permutations(Doc) \cup Permutations(Job)
=============================================================================
