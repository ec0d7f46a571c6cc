---- MODULE MCRetrieval ----
(* Who asks, for the run that looks for what a question finds. *)
EXTENDS Retrieval
Askers == {<<"teacher", FALSE>>, <<"student", TRUE>>}
====
