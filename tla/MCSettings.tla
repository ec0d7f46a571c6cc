---- MODULE MCSettings ----
(* The built-in profiles, for the run about the key of a profile. *)
EXTENDS AiSettings
CONSTANT ollama
BuiltinOne == <<ollama>>
====
