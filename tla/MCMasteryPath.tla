--------------------------- MODULE MCMasteryPath ---------------------------
(* Instances of MasteryPath for TLC: objectives are named by their types.   *)
EXTENDS MasteryPath, TLC

CONSTANTS vocab, articles

PathVocab    == <<vocab>>
PathTwo      == <<vocab, articles>>
TypesVocab   == vocab :> "memory"
TypesTwo     == vocab :> "memory" @@ articles :> "procedure"

(* Word lists of three words a level; the vocabulary objective draws from   *)
(* the ranks 1 and 2, whatever its level, as those of the paths do.         *)
WordsA1      == <<3>>
WordsA2      == <<3, 3>>
BandVocab    == [k \in KP |-> IF k = vocab THEN <<1, 2>> ELSE None]

(* The bounds of a run.                                                     *)
Nothing      == [x \in Bounded |-> 0]
BoundsShared == [Nothing EXCEPT !["slip"] = 1, !["stray"] = 1]

=============================================================================
