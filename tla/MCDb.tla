-------------------------------- MODULE MCDb --------------------------------
(* Db with model values for the keys and the values. *)
EXTENDS Db, TLC

CONSTANTS k1, k2, v1, v2

MCKey == {k1, k2}
MCVal == {v1, v2}
MCVersion == {0, 1}
MCSymmetry == Permutations(MCKey) \cup Permutations(MCVal)
=============================================================================
