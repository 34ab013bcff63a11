--------------------------- MODULE MCEventLineage ---------------------------
(* EventLineage with IDs that cannot be told apart. *)
EXTENDS EventLineage, TLC

Symmetry == Permutations(ID)
=============================================================================
