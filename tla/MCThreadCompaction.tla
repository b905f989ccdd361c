------------------------- MODULE MCThreadCompaction -------------------------
(* A small instance of ThreadCompaction. *)
EXTENDS ThreadCompaction, TLC

Symmetry == Permutations(Worker)
=============================================================================
