--------------------------- MODULE MCTaskLifecycle ---------------------------
(* A small instance of TaskLifecycle: the questions are interchangeable.   *)
EXTENDS TaskLifecycle, TLC

Symmetry == Permutations(Question)
=============================================================================
