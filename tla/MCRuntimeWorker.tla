--------------------------- MODULE MCRuntimeWorker ---------------------------
(* Instances of RuntimeWorker for TLC. *)
EXTENDS RuntimeWorker, TLC

CONSTANTS c1, c2, h1

Symmetry == Permutations(Caller)
=============================================================================
