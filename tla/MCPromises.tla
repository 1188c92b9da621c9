------------------------------ MODULE MCPromises ------------------------------
(* Instances of Promises for TLC. *)
EXTENDS Promises

(* Promises are only ever compared. *)
Symmetry == Permutations(Promise)
=============================================================================
