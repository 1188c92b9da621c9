---------------------------- MODULE MCProgramStore ----------------------------
(* Instances of ProgramStore for TLC. *)
EXTENDS ProgramStore, TLC

CONSTANTS a, b, d, c1, c2

(* Programs a and d weigh two units, b one. *)
Sizes == [k \in Key |-> IF k = b THEN 1 ELSE 2]

Symmetry == Permutations(Client)
=============================================================================
