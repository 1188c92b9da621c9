---------------------------- MODULE MCCompilerPool ----------------------------
(* Instances of CompilerPool for TLC. *)
EXTENDS CompilerPool, TLC

CONSTANTS k1, k2, k3, c1, c2, m1, m2, r1, r2

Symmetry == Permutations(Key) \cup Permutations(Client) \cup Permutations(Module) \cup Permutations(Ref)
=============================================================================
