----------------------------- MODULE MCContextPool -----------------------------
(* Instances of ContextPool for TLC. *)
EXTENDS ContextPool, TLC

CONSTANTS x1, x2, c1, c2
=============================================================================
