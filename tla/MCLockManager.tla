---------------------------- MODULE MCLockManager ----------------------------
(* Instances of LockManager for TLC. *)
EXTENDS LockManager, TLC

CONSTANTS r1, r2, s1, s2, s3

(* Two sessions in r1, one in r2. *)
TwoAndOne == s1 :> r1 @@ s2 :> r1 @@ s3 :> r2
=============================================================================
