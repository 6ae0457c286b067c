---------------------------- MODULE MCHealthCache ----------------------------
(* Instances of HealthCache for TLC. *)
EXTENDS HealthCache, TLC

CONSTANTS r1, r2, r3

Symmetric == Permutations(Requests)
=============================================================================
