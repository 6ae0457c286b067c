----------------------------- MODULE MCRateLimit -----------------------------
(* Instances of RateLimit for TLC. *)
EXTENDS RateLimit, TLC

CONSTANTS mint, triage, here, k1, k2, s1, s2

BothBuckets == {mint, triage}
BothLimits == (mint :> 1) @@ (triage :> 1)

Symmetric == Permutations(Secrets)

\* Two instances in one: all the calls and no change, or fewer calls beside the changes.
MCInit ==
  /\ Init
  /\ \/ served = 0 /\ changes = MaxChanges /\ wall = 1
     \/ served = 3 /\ changes = 0
MCSpec == MCInit /\ [][Next]_vars
=============================================================================
