------------------------- MODULE MC_CaseLifecycle --------------------------
(* Instances of CaseLifecycle for TLC. *)
EXTENDS CaseLifecycle, TLC

CONSTANTS u1, u2, r1, r2

Alike == Permutations({u1, u2}) \cup Permutations({r1, r2})
=============================================================================
