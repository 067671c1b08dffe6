---------------------------- MODULE MC_Sessions ----------------------------
(* Instances of Sessions for TLC. *)
EXTENDS Sessions, TLC

CONSTANTS r1, r2, agent, admin

Alike == Permutations({r1, r2}) \cup Permutations({agent, admin})
=============================================================================
