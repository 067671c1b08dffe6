-------------------------- MODULE MC_Resubmission --------------------------
(* Instances of Resubmission for TLC. *)
EXTENDS Resubmission, TLC

CONSTANTS f1, f2, a1, a2, p1, p2

(* Both documents are alike except that f2 may be removed. *)
Requests == Permutations({a1, a2}) \cup Permutations({p1, p2})
=============================================================================
