---------------------------- MODULE MC_CaseFlow ----------------------------
(* Instances of CaseFlow for TLC: small flow versions that the publication  *)
(* checks of configuration.service.ts accept.                               *)
EXTENDS CaseFlow, TLC

CONSTANTS review, agreement, target, w1, w2, r1, r2, s1, s2

(* A merchant opens with a review and an agreement case; closing either     *)
(* triggers the target, which requires a closed agreement; the agreement    *)
(* cannot be closed before the review.                                      *)
Triggers     == {<<review, target>>, <<agreement, target>>}
Blockers     == {<<agreement, review>>}
Requirements == {<<target, agreement>>}

(* The target requires the review, which a resubmission can reopen. *)
ReviewRequired == {<<target, review>>}

NoRules == {}

(* Ids are random uuids, and locks are taken in their order. *)
ReviewLast  == (review :> 2 @@ agreement :> 1)

Staff == Permutations({w1, w2}) \cup Permutations({r1, r2})
Pairs == Permutations({w1, w2}) \cup Permutations({s1, s2})
=============================================================================
