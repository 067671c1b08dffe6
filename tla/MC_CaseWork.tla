---------------------------- MODULE MC_CaseWork ----------------------------
(* Instances of CaseWork for TLC. *)
EXTENDS CaseWork, TLC

CONSTANTS r1, r2, m1, m2, s1, s2

(* Cases that share something: the portal account, the API credentials, the *)
(* selected sub-merchants; and one that shares nothing.                     *)
Together == {{"mid", "testing"}, {"mid"}, {"mid", "wordpress"},
             {"document_review"}, {"document_review", "wordpress"},
             {"document_review", "sub_merchant_form"}, {"live"}}

Alike == Permutations({r1, r2}) \cup Permutations({m1, m2}) \cup Permutations({s1, s2})
=============================================================================
