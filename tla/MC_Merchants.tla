---------------------------- MODULE MC_Merchants ----------------------------
(* Instances of Merchants for TLC. *)
EXTENDS Merchants, TLC

CONSTANTS r1, r2, d1, d2, p1, p2

(* Two pages with one key, one without, and one of another business that    *)
(* has the same key.                                                        *)
SomeForms == {
  [business |-> "b", contacts |-> {"c", "e"}, key |-> "k"],
  [business |-> "b", contacts |-> {"c"}, key |-> NoKey],
  [business |-> "z", contacts |-> {"e"}, key |-> "k"]}

Alike == Permutations({r1, r2}) \cup Permutations({d1, d2}) \cup Permutations({p1, p2})
=============================================================================
