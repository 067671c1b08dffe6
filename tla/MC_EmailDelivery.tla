-------------------------- MODULE MC_EmailDelivery --------------------------
(* Instances of EmailDelivery for TLC. *)
EXTENDS EmailDelivery, TLC

CONSTANTS s1, s2, h1, h2

(* The first email is delivered, bounces or is complained about; the second *)
(* is only accepted.                                                        *)
FirstInFull ==
  [e \in Emails |-> IF e = 1 THEN {"delivered", "bounced", "complained"} ELSE {}]

Requests == Permutations(Senders) \cup Permutations(Handlers)
=============================================================================
