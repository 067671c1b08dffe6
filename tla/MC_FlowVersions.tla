-------------------------- MODULE MC_FlowVersions --------------------------
(* Instances of FlowVersions for TLC: rules on three queues. *)
EXTENDS FlowVersions, FiniteSets, TLC

CONSTANTS a, b, c, e1, e2, d1, m1

Flow(start, triggers, blockers, requirements) ==
  [start |-> start, triggers |-> triggers, blockers |-> blockers, requirements |-> requirements]

First == Flow({a}, {<<a, b>>}, {}, {})

(* Two sound ones with a third queue, a circle of two kinds of rules, a     *)
(* first case that requires another one beside two triggers or a circle.    *)
SomeFlows == {
  Flow({a, b}, {<<a, c>>, <<b, c>>}, {<<b, a>>}, {<<c, b>>}),
  Flow({a}, {<<a, b>>, <<b, c>>}, {<<c, b>>}, {}),
  Flow({a}, {<<a, b>>}, {<<a, c>>}, {<<c, b>>}),
  Flow({a}, {<<a, b>>}, {<<a, b>>}, {})}
    \cup {Flow({b}, triggers, {}, {<<b, a>>}) :
            triggers \in {T \in SUBSET {<<a, b>>, <<b, c>>, <<c, a>>} : Cardinality(T) > 1}}

Alike == Permutations({e1, e2})
=============================================================================
