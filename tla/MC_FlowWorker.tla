--------------------------- MODULE MC_FlowWorker ---------------------------
(* Instances of FlowWorker for TLC. *)
EXTENDS FlowWorker, TLC

CONSTANTS j1, j2

AnyJob == Permutations(Jobs)
=============================================================================
