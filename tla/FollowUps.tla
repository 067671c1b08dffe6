----------------------------- MODULE FollowUps -----------------------------
(***************************************************************************)
(* What the flow promises about follow-up cases, without jobs, workers,    *)
(* locks or transactions: a successful close owes its targets; every       *)
(* follow-up is made at most once; a debt is settled only when a case for  *)
(* the target is there, and a settled debt stays settled.                  *)
(* CaseFlow implements this specification.                                 *)
(***************************************************************************)
EXTENDS Naturals

CONSTANTS Queues, Slots   \* Slots: records with a field queue

VARIABLES
  owed,      \* target queues some successful close asked for
  covered,   \* queues that have a case, whoever created it
  made,      \* how many cases the flow created for each slot
  settled    \* owed queues that need nothing more

fvars == <<owed, covered, made, settled>>

Init ==
  /\ owed = {}
  /\ covered \in SUBSET Queues     \* the start rules' targets
  /\ made = [s \in Slots |-> 0]
  /\ settled = {}

Owe ==
  /\ \E T \in SUBSET Queues : owed' = owed \cup T
  /\ UNCHANGED <<covered, made, settled>>

(* Make what is missing for t, possibly nothing, and perhaps settle it. *)
Fulfil(t) ==
  /\ t \in owed
  /\ \E S \in SUBSET {s \in Slots : s.queue = t /\ made[s] = 0} :
       /\ made' = [s \in Slots |-> IF s \in S THEN 1 ELSE made[s]]
       /\ covered' = IF S = {} THEN covered ELSE covered \cup {t}
  /\ settled' \in {settled, settled \cup {t}}
  /\ settled' \subseteq covered'
  /\ UNCHANGED owed

(* Somebody creates a case by hand. *)
Cover(q) ==
  /\ covered' = covered \cup {q}
  /\ UNCHANGED <<owed, made, settled>>

Next == Owe \/ \E q \in Queues : Fulfil(q) \/ Cover(q)

Spec == Init /\ [][Next]_fvars
=============================================================================
