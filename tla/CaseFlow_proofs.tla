--------------------------- MODULE CaseFlow_proofs ---------------------------
(* Theorems about CaseFlow, for every flow version, every number of workers *)
(* and staff requests, and every bound on cases and faults. Three parts:    *)
(*   1. transactions and case rows: types, one live case, true timestamps;  *)
(*   2. jobs: what a close owes is remembered, and done means done;         *)
(*   3. locks and rules: no deadlock within a target, blockers and          *)
(*      requirements that still hold at the commit, and the refinement of   *)
(*      FollowUps.                                                          *)
EXTENDS CaseFlow, FiniteSetTheorems, WellFoundedInduction, TLAPS

-----------------------------------------------------------------------------
(* Type correctness *)

(* Only workers and recoveries start there, and they name a target queue. *)
Targeted(t) ==
  t.pc \in {"claimed", "candidate"} => t.target \in Queues /\ t.op \in {"job", "recover"}

HasTarget == \A a \in Actors : Targeted(tx[a])

(* What a transaction under way looks like. *)
TInv == TypeOK /\ HasTarget

LEMMA SetType ==
  ASSUME tx \in [Actors -> Tx], NEW a \in Actors, NEW t \in Tx, Set(a, t)
  PROVE  tx' \in [Actors -> Tx]
  BY DEF Set

LEMMA IdleType == IdleTx \in Tx
  BY DEF IdleTx, Tx, Errors

LEMMA NewJobType == NewJob \in JobRow
<1>1. NoJob \in JobRow
  BY DEF NoJob, JobRow, Errors
<1>2. QED  BY <1>1 DEF NewJob, JobRow

LEMMA SetTarget ==
  ASSUME TInv, NEW a \in Actors, NEW t \in Tx, Set(a, t),
         Targeted(t)
  PROVE  HasTarget'
  BY DEF TInv, TypeOK, HasTarget, Set

LEMMA RolledBackType ==
  ASSUME NEW t \in Tx, NEW err \in Errors
  PROVE  RolledBack(t, err) \in Tx /\ RolledBack(t, err).pc = "rolledBack"
  BY DEF RolledBack, Tx

LEMMA InsertType ==
  ASSUME cases \in [CaseIds -> CaseRow], NEW slots \in SUBSET Slot,
         NEW origin \in {"close", "manual"}, Insert(slots, origin)
  PROVE  cases' \in [CaseIds -> CaseRow]
<1>1. PICK id \in [slots -> FreeIds] :
        cases' = [k \in CaseIds |->
                   IF \E s \in slots : id[s] = k
                   THEN LET s == CHOOSE u \in slots : id[u] = k
                        IN  [NoCase EXCEPT !.queue = s.queue, !.sub = s.sub,
                                           !.origin = origin, !.status = "open"]
                   ELSE cases[k]]
  BY DEF Insert
<1>2. SUFFICES ASSUME NEW k \in CaseIds, \E s \in slots : id[s] = k
               PROVE  cases'[k] \in CaseRow
  BY <1>1
<1>3. PICK s \in slots : s = (CHOOSE u \in slots : id[u] = k)
  BY <1>2
<1>4. cases'[k] = [NoCase EXCEPT !.queue = s.queue, !.sub = s.sub,
                                 !.origin = origin, !.status = "open"]
  BY <1>1, <1>2, <1>3
<1>5. QED
  BY <1>3, <1>4 DEF Slot, NoCase, CaseRow

LEMMA TypeInit == Init => TInv
<1>1. SUFFICES ASSUME Init PROVE TInv
  OBVIOUS
<1>2. cases \in [CaseIds -> CaseRow]
  <2>1. ASSUME NEW k \in CaseIds PROVE cases[k] \in CaseRow
    <3>1. CASE \E q \in StartQueues : StartCase[q] = k
      <4>1. PICK q \in StartQueues : q = (CHOOSE p \in StartQueues : StartCase[p] = k)
        BY <3>1
      <4>2. cases[k] = [NoCase EXCEPT !.queue = q, !.origin = "start", !.status = "open"]
        BY <1>1, <3>1, <4>1 DEF Init
      <4>3. QED  BY <4>2, FlowAssumption DEF NoCase, CaseRow
    <3>2. CASE ~\E q \in StartQueues : StartCase[q] = k
      BY <1>1, <3>2 DEF Init, NoCase, CaseRow
    <3>3. QED  BY <3>1, <3>2
  <2>2. QED  BY <1>1, <2>1 DEF Init
<1>3. jobs \in [JobKeys -> JobRow]
  BY <1>1 DEF Init, NoJob, JobRow, Errors
<1>4. tx \in [Actors -> Tx] /\ HasTarget
  BY <1>1, IdleType DEF Init, HasTarget, Targeted, IdleTx
<1>5. selected = {} /\ terminated = FALSE /\ faults = 0
  BY <1>1 DEF Init
<1>6. faults \in 0..MaxFaults
  BY <1>5, FlowAssumption
<1>7. QED  BY <1>2, <1>3, <1>4, <1>5, <1>6 DEF TInv, TypeOK

(* Steps that change nothing but the transaction of one actor. *)
LEMMA TypeLocal ==
  ASSUME TInv, NEW a \in Actors, NEW t \in Tx, Set(a, t),
         Targeted(t),
         UNCHANGED <<cases, jobs, selected, terminated, faults>>
  PROVE  TInv'
  BY SetType, SetTarget DEF TInv, TypeOK

LEMMA TypeStep == TInv /\ [Next]_vars => TInv'
<1> SUFFICES ASSUME TInv, [Next]_vars PROVE TInv'
  OBVIOUS
<1> USE DEF TInv, TypeOK, Targeted
<1>1. ASSUME NEW a \in Actors, TakeAdvisory(a) PROVE TInv'
  <2> DEFINE t == [tx[a] EXCEPT
                   !.adv = tx[a].target,
                   !.slots = MissingSlots(tx[a].target),
                   !.want = IF MissingSlots(tx[a].target) = {} THEN {}
                            ELSE CasesIn(Prerequisites(CreationRequirements, tx[a].target)),
                   !.pc = IF MissingSlots(tx[a].target) = {} THEN "ready" ELSE "locking"]
  <2>1. tx[a].target \in Queues
    BY <1>1 DEF TakeAdvisory, HasTarget
  <2>2. MissingSlots(tx[a].target) \in SUBSET Slot
    BY <2>1 DEF MissingSlots, SlotsOf, Slot
  <2>3. CasesIn(Prerequisites(CreationRequirements, tx[a].target)) \in SUBSET CaseIds
    BY DEF CasesIn
  <2>4. t \in Tx
    <3>1. tx[a] \in Tx
      OBVIOUS
    <3>2. QED  BY <2>1, <2>2, <2>3, <3>1 DEF Tx
  <2>5. t.pc \notin {"claimed", "candidate"}
    BY DEF Tx
  <2>6. Set(a, t) /\ UNCHANGED <<cases, jobs, selected, terminated, faults>>
    BY <1>1 DEF TakeAdvisory
  <2>7. QED  BY <2>4, <2>5, <2>6, TypeLocal
<1>2. ASSUME NEW a \in Actors, NoSelection(a) PROVE TInv'
  BY <1>2, RolledBackType, TypeLocal DEF NoSelection, Errors
<1>3. ASSUME NEW a \in Actors, LockRow(a) PROVE TInv'
  <2>1. PICK k \in CaseIds :
          Set(a, [tx[a] EXCEPT !.rows = @ \cup {k}, !.want = @ \ {k}])
    BY <1>3 DEF LockRow
  <2>2. [tx[a] EXCEPT !.rows = @ \cup {k}, !.want = @ \ {k}] \in Tx
    <3>1. tx[a] \in Tx
      OBVIOUS
    <3>2. QED  BY <3>1 DEF Tx
  <2>3. tx[a].pc = "locking"
    BY <1>3 DEF LockRow
  <2>4. QED  BY <1>3, <2>1, <2>2, <2>3, TypeLocal DEF LockRow, Tx
<1>4. ASSUME NEW a \in Actors, Satisfied(a) PROVE TInv'
  <2>1. [tx[a] EXCEPT !.pc = "ready"] \in Tx
    BY DEF Tx
  <2>2. QED  BY <1>4, <2>1, TypeLocal DEF Satisfied, Tx
<1>5. ASSUME NEW a \in Actors, Refused(a) PROVE TInv'
  <2>1. CASE tx[a].op \in {"job", "recover"}
    BY <1>5, <2>1, RolledBackType, TypeLocal DEF Refused, Errors
  <2>2. CASE tx[a].op \notin {"job", "recover"}
    BY <1>5, <2>2, IdleType, TypeLocal DEF Refused, IdleTx
  <2>3. QED  BY <2>1, <2>2
<1>6. ASSUME NEW w \in Workers, NEW j \in JobKeys, Claim(w, j) PROVE TInv'
  <2>1. [IdleTx EXCEPT !.op = "job", !.pc = "claimed", !.src = j[1],
                       !.target = j[2], !.jobRows = {j}] \in Tx
    BY IdleType DEF Tx, JobKeys
  <2>2. j[2] \in Queues
    BY DEF JobKeys
  <2>3. QED  BY <1>6, <2>1, <2>2, TypeLocal DEF Claim, IdleTx, Actors
<1>7. ASSUME NEW a \in Actors, JobCommit(a) PROVE TInv'
  <2>1. tx[a].slots \in SUBSET Slot
    BY DEF Tx
  <2>2. cases' \in [CaseIds -> CaseRow]
    BY <1>7, <2>1, InsertType DEF JobCommit
  <2>3. jobs' \in [JobKeys -> JobRow]
    BY <1>7 DEF JobCommit, JobRow, Errors
  <2>4. tx' \in [Actors -> Tx] /\ HasTarget'
    BY <1>7, IdleType, SetType, SetTarget DEF JobCommit, IdleTx
  <2>5. QED  BY <1>7, <2>2, <2>3, <2>4 DEF JobCommit
<1>8. ASSUME NEW a \in Actors, JobFail(a) PROVE TInv'
  <2>1. tx[a].err \in Errors
    BY DEF Tx
  <2>2. jobs' \in [JobKeys -> JobRow]
    BY <1>8, <2>1 DEF JobFail, JobFailure, JobRow
  <2>3. tx' \in [Actors -> Tx] /\ HasTarget'
    BY <1>8, IdleType, SetType, SetTarget DEF JobFail, IdleTx
  <2>4. QED  BY <1>8, <2>2, <2>3 DEF JobFail
<1>9. ASSUME NEW j \in JobKeys, Tick(j) \/ RetryJob(j) PROVE TInv'
  <2>1. NewJob \in JobRow /\ jobs[j] \in JobRow
    BY NewJobType
  <2>2. [jobs[j] EXCEPT !.due = TRUE] \in JobRow
    BY <2>1 DEF JobRow
  <2>3. PICK row \in JobRow : jobs' = [jobs EXCEPT ![j] = row]
    <3>1. CASE Tick(j)
      <4>1. jobs' = [jobs EXCEPT ![j] = [jobs[j] EXCEPT !.due = TRUE]]
        BY <3>1 DEF Tick
      <4> QED BY <2>2, <4>1, Zenon
    <3>2. CASE RetryJob(j)
      BY <2>1, <3>2, Zenon DEF RetryJob
    <3>3. QED  BY <1>9, <3>1, <3>2
  <2>4. jobs' \in [JobKeys -> JobRow]
    BY <2>3
  <2>5. UNCHANGED <<cases, selected, terminated, tx, faults>>
    BY <1>9 DEF Tick, RetryJob
  <2>6. QED  BY <2>4, <2>5 DEF HasTarget
<1>10. ASSUME NEW r \in Requests, NEW k \in CaseIds, CloseBegin(r, k) PROVE TInv'
  <2> DEFINE t == [IdleTx EXCEPT
               !.op = "close", !.pc = "locking", !.src = k, !.rows = {k},
               !.want = CasesIn(Prerequisites(CloseBlockers, cases[k].queue)) \ {k}]
  <2>1. t \in Tx /\ t.pc = "locking"
    <3> DEFINE W == CasesIn(Prerequisites(CloseBlockers, cases[k].queue)) \ {k}
    <3>1. W \in SUBSET CaseIds
      BY DEF CasesIn
    <3> HIDE DEF W
    <3>2. ASSUME NEW u, u = [IdleTx EXCEPT !.op = "close", !.pc = "locking", !.src = k,
                                           !.rows = {k}, !.want = W]
          PROVE  u \in Tx /\ u.pc = "locking"
      BY <3>1, <3>2, IdleType DEF Tx, IdleTx
    <3>3. QED  BY <3>2 DEF W
  <2>2. Set(r, t) /\ UNCHANGED <<cases, jobs, selected, terminated, faults>>
    BY <1>10 DEF CloseBegin
  <2>3. QED  BY <2>1, <2>2, TypeLocal DEF Actors
<1>11. ASSUME NEW a \in Actors, CloseWrite(a) PROVE TInv'
  <2> DEFINE t == [tx[a] EXCEPT !.pc = "unblocking", !.newJobs = JobsFor(tx[a].src),
                                !.snap = BlockedJobs]
  <2>1. t \in Tx /\ t.pc = "unblocking"
    <3>1. tx[a] \in Tx
      OBVIOUS
    <3>2. JobsFor(tx[a].src) \in SUBSET JobKeys /\ BlockedJobs \in SUBSET JobKeys
      BY DEF JobsFor, BlockedJobs
    <3>3. QED  BY <3>1, <3>2 DEF Tx
  <2>2. Set(a, t) /\ UNCHANGED <<cases, jobs, selected, terminated, faults>>
    BY <1>11 DEF CloseWrite
  <2>3. QED  BY <2>1, <2>2, TypeLocal
<1>12. ASSUME NEW a \in Actors, NEW j \in JobKeys, LockJob(a, j) PROVE TInv'
  <2>1. PICK rs \in SUBSET JobKeys :
          Set(a, [tx[a] EXCEPT !.snap = @ \ {j}, !.jobRows = rs])
    <3>1. tx[a].jobRows \in SUBSET JobKeys
      BY DEF Tx
    <3>2. QED  BY <1>12, <3>1 DEF LockJob, Tx
  <2>2. [tx[a] EXCEPT !.snap = @ \ {j}, !.jobRows = rs] \in Tx
    <3>1. tx[a] \in Tx
      OBVIOUS
    <3>2. QED  BY <3>1 DEF Tx
  <2>3. tx[a].pc = [tx[a] EXCEPT !.snap = @ \ {j}, !.jobRows = rs].pc
    BY DEF Tx
  <2>4. /\ tx[a].target = [tx[a] EXCEPT !.snap = @ \ {j}, !.jobRows = rs].target
        /\ tx[a].op = [tx[a] EXCEPT !.snap = @ \ {j}, !.jobRows = rs].op
    BY DEF Tx
  <2>5. UNCHANGED <<cases, jobs, selected, terminated, faults>>
    BY <1>12 DEF LockJob
  <2>6. QED  BY <2>1, <2>2, <2>3, <2>4, <2>5, TypeLocal DEF HasTarget
<1>13. ASSUME NEW a \in Actors, CloseCommit(a) PROVE TInv'
  <2>1. cases' \in [CaseIds -> CaseRow]
    <3>1. cases' = [cases EXCEPT ![tx[a].src].status = "closed",
                                 ![tx[a].src].outcome = "successful"]
      BY <1>13 DEF CloseCommit
    <3>2. ASSUME NEW k \in CaseIds PROVE cases'[k] \in CaseRow
      <4>1. cases'[k] = cases[k] \/
            cases'[k] = [cases[k] EXCEPT !.status = "closed", !.outcome = "successful"]
        BY <3>1
      <4>2. QED  BY <4>1 DEF CaseRow
    <3>3. QED  BY <3>1, <3>2
  <2>2. jobs' \in [JobKeys -> JobRow]
    BY <1>13 DEF CloseCommit, NewJob, NoJob, JobRow, Errors
  <2>3. tx' \in [Actors -> Tx] /\ HasTarget'
    BY <1>13, IdleType, SetType, SetTarget DEF CloseCommit, IdleTx
  <2>4. QED  BY <1>13, <2>1, <2>2, <2>3 DEF CloseCommit
<1>14. ASSUME NEW k \in CaseIds, CloseUnsuccessful(k) \/ Reopen(k) \/ RollBackAgreement(k) PROVE TInv'
  <2>1. cases' \in [CaseIds -> CaseRow]
    BY <1>14 DEF CloseUnsuccessful, Reopen, RollBackAgreement, CaseRow
  <2>2. UNCHANGED <<jobs, selected, terminated, tx>> /\ faults' \in 0..MaxFaults
    BY <1>14, FlowAssumption
       DEF CloseUnsuccessful, Reopen, RollBackAgreement, TInv, TypeOK
  <2>3. QED  BY <2>1, <2>2 DEF TInv, TypeOK, HasTarget
<1>15. ASSUME NEW r \in Requests, SelectBegin(r) PROVE TInv'
  <2>1. [IdleTx EXCEPT !.op = "select", !.pc = "ready"] \in Tx
    BY IdleType DEF Tx
  <2>2. QED  BY <1>15, <2>1, TypeLocal DEF SelectBegin, IdleTx, Actors
<1>16. ASSUME NEW a \in Actors, NEW S \in SUBSET SubMerchants, SelectSubMerchants(a, S)
       PROVE TInv'
  <2>1. tx' \in [Actors -> Tx] /\ HasTarget'
    BY <1>16, IdleType, SetType, SetTarget DEF SelectSubMerchants, IdleTx
  <2>2. QED  BY <1>16, <2>1 DEF SelectSubMerchants
<1>17. ASSUME TerminateMerchant PROVE TInv'
  <2>1. cases' \in [CaseIds -> CaseRow]
    BY <1>17 DEF TerminateMerchant, CaseRow
  <2>2. QED  BY <1>17, <2>1 DEF TerminateMerchant, HasTarget
<1>18. ASSUME NEW r \in Requests, NEW k \in CaseIds, NEW t \in Queues, RecoverBegin(r, k, t)
       PROVE TInv'
  <2>1. [IdleTx EXCEPT !.op = "recover", !.pc = "candidate", !.src = k, !.target = t] \in Tx
    BY IdleType DEF Tx
  <2>2. QED  BY <1>18, <2>1, TypeLocal DEF RecoverBegin, IdleTx, Actors
<1>19. ASSUME NEW a \in Actors, RecoverCommit(a) PROVE TInv'
  <2> DEFINE t == [IdleTx EXCEPT !.op = "recover", !.pc = "created", !.target = tx[a].target]
  <2>1. tx[a].slots \in SUBSET Slot /\ t \in Tx /\ t.pc = "created"
    BY IdleType DEF Tx, IdleTx
  <2>2. cases' \in [CaseIds -> CaseRow]
    BY <1>19, <2>1, InsertType DEF RecoverCommit
  <2>3. tx' \in [Actors -> Tx] /\ HasTarget'
    BY <1>19, <2>1, SetType, SetTarget DEF RecoverCommit
  <2>4. QED  BY <1>19, <2>2, <2>3 DEF RecoverCommit
<1>20. ASSUME NEW a \in Actors, RecoverUpdate(a) PROVE TInv'
  <2>1. PICK p \in {"superseding", "recording"} :
          Set(a, [tx[a] EXCEPT !.pc = p, !.snap = OpenJobs(tx[a].target)])
    BY <1>20 DEF RecoverUpdate, Tx
  <2>2. [tx[a] EXCEPT !.pc = p, !.snap = OpenJobs(tx[a].target)] \in Tx
    <3>1. tx[a] \in Tx
      OBVIOUS
    <3>2. OpenJobs(tx[a].target) \in SUBSET JobKeys
      BY DEF OpenJobs
    <3>3. QED  BY <3>1, <3>2 DEF Tx
  <2>3. QED  BY <1>20, <2>1, <2>2, TypeLocal DEF RecoverUpdate, Tx
<1>21. ASSUME NEW a \in Actors, RecoverFinish(a) PROVE TInv'
  <2>1. tx[a].err \in Errors
    BY DEF Tx
  <2>2. jobs' \in [JobKeys -> JobRow]
    BY <1>21, <2>1 DEF RecoverFinish, JobRow, Errors
  <2>3. tx' \in [Actors -> Tx] /\ HasTarget'
    BY <1>21, IdleType, SetType, SetTarget DEF RecoverFinish, IdleTx
  <2>4. QED  BY <1>21, <2>2, <2>3 DEF RecoverFinish
<1>22. ASSUME NEW r \in Requests, NEW s \in Slot, CreateBegin(r, s) PROVE TInv'
  <2> DEFINE t == [IdleTx EXCEPT
               !.op = "create", !.pc = "locking", !.target = s.queue,
               !.live = (s.queue \in LiveQueues), !.slots = {s},
               !.want = CasesIn(Prerequisites(CreationRequirements, s.queue))]
  <2>1. t \in Tx /\ t.pc = "locking"
    <3>1. CasesIn(Prerequisites(CreationRequirements, s.queue)) \in SUBSET CaseIds
      BY DEF CasesIn
    <3>2. s.queue \in Queues
      BY DEF Slot
    <3>3. (s.queue \in LiveQueues) \in BOOLEAN
      OBVIOUS
    <3>4. ASSUME NEW l \in BOOLEAN, NEW W \in SUBSET CaseIds
          PROVE  [IdleTx EXCEPT !.op = "create", !.pc = "locking", !.target = s.queue,
                                !.live = l, !.slots = {s}, !.want = W] \in Tx
      BY <3>2, IdleType DEF Tx
    <3>5. t.pc = "locking"
      BY DEF IdleTx
    <3>6. QED  BY <3>1, <3>3, <3>4, <3>5, Zenon
  <2>2. Set(r, t) /\ UNCHANGED <<cases, jobs, selected, terminated, faults>>
    BY <1>22 DEF CreateBegin
  <2>3. QED  BY <2>1, <2>2, TypeLocal DEF Actors
<1>23. ASSUME NEW a \in Actors, CreateCommit(a) PROVE TInv'
  <2>1. tx[a].slots \in SUBSET Slot
    BY DEF Tx
  <2>2. cases' \in [CaseIds -> CaseRow]
    BY <1>23, <2>1, InsertType DEF CreateCommit
  <2>3. tx' \in [Actors -> Tx] /\ HasTarget'
    BY <1>23, IdleType, SetType, SetTarget DEF CreateCommit, IdleTx
  <2>4. QED  BY <1>23, <2>2, <2>3 DEF CreateCommit
<1>24. ASSUME NEW a \in Actors, DeadlockAbort(a) \/ TransientError(a) \/ Crash(a) PROVE TInv'
  <2>1. tx' \in [Actors -> Tx] /\ HasTarget'
    <3>1. PICK t \in {IdleTx, RolledBack(tx[a], "transient")} : Set(a, t)
      BY <1>24 DEF DeadlockAbort, TransientError, Crash, Abort
    <3>2. t \in Tx /\ t.pc \notin {"claimed", "candidate"}
      <4>1. IdleTx \in Tx /\ IdleTx.pc = "idle"
        BY IdleType DEF IdleTx
      <4>2. "transient" \in Errors /\ tx[a] \in Tx
        BY DEF Errors
      <4>3. QED  BY <3>1, <4>1, <4>2, RolledBackType
    <3>3. QED  BY <3>1, <3>2, SetType, SetTarget
  <2>2. faults' \in 0..MaxFaults
    BY <1>24, FlowAssumption DEF DeadlockAbort, TransientError, Crash
  <2>3. QED  BY <1>24, <2>1, <2>2 DEF DeadlockAbort, TransientError, Crash
<1>25. CASE UNCHANGED vars
  BY <1>25 DEF vars, HasTarget
<1>26. ASSUME NEW a \in Actors, Step(a) PROVE TInv'
  BY <1>26, <1>1, <1>2, <1>3, <1>4, <1>5, <1>7, <1>8, <1>11, <1>12, <1>13, <1>16,
     <1>19, <1>20, <1>21, <1>23, <1>24 DEF Step
<1>27. ASSUME NEW r \in Requests, StaffBegins(r) PROVE TInv'
  BY <1>27, <1>10, <1>15, <1>18, <1>22 DEF StaffBegins
<1>28. CASE Environment
  BY <1>28, <1>9, <1>14, <1>17, <1>24 DEF Environment
<1>29. QED
  BY <1>6, <1>25, <1>26, <1>27, <1>28 DEF Next

(* Every reachable state has the types of the tables and of the            *)
(* transactions: case and job rows never leave the values the code writes.  *)
THEOREM TypeCorrect == Spec => []TypeOK
<1>1. TInv => TypeOK
  BY DEF TInv
<1>2. QED
  BY TypeInit, TypeStep, <1>1, PTL DEF Spec

-----------------------------------------------------------------------------
(* The inductive invariant behind the safety properties *)

(* No advisory, case or job lock is held twice. *)
AdvExclusive ==
  \A a, b \in Actors : a # b /\ tx[a].adv = tx[b].adv => tx[a].adv = NoQueue

RowExclusive ==
  \A a, b \in Actors : a # b => tx[a].rows \cap tx[b].rows = {}

JobExclusive ==
  \A a, b \in Actors : a # b => tx[a].jobRows \cap tx[b].jobRows = {}

(* A worker or a recovery that has looked for the missing cases ... *)
Creating(a) == tx[a].op \in {"job", "recover"} /\ tx[a].pc \in {"locking", "ready"}

(* ... holds the advisory lock of its target, ... *)
LockHeld ==
  \A a \in Actors : Creating(a) => tx[a].adv = tx[a].target /\ tx[a].target \in Queues

(* ... and no other automatic creation has filled its slots since. *)
Fresh ==
  \A a \in Actors : Creating(a) =>
    \A s \in tx[a].slots :
      /\ s.queue = tx[a].target
      /\ \A k \in CaseIds :
           ~(cases[k].origin = "close" /\ cases[k].queue = s.queue /\ cases[k].sub = s.sub)

AbsentRows == \A k \in CaseIds : ~Exists(k) => cases[k].origin = "none"

(* A close holds its case. *)
CloserHolds ==
  \A a \in Actors : tx[a].op = "close" /\ tx[a].pc # "idle" =>
    tx[a].src \in tx[a].rows /\ Exists(tx[a].src)

-----------------------------------------------------------------------------
(* What each step does to the transaction of its actor *)

(* A step of actor a leaves the other transactions alone. *)
Others(a) == \A b \in Actors : b # a => tx'[b] = tx[b]

LEMMA SetOthers ==
  ASSUME TInv, NEW a \in Actors, NEW t, Set(a, t)
  PROVE  tx'[a] = t /\ Others(a) /\ tx[a] \in Tx
  BY DEF Set, TInv, TypeOK, Others

Released(t) ==
  /\ t.op = "none" /\ t.pc = "idle" /\ t.adv = NoQueue /\ t.want = {} /\ t.rows = {}
  /\ t.slots = {} /\ t.snap = {} /\ t.jobRows = {} /\ t.newJobs = {}

LEMMA IdleFields ==
  ASSUME TInv, NEW a \in Actors, Set(a, IdleTx)
  PROVE  Others(a) /\ Released(tx'[a])
  BY SetOthers DEF IdleTx, Released

LEMMA RolledBackFields ==
  ASSUME TInv, NEW a \in Actors, NEW err \in Errors, Set(a, RolledBack(tx[a], err))
  PROVE  /\ Others(a)
         /\ tx'[a].op = tx[a].op /\ tx'[a].pc = "rolledBack" /\ tx'[a].target = tx[a].target
         /\ tx'[a].adv = NoQueue /\ tx'[a].want = {} /\ tx'[a].rows = {} /\ tx'[a].slots = {}
         /\ tx'[a].snap = tx[a].snap /\ tx'[a].jobRows = tx[a].jobRows
<1>1. tx'[a] = RolledBack(tx[a], err) /\ Others(a) /\ tx[a] \in Tx
  BY SetOthers
<1>2. QED  BY <1>1 DEF RolledBack, Tx

LEMMA TakeAdvisoryFields ==
  ASSUME TInv, NEW a \in Actors, TakeAdvisory(a)
  PROVE  /\ Others(a)
         /\ tx'[a].op = tx[a].op /\ tx'[a].src = tx[a].src /\ tx'[a].target = tx[a].target
         /\ tx'[a].rows = tx[a].rows /\ tx'[a].snap = tx[a].snap
         /\ tx'[a].jobRows = tx[a].jobRows
         /\ tx'[a].adv = tx[a].target /\ tx'[a].slots = MissingSlots(tx[a].target)
         /\ tx'[a].slots = {} => tx'[a].pc = "ready" /\ tx'[a].want = {}
         /\ tx'[a].slots # {} =>
              /\ tx'[a].pc = "locking"
              /\ tx'[a].want = CasesIn(Prerequisites(CreationRequirements, tx[a].target))
<1> DEFINE M == MissingSlots(tx[a].target)
           W == IF M = {} THEN {}
                ELSE CasesIn(Prerequisites(CreationRequirements, tx[a].target))
           P == IF M = {} THEN "ready" ELSE "locking"
<1>1. Set(a, [tx[a] EXCEPT !.adv = tx[a].target, !.slots = M, !.want = W, !.pc = P])
  BY DEF TakeAdvisory
<1>2. /\ M = {} => P = "ready" /\ W = {}
      /\ M # {} => /\ P = "locking"
                   /\ W = CasesIn(Prerequisites(CreationRequirements, tx[a].target))
  OBVIOUS
<1>3. M = MissingSlots(tx[a].target)
  OBVIOUS
<1> HIDE DEF M, W, P
<1>4. /\ tx[a] \in Tx /\ Others(a)
      /\ tx'[a] = [tx[a] EXCEPT !.adv = tx[a].target, !.slots = M, !.want = W, !.pc = P]
  BY <1>1, SetOthers
<1>5. /\ tx'[a].op = tx[a].op /\ tx'[a].src = tx[a].src /\ tx'[a].target = tx[a].target
      /\ tx'[a].rows = tx[a].rows /\ tx'[a].snap = tx[a].snap
      /\ tx'[a].jobRows = tx[a].jobRows
      /\ tx'[a].adv = tx[a].target /\ tx'[a].slots = M /\ tx'[a].want = W /\ tx'[a].pc = P
  BY <1>4 DEF Tx
<1>6. QED  BY <1>2, <1>3, <1>4, <1>5

LEMMA LockRowFields ==
  ASSUME TInv, NEW a \in Actors, LockRow(a)
  PROVE  \E k \in CaseIds :
         /\ NextRow(a, k) /\ RowFree(a, k) /\ Others(a)
         /\ tx'[a].op = tx[a].op /\ tx'[a].pc = tx[a].pc /\ tx'[a].src = tx[a].src
         /\ tx'[a].target = tx[a].target /\ tx'[a].adv = tx[a].adv
         /\ tx'[a].want = tx[a].want \ {k} /\ tx'[a].rows = tx[a].rows \cup {k}
         /\ tx'[a].slots = tx[a].slots /\ tx'[a].snap = tx[a].snap
         /\ tx'[a].jobRows = tx[a].jobRows
<1>1. PICK k \in CaseIds :
        /\ NextRow(a, k) /\ RowFree(a, k)
        /\ Set(a, [tx[a] EXCEPT !.rows = @ \cup {k}, !.want = @ \ {k}])
  BY DEF LockRow
<1>2. /\ tx[a] \in Tx /\ Others(a)
      /\ tx'[a] = [tx[a] EXCEPT !.rows = tx[a].rows \cup {k}, !.want = tx[a].want \ {k}]
  BY <1>1, SetOthers
<1>3. /\ tx'[a].op = tx[a].op /\ tx'[a].pc = tx[a].pc /\ tx'[a].src = tx[a].src
      /\ tx'[a].target = tx[a].target /\ tx'[a].adv = tx[a].adv
      /\ tx'[a].want = tx[a].want \ {k} /\ tx'[a].rows = tx[a].rows \cup {k}
      /\ tx'[a].slots = tx[a].slots /\ tx'[a].snap = tx[a].snap
      /\ tx'[a].jobRows = tx[a].jobRows
  BY <1>2 DEF Tx
<1>4. QED  BY <1>1, <1>2, <1>3

LEMMA SatisfiedFields ==
  ASSUME TInv, NEW a \in Actors, Satisfied(a)
  PROVE  /\ Others(a)
         /\ tx'[a].op = tx[a].op /\ tx'[a].pc = "ready" /\ tx'[a].src = tx[a].src
         /\ tx'[a].target = tx[a].target /\ tx'[a].adv = tx[a].adv
         /\ tx'[a].want = tx[a].want /\ tx'[a].rows = tx[a].rows
         /\ tx'[a].slots = tx[a].slots /\ tx'[a].snap = tx[a].snap
         /\ tx'[a].jobRows = tx[a].jobRows
<1>1. tx[a] \in Tx /\ Others(a) /\ tx'[a] = [tx[a] EXCEPT !.pc = "ready"]
  BY SetOthers DEF Satisfied
<1>2. QED  BY <1>1 DEF Tx

LEMMA CloseWriteFields ==
  ASSUME TInv, NEW a \in Actors, CloseWrite(a)
  PROVE  /\ Others(a)
         /\ tx'[a].op = "close" /\ tx'[a].pc = "unblocking" /\ tx'[a].src = tx[a].src
         /\ tx'[a].adv = tx[a].adv /\ tx'[a].rows = tx[a].rows
         /\ tx'[a].jobRows = tx[a].jobRows /\ tx'[a].newJobs = JobsFor(tx[a].src)
<1> DEFINE N == JobsFor(tx[a].src)
           B == BlockedJobs
<1>1. Set(a, [tx[a] EXCEPT !.pc = "unblocking", !.newJobs = N, !.snap = B])
      /\ tx[a].op = "close"
  BY DEF CloseWrite, Running
<1> SUFFICES tx[a] \in Tx /\ Others(a) =>
      /\ tx'[a].op = "close" /\ tx'[a].pc = "unblocking" /\ tx'[a].src = tx[a].src
      /\ tx'[a].adv = tx[a].adv /\ tx'[a].rows = tx[a].rows
      /\ tx'[a].jobRows = tx[a].jobRows /\ tx'[a].newJobs = N
  BY <1>1, SetOthers
<1> HIDE DEF N, B
<1>2. tx[a] \in Tx /\ tx'[a] = [tx[a] EXCEPT !.pc = "unblocking", !.newJobs = N, !.snap = B]
  BY <1>1, SetOthers
<1>3. QED  BY <1>1, <1>2 DEF Tx

LEMMA LockJobFields ==
  ASSUME TInv, NEW a \in Actors, NEW j \in JobKeys, LockJob(a, j)
  PROVE  /\ Others(a)
         /\ tx'[a].op = tx[a].op /\ tx'[a].pc = tx[a].pc /\ tx'[a].src = tx[a].src
         /\ tx'[a].target = tx[a].target /\ tx'[a].adv = tx[a].adv
         /\ tx'[a].want = tx[a].want /\ tx'[a].rows = tx[a].rows
         /\ tx'[a].slots = tx[a].slots /\ tx'[a].snap = tx[a].snap \ {j}
         /\ tx'[a].newJobs = tx[a].newJobs
         /\ \/ tx'[a].jobRows = tx[a].jobRows
            \/ tx'[a].jobRows = tx[a].jobRows \cup {j} /\ jobs[j].state = "open"
<1>1. PICK rs :
        /\ Set(a, [tx[a] EXCEPT !.snap = @ \ {j}, !.jobRows = rs])
        /\ \/ rs = tx[a].jobRows
           \/ rs = tx[a].jobRows \cup {j} /\ jobs[j].state = "open"
  <2>1. tx[a] \in Tx
    BY DEF TInv, TypeOK
  <2>2. j \in BlockedJobs => jobs[j].state = "open"
    BY DEF BlockedJobs
  <2>3. CASE IF tx[a].pc = "unblocking" THEN j \in BlockedJobs ELSE jobs[j].state = "open"
    <3>1. jobs[j].state = "open"
      BY <2>2, <2>3
    <3>2. Set(a, [tx[a] EXCEPT !.snap = @ \ {j}, !.jobRows = tx[a].jobRows \cup {j}])
      BY <2>1, <2>3 DEF LockJob, Tx
    <3>3. QED  BY <3>1, <3>2
  <2>4. CASE ~(IF tx[a].pc = "unblocking" THEN j \in BlockedJobs ELSE jobs[j].state = "open")
    <3>1. Set(a, [tx[a] EXCEPT !.snap = @ \ {j}, !.jobRows = tx[a].jobRows])
      BY <2>1, <2>4 DEF LockJob, Tx
    <3>2. QED  BY <3>1
  <2>5. QED  BY <2>3, <2>4
<1>2. /\ tx[a] \in Tx /\ Others(a)
      /\ tx'[a] = [tx[a] EXCEPT !.snap = tx[a].snap \ {j}, !.jobRows = rs]
  BY <1>1, SetOthers
<1>3. /\ tx'[a].op = tx[a].op /\ tx'[a].pc = tx[a].pc /\ tx'[a].src = tx[a].src
      /\ tx'[a].target = tx[a].target /\ tx'[a].adv = tx[a].adv
      /\ tx'[a].want = tx[a].want /\ tx'[a].rows = tx[a].rows
      /\ tx'[a].slots = tx[a].slots /\ tx'[a].snap = tx[a].snap \ {j}
      /\ tx'[a].newJobs = tx[a].newJobs /\ tx'[a].jobRows = rs
  BY <1>2 DEF Tx
<1>4. QED  BY <1>1, <1>2, <1>3

LEMMA RecoverUpdateFields ==
  ASSUME TInv, NEW a \in Actors, RecoverUpdate(a)
  PROVE  /\ Others(a)
         /\ tx'[a].op = tx[a].op /\ tx'[a].target = tx[a].target
         /\ tx'[a].pc = IF tx[a].pc = "created" THEN "superseding" ELSE "recording"
         /\ tx'[a].adv = tx[a].adv /\ tx'[a].want = tx[a].want
         /\ tx'[a].rows = tx[a].rows /\ tx'[a].slots = tx[a].slots
         /\ tx'[a].snap = OpenJobs(tx[a].target) /\ tx'[a].jobRows = tx[a].jobRows
<1>1. tx[a] \in Tx
  BY DEF TInv, TypeOK
<1>2. tx'[a] = [tx[a] EXCEPT
                  !.pc = IF tx[a].pc = "created" THEN "superseding" ELSE "recording",
                  !.snap = OpenJobs(tx[a].target)]
  BY <1>1, SetOthers DEF RecoverUpdate, Tx
<1>3. Others(a)
  BY SetOthers DEF RecoverUpdate
<1>4. QED  BY <1>1, <1>2, <1>3 DEF Tx

LEMMA RecoverCommitFields ==
  ASSUME TInv, NEW a \in Actors, RecoverCommit(a)
  PROVE  /\ Others(a)
         /\ tx'[a].op = "recover" /\ tx'[a].pc = "created" /\ tx'[a].target = tx[a].target
         /\ tx'[a].adv = NoQueue /\ tx'[a].want = {} /\ tx'[a].rows = {}
         /\ tx'[a].slots = {} /\ tx'[a].snap = {} /\ tx'[a].jobRows = {}
<1>1. /\ Others(a)
      /\ tx'[a] = [IdleTx EXCEPT !.op = "recover", !.pc = "created", !.target = tx[a].target]
  BY SetOthers DEF RecoverCommit
<1>2. QED  BY <1>1 DEF IdleTx

LEMMA ClaimFields ==
  ASSUME TInv, NEW w \in Workers, NEW j \in JobKeys, Claim(w, j)
  PROVE  /\ Others(w)
         /\ tx'[w].op = "job" /\ tx'[w].pc = "claimed" /\ tx'[w].target = j[2]
         /\ tx'[w].adv = NoQueue /\ tx'[w].want = {} /\ tx'[w].rows = {}
         /\ tx'[w].slots = {} /\ tx'[w].snap = {} /\ tx'[w].jobRows = {j}
         /\ tx'[w].src = j[1]
<1>1. w \in Actors
  BY DEF Actors
<1>2. /\ Others(w)
      /\ tx'[w] = [IdleTx EXCEPT !.op = "job", !.pc = "claimed", !.src = j[1],
                                 !.target = j[2], !.jobRows = {j}]
  BY <1>1, SetOthers DEF Claim
<1>3. QED  BY <1>2 DEF IdleTx

(* Every staff request begins without advisory lock and job rows. *)
LEMMA StaffFields ==
  ASSUME TInv, NEW r \in Requests, StaffBegins(r)
  PROVE  /\ Others(r)
         /\ tx'[r].adv = NoQueue /\ tx'[r].snap = {} /\ tx'[r].jobRows = {}
         /\ \/ /\ tx'[r].op = "select" /\ tx'[r].pc = "ready"
               /\ tx'[r].rows = {} /\ tx'[r].want = {}
            \/ /\ tx'[r].op = "recover" /\ tx'[r].pc = "candidate"
               /\ tx'[r].rows = {} /\ tx'[r].want = {}
               /\ tx'[r].src \in CaseIds /\ Succeeded(tx'[r].src)
            \/ /\ tx'[r].op = "create" /\ tx'[r].pc = "locking"
               /\ tx'[r].rows = {} /\ \A s \in tx'[r].slots : s.queue = tx'[r].target
               /\ tx'[r].want = CasesIn(Prerequisites(CreationRequirements, tx'[r].target))
            \/ /\ tx'[r].op = "close" /\ tx'[r].pc = "locking"
               /\ tx'[r].src \in CaseIds /\ IsOpen(tx'[r].src) /\ RowFree(r, tx'[r].src)
               /\ tx'[r].rows = {tx'[r].src}
<1> r \in Actors
  BY DEF Actors
<1>1. CASE SelectBegin(r)
  <2>1. Others(r) /\ tx'[r] = [IdleTx EXCEPT !.op = "select", !.pc = "ready"]
    BY <1>1, SetOthers DEF SelectBegin
  <2>2. QED  BY <2>1 DEF IdleTx
<1>2. ASSUME NEW k \in CaseIds, CloseBegin(r, k) PROVE
        /\ Others(r) /\ tx'[r].adv = NoQueue /\ tx'[r].snap = {} /\ tx'[r].jobRows = {}
        /\ tx'[r].op = "close" /\ tx'[r].pc = "locking" /\ tx'[r].src = k
        /\ IsOpen(k) /\ RowFree(r, k) /\ tx'[r].rows = {k}
  <2>1. PICK W : Set(r, [IdleTx EXCEPT !.op = "close", !.pc = "locking", !.src = k,
                                       !.rows = {k}, !.want = W])
    BY <1>2 DEF CloseBegin
  <2>2. /\ Others(r)
        /\ tx'[r] = [IdleTx EXCEPT !.op = "close", !.pc = "locking", !.src = k,
                                    !.rows = {k}, !.want = W]
    BY <2>1, SetOthers
  <2>3. IsOpen(k) /\ RowFree(r, k)
    BY <1>2 DEF CloseBegin
  <2>4. QED  BY <2>2, <2>3 DEF IdleTx
<1>3. ASSUME NEW k \in CaseIds, NEW t \in Queues, RecoverBegin(r, k, t) PROVE
        /\ Others(r) /\ tx'[r].adv = NoQueue /\ tx'[r].snap = {} /\ tx'[r].jobRows = {}
        /\ tx'[r].op = "recover" /\ tx'[r].pc = "candidate"
        /\ tx'[r].rows = {} /\ tx'[r].want = {} /\ tx'[r].src = k /\ Succeeded(k)
  <2>1. /\ Others(r) /\ Succeeded(k)
        /\ tx'[r] = [IdleTx EXCEPT !.op = "recover", !.pc = "candidate", !.src = k,
                                    !.target = t]
    BY <1>3, SetOthers DEF RecoverBegin
  <2>2. QED  BY <2>1 DEF IdleTx
<1>4. ASSUME NEW s \in Slot, CreateBegin(r, s) PROVE
        /\ Others(r) /\ tx'[r].adv = NoQueue /\ tx'[r].snap = {} /\ tx'[r].jobRows = {}
        /\ tx'[r].op = "create" /\ tx'[r].pc = "locking" /\ tx'[r].rows = {}
        /\ \A u \in tx'[r].slots : u.queue = tx'[r].target
        /\ tx'[r].want = CasesIn(Prerequisites(CreationRequirements, tx'[r].target))
  <2>1. PICK l, W : /\ Set(r, [IdleTx EXCEPT !.op = "create", !.pc = "locking",
                                !.target = s.queue, !.live = l, !.slots = {s}, !.want = W])
                    /\ W = CasesIn(Prerequisites(CreationRequirements, s.queue))
    BY <1>4 DEF CreateBegin
  <2>2. /\ Others(r)
        /\ tx'[r] = [IdleTx EXCEPT !.op = "create", !.pc = "locking",
                              !.target = s.queue, !.live = l, !.slots = {s}, !.want = W]
    BY <2>1, SetOthers
  <2>3. /\ tx'[r].op = "create" /\ tx'[r].pc = "locking" /\ tx'[r].rows = {}
        /\ tx'[r].adv = NoQueue /\ tx'[r].snap = {} /\ tx'[r].jobRows = {}
        /\ tx'[r].slots = {s} /\ tx'[r].target = s.queue /\ tx'[r].want = W
    BY <2>2 DEF IdleTx
  <2>4. QED  BY <2>1, <2>2, <2>3
<1>5. QED  BY <1>1, <1>2, <1>3, <1>4 DEF StaffBegins

(* An aborted transaction is released, or back at its savepoint. *)
LEMMA AbortTo ==
  ASSUME TInv, NEW a \in Actors, Abort(a)
  PROVE  \/ Set(a, IdleTx)
         \/ tx[a].op \in {"job", "recover"} /\ Set(a, RolledBack(tx[a], "transient"))
  BY DEF Abort

-----------------------------------------------------------------------------
(* Locks are exclusive *)

Locks == AdvExclusive /\ RowExclusive /\ JobExclusive

(* A step of a keeps locks exclusive if it takes only locks that are free. *)
LEMMA LocksLocal ==
  ASSUME Locks, NEW a \in Actors, Others(a),
         tx'[a].adv = NoQueue \/ tx'[a].adv = tx[a].adv \/ AdvFree(a, tx'[a].adv),
         \A k \in tx'[a].rows : k \in tx[a].rows \/ RowFree(a, k),
         \A j \in tx'[a].jobRows : j \in tx[a].jobRows \/ JobFree(a, j)
  PROVE  Locks'
<1>1. AdvExclusive'
  BY DEF Others, Locks, AdvExclusive, AdvFree
<1>2. RowExclusive'
  BY DEF Others, Locks, RowExclusive, RowFree
<1>3. JobExclusive'
  BY DEF Others, Locks, JobExclusive, JobFree
<1>4. QED  BY <1>1, <1>2, <1>3 DEF Locks

(* Ending, or rolling back to the savepoint, takes no lock. *)
LEMMA LocksRelease ==
  ASSUME TInv, Locks, NEW a \in Actors, NEW err \in Errors,
         Set(a, IdleTx) \/ Set(a, RolledBack(tx[a], err))
  PROVE  Locks'
<1>1. CASE Set(a, IdleTx)
  BY <1>1, IdleFields, LocksLocal DEF Released
<1>2. CASE Set(a, RolledBack(tx[a], err))
  BY <1>2, RolledBackFields, LocksLocal
<1>3. QED  BY <1>1, <1>2

LEMMA LocksStep == TInv /\ Locks /\ [Next]_vars => Locks'
<1> SUFFICES ASSUME TInv, Locks, [Next]_vars PROVE Locks'
  OBVIOUS
<1>1. ASSUME NEW a \in Actors, TakeAdvisory(a) PROVE Locks'
  <2>1. AdvFree(a, tx[a].target)
    BY <1>1 DEF TakeAdvisory
  <2>2. QED  BY <1>1, <2>1, TakeAdvisoryFields, LocksLocal
<1>2. ASSUME NEW a \in Actors, NoSelection(a) \/ Refused(a) PROVE Locks'
  BY <1>2, LocksRelease DEF NoSelection, Refused, Errors
<1>3. ASSUME NEW a \in Actors, LockRow(a) PROVE Locks'
  BY <1>3, LockRowFields, LocksLocal
<1>4. ASSUME NEW a \in Actors, Satisfied(a) PROVE Locks'
  BY <1>4, SatisfiedFields, LocksLocal
<1>5. ASSUME NEW a \in Actors,
             JobCommit(a) \/ JobFail(a) \/ CloseCommit(a) \/ RecoverFinish(a)
             \/ CreateCommit(a) \/ Crash(a)
             \/ \E S \in SUBSET SubMerchants : SelectSubMerchants(a, S)
      PROVE  Locks'
  BY <1>5, LocksRelease DEF JobCommit, JobFail, CloseCommit, RecoverFinish,
     CreateCommit, Crash, SelectSubMerchants, Errors
<1>6. ASSUME NEW a \in Actors, DeadlockAbort(a) \/ TransientError(a) PROVE Locks'
  BY <1>6, AbortTo, LocksRelease DEF DeadlockAbort, TransientError, Errors
<1>7. ASSUME NEW w \in Workers, NEW j \in JobKeys, Claim(w, j) PROVE Locks'
  <2>1. JobFree(w, j) /\ w \in Actors
    BY <1>7 DEF Claim, Actors
  <2>2. QED  BY <1>7, <2>1, ClaimFields, LocksLocal
<1>8. ASSUME NEW r \in Requests, StaffBegins(r) PROVE Locks'
  <2>1. r \in Actors
    BY DEF Actors
  <2>2. QED  BY <1>8, <2>1, StaffFields, LocksLocal
<1>9. ASSUME NEW a \in Actors, CloseWrite(a) PROVE Locks'
  BY <1>9, CloseWriteFields, LocksLocal
<1>10. ASSUME NEW a \in Actors, RecoverUpdate(a) PROVE Locks'
  BY <1>10, RecoverUpdateFields, LocksLocal
<1>11. ASSUME NEW a \in Actors, NEW j \in JobKeys, LockJob(a, j) PROVE Locks'
  <2>1. JobFree(a, j)
    BY <1>11 DEF LockJob
  <2>2. QED  BY <1>11, <2>1, LockJobFields, LocksLocal
<1>12. ASSUME NEW a \in Actors, RecoverCommit(a) PROVE Locks'
  BY <1>12, RecoverCommitFields, LocksLocal
<1>13. CASE UNCHANGED tx
  BY <1>13 DEF Locks, AdvExclusive, RowExclusive, JobExclusive
<1>14. ASSUME NEW a \in Actors, Step(a) PROVE Locks'
  BY <1>14, <1>1, <1>2, <1>3, <1>4, <1>5, <1>6, <1>9, <1>10, <1>11, <1>12 DEF Step
<1>15. CASE Environment
  BY <1>5, <1>6, <1>13, <1>15
     DEF Environment, CloseUnsuccessful, Reopen, RollBackAgreement, TerminateMerchant, Tick, RetryJob
<1>16. QED
  BY <1>7, <1>8, <1>13, <1>14, <1>15 DEF Next, vars

-----------------------------------------------------------------------------
(* What an insert does *)

(* k becomes the row of slot s. *)
NewRow(k, s, origin) ==
  /\ ~Exists(k)
  /\ cases'[k].queue = s.queue /\ cases'[k].sub = s.sub /\ cases'[k].origin = origin
  /\ cases'[k].status = "open" /\ cases'[k].outcome = "none"

LEMMA InsertFacts ==
  ASSUME TInv, NEW slots \in SUBSET Slot, NEW origin, Insert(slots, origin)
  PROVE  /\ \A k \in CaseIds : \/ cases'[k] = cases[k]
                               \/ \E s \in slots : NewRow(k, s, origin)
         /\ \A s \in slots : \E k \in CaseIds : NewRow(k, s, origin)
         /\ \A k, l \in CaseIds, s \in slots :
              NewRow(k, s, origin) /\ NewRow(l, s, origin) => k = l
<1>1. PICK id \in [slots -> FreeIds] :
        /\ \A s, u \in slots : id[s] = id[u] => s = u
        /\ cases' = [k \in CaseIds |->
                       IF \E s \in slots : id[s] = k
                       THEN LET s == CHOOSE u \in slots : id[u] = k
                            IN  [NoCase EXCEPT !.queue = s.queue, !.sub = s.sub,
                                               !.origin = origin, !.status = "open"]
                       ELSE cases[k]]
  BY DEF Insert
<1>2. ASSUME NEW s \in slots PROVE id[s] \in CaseIds /\ NewRow(id[s], s, origin)
  <2>1. id[s] \in FreeIds
    OBVIOUS
  <2>2. id[s] \in CaseIds /\ ~Exists(id[s])
    BY <2>1 DEF FreeIds
  <2>3. (CHOOSE u \in slots : id[u] = id[s]) = s
    <3>1. \E u \in slots : id[u] = id[s]
      OBVIOUS
    <3>2. \A u \in slots : id[u] = id[s] => u = s
      BY <1>1
    <3>3. QED  BY <3>1, <3>2
  <2>4. cases'[id[s]] = [NoCase EXCEPT !.queue = s.queue, !.sub = s.sub,
                                       !.origin = origin, !.status = "open"]
    BY <1>1, <2>2, <2>3
  <2>5. QED  BY <2>2, <2>4 DEF NewRow, NoCase
<1>3. ASSUME NEW k \in CaseIds, \A s \in slots : id[s] # k PROVE cases'[k] = cases[k]
  BY <1>1, <1>3
<1>4. \A k \in CaseIds : cases'[k] = cases[k] \/ \E s \in slots : NewRow(k, s, origin)
  BY <1>2, <1>3
<1>5. \A s \in slots : \E k \in CaseIds : NewRow(k, s, origin)
  BY <1>2
<1>6. ASSUME NEW k \in CaseIds, NEW s \in slots, NewRow(k, s, origin) PROVE k = id[s]
  <2>1. PICK u \in slots : id[u] = k
    <3>1. cases'[k] # cases[k]
      BY <1>6 DEF NewRow, Exists
    <3>2. QED  BY <1>3, <3>1
  <2>2. u.queue = s.queue /\ u.sub = s.sub
    BY <1>2, <1>6, <2>1 DEF NewRow
  <2>3. u = s
    BY <2>2 DEF Slot
  <2>4. QED  BY <2>1, <2>3
<1>7. QED  BY <1>4, <1>5, <1>6

-----------------------------------------------------------------------------
(* One case per follow-up *)

Once == AbsentRows /\ LockHeld /\ Fresh /\ CloserHolds /\ OnceOnly

(* What Once asks of the transaction of one actor. *)
CreatorFor(a) ==
  Creating(a) =>
    /\ tx[a].adv = tx[a].target /\ tx[a].target \in Queues
    /\ \A s \in tx[a].slots :
         /\ s.queue = tx[a].target
         /\ \A k \in CaseIds :
              ~(cases[k].origin = "close" /\ cases[k].queue = s.queue /\ cases[k].sub = s.sub)

CloserFor(a) ==
  tx[a].op = "close" /\ tx[a].pc # "idle" =>
    tx[a].src \in tx[a].rows /\ Exists(tx[a].src)

OnceFor(a) == CreatorFor(a) /\ CloserFor(a)

LEMMA OnceParts ==
  Once <=> AbsentRows /\ OnceOnly /\ \A a \in Actors : OnceFor(a)
  BY DEF Once, LockHeld, Fresh, CloserHolds, OnceFor, CreatorFor, CloserFor

(* Rows keep what an insert gave them. *)
Kept ==
  \A k \in CaseIds : /\ cases'[k].queue = cases[k].queue /\ cases'[k].sub = cases[k].sub
                     /\ cases'[k].origin = cases[k].origin /\ Exists(k)' = Exists(k)

LEMMA OnceKept ==
  ASSUME TInv, Once, Kept, NEW a \in Actors, Others(a), OnceFor(a)'
  PROVE  Once'
<1>1. AbsentRows' /\ OnceOnly'
  BY DEF Once, Kept, AbsentRows, OnceOnly
<1>2. ASSUME NEW b \in Actors PROVE OnceFor(b)'
  <2>1. CASE b = a
    BY <2>1
  <2>2. CASE b # a
    <3>1. tx'[b] = tx[b] /\ OnceFor(b) /\ tx[b].rows \in SUBSET CaseIds
      BY <2>2, OnceParts DEF Others, TInv, TypeOK, Tx
    <3>2. CreatorFor(b)'
      BY <3>1 DEF Kept, OnceFor, CreatorFor, Creating
    <3>3. CloserFor(b)'
      BY <3>1 DEF Kept, OnceFor, CloserFor
    <3>4. QED  BY <3>2, <3>3 DEF OnceFor
  <2>3. QED  BY <2>1, <2>2
<1>3. QED
  BY <1>1, <1>2 DEF Once, LockHeld, Fresh, CloserHolds,
     OnceFor, CreatorFor, CloserFor, Creating

LEMMA UnchangedKept ==
  ASSUME UNCHANGED cases
  PROVE  Kept
  BY DEF Kept, Exists

LEMMA OnceNeither ==
  ASSUME NEW a \in Actors, ~Creating(a)', tx'[a].op # "close" \/ tx'[a].pc = "idle"
  PROVE  OnceFor(a)'
  BY DEF OnceFor, CreatorFor, CloserFor, Creating

LEMMA OnceRelease ==
  ASSUME TInv, Once, Kept, NEW a \in Actors, NEW err \in Errors,
         \/ Set(a, IdleTx)
         \/ tx[a].op \in {"job", "recover"} /\ Set(a, RolledBack(tx[a], err))
  PROVE  Once'
<1>1. /\ Others(a)
      /\ \/ tx'[a].pc = "idle"
         \/ tx'[a].pc = "rolledBack" /\ tx'[a].op # "close"
  BY IdleFields, RolledBackFields DEF Released
<1>2. ~Creating(a)'
  BY <1>1 DEF Creating
<1>3. QED  BY <1>1, <1>2, OnceKept, OnceNeither

(* The creation of a worker or a recovery, under its advisory lock. *)
LEMMA OnceInsert ==
  ASSUME TInv, Locks, Once, NEW a \in Actors, Creating(a), ~Creating(a)', Others(a),
         tx'[a].op # "close" \/ tx'[a].pc = "idle", Insert(tx[a].slots, "close")
  PROVE  Once'
<1>1. tx[a].slots \in SUBSET Slot
  BY DEF TInv, TypeOK, Tx
<1>2. /\ \A k \in CaseIds : \/ cases'[k] = cases[k]
                            \/ \E s \in tx[a].slots : NewRow(k, s, "close")
      /\ \A k, l \in CaseIds, s \in tx[a].slots :
           NewRow(k, s, "close") /\ NewRow(l, s, "close") => k = l
  BY <1>1, InsertFacts
<1>3. CreatorFor(a)
  BY OnceParts DEF OnceFor
<1>4. AbsentRows'
  BY <1>2 DEF Once, AbsentRows, NewRow, Exists
<1>5. OnceOnly'
  <2> SUFFICES ASSUME NEW k \in CaseIds, NEW l \in CaseIds,
                      cases'[k].origin = "close", cases'[l].origin = "close",
                      cases'[k].queue = cases'[l].queue, cases'[k].sub = cases'[l].sub
               PROVE  k = l
    BY DEF OnceOnly
  <2>1. CASE cases'[k] = cases[k] /\ cases'[l] = cases[l]
    BY <2>1 DEF Once, OnceOnly
  <2>2. ASSUME NEW s \in tx[a].slots, NewRow(k, s, "close"), cases'[l] = cases[l]
        PROVE  FALSE
    BY <1>3, <2>2 DEF NewRow, CreatorFor
  <2>3. ASSUME NEW s \in tx[a].slots, NewRow(l, s, "close"), cases'[k] = cases[k]
        PROVE  FALSE
    BY <1>3, <2>3 DEF NewRow, CreatorFor
  <2>4. ASSUME NEW s \in tx[a].slots, NEW u \in tx[a].slots,
               NewRow(k, s, "close"), NewRow(l, u, "close")
        PROVE  k = l
    <3>1. s \in Slot /\ u \in Slot /\ s.queue = u.queue /\ s.sub = u.sub
      BY <1>1, <2>4 DEF NewRow
    <3>2. s = u
      BY <3>1 DEF Slot
    <3>3. QED  BY <1>2, <2>4, <3>2
  <2>5. QED  BY <1>2, <2>1, <2>2, <2>3, <2>4
<1>6. ASSUME NEW b \in Actors PROVE OnceFor(b)'
  <2>1. CASE b = a
    BY <2>1, OnceNeither
  <2>2. CASE b # a
    <3>1. tx'[b] = tx[b] /\ tx[b].rows \in SUBSET CaseIds
      BY <2>2 DEF Others, TInv, TypeOK, Tx
    <3>2. CreatorFor(b) /\ CloserFor(b)
      BY OnceParts DEF OnceFor
    <3>3. ASSUME Creating(b), NEW s \in tx[b].slots, NEW k \in CaseIds,
                 cases'[k].origin = "close", cases'[k].queue = s.queue,
                 cases'[k].sub = s.sub
          PROVE  FALSE
      <4>1. CASE cases'[k] = cases[k]
        BY <3>2, <3>3, <4>1 DEF CreatorFor
      <4>2. ASSUME NEW u \in tx[a].slots, NewRow(k, u, "close") PROVE FALSE
        <5>1. s.queue = u.queue
          BY <3>3, <4>2 DEF NewRow
        <5>2. tx[a].adv = tx[b].adv /\ tx[a].adv \in Queues
          BY <1>3, <3>2, <3>3, <5>1 DEF CreatorFor
        <5>3. tx[a].adv = NoQueue
          BY <2>2, <5>2 DEF Locks, AdvExclusive
        <5>4. QED  BY <5>2, <5>3, FlowAssumption
      <4>3. QED  BY <1>2, <4>1, <4>2
    <3>4. CreatorFor(b)'
      BY <3>1, <3>2, <3>3 DEF CreatorFor, Creating
    <3>5. CloserFor(b)'
      BY <1>2, <3>1, <3>2 DEF CloserFor, NewRow, Exists
    <3>6. QED  BY <3>4, <3>5 DEF OnceFor
  <2>3. QED  BY <2>1, <2>2
<1>7. QED
  BY <1>4, <1>5, <1>6 DEF Once, LockHeld, Fresh, CloserHolds,
     OnceFor, CreatorFor, CloserFor, Creating

(* A manual case is none of the flow's own. *)
LEMMA OnceManual ==
  ASSUME TInv, Once, NEW a \in Actors, ~Creating(a)', Others(a),
         tx'[a].op # "close" \/ tx'[a].pc = "idle", Insert(tx[a].slots, "manual")
  PROVE  Once'
<1>1. tx[a].slots \in SUBSET Slot
  BY DEF TInv, TypeOK, Tx
<1>2. \A k \in CaseIds : \/ cases'[k] = cases[k]
                         \/ \E s \in tx[a].slots : NewRow(k, s, "manual")
  BY <1>1, InsertFacts
<1>3. \A k \in CaseIds : cases'[k].origin = "close" => cases'[k] = cases[k]
  BY <1>2 DEF NewRow
<1>4. AbsentRows'
  BY <1>2 DEF Once, AbsentRows, NewRow, Exists
<1>5. OnceOnly'
  BY <1>3 DEF Once, OnceOnly
<1>6. ASSUME NEW b \in Actors PROVE OnceFor(b)'
  <2>1. CASE b = a
    BY <2>1, OnceNeither
  <2>2. CASE b # a
    <3>1. tx'[b] = tx[b] /\ tx[b].rows \in SUBSET CaseIds
      BY <2>2 DEF Others, TInv, TypeOK, Tx
    <3>2. CreatorFor(b) /\ CloserFor(b)
      BY OnceParts DEF OnceFor
    <3>3. CreatorFor(b)'
      BY <1>3, <3>1, <3>2 DEF CreatorFor, Creating
    <3>4. CloserFor(b)'
      BY <1>2, <3>1, <3>2 DEF CloserFor, NewRow, Exists
    <3>5. QED  BY <3>3, <3>4 DEF OnceFor
  <2>3. QED  BY <2>1, <2>2
<1>7. QED
  BY <1>4, <1>5, <1>6 DEF Once, LockHeld, Fresh, CloserHolds,
     OnceFor, CreatorFor, CloserFor, Creating

(* Statuses and outcomes change; rows are kept. *)
LEMMA StatusKept ==
  ASSUME TInv,
         \A k \in CaseIds :
           \/ cases'[k] = cases[k]
           \/ /\ Exists(k)
              /\ \E st \in {"open", "closed"}, o \in {"none", "successful", "unsuccessful"} :
                   cases'[k] = [cases[k] EXCEPT !.status = st, !.outcome = o]
  PROVE  Kept
<1> SUFFICES ASSUME NEW k \in CaseIds
             PROVE  /\ cases'[k].queue = cases[k].queue /\ cases'[k].sub = cases[k].sub
                    /\ cases'[k].origin = cases[k].origin
                    /\ (cases'[k].status # "absent") = (cases[k].status # "absent")
  BY DEF Kept, Exists
<1>1. CASE cases'[k] = cases[k]
  BY <1>1
<1>2. ASSUME NEW st \in {"open", "closed"}, NEW o \in {"none", "successful", "unsuccessful"},
             Exists(k), cases'[k] = [cases[k] EXCEPT !.status = st, !.outcome = o]
      PROVE  /\ cases'[k].queue = cases[k].queue /\ cases'[k].sub = cases[k].sub
             /\ cases'[k].origin = cases[k].origin
             /\ cases'[k].status # "absent" /\ cases[k].status # "absent"
  <2>1. cases[k] \in CaseRow
    BY DEF TInv, TypeOK
  <2>2. QED  BY <1>2, <2>1 DEF CaseRow, Exists
<1>3. QED  BY <1>1, <1>2

LEMMA CloseCommitKept ==
  ASSUME TInv, Once, NEW a \in Actors, CloseCommit(a)
  PROVE  Kept
<1>1. tx[a].op = "close" /\ tx[a].pc # "idle"
  BY DEF CloseCommit, Running
<1>2. tx[a].src \in CaseIds /\ Exists(tx[a].src)
  BY <1>1 DEF Once, CloserHolds, TInv, TypeOK, Tx
<1>3. \A k \in CaseIds \ {tx[a].src} : cases'[k] = cases[k]
  BY DEF CloseCommit, TInv, TypeOK
<1>4. cases'[tx[a].src] =
        [cases[tx[a].src] EXCEPT !.status = "closed", !.outcome = "successful"]
  BY <1>2 DEF CloseCommit, TInv, TypeOK
<1>5. QED  BY <1>2, <1>3, <1>4, StatusKept

LEMMA StatementKept ==
  ASSUME TInv, TerminateMerchant \/ \E k \in CaseIds : CloseUnsuccessful(k) \/ Reopen(k) \/ RollBackAgreement(k)
  PROVE  Kept
<1>1. ASSUME NEW k \in CaseIds, CloseUnsuccessful(k) \/ Reopen(k) \/ RollBackAgreement(k) PROVE Kept
  <2>1. cases[k] \in CaseRow /\ Exists(k)
    BY <1>1 DEF TInv, TypeOK, CloseUnsuccessful, Reopen, RollBackAgreement, IsOpen, Exists
  <2>2. cases[k].outcome \in {"none", "successful", "unsuccessful"}
    BY <2>1 DEF CaseRow
  <2>3. \A l \in CaseIds \ {k} : cases'[l] = cases[l]
    BY <1>1 DEF CloseUnsuccessful, Reopen, RollBackAgreement, TInv, TypeOK
  <2>4. CASE CloseUnsuccessful(k)
    <3>1. cases'[k] = [cases[k] EXCEPT !.status = "closed", !.outcome = "unsuccessful"]
      BY <2>4 DEF CloseUnsuccessful, TInv, TypeOK
    <3>2. QED  BY <2>1, <2>3, <3>1, StatusKept
  <2>5. CASE Reopen(k) \/ RollBackAgreement(k)
    <3>1. cases'[k] = [cases[k] EXCEPT !.status = "open"]
      BY <2>5 DEF Reopen, RollBackAgreement, TInv, TypeOK
    <3>2. cases'[k] = [cases[k] EXCEPT !.status = "open", !.outcome = cases[k].outcome]
      BY <2>1, <3>1 DEF CaseRow
    <3>3. QED  BY <2>1, <2>2, <2>3, <3>2, StatusKept
  <2>6. QED  BY <1>1, <2>4, <2>5
<1>2. CASE TerminateMerchant
  <2>1. ASSUME NEW k \in CaseIds
        PROVE  \/ cases'[k] = cases[k]
               \/ /\ Exists(k)
                  /\ cases'[k] = [cases[k] EXCEPT !.status = "closed",
                                                 !.outcome = "unsuccessful"]
    BY <1>2 DEF TerminateMerchant, IsOpen, Exists
  <2>2. QED  BY <2>1, StatusKept
<1>3. QED  BY <1>1, <1>2

LEMMA OnceStep == TInv /\ Locks /\ Once /\ [Next]_vars => Once'
<1> SUFFICES ASSUME TInv, Locks, Once, [Next]_vars PROVE Once'
  OBVIOUS
<1>1. ASSUME NEW a \in Actors, TakeAdvisory(a) PROVE Once'
  <2>1. Kept /\ tx[a].pc \in {"claimed", "candidate"}
    BY <1>1, UnchangedKept DEF TakeAdvisory
  <2>2. tx[a].target \in Queues /\ tx[a].op \in {"job", "recover"}
    BY <2>1 DEF TInv, HasTarget, Targeted
  <2>3. ASSUME NEW s \in MissingSlots(tx[a].target)
        PROVE  /\ s.queue = tx[a].target
               /\ \A k \in CaseIds :
                    ~(/\ cases[k].origin = "close"
                      /\ cases[k].queue = s.queue /\ cases[k].sub = s.sub)
    <3>1. s.queue = tx[a].target /\ ~Occupied(s)
      BY DEF MissingSlots, SlotsOf
    <3>2. QED  BY <3>1 DEF Occupied, Once, AbsentRows
  <2>4. OnceFor(a)'
    BY <1>1, <2>1, <2>2, <2>3, TakeAdvisoryFields
       DEF TakeAdvisory, OnceFor, CreatorFor, CloserFor
  <2>5. QED  BY <1>1, <2>1, <2>4, TakeAdvisoryFields, OnceKept
<1>2. ASSUME NEW a \in Actors, NoSelection(a) \/ Refused(a) PROVE Once'
  <2>1. Kept
    BY <1>2, UnchangedKept DEF NoSelection, Refused
  <2>2. tx[a].pc \in {"claimed", "candidate"} => tx[a].op \in {"job", "recover"}
    BY DEF TInv, HasTarget, Targeted
  <2>3. QED  BY <1>2, <2>1, <2>2, OnceRelease DEF NoSelection, Refused, Errors
<1>3. ASSUME NEW a \in Actors, LockRow(a) PROVE Once'
  <2>1. Kept /\ tx[a].pc = "locking" /\ OnceFor(a) /\ UNCHANGED cases
    BY <1>3, UnchangedKept, OnceParts DEF LockRow
  <2>2. OnceFor(a)'
    BY <1>3, <2>1, LockRowFields DEF OnceFor, CreatorFor, CloserFor, Creating, Exists
  <2>3. QED  BY <1>3, <2>1, <2>2, LockRowFields, OnceKept
<1>4. ASSUME NEW a \in Actors, Satisfied(a) PROVE Once'
  <2>1. Kept /\ tx[a].pc = "locking" /\ OnceFor(a) /\ UNCHANGED cases
    BY <1>4, UnchangedKept, OnceParts DEF Satisfied
  <2>2. OnceFor(a)'
    BY <1>4, <2>1, SatisfiedFields DEF OnceFor, CreatorFor, CloserFor, Creating, Exists
  <2>3. QED  BY <1>4, <2>1, <2>2, SatisfiedFields, OnceKept
<1>5. ASSUME NEW a \in Actors, JobCommit(a) PROVE Once'
  <2>1. Others(a) /\ tx'[a].pc = "idle"
    BY <1>5, IdleFields DEF JobCommit, Released
  <2>2. Creating(a) /\ ~Creating(a)'
    BY <1>5, <2>1 DEF JobCommit, Running, Creating
  <2>3. QED  BY <1>5, <2>1, <2>2, OnceInsert DEF JobCommit
<1>6. ASSUME NEW a \in Actors, RecoverCommit(a) PROVE Once'
  <2>1. Others(a) /\ tx'[a].pc = "created" /\ tx'[a].op = "recover"
    BY <1>6, RecoverCommitFields
  <2>2. Creating(a) /\ ~Creating(a)'
    BY <1>6, <2>1 DEF RecoverCommit, Running, Creating
  <2>3. QED  BY <1>6, <2>1, <2>2, OnceInsert DEF RecoverCommit
<1>7. ASSUME NEW a \in Actors, CreateCommit(a) PROVE Once'
  <2>1. Others(a) /\ tx'[a].pc = "idle"
    BY <1>7, IdleFields DEF CreateCommit, Released
  <2>2. ~Creating(a)'
    BY <2>1 DEF Creating
  <2>3. QED  BY <1>7, <2>1, <2>2, OnceManual DEF CreateCommit
<1>8. ASSUME NEW a \in Actors, CloseCommit(a) PROVE Once'
  BY <1>8, CloseCommitKept, OnceRelease DEF CloseCommit, Errors
<1>9. ASSUME NEW a \in Actors,
             JobFail(a) \/ RecoverFinish(a) \/ Crash(a)
             \/ \E S \in SUBSET SubMerchants : SelectSubMerchants(a, S)
      PROVE  Once'
  <2>1. UNCHANGED cases /\ Set(a, IdleTx)
    BY <1>9 DEF JobFail, RecoverFinish, Crash, SelectSubMerchants
  <2>2. QED  BY <2>1, UnchangedKept, OnceRelease DEF Errors
<1>10. ASSUME NEW a \in Actors, DeadlockAbort(a) \/ TransientError(a) PROVE Once'
  <2>1. UNCHANGED cases /\ Abort(a)
    BY <1>10 DEF DeadlockAbort, TransientError
  <2>2. QED  BY <2>1, UnchangedKept, AbortTo, OnceRelease DEF Errors
<1>11. ASSUME NEW w \in Workers, NEW j \in JobKeys, Claim(w, j) PROVE Once'
  <2>1. w \in Actors /\ Kept
    BY <1>11, UnchangedKept DEF Claim, Actors
  <2>2. OnceFor(w)'
    BY <1>11, <2>1, ClaimFields, OnceNeither DEF Creating
  <2>3. QED  BY <1>11, <2>1, <2>2, ClaimFields, OnceKept
<1>12. ASSUME NEW r \in Requests, StaffBegins(r) PROVE Once'
  <2>1. r \in Actors /\ UNCHANGED cases
    BY <1>12 DEF Actors, StaffBegins, SelectBegin, CloseBegin, RecoverBegin, CreateBegin
  <2>2. Kept /\ Others(r)
    BY <1>12, <2>1, UnchangedKept, StaffFields
  <2>3. ~Creating(r)' /\ (tx'[r].op = "close" =>
           tx'[r].src \in tx'[r].rows /\ tx'[r].src \in CaseIds /\ IsOpen(tx'[r].src))
    BY <1>12, <2>1, StaffFields DEF Creating
  <2>4. OnceFor(r)'
    BY <2>1, <2>3 DEF OnceFor, CreatorFor, CloserFor, Creating, Exists, IsOpen
  <2>5. QED  BY <2>1, <2>2, <2>4, OnceKept
<1>13. ASSUME NEW a \in Actors, CloseWrite(a) PROVE Once'
  <2>1. Kept /\ OnceFor(a) /\ UNCHANGED cases /\ tx[a].op = "close" /\ tx[a].pc = "ready"
    BY <1>13, UnchangedKept, OnceParts DEF CloseWrite, Running
  <2>2. OnceFor(a)'
    BY <1>13, <2>1, CloseWriteFields DEF OnceFor, CreatorFor, CloserFor, Creating, Exists
  <2>3. QED  BY <1>13, <2>1, <2>2, CloseWriteFields, OnceKept
<1>14. ASSUME NEW a \in Actors, RecoverUpdate(a) PROVE Once'
  <2>1. Kept /\ tx[a].op = "recover"
    BY <1>14, UnchangedKept DEF RecoverUpdate
  <2>2. OnceFor(a)'
    BY <1>14, <2>1, RecoverUpdateFields, OnceNeither DEF Creating
  <2>3. QED  BY <1>14, <2>1, <2>2, RecoverUpdateFields, OnceKept
<1>15. ASSUME NEW a \in Actors, NEW j \in JobKeys, LockJob(a, j) PROVE Once'
  <2>1. Kept /\ OnceFor(a) /\ UNCHANGED cases
    BY <1>15, UnchangedKept, OnceParts DEF LockJob
  <2>2. OnceFor(a)'
    BY <1>15, <2>1, LockJobFields DEF OnceFor, CreatorFor, CloserFor, Creating, Exists
  <2>3. QED  BY <1>15, <2>1, <2>2, LockJobFields, OnceKept
<1>16. ASSUME UNCHANGED tx, Kept PROVE Once'
  <2>1. AbsentRows' /\ OnceOnly'
    BY <1>16 DEF Once, Kept, AbsentRows, OnceOnly
  <2>2. LockHeld' /\ Fresh'
    BY <1>16 DEF Once, Kept, LockHeld, Fresh, Creating
  <2>3. CloserHolds'
    BY <1>16 DEF Once, Kept, CloserHolds, TInv, TypeOK, Tx
  <2>4. QED  BY <2>1, <2>2, <2>3 DEF Once
<1>17. ASSUME NEW k \in CaseIds, CloseUnsuccessful(k) \/ Reopen(k) \/ RollBackAgreement(k) PROVE Once'
  BY <1>16, <1>17, StatementKept DEF CloseUnsuccessful, Reopen, RollBackAgreement
<1>18. ASSUME TerminateMerchant PROVE Once'
  BY <1>16, <1>18, StatementKept DEF TerminateMerchant
<1>19. CASE UNCHANGED <<cases, tx>>
  BY <1>16, <1>19, UnchangedKept
<1>20. ASSUME NEW a \in Actors, Step(a) PROVE Once'
  BY <1>20, <1>1, <1>2, <1>3, <1>4, <1>5, <1>6, <1>7, <1>8, <1>9, <1>10, <1>13,
     <1>14, <1>15 DEF Step
<1>21. CASE Environment
  BY <1>9, <1>10, <1>17, <1>18, <1>19, <1>21 DEF Environment, Tick, RetryJob
<1>22. QED
  BY <1>11, <1>12, <1>19, <1>20, <1>21 DEF Next, vars

LEMMA InitOrigin ==
  ASSUME Init, NEW k \in CaseIds
  PROVE  cases[k].origin # "close" /\ (~Exists(k) => cases[k].origin = "none")
<1>1. CASE \E q \in StartQueues : StartCase[q] = k
  <2>1. PICK q : cases[k] = [NoCase EXCEPT !.queue = q, !.origin = "start", !.status = "open"]
    BY <1>1 DEF Init
  <2>2. QED  BY <2>1 DEF NoCase, Exists
<1>2. CASE ~\E q \in StartQueues : StartCase[q] = k
  BY <1>2 DEF Init, NoCase
<1>3. QED  BY <1>1, <1>2

LEMMA OnceInit == Init => Locks /\ Once
<1> SUFFICES ASSUME Init PROVE Locks /\ Once
  OBVIOUS
<1>1. tx = [a \in Actors |-> IdleTx]
  BY DEF Init
<1>2. \A a \in Actors : Released(tx[a])
  BY <1>1 DEF IdleTx, Released
<1>3. Locks
  BY <1>2 DEF Locks, AdvExclusive, RowExclusive, JobExclusive, Released
<1>4. \A a \in Actors : OnceFor(a)
  BY <1>2 DEF Released, OnceFor, CreatorFor, CloserFor, Creating
<1>5. AbsentRows /\ OnceOnly
  BY InitOrigin DEF AbsentRows, OnceOnly
<1>6. QED  BY <1>3, <1>4, <1>5, OnceParts

(* However many workers, recoveries, re-closes, crashes and deadlocks there *)
(* are, the flow creates at most one case per target queue and selected     *)
(* sub-merchant: the advisory lock of processCaseFlowCloseJobs and          *)
(* createMissingCloseTriggerCases covers the check and the insert.          *)
THEOREM CreatedOnce == Spec => []OnceOnly
<1>1. Init => TInv /\ Locks /\ Once
  BY TypeInit, OnceInit
<1>2. TInv /\ Locks /\ Once /\ [Next]_vars => (TInv /\ Locks /\ Once)'
  BY TypeStep, LocksStep, OnceStep
<1>3. TInv /\ Locks /\ Once => OnceOnly
  BY DEF Once
<1>4. QED
  BY <1>1, <1>2, <1>3, PTL DEF Spec

-----------------------------------------------------------------------------
(***************************************************************************)
(* Part 2. Jobs: what a close owes is remembered, a completed job is true, *)
(* and it is final.                                                        *)
(***************************************************************************)

-----------------------------------------------------------------------------
(* The invariant: what the transaction of one actor knows about the jobs *)

(* The jobs it has locked are open: completed jobs are never visited. *)
LockedFor(a) == \A j \in tx[a].jobRows : jobs[j].state = "open"

Unblocking(a) == tx[a].op = "close" /\ tx[a].pc = "unblocking"

(* The jobs a close is about to insert are its own and not there yet. *)
NewFor(a) ==
  Unblocking(a) => \A j \in tx[a].newJobs : j[1] = tx[a].src /\ jobs[j].state = "absent"

(* A target that some job or some earlier completion answers for. *)
Answered(k, t) == jobs[<<k, t>>].state # "absent" \/ Tombstone(t)

(* What a close is about to commit covers each of its triggers. *)
OwingFor(a) ==
  Unblocking(a) =>
    \A t \in Queues : <<cases[tx[a].src].queue, t>> \in CloseTriggers =>
      <<tx[a].src, t>> \in tx[a].newJobs \/ Answered(tx[a].src, t)

(* The jobs of a worker or a recovery are for its target. *)
TargetFor(a) ==
  tx[a].op \in {"job", "recover"} =>
    \A j \in tx[a].jobRows \cup tx[a].snap : j[2] = tx[a].target

Present(t) == \E k \in CaseIds : Exists(k) /\ cases[k].queue = t

(* Nothing is left to create only where a case is. *)
CoveredFor(a) ==
  /\ Creating(a) /\ tx[a].slots = {} => Present(tx[a].target)
  /\ tx[a].op = "recover" /\ tx[a].pc \in {"created", "superseding"} => Present(tx[a].target)

JobFor(a) ==
  LockedFor(a) /\ NewFor(a) /\ OwingFor(a) /\ TargetFor(a) /\ CoveredFor(a)

(* The invariant. *)
Outbox ==
  /\ \A a \in Actors : JobFor(a)
  /\ CloseIsOwed
  /\ TombstoneIsProof

-----------------------------------------------------------------------------
(* Jobs are never deleted or reopened, cases never deleted or moved *)

Grows ==
  /\ \A j \in JobKeys : /\ jobs[j].state # "absent" => jobs'[j].state # "absent"
                        /\ jobs[j].state = "done" => jobs'[j] = jobs[j]
  /\ \A k \in CaseIds : Exists(k) => Exists(k)' /\ cases'[k].queue = cases[k].queue

(* t has a case after the step. *)
PresentAfter(t) == \E k \in CaseIds : Exists(k)' /\ cases'[k].queue = t

LEMMA PresentStays ==
  ASSUME Grows, NEW t, Present(t)
  PROVE  PresentAfter(t)
  BY DEF Grows, Present, PresentAfter

LEMMA TombstoneStays ==
  ASSUME Grows, NEW t, Tombstone(t)
  PROVE  \E j \in JobKeys : j[2] = t /\ jobs'[j].state = "done"
  BY DEF Grows, Tombstone

LEMMA AnsweredStays ==
  ASSUME Grows, NEW k \in CaseIds, NEW t \in Queues, Answered(k, t)
  PROVE  \/ jobs'[<<k, t>>].state # "absent"
         \/ \E j \in JobKeys : j[2] = t /\ jobs'[j].state = "done"
<1>1. <<k, t>> \in JobKeys
  BY DEF JobKeys
<1>2. QED  BY <1>1, TombstoneStays DEF Answered, Grows

LEMMA PresentIsCovered ==
  ASSUME NEW t
  PROVE  Present(t) <=> CasesIn({t}) # {}
  BY DEF Present, CasesIn

LEMMA NothingGrows ==
  ASSUME UNCHANGED <<cases, jobs>>
  PROVE  Grows
  BY DEF Grows, Exists

(* A transaction that stands still keeps what it knows if nobody touches    *)
(* the jobs it has locked or is about to insert.                            *)
LEMMA KeepsOther ==
  ASSUME TInv, Once, Grows, NEW b \in Actors, JobFor(b), tx'[b] = tx[b],
         \A j \in tx[b].jobRows : jobs[j].state = "open" => jobs'[j].state = "open",
         Unblocking(b) => \A j \in tx[b].newJobs :
           jobs[j].state = "absent" => jobs'[j].state = "absent"
  PROVE  JobFor(b)'
<1>1. LockedFor(b)' /\ NewFor(b)' /\ TargetFor(b)'
  BY DEF JobFor, LockedFor, NewFor, TargetFor, Unblocking
<1>2. OwingFor(b)'
  <2> SUFFICES ASSUME Unblocking(b), NEW t \in Queues,
                      <<cases'[tx[b].src].queue, t>> \in CloseTriggers,
                      <<tx[b].src, t>> \notin tx[b].newJobs
               PROVE  Answered(tx[b].src, t)'
    BY DEF OwingFor, Unblocking
  <2>1. tx[b].src \in CaseIds /\ Exists(tx[b].src)
    BY DEF Once, CloserHolds, Unblocking, TInv, TypeOK, Tx
  <2>2. cases'[tx[b].src].queue = cases[tx[b].src].queue
    BY <2>1 DEF Grows
  <2>3. Answered(tx[b].src, t)
    BY <2>2 DEF JobFor, OwingFor
  <2>4. QED  BY <2>1, <2>3, AnsweredStays DEF Answered, Tombstone
<1>3. CoveredFor(b)'
  BY PresentStays DEF JobFor, CoveredFor, Creating, Present, PresentAfter
<1>4. QED  BY <1>1, <1>2, <1>3 DEF JobFor

(* Successes of a step are answered for. *)
Repaid ==
  \A k \in CaseIds : Succeeded(k)' =>
    \/ Succeeded(k)
    \/ \A t \in Queues : <<cases'[k].queue, t>> \in CloseTriggers =>
         jobs'[<<k, t>>].state # "absent" \/ Tombstone(t)

(* Completions of a step are true. *)
Honest ==
  \A j \in JobKeys : jobs'[j].state = "done" => jobs[j].state = "done" \/ PresentAfter(j[2])

LEMMA Promises ==
  ASSUME TInv, Outbox, Grows, Repaid, Honest
  PROVE  CloseIsOwed' /\ TombstoneIsProof'
<1>1. CloseIsOwed'
  <2> SUFFICES ASSUME NEW k \in CaseIds, NEW t \in Queues, Succeeded(k)',
                      <<cases'[k].queue, t>> \in CloseTriggers
               PROVE  jobs'[<<k, t>>].state # "absent" \/ Tombstone(t)'
    BY DEF CloseIsOwed
  <2>1. CASE Succeeded(k)
    <3>1. cases'[k].queue = cases[k].queue
      BY <2>1 DEF Succeeded, Exists, Grows
    <3>2. Answered(k, t)
      BY <2>1, <3>1 DEF Outbox, CloseIsOwed, Answered
    <3>3. QED  BY <3>2, AnsweredStays DEF Tombstone
  <2>2. CASE jobs'[<<k, t>>].state # "absent"
    BY <2>2
  <2>3. CASE Tombstone(t)
    BY <2>3, TombstoneStays DEF Tombstone
  <2>4. QED  BY <2>1, <2>2, <2>3 DEF Repaid
<1>2. TombstoneIsProof'
  <2> SUFFICES ASSUME NEW j \in JobKeys, j[2] \in Queues, jobs'[j].state = "done"
               PROVE  (CasesIn({j[2]}) # {})'
    BY DEF TombstoneIsProof, Tombstone
  <2>1. CASE jobs[j].state = "done"
    <3>1. Present(j[2])
      BY <2>1, PresentIsCovered DEF Outbox, TombstoneIsProof, Tombstone
    <3>2. QED  BY <3>1, PresentStays DEF PresentAfter, CasesIn
  <2>2. CASE PresentAfter(j[2])
    BY <2>2 DEF PresentAfter, CasesIn
  <2>3. QED  BY <2>1, <2>2 DEF Honest
<1>3. QED  BY <1>1, <1>2

-----------------------------------------------------------------------------
(* Three kinds of steps *)

(* A step that moves one transaction and writes no table. *)
LEMMA MovesOnly ==
  ASSUME TInv, Once, Outbox, NEW a \in Actors, Others(a), UNCHANGED <<cases, jobs>>,
         JobFor(a)'
  PROVE  Outbox' /\ Grows
<1>1. Grows
  BY NothingGrows
<1>2. \A b \in Actors : JobFor(b)'
  BY <1>1, KeepsOther DEF Others, Outbox
<1>3. Repaid /\ Honest
  BY DEF Repaid, Honest, Succeeded
<1>4. QED  BY <1>1, <1>2, <1>3, Promises DEF Outbox

(* A step that writes tables for one transaction: it changes the state of   *)
(* no job but those it has locked or inserts.                               *)
LEMMA Writes ==
  ASSUME TInv, Locks, Once, Outbox, NEW a \in Actors, Others(a), Grows, Repaid, Honest,
         \A j \in JobKeys \ tx[a].jobRows : jobs[j].state = "open" => jobs'[j].state = "open",
         \A j \in JobKeys : \/ jobs[j].state = "absent" => jobs'[j].state = "absent"
                            \/ Unblocking(a) /\ j \in tx[a].newJobs,
         JobFor(a)'
  PROVE  Outbox' /\ Grows
<1>1. ASSUME NEW b \in Actors, b # a PROVE JobFor(b)'
  <2>1. tx'[b] = tx[b] /\ JobFor(b) /\ JobFor(a)
    BY <1>1 DEF Others, Outbox
  <2>2. tx[b].jobRows \in SUBSET JobKeys /\ tx[b].newJobs \in SUBSET JobKeys
    BY DEF TInv, TypeOK, Tx
  <2>3. \A j \in tx[b].jobRows : jobs[j].state = "open" => jobs'[j].state = "open"
    BY <1>1, <2>2 DEF Locks, JobExclusive
  <2>4. ASSUME Unblocking(b), NEW j \in tx[b].newJobs, jobs[j].state = "absent"
        PROVE  jobs'[j].state = "absent"
    <3>1. ~(Unblocking(a) /\ j \in tx[a].newJobs)
      <4> SUFFICES ASSUME Unblocking(a), j \in tx[a].newJobs PROVE FALSE
        OBVIOUS
      <4>1. j[1] = tx[a].src /\ j[1] = tx[b].src
        BY <2>1, <2>4 DEF JobFor, NewFor
      <4>2. tx[a].src \in tx[a].rows /\ tx[b].src \in tx[b].rows
        BY <2>4 DEF Once, CloserHolds, Unblocking
      <4>3. QED  BY <1>1, <4>1, <4>2 DEF Locks, RowExclusive
    <3>2. QED  BY <2>2, <2>4, <3>1
  <2>5. QED  BY <2>1, <2>3, <2>4, KeepsOther
<1>2. \A b \in Actors : JobFor(b)'
  BY <1>1
<1>3. QED  BY <1>2, Promises DEF Outbox

(* A single statement, outside the modelled transactions. *)
LEMMA Statement ==
  ASSUME TInv, Once, Outbox, UNCHANGED tx, Grows, Repaid,
         \A j \in JobKeys : jobs'[j].state = jobs[j].state
  PROVE  Outbox' /\ Grows
<1>1. Honest
  BY DEF Honest
<1>2. ASSUME NEW b \in Actors PROVE JobFor(b)'
  <2>1. tx[b].jobRows \in SUBSET JobKeys /\ tx[b].newJobs \in SUBSET JobKeys
    BY DEF TInv, TypeOK, Tx
  <2>2. QED  BY <2>1, KeepsOther DEF Outbox
<1>3. QED  BY <1>1, <1>2, Promises DEF Outbox

(* A transaction that has ended, or is back at its savepoint, knows nothing *)
(* but the jobs it still has.                                               *)
LEMMA EndedKnows ==
  ASSUME NEW a \in Actors, Released(tx'[a])
  PROVE  JobFor(a)'
  BY DEF Released, JobFor, LockedFor, NewFor, OwingFor, TargetFor, CoveredFor, Unblocking,
     Creating

LEMMA RolledBackKnows ==
  ASSUME TInv, Outbox, NEW a \in Actors, NEW err \in Errors, UNCHANGED <<cases, jobs>>,
         tx[a].op \in {"job", "recover"}, Set(a, RolledBack(tx[a], err))
  PROVE  JobFor(a)'
<1>1. JobFor(a)
  BY DEF Outbox
<1>2. /\ tx'[a].op = tx[a].op /\ tx'[a].pc = "rolledBack" /\ tx'[a].target = tx[a].target
      /\ tx'[a].snap = tx[a].snap /\ tx'[a].jobRows = tx[a].jobRows
  BY RolledBackFields
<1>3. QED
  BY <1>1, <1>2 DEF JobFor, LockedFor, NewFor, OwingFor, TargetFor, CoveredFor, Unblocking,
     Creating

-----------------------------------------------------------------------------
(* What an insert leaves *)

LEMMA InsertGrows ==
  ASSUME TInv, NEW slots \in SUBSET Slot, NEW origin, Insert(slots, origin)
  PROVE  /\ \A k \in CaseIds : Exists(k) => Exists(k)' /\ cases'[k].queue = cases[k].queue
         /\ \A k \in CaseIds : Succeeded(k)' => Succeeded(k)
         /\ \A s \in slots : PresentAfter(s.queue)
<1>1. /\ \A k \in CaseIds : \/ cases'[k] = cases[k]
                            \/ \E s \in slots : NewRow(k, s, origin)
      /\ \A s \in slots : \E k \in CaseIds : NewRow(k, s, origin)
  BY InsertFacts
<1>2. ASSUME NEW k \in CaseIds
      PROVE  /\ Exists(k) => Exists(k)' /\ cases'[k].queue = cases[k].queue
             /\ Succeeded(k)' => Succeeded(k)
  BY <1>1 DEF NewRow, Exists, Succeeded
<1>3. \A s \in slots : PresentAfter(s.queue)
  BY <1>1 DEF NewRow, Exists, PresentAfter
<1>4. QED  BY <1>2, <1>3

(* A worker or a recovery that commits has a case for its target. *)
LEMMA CreatedIsPresent ==
  ASSUME TInv, Once, Outbox, NEW a \in Actors, Creating(a), Insert(tx[a].slots, "close")
  PROVE  PresentAfter(tx[a].target)
<1>1. tx[a].slots \in SUBSET Slot
  BY DEF TInv, TypeOK, Tx
<1>2. CASE tx[a].slots = {}
  <2>1. Present(tx[a].target)
    BY <1>2 DEF Outbox, JobFor, CoveredFor
  <2>2. PICK k \in CaseIds : Exists(k) /\ cases[k].queue = tx[a].target
    BY <2>1 DEF Present
  <2>3. Exists(k)' /\ cases'[k].queue = tx[a].target
    BY <1>1, <2>2, InsertGrows
  <2>4. QED  BY <2>3 DEF PresentAfter
<1>3. CASE tx[a].slots # {}
  <2>1. PICK s \in tx[a].slots : TRUE
    BY <1>3
  <2>2. s.queue = tx[a].target
    BY DEF Once, Fresh
  <2>3. QED  BY <1>1, <2>2, InsertGrows
<1>4. QED  BY <1>2, <1>3

-----------------------------------------------------------------------------
(* Every step *)

LEMMA JobCommitJobs ==
  ASSUME TInv, NEW a \in Actors, JobCommit(a)
  PROVE  \A j \in JobKeys : IF j \in tx[a].jobRows THEN jobs'[j].state = "done"
                                                  ELSE jobs'[j] = jobs[j]
<1>1. ASSUME NEW j \in JobKeys, j \in tx[a].jobRows PROVE jobs'[j].state = "done"
  <2>1. jobs'[j] = [jobs[j] EXCEPT !.state = "done", !.err = "none", !.blocked = FALSE]
    BY <1>1 DEF JobCommit
  <2>2. jobs[j] \in JobRow
    BY DEF TInv, TypeOK
  <2>3. QED  BY <2>1, <2>2 DEF JobRow
<1>2. QED  BY <1>1 DEF JobCommit

LEMMA JobCommitOutbox ==
  ASSUME TInv, Locks, Once, Outbox, NEW a \in Actors, JobCommit(a)
  PROVE  Outbox' /\ Grows
<1>1. tx[a].slots \in SUBSET Slot /\ tx[a].jobRows \in SUBSET JobKeys
  BY DEF TInv, TypeOK, Tx
<1>2. tx[a].op = "job" /\ Creating(a) /\ Insert(tx[a].slots, "close")
  BY DEF JobCommit, Running, Creating
<1>3. Others(a) /\ JobFor(a)'
  BY IdleFields, EndedKnows DEF JobCommit
<1>4. \A j \in tx[a].jobRows : jobs[j].state = "open" /\ j[2] = tx[a].target
  BY <1>2 DEF Outbox, JobFor, LockedFor, TargetFor
<1>5. \A j \in JobKeys : IF j \in tx[a].jobRows THEN jobs'[j].state = "done"
                                              ELSE jobs'[j] = jobs[j]
  BY JobCommitJobs
<1>6. Grows
  BY <1>1, <1>2, <1>4, <1>5, InsertGrows DEF Grows
<1>7. Repaid
  BY <1>1, <1>2, InsertGrows DEF Repaid
<1>8. Honest
  BY <1>2, <1>4, <1>5, CreatedIsPresent DEF Honest
<1>9. QED  BY <1>3, <1>4, <1>5, <1>6, <1>7, <1>8, Writes

LEMMA RecoverCommitOutbox ==
  ASSUME TInv, Locks, Once, Outbox, NEW a \in Actors, RecoverCommit(a)
  PROVE  Outbox' /\ Grows
<1>1. tx[a].slots \in SUBSET Slot
  BY DEF TInv, TypeOK, Tx
<1>2. Creating(a) /\ Insert(tx[a].slots, "close") /\ jobs' = jobs
  BY DEF RecoverCommit, Running, Creating
<1>3. /\ Others(a) /\ tx'[a].op = "recover" /\ tx'[a].pc = "created"
      /\ tx'[a].target = tx[a].target /\ tx'[a].snap = {} /\ tx'[a].jobRows = {}
  BY RecoverCommitFields
<1>4. JobFor(a)'
  <2>1. CoveredFor(a)'
    BY <1>2, <1>3, CreatedIsPresent DEF CoveredFor, Creating, PresentAfter, Present
  <2>2. QED  BY <1>3, <2>1 DEF JobFor, LockedFor, NewFor, OwingFor, TargetFor, Unblocking
<1>5. Grows /\ Repaid /\ Honest
  BY <1>1, <1>2, InsertGrows DEF Grows, Repaid, Honest
<1>6. QED  BY <1>2, <1>3, <1>4, <1>5, Writes

LEMMA CloseCommitJobs ==
  ASSUME TInv, Outbox, NEW a \in Actors, CloseCommit(a)
  PROVE  \A j \in JobKeys :
           /\ j \in tx[a].newJobs => jobs[j].state = "absent" /\ jobs'[j].state = "open"
           /\ j \notin tx[a].newJobs /\ j \in tx[a].jobRows =>
                jobs[j].state = "open" /\ jobs'[j].state = "open"
           /\ j \notin tx[a].newJobs /\ j \notin tx[a].jobRows => jobs'[j] = jobs[j]
<1>0. Unblocking(a) /\ JobFor(a)
  BY DEF CloseCommit, Running, Unblocking, Outbox
<1> SUFFICES ASSUME NEW j \in JobKeys
             PROVE  /\ j \in tx[a].newJobs => jobs[j].state = "absent" /\ jobs'[j].state = "open"
                    /\ j \notin tx[a].newJobs /\ j \in tx[a].jobRows =>
                         jobs[j].state = "open" /\ jobs'[j].state = "open"
                    /\ j \notin tx[a].newJobs /\ j \notin tx[a].jobRows => jobs'[j] = jobs[j]
  OBVIOUS
<1>1. CASE j \in tx[a].newJobs
  <2>1. jobs'[j] = NewJob
    BY <1>1 DEF CloseCommit
  <2>2. jobs[j].state = "absent"
    BY <1>0, <1>1 DEF JobFor, NewFor
  <2>3. NewJob.state = "open"
    BY DEF NewJob, NoJob
  <2>4. QED  BY <1>1, <2>1, <2>2, <2>3
<1>2. CASE j \notin tx[a].newJobs /\ j \in tx[a].jobRows
  <2>1. jobs'[j] = [jobs[j] EXCEPT !.due = TRUE, !.blocked = FALSE, !.err = "none"]
    BY <1>2 DEF CloseCommit
  <2>2. jobs[j] \in JobRow /\ jobs[j].state = "open"
    BY <1>0, <1>2 DEF JobFor, LockedFor, TInv, TypeOK
  <2>3. QED  BY <1>2, <2>1, <2>2 DEF JobRow
<1>3. CASE j \notin tx[a].newJobs /\ j \notin tx[a].jobRows
  BY <1>3 DEF CloseCommit
<1>4. QED  BY <1>1, <1>2, <1>3

LEMMA CloseCommitOutbox ==
  ASSUME TInv, Locks, Once, Outbox, NEW a \in Actors, CloseCommit(a)
  PROVE  Outbox' /\ Grows
<1>1. Unblocking(a) /\ tx[a].src \in CaseIds /\ Exists(tx[a].src)
  BY DEF CloseCommit, Running, Unblocking, Once, CloserHolds, TInv, TypeOK, Tx
<1>2. Others(a) /\ JobFor(a)'
  BY IdleFields, EndedKnows DEF CloseCommit
<1>3. JobFor(a) /\ tx[a].newJobs \in SUBSET JobKeys /\ tx[a].jobRows \in SUBSET JobKeys
  BY DEF Outbox, TInv, TypeOK, Tx
<1>4. \A j \in JobKeys :
        /\ j \in tx[a].newJobs => jobs[j].state = "absent" /\ jobs'[j].state = "open"
        /\ j \notin tx[a].newJobs /\ j \in tx[a].jobRows =>
             jobs[j].state = "open" /\ jobs'[j].state = "open"
        /\ j \notin tx[a].newJobs /\ j \notin tx[a].jobRows => jobs'[j] = jobs[j]
  BY CloseCommitJobs
<1>5. /\ \A k \in CaseIds \ {tx[a].src} : cases'[k] = cases[k]
      /\ cases'[tx[a].src].queue = cases[tx[a].src].queue
      /\ cases'[tx[a].src].status = "closed"
  <2>1. cases[tx[a].src] \in CaseRow
    BY <1>1 DEF TInv, TypeOK
  <2>2. cases'[tx[a].src] =
          [cases[tx[a].src] EXCEPT !.status = "closed", !.outcome = "successful"]
    BY <1>1 DEF CloseCommit, TInv, TypeOK
  <2>3. /\ cases'[tx[a].src].queue = cases[tx[a].src].queue
        /\ cases'[tx[a].src].status = "closed"
    BY <2>1, <2>2 DEF CaseRow
  <2>4. \A k \in CaseIds \ {tx[a].src} : cases'[k] = cases[k]
    BY DEF CloseCommit, TInv, TypeOK
  <2>5. QED  BY <2>3, <2>4
<1>6. Grows
  <2>1. ASSUME NEW k \in CaseIds, Exists(k)
        PROVE  Exists(k)' /\ cases'[k].queue = cases[k].queue
    BY <1>5, <2>1 DEF Exists
  <2>2. ASSUME NEW j \in JobKeys
        PROVE  /\ jobs[j].state # "absent" => jobs'[j].state # "absent"
               /\ jobs[j].state = "done" => jobs'[j] = jobs[j]
    BY <1>4
  <2>3. QED  BY <2>1, <2>2 DEF Grows
<1>7. Repaid
  <2>1. ASSUME NEW t \in Queues, <<cases'[tx[a].src].queue, t>> \in CloseTriggers
        PROVE  jobs'[<<tx[a].src, t>>].state # "absent" \/ Tombstone(t)
    <3>1. <<tx[a].src, t>> \in tx[a].newJobs \/ Answered(tx[a].src, t)
      BY <1>1, <1>3, <1>5, <2>1 DEF JobFor, OwingFor
    <3>2. <<tx[a].src, t>> \in JobKeys
      BY <1>1 DEF JobKeys
    <3>3. QED  BY <1>4, <3>1, <3>2 DEF Answered
  <2>2. ASSUME NEW k \in CaseIds \ {tx[a].src}, Succeeded(k)' PROVE Succeeded(k)
    BY <1>5, <2>2 DEF Succeeded
  <2>3. QED  BY <2>1, <2>2 DEF Repaid
<1>8. Honest
  BY <1>4 DEF Honest
<1>9. QED  BY <1>1, <1>2, <1>4, <1>6, <1>7, <1>8, Writes

LEMMA RecoverFinishJobs ==
  ASSUME TInv, Outbox, NEW a \in Actors, RecoverFinish(a)
  PROVE  \A j \in JobKeys :
           /\ j \notin tx[a].jobRows => jobs'[j] = jobs[j]
           /\ j \in tx[a].jobRows => jobs[j].state = "open"
           /\ j \in tx[a].jobRows => jobs'[j].state \in {"open", "done"}
           /\ j \in tx[a].jobRows /\ jobs'[j].state = "done" => tx[a].pc = "superseding"
<1>0. JobFor(a)
  BY DEF Outbox
<1> SUFFICES ASSUME NEW j \in JobKeys, j \in tx[a].jobRows
             PROVE  /\ jobs[j].state = "open"
                    /\ jobs'[j].state \in {"open", "done"}
                    /\ jobs'[j].state = "done" => tx[a].pc = "superseding"
  BY DEF RecoverFinish
<1>1. jobs[j] \in JobRow /\ jobs[j].state = "open"
  BY <1>0 DEF JobFor, LockedFor, TInv, TypeOK
<1>2. CASE tx[a].pc = "superseding"
  <2>1. jobs'[j] = [jobs[j] EXCEPT !.state = "done", !.err = "none"]
    BY <1>2 DEF RecoverFinish
  <2>2. QED  BY <1>1, <1>2, <2>1 DEF JobRow
<1>3. CASE tx[a].pc # "superseding"
  <2>1. jobs'[j] = [jobs[j] EXCEPT !.err = tx[a].err]
    BY <1>3 DEF RecoverFinish
  <2>2. QED  BY <1>1, <2>1 DEF JobRow
<1>4. QED  BY <1>2, <1>3

LEMMA RecoverFinishOutbox ==
  ASSUME TInv, Locks, Once, Outbox, NEW a \in Actors, RecoverFinish(a)
  PROVE  Outbox' /\ Grows
<1>1. tx[a].jobRows \in SUBSET JobKeys /\ JobFor(a) /\ tx[a].op = "recover"
  BY DEF TInv, TypeOK, Tx, Outbox, RecoverFinish
<1>2. Others(a) /\ JobFor(a)' /\ UNCHANGED cases
  BY IdleFields, EndedKnows DEF RecoverFinish
<1>3. \A j \in JobKeys :
        /\ j \notin tx[a].jobRows => jobs'[j] = jobs[j]
        /\ j \in tx[a].jobRows => jobs[j].state = "open"
        /\ j \in tx[a].jobRows => jobs'[j].state \in {"open", "done"}
        /\ j \in tx[a].jobRows /\ jobs'[j].state = "done" => tx[a].pc = "superseding"
  BY RecoverFinishJobs
<1>4. Grows
  BY <1>2, <1>3 DEF Grows, Exists
<1>5. Repaid
  BY <1>2 DEF Repaid, Succeeded
<1>6. Honest
  <2>1. ASSUME NEW j \in JobKeys, jobs'[j].state = "done", jobs[j].state # "done"
        PROVE  PresentAfter(j[2])
    <3>1. j \in tx[a].jobRows /\ tx[a].pc = "superseding"
      BY <1>3, <2>1
    <3>2. j[2] = tx[a].target /\ Present(tx[a].target)
      BY <1>1, <3>1 DEF JobFor, TargetFor, CoveredFor
    <3>3. QED  BY <1>4, <3>2, PresentStays
  <2>2. QED  BY <2>1 DEF Honest
<1>7. \A j \in JobKeys : jobs[j].state = "absent" => jobs'[j].state = "absent"
  BY <1>3
<1>8. QED  BY <1>2, <1>3, <1>4, <1>5, <1>6, <1>7, Writes

LEMMA JobFailJobs ==
  ASSUME TInv, NEW a \in Actors, JobFail(a)
  PROVE  \A j \in JobKeys :
           /\ jobs'[j].state = jobs[j].state
           /\ jobs[j].state = "done" => jobs'[j] = jobs[j]
<1>1. ASSUME NEW j \in JobKeys, j \in tx[a].jobRows, jobs[j].state = "open"
      PROVE  jobs'[j].state = "open"
  <2>1. jobs'[j] = JobFailure(jobs[j], tx[a].err) /\ jobs[j] \in JobRow
    BY <1>1 DEF JobFail, TInv, TypeOK
  <2>2. QED  BY <1>1, <2>1 DEF JobFailure, JobRow
<1>2. ASSUME NEW j \in JobKeys, ~(j \in tx[a].jobRows /\ jobs[j].state = "open")
      PROVE  jobs'[j] = jobs[j]
  BY <1>2 DEF JobFail
<1>3. QED  BY <1>1, <1>2

LEMMA JobFailOutbox ==
  ASSUME TInv, Locks, Once, Outbox, NEW a \in Actors, JobFail(a)
  PROVE  Outbox' /\ Grows
<1>1. Others(a) /\ JobFor(a)' /\ UNCHANGED cases
  BY IdleFields, EndedKnows DEF JobFail
<1>2. \A j \in JobKeys :
        /\ jobs'[j].state = jobs[j].state
        /\ jobs[j].state = "done" => jobs'[j] = jobs[j]
  BY JobFailJobs
<1>3. Grows
  BY <1>1, <1>2 DEF Grows, Exists
<1>4. Repaid
  BY <1>1 DEF Repaid, Succeeded
<1>5. Honest
  BY <1>2 DEF Honest
<1>6. QED  BY <1>1, <1>2, <1>3, <1>4, <1>5, Writes

LEMMA CreateCommitOutbox ==
  ASSUME TInv, Locks, Once, Outbox, NEW a \in Actors, CreateCommit(a)
  PROVE  Outbox' /\ Grows
<1>1. tx[a].slots \in SUBSET Slot
  BY DEF TInv, TypeOK, Tx
<1>2. Others(a) /\ JobFor(a)' /\ UNCHANGED jobs
  BY IdleFields, EndedKnows DEF CreateCommit
<1>3. Grows /\ Repaid /\ Honest
  BY <1>1, <1>2, InsertGrows DEF CreateCommit, Grows, Repaid, Honest
<1>4. QED  BY <1>2, <1>3, Writes

(* Tick and RetryJob keep the state of every job. *)
LEMMA TimeJobs ==
  ASSUME TInv, NEW j \in JobKeys, Tick(j) \/ RetryJob(j)
  PROVE  /\ UNCHANGED <<cases, tx>> /\ jobs[j].state = "open"
         /\ jobs'[j].state = "open" /\ \A i \in JobKeys \ {j} : jobs'[i] = jobs[i]
<1>1. UNCHANGED <<cases, tx>> /\ jobs[j].state = "open" /\ jobs[j] \in JobRow
  BY DEF Tick, RetryJob, TInv, TypeOK
<1>2. \A i \in JobKeys \ {j} : jobs'[i] = jobs[i]
  BY DEF Tick, RetryJob, TInv, TypeOK
<1>3. jobs'[j].state = "open"
  <2>1. CASE Tick(j)
    <3>1. jobs'[j] = [jobs[j] EXCEPT !.due = TRUE]
      BY <2>1 DEF Tick, TInv, TypeOK
    <3>2. QED  BY <1>1, <3>1 DEF JobRow
  <2>2. CASE RetryJob(j)
    <3>1. jobs'[j] = NewJob
      BY <2>2 DEF RetryJob, TInv, TypeOK
    <3>2. QED  BY <3>1 DEF NewJob, NoJob
  <2>3. QED  BY <2>1, <2>2
<1>4. QED  BY <1>1, <1>2, <1>3

LEMMA TimeOutbox ==
  ASSUME TInv, Once, Outbox, NEW j \in JobKeys, Tick(j) \/ RetryJob(j)
  PROVE  Outbox' /\ Grows
<1>1. /\ UNCHANGED <<cases, tx>> /\ jobs[j].state = "open"
      /\ jobs'[j].state = "open" /\ \A i \in JobKeys \ {j} : jobs'[i] = jobs[i]
  BY TimeJobs
<1>2. Grows /\ Repaid
  BY <1>1 DEF Grows, Repaid, Exists, Succeeded
<1>3. QED  BY <1>1, <1>2, Statement

(* Closing unsuccessfully, reopening and terminating succeed at nothing. *)
LEMMA StatusOutbox ==
  ASSUME TInv, Once, Outbox,
         TerminateMerchant \/ \E k \in CaseIds : CloseUnsuccessful(k) \/ Reopen(k) \/ RollBackAgreement(k)
  PROVE  Outbox' /\ Grows
<1>1. UNCHANGED <<jobs, tx>>
  BY DEF TerminateMerchant, CloseUnsuccessful, Reopen, RollBackAgreement
<1>2. ASSUME NEW k \in CaseIds
      PROVE  /\ Exists(k) => Exists(k)' /\ cases'[k].queue = cases[k].queue
             /\ Succeeded(k)' => Succeeded(k)
  <2>1. cases[k] \in CaseRow
    BY DEF TInv, TypeOK
  <2>2. \/ cases'[k] = cases[k]
        \/ cases'[k] = [cases[k] EXCEPT !.status = "closed", !.outcome = "unsuccessful"]
        \/ cases'[k] = [cases[k] EXCEPT !.status = "open"]
    BY DEF TerminateMerchant, CloseUnsuccessful, Reopen, RollBackAgreement, TInv, TypeOK
  <2>3. CASE cases'[k] = cases[k]
    BY <2>3 DEF Exists, Succeeded
  <2>4. CASE cases'[k] = [cases[k] EXCEPT !.status = "closed", !.outcome = "unsuccessful"]
    BY <2>1, <2>4 DEF CaseRow, Exists, Succeeded
  <2>5. CASE cases'[k] = [cases[k] EXCEPT !.status = "open"]
    BY <2>1, <2>5 DEF CaseRow, Exists, Succeeded
  <2>6. QED  BY <2>2, <2>3, <2>4, <2>5
<1>3. Grows /\ Repaid
  BY <1>1, <1>2 DEF Grows, Repaid
<1>4. QED  BY <1>1, <1>3, Statement

LEMMA OutboxMoves ==
  ASSUME TInv, Locks, Once, Outbox, NEW a \in Actors,
         \/ TakeAdvisory(a) \/ LockRow(a) \/ Satisfied(a) \/ CloseWrite(a)
         \/ RecoverUpdate(a) \/ \E j \in JobKeys : LockJob(a, j)
  PROVE  Outbox' /\ Grows
<1> JobFor(a) /\ UNCHANGED <<cases, jobs>>
  BY DEF Outbox, TakeAdvisory, LockRow, Satisfied, CloseWrite, RecoverUpdate, LockJob
<1>1. CASE TakeAdvisory(a)
  <2>1. tx[a].pc \in {"claimed", "candidate"} /\ tx[a].op \in {"job", "recover"}
    BY <1>1 DEF TakeAdvisory, TInv, HasTarget, Targeted
  <2>2. MissingSlots(tx[a].target) = {} => Present(tx[a].target)
    <3> SUFFICES ASSUME MissingSlots(tx[a].target) = {} PROVE Present(tx[a].target)
      OBVIOUS
    <3>1. PICK s \in SlotsOf(tx[a].target) : TRUE
      BY <1>1 DEF TakeAdvisory
    <3>2. s.queue = tx[a].target
      BY DEF SlotsOf
    <3>3. Occupied(s)
      BY DEF MissingSlots
    <3>4. QED  BY <3>2, <3>3 DEF Occupied, Present
  <2>3. /\ Others(a)
        /\ tx'[a].op = tx[a].op /\ tx'[a].target = tx[a].target
        /\ tx'[a].snap = tx[a].snap /\ tx'[a].jobRows = tx[a].jobRows
        /\ tx'[a].slots = MissingSlots(tx[a].target)
        /\ tx'[a].pc \in {"ready", "locking"}
    BY <1>1, TakeAdvisoryFields
  <2>4. CoveredFor(a)'
    BY <2>2, <2>3 DEF CoveredFor, Creating, Present, Exists
  <2>5. LockedFor(a)' /\ NewFor(a)' /\ OwingFor(a)' /\ TargetFor(a)'
    BY <2>3 DEF JobFor, LockedFor, NewFor, OwingFor, TargetFor, Unblocking
  <2>6. JobFor(a)'
    BY <2>4, <2>5 DEF JobFor
  <2>7. QED  BY <2>3, <2>6, MovesOnly
<1>2. CASE LockRow(a) \/ Satisfied(a)
  <2>1. /\ Others(a) /\ tx[a].pc = "locking"
        /\ tx'[a].op = tx[a].op /\ tx'[a].target = tx[a].target
        /\ tx'[a].slots = tx[a].slots /\ tx'[a].snap = tx[a].snap
        /\ tx'[a].jobRows = tx[a].jobRows /\ tx'[a].pc \in {"locking", "ready"}
    BY <1>2, LockRowFields, SatisfiedFields DEF LockRow, Satisfied
  <2>2. CoveredFor(a)'
    BY <2>1 DEF JobFor, CoveredFor, Creating, Present, Exists
  <2>3. LockedFor(a)' /\ NewFor(a)' /\ OwingFor(a)' /\ TargetFor(a)'
    BY <2>1 DEF JobFor, LockedFor, NewFor, OwingFor, TargetFor, Unblocking
  <2>4. JobFor(a)'
    BY <2>2, <2>3 DEF JobFor
  <2>5. QED  BY <2>1, <2>4, MovesOnly
<1>3. CASE CloseWrite(a)
  <2>1. /\ Others(a) /\ tx'[a].op = "close" /\ tx'[a].pc = "unblocking"
        /\ tx'[a].src = tx[a].src /\ tx'[a].jobRows = tx[a].jobRows
        /\ tx'[a].newJobs = JobsFor(tx[a].src)
    BY <1>3, CloseWriteFields
  <2>2. tx[a].src \in CaseIds
    BY <1>3 DEF CloseWrite, Running, Once, CloserHolds, TInv, TypeOK, Tx
  <2>3. NewFor(a)'
    BY <2>1 DEF NewFor, JobsFor
  <2>4. OwingFor(a)'
    <3> SUFFICES ASSUME NEW t \in Queues, <<cases'[tx'[a].src].queue, t>> \in CloseTriggers
                 PROVE  <<tx[a].src, t>> \in JobsFor(tx[a].src) \/ Answered(tx[a].src, t)
      BY <2>1 DEF OwingFor, Answered, Tombstone
    <3>1. <<tx[a].src, t>> \in JobKeys /\ <<cases[tx[a].src].queue, t>> \in CloseTriggers
      BY <2>1, <2>2 DEF JobKeys
    <3>2. QED  BY <3>1 DEF JobsFor, Answered, Tombstone
  <2>5. LockedFor(a)' /\ TargetFor(a)' /\ CoveredFor(a)'
    BY <2>1 DEF JobFor, LockedFor, TargetFor, CoveredFor, Creating
  <2>6. JobFor(a)'
    BY <2>3, <2>4, <2>5 DEF JobFor
  <2>7. QED  BY <2>1, <2>6, MovesOnly
<1>4. CASE RecoverUpdate(a)
  <2>1. tx[a].op = "recover" /\ tx[a].pc \in {"created", "rolledBack"}
    BY <1>4 DEF RecoverUpdate
  <2>2. /\ Others(a) /\ tx'[a].op = tx[a].op /\ tx'[a].target = tx[a].target
        /\ tx'[a].pc = IF tx[a].pc = "created" THEN "superseding" ELSE "recording"
        /\ tx'[a].snap = OpenJobs(tx[a].target) /\ tx'[a].jobRows = tx[a].jobRows
    BY <1>4, RecoverUpdateFields
  <2>3. \A j \in OpenJobs(tx[a].target) : j[2] = tx[a].target
    BY DEF OpenJobs
  <2>4. TargetFor(a)'
    BY <2>1, <2>2, <2>3 DEF JobFor, TargetFor
  <2>5. CoveredFor(a)'
    BY <2>1, <2>2 DEF JobFor, CoveredFor, Creating, Present, Exists
  <2>6. LockedFor(a)' /\ NewFor(a)' /\ OwingFor(a)'
    BY <2>1, <2>2 DEF JobFor, LockedFor, NewFor, OwingFor, Unblocking
  <2>7. JobFor(a)'
    BY <2>4, <2>5, <2>6 DEF JobFor
  <2>8. QED  BY <2>2, <2>7, MovesOnly
<1>5. ASSUME NEW j \in JobKeys, LockJob(a, j) PROVE Outbox' /\ Grows
  <2>1. /\ Others(a) /\ tx'[a].op = tx[a].op /\ tx'[a].pc = tx[a].pc
        /\ tx'[a].src = tx[a].src /\ tx'[a].target = tx[a].target
        /\ tx'[a].slots = tx[a].slots /\ tx'[a].snap = tx[a].snap \ {j}
        /\ tx'[a].newJobs = tx[a].newJobs
        /\ \/ tx'[a].jobRows = tx[a].jobRows
           \/ tx'[a].jobRows = tx[a].jobRows \cup {j} /\ jobs[j].state = "open"
    BY <1>5, LockJobFields
  <2>2. j \in tx[a].snap
    BY <1>5 DEF LockJob
  <2>3. LockedFor(a)'
    BY <2>1 DEF JobFor, LockedFor
  <2>4. TargetFor(a)'
    BY <2>1, <2>2 DEF JobFor, TargetFor
  <2>5. NewFor(a)' /\ OwingFor(a)'
    BY <2>1 DEF JobFor, NewFor, OwingFor, Unblocking, Answered, Tombstone
  <2>6. CoveredFor(a)'
    BY <2>1 DEF JobFor, CoveredFor, Creating, Present, Exists
  <2>7. JobFor(a)'
    BY <2>3, <2>4, <2>5, <2>6 DEF JobFor
  <2>8. QED  BY <2>1, <2>7, MovesOnly
<1>6. QED
  BY <1>1, <1>2, <1>3, <1>4, <1>5

(* A transaction that ends without writing, or goes back to its savepoint. *)
LEMMA OutboxEnds ==
  ASSUME TInv, Locks, Once, Outbox, NEW a \in Actors,
         \/ NoSelection(a) \/ Refused(a) \/ DeadlockAbort(a) \/ TransientError(a) \/ Crash(a)
         \/ \E S \in SUBSET SubMerchants : SelectSubMerchants(a, S)
  PROVE  Outbox' /\ Grows
<1>1. UNCHANGED <<cases, jobs>>
  BY DEF NoSelection, Refused, DeadlockAbort, TransientError, Crash, SelectSubMerchants
<1>2. \/ Set(a, IdleTx)
      \/ /\ tx[a].op \in {"job", "recover"}
         /\ \E err \in Errors : Set(a, RolledBack(tx[a], err))
  <2>1. CASE NoSelection(a)
    BY <2>1 DEF NoSelection, Errors, TInv, HasTarget, Targeted
  <2>2. CASE Refused(a)
    BY <2>2 DEF Refused, Errors
  <2>3. CASE DeadlockAbort(a) \/ TransientError(a)
    BY <2>3 DEF DeadlockAbort, TransientError, Abort, Errors
  <2>4. CASE Crash(a) \/ \E S \in SUBSET SubMerchants : SelectSubMerchants(a, S)
    BY <2>4 DEF Crash, SelectSubMerchants
  <2>5. QED  BY <2>1, <2>2, <2>3, <2>4
<1>3. Others(a) /\ JobFor(a)'
  <2>1. CASE Set(a, IdleTx)
    BY <2>1, IdleFields, EndedKnows
  <2>2. ASSUME tx[a].op \in {"job", "recover"}, NEW err \in Errors, Set(a, RolledBack(tx[a], err))
        PROVE  Others(a) /\ JobFor(a)'
    BY <1>1, <2>2, RolledBackFields, RolledBackKnows
  <2>3. QED  BY <1>2, <2>1, <2>2
<1>4. QED  BY <1>1, <1>3, MovesOnly

(* A transaction that begins: a worker's has its job, the others none. *)
LEMMA OutboxBegins ==
  ASSUME TInv, Locks, Once, Outbox,
         \/ \E w \in Workers, j \in JobKeys : Claim(w, j)
         \/ \E r \in Requests : StaffBegins(r)
  PROVE  Outbox' /\ Grows
<1>1. ASSUME NEW w \in Workers, NEW j \in JobKeys, Claim(w, j) PROVE Outbox' /\ Grows
  <2>1. w \in Actors /\ UNCHANGED <<cases, jobs>> /\ jobs[j].state = "open"
    BY <1>1 DEF Claim, Actors
  <2>2. /\ Others(w) /\ tx'[w].op = "job" /\ tx'[w].pc = "claimed" /\ tx'[w].target = j[2]
        /\ tx'[w].snap = {} /\ tx'[w].jobRows = {j}
    BY <1>1, ClaimFields
  <2>3. JobFor(w)'
    BY <2>1, <2>2 DEF JobFor, LockedFor, NewFor, OwingFor, TargetFor, CoveredFor, Unblocking,
       Creating
  <2>4. QED  BY <2>1, <2>2, <2>3, MovesOnly
<1>2. ASSUME NEW r \in Requests, StaffBegins(r) PROVE Outbox' /\ Grows
  <2>1. r \in Actors /\ UNCHANGED <<cases, jobs>>
    BY <1>2 DEF Actors, StaffBegins, SelectBegin, CloseBegin, RecoverBegin, CreateBegin
  <2>2. /\ Others(r) /\ tx'[r].snap = {} /\ tx'[r].jobRows = {}
        /\ tx'[r].pc \in {"ready", "candidate", "locking"}
        /\ tx'[r].op = "recover" => tx'[r].pc = "candidate"
        /\ tx'[r].op # "job"
    BY <1>2, StaffFields
  <2>3. JobFor(r)'
    BY <2>2 DEF JobFor, LockedFor, NewFor, OwingFor, TargetFor, CoveredFor, Unblocking,
       Creating
  <2>4. QED  BY <2>1, <2>2, <2>3, MovesOnly
<1>3. QED  BY <1>1, <1>2

LEMMA OutboxStep == TInv /\ Locks /\ Once /\ Outbox /\ [Next]_vars => Outbox' /\ Grows
<1> SUFFICES ASSUME TInv, Locks, Once, Outbox, [Next]_vars PROVE Outbox' /\ Grows
  OBVIOUS
<1>1. CASE UNCHANGED vars
  <2>1. UNCHANGED <<cases, jobs, tx>>
    BY <1>1 DEF vars
  <2>2. Grows /\ Repaid
    BY <2>1, NothingGrows DEF Repaid, Succeeded
  <2>3. QED  BY <2>1, <2>2, Statement
<1>2. ASSUME NEW a \in Actors, Step(a) PROVE Outbox' /\ Grows
  BY <1>2, OutboxMoves, OutboxEnds, JobCommitOutbox, RecoverCommitOutbox, CloseCommitOutbox,
     RecoverFinishOutbox, JobFailOutbox, CreateCommitOutbox DEF Step
<1>3. CASE Environment
  BY <1>3, OutboxEnds, TimeOutbox, StatusOutbox DEF Environment
<1>4. QED
  BY <1>1, <1>2, <1>3, OutboxBegins DEF Next

LEMMA OutboxInit == Init => Outbox
<1> SUFFICES ASSUME Init PROVE Outbox
  OBVIOUS
<1>1. \A j \in JobKeys : jobs[j].state = "absent"
  BY DEF Init, NoJob
<1>2. TombstoneIsProof
  BY <1>1 DEF TombstoneIsProof, Tombstone
<1>3. CloseIsOwed
  <2>1. ASSUME NEW k \in CaseIds PROVE ~Succeeded(k)
    <3>1. CASE \E q \in StartQueues : StartCase[q] = k
      <4>1. PICK q : cases[k] = [NoCase EXCEPT !.queue = q, !.origin = "start", !.status = "open"]
        BY <3>1 DEF Init
      <4>2. QED  BY <4>1 DEF NoCase, Succeeded
    <3>2. CASE ~\E q \in StartQueues : StartCase[q] = k
      BY <3>2 DEF Init, NoCase, Succeeded
    <3>3. QED  BY <3>1, <3>2
  <2>2. QED  BY <2>1 DEF CloseIsOwed
<1>4. ASSUME NEW a \in Actors PROVE JobFor(a)
  <2>1. tx[a] = IdleTx
    BY DEF Init
  <2>2. QED
    BY <2>1 DEF IdleTx, JobFor, LockedFor, NewFor, OwingFor, TargetFor, CoveredFor,
       Unblocking, Creating
<1>5. QED  BY <1>2, <1>3, <1>4 DEF Outbox

-----------------------------------------------------------------------------
(* The theorems *)

LEMMA OutboxAlways == Spec => [](TInv /\ Locks /\ Once /\ Outbox)
<1>1. Init => TInv /\ Locks /\ Once /\ Outbox
  BY TypeInit, OnceInit, OutboxInit
<1>2. TInv /\ Locks /\ Once /\ Outbox /\ [Next]_vars => (TInv /\ Locks /\ Once /\ Outbox)'
  BY TypeStep, LocksStep, OnceStep, OutboxStep
<1>3. QED
  BY <1>1, <1>2, PTL DEF Spec

(* Once a case is closed successfully, each close trigger of its queue has  *)
(* a job or was answered before: the trigger of 0075 inserts the jobs in    *)
(* the transaction of the close, so no crash can come between them.         *)
THEOREM CloseRemembered == Spec => []CloseIsOwed
<1>1. TInv /\ Locks /\ Once /\ Outbox => CloseIsOwed
  BY DEF Outbox
<1>2. QED
  BY <1>1, OutboxAlways, PTL

(* A job with completed_at set has a target case, whether a worker          *)
(* completed it (processCaseFlowCloseJobs) or a recovery action superseded  *)
(* it with a later statement (createMissingCloseTriggerCases).              *)
THEOREM CompletionIsTrue == Spec => []TombstoneIsProof
<1>1. TInv /\ Locks /\ Once /\ Outbox => TombstoneIsProof
  BY DEF Outbox
<1>2. QED
  BY <1>1, OutboxAlways, PTL

(* No close, retry, recovery or unblocking ever touches a completed job,    *)
(* although each of them may have chosen its rows before they waited for    *)
(* the lock of the transaction that completed it.                           *)
THEOREM CompletionIsFinal == Spec => DoneJobsStayDone
<1>1. TInv /\ Locks /\ Once /\ Outbox /\ [Next]_vars =>
        [\A j \in JobKeys : jobs[j].state = "done" => jobs'[j] = jobs[j]]_vars
  BY OutboxStep DEF Grows
<1>2. QED
  BY <1>1, OutboxAlways, PTL DEF Spec, DoneJobsStayDone

-----------------------------------------------------------------------------
(***************************************************************************)
(* Part 3. Locks are taken in an order that lets no transactions wait for  *)
(* one another in a circle while they create cases, and they keep the      *)
(* rules of the flow true from the check until the commit that relies on   *)
(* it.                                                                     *)
(***************************************************************************)

-----------------------------------------------------------------------------
(* The order of the locks *)

(* A transaction that closes no case locks its case rows in ascending       *)
(* order, has no lock on cases or targets outside its creation, and visits  *)
(* jobs only as a recovery, in the statement after it.                      *)
OrderFor(a) ==
  /\ tx[a].op \notin {"close", "recover"} => tx[a].snap = {}
  /\ tx[a].op # "close" =>
       /\ tx[a].pc \notin {"superseding", "recording"} => tx[a].snap = {}
       /\ tx[a].pc \notin {"locking", "ready"} => tx[a].adv = NoQueue /\ tx[a].rows = {}
       /\ \A k \in tx[a].rows, l \in tx[a].want : k < l

Ordered == \A a \in Actors : OrderFor(a)

LEMMA OrderLocal ==
  ASSUME Ordered, NEW a \in Actors, Others(a), OrderFor(a)'
  PROVE  Ordered'
  BY DEF Ordered, Others, OrderFor

LEMMA OrderReleased ==
  ASSUME TInv, Ordered, NEW a \in Actors, Set(a, IdleTx)
  PROVE  Ordered'
  BY IdleFields, OrderLocal DEF Released, OrderFor

LEMMA OrderRolledBack ==
  ASSUME TInv, Ordered, NEW a \in Actors, NEW err \in Errors, tx[a].op \in {"job", "recover"},
         tx[a].pc \in {"claimed", "candidate", "locking", "ready"},
         Set(a, RolledBack(tx[a], err))
  PROVE  Ordered'
<1>1. OrderFor(a)
  BY DEF Ordered
<1>2. QED
  BY <1>1, RolledBackFields, OrderLocal DEF OrderFor

LEMMA OrderStep == TInv /\ Ordered /\ [Next]_vars => Ordered'
<1> SUFFICES ASSUME TInv, Ordered, [Next]_vars PROVE Ordered'
  OBVIOUS
<1>1. ASSUME NEW a \in Actors, TakeAdvisory(a) PROVE Ordered'
  <2>1. tx[a].pc \in {"claimed", "candidate"} /\ tx[a].op \in {"job", "recover"} /\ OrderFor(a)
    BY <1>1 DEF TakeAdvisory, TInv, HasTarget, Targeted, Ordered
  <2>2. /\ Others(a) /\ tx'[a].op = tx[a].op /\ tx'[a].rows = tx[a].rows
        /\ tx'[a].snap = tx[a].snap /\ tx'[a].pc \in {"ready", "locking"}
    BY <1>1, TakeAdvisoryFields
  <2>3. OrderFor(a)'
    BY <2>1, <2>2 DEF OrderFor
  <2>4. QED  BY <2>2, <2>3, OrderLocal
<1>2. ASSUME NEW a \in Actors, NoSelection(a) \/ Refused(a) PROVE Ordered'
  <2>1. \/ Set(a, IdleTx)
        \/ /\ tx[a].op \in {"job", "recover"}
           /\ tx[a].pc \in {"claimed", "candidate", "locking"}
           /\ \E err \in Errors : Set(a, RolledBack(tx[a], err))
    BY <1>2 DEF NoSelection, Refused, TInv, HasTarget, Targeted, Errors
  <2>2. QED  BY <2>1, OrderReleased, OrderRolledBack
<1>3. ASSUME NEW a \in Actors, LockRow(a) PROVE Ordered'
  <2>1. OrderFor(a) /\ tx[a].pc = "locking" /\ tx[a].want \in SUBSET CaseIds
    BY <1>3 DEF Ordered, LockRow, TInv, TypeOK, Tx
  <2>2. PICK k \in CaseIds :
          /\ NextRow(a, k) /\ Others(a)
          /\ tx'[a].op = tx[a].op /\ tx'[a].pc = tx[a].pc /\ tx'[a].adv = tx[a].adv
          /\ tx'[a].want = tx[a].want \ {k} /\ tx'[a].rows = tx[a].rows \cup {k}
          /\ tx'[a].snap = tx[a].snap
    BY <1>3, LockRowFields
  <2>3. \A l \in tx[a].want \ {k} : k < l
    BY <2>1, <2>2, FlowAssumption DEF NextRow, CaseIds
  <2>4. OrderFor(a)'
    BY <2>1, <2>2, <2>3 DEF OrderFor
  <2>5. QED  BY <2>2, <2>4, OrderLocal
<1>4. ASSUME NEW a \in Actors, Satisfied(a) PROVE Ordered'
  <2>1. OrderFor(a) /\ tx[a].pc = "locking"
    BY <1>4 DEF Ordered, Satisfied
  <2>2. OrderFor(a)'
    BY <1>4, <2>1, SatisfiedFields DEF OrderFor
  <2>3. QED  BY <1>4, <2>2, SatisfiedFields, OrderLocal
<1>5. ASSUME NEW a \in Actors,
             JobCommit(a) \/ JobFail(a) \/ CloseCommit(a) \/ RecoverFinish(a)
             \/ CreateCommit(a) \/ Crash(a)
             \/ \E S \in SUBSET SubMerchants : SelectSubMerchants(a, S)
      PROVE  Ordered'
  BY <1>5, OrderReleased DEF JobCommit, JobFail, CloseCommit, RecoverFinish,
     CreateCommit, Crash, SelectSubMerchants
<1>6. ASSUME NEW a \in Actors, DeadlockAbort(a) \/ TransientError(a) PROVE Ordered'
  <2>1. \/ Set(a, IdleTx)
        \/ /\ tx[a].op \in {"job", "recover"}
           /\ tx[a].pc \in {"claimed", "candidate", "locking", "ready"}
           /\ Set(a, RolledBack(tx[a], "transient"))
    BY <1>6 DEF DeadlockAbort, TransientError, Abort
  <2>2. "transient" \in Errors
    BY DEF Errors
  <2>3. QED  BY <2>1, <2>2, OrderReleased, OrderRolledBack
<1>7. ASSUME NEW w \in Workers, NEW j \in JobKeys, Claim(w, j) PROVE Ordered'
  <2>1. w \in Actors
    BY DEF Actors
  <2>2. OrderFor(w)'
    BY <1>7, ClaimFields DEF OrderFor
  <2>3. QED  BY <1>7, <2>1, <2>2, ClaimFields, OrderLocal
<1>8. ASSUME NEW r \in Requests, StaffBegins(r) PROVE Ordered'
  <2>1. r \in Actors /\ r \notin Workers
    BY FlowAssumption DEF Actors
  <2>2. OrderFor(r)'
    BY <1>8, <2>1, StaffFields DEF OrderFor
  <2>3. QED  BY <1>8, <2>1, <2>2, StaffFields, OrderLocal
<1>9. ASSUME NEW a \in Actors, CloseWrite(a) PROVE Ordered'
  <2>1. tx[a].op = "close" /\ OrderFor(a)
    BY <1>9 DEF CloseWrite, Running, Ordered
  <2>2. OrderFor(a)'
    BY <1>9, <2>1, CloseWriteFields DEF OrderFor
  <2>3. QED  BY <1>9, <2>2, CloseWriteFields, OrderLocal
<1>10. ASSUME NEW a \in Actors, RecoverUpdate(a) PROVE Ordered'
  <2>1. tx[a].op = "recover" /\ tx[a].pc \in {"created", "rolledBack"} /\ OrderFor(a)
    BY <1>10 DEF RecoverUpdate, Ordered
  <2>2. OrderFor(a)'
    BY <1>10, <2>1, RecoverUpdateFields DEF OrderFor
  <2>3. QED  BY <1>10, <2>2, RecoverUpdateFields, OrderLocal
<1>11. ASSUME NEW a \in Actors, NEW j \in JobKeys, LockJob(a, j) PROVE Ordered'
  <2>1. j \in tx[a].snap /\ OrderFor(a)
    BY <1>11 DEF LockJob, Ordered
  <2>2. OrderFor(a)'
    BY <1>11, <2>1, LockJobFields DEF OrderFor
  <2>3. QED  BY <1>11, <2>2, LockJobFields, OrderLocal
<1>12. ASSUME NEW a \in Actors, RecoverCommit(a) PROVE Ordered'
  <2>1. tx[a].op = "recover" /\ OrderFor(a)
    BY <1>12 DEF RecoverCommit, Running, Ordered
  <2>2. OrderFor(a)'
    BY <1>12, <2>1, RecoverCommitFields DEF OrderFor
  <2>3. QED  BY <1>12, <2>2, RecoverCommitFields, OrderLocal
<1>13. CASE UNCHANGED tx
  BY <1>13 DEF Ordered, OrderFor
<1>14. ASSUME NEW a \in Actors, Step(a) PROVE Ordered'
  BY <1>14, <1>1, <1>2, <1>3, <1>4, <1>5, <1>6, <1>9, <1>10, <1>11, <1>12 DEF Step
<1>15. CASE Environment
  BY <1>5, <1>6, <1>13, <1>15
     DEF Environment, CloseUnsuccessful, Reopen, RollBackAgreement, TerminateMerchant, Tick, RetryJob
<1>16. QED
  BY <1>7, <1>8, <1>13, <1>14, <1>15 DEF Next, vars

LEMMA OrderInit == Init => Ordered
<1> SUFFICES ASSUME Init, NEW a \in Actors PROVE OrderFor(a)
  BY DEF Ordered
<1>1. tx[a] = IdleTx
  BY DEF Init
<1>2. QED  BY <1>1 DEF IdleTx, OrderFor

(* A set of case ids has a greatest one: the least distance from the bound. *)
LEMMA GreatestCase ==
  ASSUME NEW K \in SUBSET CaseIds, K # {}
  PROVE  \E k \in K : \A l \in K : l <= k
<1> DEFINE Less == {x \in Nat \X Nat : x[1] < x[2]}
           Below == {n \in Nat : \E k \in K : n = MaxCases - k}
<1>1. K \subseteq 1 .. MaxCases /\ MaxCases \in Nat
  BY FlowAssumption DEF CaseIds
<1>2. Below \subseteq Nat /\ Below # {}
  <2>1. PICK k \in K : TRUE
    OBVIOUS
  <2>2. MaxCases - k \in Below
    BY <1>1, <2>1
  <2> QED  BY <2>2
<1>3. PICK n \in Below : \A m \in Below : ~(<<m, n>> \in Less)
  <2>1. IsWellFoundedOn(Less, Nat)
    BY NatLessThanWellFounded DEF OpToRel
  <2> HIDE DEF Less, Below
  <2> QED  BY <1>2, <2>1, WFMin
<1>4. PICK k \in K : n = MaxCases - k
  BY <1>3
<1>5. ASSUME NEW l \in K PROVE l <= k
  <2>1. MaxCases - l \in Below /\ MaxCases - l \in Nat /\ n \in Nat
    BY <1>1, <1>4
  <2>2. ~(MaxCases - l < n)
    BY <1>3, <2>1
  <2> QED  BY <1>1, <1>4, <2>2
<1> QED  BY <1>5

-----------------------------------------------------------------------------
(* The source of a creation is locked with the prerequisites *)

(* A worker or a recovery that has not created yet. *)
Begun(a) ==
  /\ tx[a].op \in {"job", "recover"}
  /\ tx[a].pc \in {"claimed", "candidate", "locking", "ready"}

(* Case k is one of those the creation of a has to lock. *)
Required(a, k) ==
  Exists(k) /\ cases[k].queue \in Prerequisites(CreationRequirements, tx[a].target)

(* A creation has a source; it locks cases of its target's prerequisites    *)
(* only, and its source among them if that is one.                          *)
SourceFor(a) ==
  /\ Begun(a) => tx[a].src \in CaseIds /\ Exists(tx[a].src)
  /\ tx[a].op # "close" => \A k \in tx[a].rows \cup tx[a].want : Required(a, k)
  /\ Creating(a) /\ tx[a].slots # {} /\ Required(a, tx[a].src) =>
       tx[a].src \in tx[a].rows \cup tx[a].want
  /\ Creating(a) /\ tx[a].pc = "ready" => tx[a].want = {}

JobsHaveSources == \A j \in JobKeys : jobs[j].state # "absent" => Exists(j[1])

Sourced == JobsHaveSources /\ \A a \in Actors : SourceFor(a)

(* No job appears in the step. *)
NoNewJob == \A j \in JobKeys : jobs'[j].state # "absent" => jobs[j].state # "absent"

LEMMA JobsKeepSources ==
  ASSUME JobsHaveSources, Grows, NoNewJob
  PROVE  JobsHaveSources'
<1>1. \A j \in JobKeys : j[1] \in CaseIds
  BY DEF JobKeys
<1>2. QED  BY <1>1 DEF JobsHaveSources, Grows, NoNewJob

LEMMA RequiredStays ==
  ASSUME Grows, NEW a \in Actors, tx'[a].target = tx[a].target, NEW k \in CaseIds, Exists(k)
  PROVE  Required(a, k)' <=> Required(a, k)
  BY DEF Grows, Required

(* A transaction that stands still, or keeps what SourceFor speaks of. *)
LEMMA SourceStands ==
  ASSUME TInv, Grows, NEW a \in Actors, SourceFor(a),
         tx'[a].op = tx[a].op, tx'[a].pc = tx[a].pc, tx'[a].src = tx[a].src,
         tx'[a].target = tx[a].target, tx'[a].slots = tx[a].slots,
         tx'[a].rows \cup tx'[a].want = tx[a].rows \cup tx[a].want,
         tx'[a].want \subseteq tx[a].want
  PROVE  SourceFor(a)'
<1>1. tx[a].rows \cup tx[a].want \subseteq CaseIds
  BY DEF TInv, TypeOK, Tx
<1>2. PICK m : m = tx[a].src /\ m = tx'[a].src
  OBVIOUS
<1>6. Begun(a)' => Begun(a) /\ m \in CaseIds /\ Exists(m) /\ Exists(m)'
  <2>1. Begun(a)' => Begun(a) /\ m \in CaseIds /\ Exists(m)
    BY <1>2 DEF Begun, SourceFor
  <2>2. QED  BY <2>1 DEF Grows
<1>3. tx'[a].op # "close" => \A k \in tx'[a].rows \cup tx'[a].want : Required(a, k)'
  <2> SUFFICES ASSUME tx'[a].op # "close", NEW k \in tx[a].rows \cup tx[a].want
               PROVE  Required(a, k)'
    OBVIOUS
  <2>1. Required(a, k) /\ k \in CaseIds
    BY <1>1 DEF SourceFor
  <2>2. QED  BY <2>1, RequiredStays DEF Required
<1>4. Creating(a)' /\ tx'[a].slots # {} /\ Required(a, m)' =>
        m \in tx'[a].rows \cup tx'[a].want
  <2> SUFFICES ASSUME Creating(a)', tx'[a].slots # {}, Required(a, m)'
               PROVE  m \in tx[a].rows \cup tx[a].want
    OBVIOUS
  <2>1. Creating(a) /\ Begun(a)'
    BY DEF Creating, Begun
  <2>2. Required(a, m)
    BY <1>6, <2>1, RequiredStays
  <2>3. QED  BY <1>2, <2>1, <2>2 DEF SourceFor
<1>5. Creating(a)' /\ tx'[a].pc = "ready" => tx'[a].want = {}
  BY DEF SourceFor, Creating
<1>7. QED  BY <1>2, <1>3, <1>4, <1>5, <1>6 DEF SourceFor, Required, Exists

(* A transaction outside a creation that has no case rows to lock. *)
LEMMA SourceNone ==
  ASSUME NEW a \in Actors, tx'[a].rows = {}, tx'[a].want = {},
         tx'[a].op \in {"job", "recover"} =>
           tx'[a].pc \notin {"claimed", "candidate", "locking", "ready"}
  PROVE  SourceFor(a)'
  BY DEF SourceFor, Begun, Creating

LEMMA SourceMoves ==
  ASSUME TInv, Sourced, Grows, JobsHaveSources', NEW a \in Actors, Others(a), SourceFor(a)'
  PROVE  Sourced'
<1>1. ASSUME NEW b \in Actors, b # a PROVE SourceFor(b)'
  <2>1. tx'[b] = tx[b] /\ SourceFor(b)
    BY <1>1 DEF Others, Sourced
  <2>2. QED  BY <2>1, SourceStands
<1>2. QED  BY <1>1 DEF Sourced

LEMMA SourceEnds ==
  ASSUME TInv, Sourced, Grows, JobsHaveSources', NEW a \in Actors,
         Set(a, IdleTx) \/ \E err \in Errors : Set(a, RolledBack(tx[a], err))
  PROVE  Sourced'
<1>1. Others(a) /\ SourceFor(a)'
  BY IdleFields, RolledBackFields, SourceNone DEF Released
<1>2. QED  BY <1>1, SourceMoves

(* Only a close inserts jobs, and they name the case it holds. *)
LEMMA SourcesOfJobs ==
  ASSUME TInv, Once, Outbox, Sourced, Grows, [Next]_vars
  PROVE  JobsHaveSources'
<1>0. JobsHaveSources
  BY DEF Sourced
<1>1. CASE UNCHANGED jobs
  BY <1>0, <1>1, JobsKeepSources DEF NoNewJob
<1>2. ASSUME NEW a \in Actors, JobCommit(a) PROVE JobsHaveSources'
  <2>1. \A j \in JobKeys : j \notin tx[a].jobRows => jobs'[j] = jobs[j]
    BY <1>2, JobCommitJobs
  <2>2. \A j \in tx[a].jobRows : jobs[j].state = "open"
    BY DEF Outbox, JobFor, LockedFor
  <2>3. NoNewJob
    BY <2>1, <2>2 DEF NoNewJob
  <2>4. QED  BY <1>0, <2>3, JobsKeepSources
<1>3. ASSUME NEW a \in Actors, JobFail(a) PROVE JobsHaveSources'
  <2>1. NoNewJob
    BY <1>3, JobFailJobs DEF NoNewJob
  <2>2. QED  BY <1>0, <2>1, JobsKeepSources
<1>4. ASSUME NEW a \in Actors, RecoverFinish(a) PROVE JobsHaveSources'
  <2>1. NoNewJob
    BY <1>4, RecoverFinishJobs DEF NoNewJob
  <2>2. QED  BY <1>0, <2>1, JobsKeepSources
<1>5. ASSUME NEW a \in Actors, CloseCommit(a) PROVE JobsHaveSources'
  <2>1. Unblocking(a) /\ JobFor(a) /\ tx[a].src \in CaseIds /\ Exists(tx[a].src)
    BY <1>5 DEF CloseCommit, Running, Unblocking, Outbox, Once, CloserHolds, TInv, TypeOK, Tx
  <2>2. ASSUME NEW j \in JobKeys, jobs'[j].state # "absent" PROVE Exists(j[1])'
    <3>1. j[1] \in CaseIds
      BY DEF JobKeys
    <3>2. j[1] = tx[a].src \/ jobs[j].state # "absent"
      BY <1>5, <2>1, <2>2, CloseCommitJobs DEF JobFor, NewFor
    <3>3. Exists(j[1])
      BY <1>0, <2>1, <3>2 DEF JobsHaveSources
    <3>4. QED  BY <3>1, <3>3 DEF Grows
  <2>3. QED  BY <2>2 DEF JobsHaveSources
<1>6. ASSUME NEW j \in JobKeys, Tick(j) \/ RetryJob(j) PROVE JobsHaveSources'
  <2>1. NoNewJob
    BY <1>6, TimeJobs DEF NoNewJob
  <2>2. QED  BY <1>0, <2>1, JobsKeepSources
<1>7. ASSUME NEW a \in Actors, Step(a) PROVE JobsHaveSources'
  BY <1>7, <1>1, <1>2, <1>3, <1>4, <1>5
     DEF Step, TakeAdvisory, NoSelection, LockRow, Satisfied, Refused, CloseWrite, LockJob,
         RecoverCommit, RecoverUpdate, CreateCommit, SelectSubMerchants, DeadlockAbort
<1>8. CASE Environment
  BY <1>8, <1>1, <1>6
     DEF Environment, CloseUnsuccessful, Reopen, RollBackAgreement, TerminateMerchant,
         TransientError, Crash
<1>9. ASSUME NEW r \in Requests, StaffBegins(r) PROVE JobsHaveSources'
  BY <1>9, <1>1 DEF StaffBegins, SelectBegin, CloseBegin, RecoverBegin, CreateBegin
<1>10. QED
  BY <1>1, <1>7, <1>8, <1>9 DEF Next, Claim, vars

LEMMA SourceStep ==
  TInv /\ Once /\ Outbox /\ Ordered /\ Sourced /\ Grows /\ [Next]_vars => Sourced'
<1> SUFFICES ASSUME TInv, Once, Outbox, Ordered, Sourced, Grows, [Next]_vars PROVE Sourced'
  OBVIOUS
<1>0. JobsHaveSources'
  BY SourcesOfJobs
<1>1. ASSUME NEW a \in Actors, TakeAdvisory(a) PROVE Sourced'
  <2>1. /\ tx[a].pc \in {"claimed", "candidate"} /\ tx[a].op \in {"job", "recover"}
        /\ OrderFor(a) /\ SourceFor(a) /\ UNCHANGED cases
    BY <1>1 DEF TakeAdvisory, TInv, HasTarget, Targeted, Ordered, Sourced
  <2>2. Begun(a) /\ tx[a].rows = {}
    BY <2>1 DEF Begun, OrderFor
  <2>3. tx[a].src \in CaseIds /\ Exists(tx[a].src)
    BY <2>1, <2>2 DEF SourceFor
  <2>4. /\ Others(a) /\ tx'[a].op = tx[a].op /\ tx'[a].src = tx[a].src
        /\ tx'[a].target = tx[a].target /\ tx'[a].rows = {}
        /\ tx'[a].slots = {} => tx'[a].want = {}
        /\ tx'[a].slots # {} =>
             /\ tx'[a].pc = "locking"
             /\ tx'[a].want = CasesIn(Prerequisites(CreationRequirements, tx[a].target))
    BY <1>1, <2>2, TakeAdvisoryFields
  <2>5. \A k \in CaseIds : Required(a, k)' <=>
          k \in CasesIn(Prerequisites(CreationRequirements, tx[a].target))
    BY <2>1, <2>4 DEF Required, CasesIn, Exists
  <2>6. \A k \in tx'[a].want : Required(a, k)'
    BY <2>4, <2>5 DEF CasesIn
  <2>7. PICK k : k = tx[a].src /\ k = tx'[a].src
    BY <2>4
  <2>8. /\ k \in CaseIds /\ Exists(k)'
        /\ tx'[a].slots # {} /\ Required(a, k)' => k \in tx'[a].want
    BY <2>1, <2>3, <2>4, <2>5, <2>7 DEF Exists
  <2>9. SourceFor(a)'
    BY <2>1, <2>4, <2>6, <2>7, <2>8 DEF SourceFor, Creating, Begun, Required, Exists
  <2>10. QED  BY <1>0, <2>4, <2>9, SourceMoves
<1>2. ASSUME NEW a \in Actors,
             \/ NoSelection(a) \/ Refused(a) \/ JobCommit(a) \/ JobFail(a) \/ CloseCommit(a)
             \/ RecoverFinish(a) \/ CreateCommit(a) \/ DeadlockAbort(a)
             \/ TransientError(a) \/ Crash(a)
             \/ \E S \in SUBSET SubMerchants : SelectSubMerchants(a, S)
      PROVE  Sourced'
  <2>1. Set(a, IdleTx) \/ \E err \in Errors : Set(a, RolledBack(tx[a], err))
    BY <1>2 DEF NoSelection, Refused, JobCommit, JobFail, CloseCommit, RecoverFinish,
       CreateCommit, DeadlockAbort, TransientError, Crash, SelectSubMerchants, Abort, Errors
  <2>2. QED  BY <1>0, <2>1, SourceEnds
<1>3. ASSUME NEW a \in Actors, LockRow(a) PROVE Sourced'
  <2>1. SourceFor(a)
    BY DEF Sourced
  <2>2. PICK k \in CaseIds :
          /\ k \in tx[a].want /\ Others(a)
          /\ tx'[a].op = tx[a].op /\ tx'[a].pc = tx[a].pc /\ tx'[a].src = tx[a].src
          /\ tx'[a].target = tx[a].target /\ tx'[a].slots = tx[a].slots
          /\ tx'[a].want = tx[a].want \ {k} /\ tx'[a].rows = tx[a].rows \cup {k}
    BY <1>3, LockRowFields DEF NextRow
  <2>3. tx'[a].rows \cup tx'[a].want = tx[a].rows \cup tx[a].want
    BY <2>2
  <2>4. SourceFor(a)'
    BY <2>1, <2>2, <2>3, SourceStands
  <2>5. QED  BY <1>0, <2>2, <2>4, SourceMoves
<1>4. ASSUME NEW a \in Actors, Satisfied(a) PROVE Sourced'
  <2>1. SourceFor(a) /\ tx[a].pc = "locking" /\ tx[a].want = {} /\ UNCHANGED cases
    BY <1>4 DEF Sourced, Satisfied
  <2>2. /\ Others(a) /\ tx'[a].op = tx[a].op /\ tx'[a].src = tx[a].src
        /\ tx'[a].target = tx[a].target /\ tx'[a].slots = tx[a].slots
        /\ tx'[a].rows = tx[a].rows /\ tx'[a].want = {}
    BY <1>4, <2>1, SatisfiedFields
  <2>3. \A k : Required(a, k)' <=> Required(a, k)
    BY <2>1, <2>2 DEF Required, Exists
  <2>4. SourceFor(a)'
    BY <2>1, <2>2, <2>3 DEF SourceFor, Creating, Begun, Exists
  <2>5. QED  BY <1>0, <2>2, <2>4, SourceMoves
<1>5. ASSUME NEW a \in Actors, CloseWrite(a) PROVE Sourced'
  <2>1. SourceFor(a)'
    BY <1>5, CloseWriteFields DEF SourceFor, Begun, Creating
  <2>2. QED  BY <1>0, <1>5, <2>1, CloseWriteFields, SourceMoves
<1>6. ASSUME NEW a \in Actors, NEW j \in JobKeys, LockJob(a, j) PROVE Sourced'
  <2>1. SourceFor(a)
    BY DEF Sourced
  <2>2. SourceFor(a)'
    BY <1>6, <2>1, LockJobFields, SourceStands
  <2>3. QED  BY <1>0, <1>6, <2>2, LockJobFields, SourceMoves
<1>7. ASSUME NEW a \in Actors, RecoverUpdate(a) PROVE Sourced'
  <2>1. SourceFor(a) /\ UNCHANGED cases /\ tx[a].op = "recover"
    BY <1>7 DEF Sourced, RecoverUpdate
  <2>2. /\ Others(a) /\ tx'[a].op = tx[a].op /\ tx'[a].target = tx[a].target
        /\ tx'[a].pc \in {"superseding", "recording"}
        /\ tx'[a].rows = tx[a].rows /\ tx'[a].want = tx[a].want
    BY <1>7, RecoverUpdateFields
  <2>3. \A k : Required(a, k)' <=> Required(a, k)
    BY <2>1, <2>2 DEF Required, Exists
  <2>4. SourceFor(a)'
    BY <2>1, <2>2, <2>3 DEF SourceFor, Creating, Begun
  <2>5. QED  BY <1>0, <2>2, <2>4, SourceMoves
<1>8. ASSUME NEW a \in Actors, RecoverCommit(a) PROVE Sourced'
  <2>1. SourceFor(a)'
    BY <1>8, RecoverCommitFields, SourceNone
  <2>2. QED  BY <1>0, <1>8, <2>1, RecoverCommitFields, SourceMoves
<1>9. ASSUME NEW w \in Workers, NEW j \in JobKeys, Claim(w, j) PROVE Sourced'
  <2>1. w \in Actors /\ j[1] \in CaseIds /\ Exists(j[1]) /\ UNCHANGED cases
    BY <1>9 DEF Actors, JobKeys, Claim, Sourced, JobsHaveSources
  <2>2. SourceFor(w)'
    BY <1>9, <2>1, ClaimFields DEF SourceFor, Creating, Begun, Exists
  <2>3. QED  BY <1>0, <1>9, <2>1, <2>2, ClaimFields, SourceMoves
<1>10. ASSUME NEW r \in Requests, StaffBegins(r) PROVE Sourced'
  <2>1. r \in Actors /\ UNCHANGED cases
    BY <1>10 DEF Actors, StaffBegins, SelectBegin, CloseBegin, RecoverBegin, CreateBegin
  <2>2. \/ tx'[r].op = "close"
        \/ tx'[r].op = "select" /\ tx'[r].rows = {} /\ tx'[r].want = {}
        \/ /\ tx'[r].op = "recover" /\ tx'[r].pc = "candidate" /\ tx'[r].rows = {}
           /\ tx'[r].want = {} /\ tx'[r].src \in CaseIds /\ Succeeded(tx'[r].src)
        \/ /\ tx'[r].op = "create" /\ tx'[r].rows = {}
           /\ tx'[r].want = CasesIn(Prerequisites(CreationRequirements, tx'[r].target))
    BY <1>10, StaffFields
  <2>3. SourceFor(r)'
    BY <2>1, <2>2 DEF SourceFor, Creating, Begun, Required, CasesIn, Exists, Succeeded
  <2>4. QED  BY <1>0, <1>10, <2>1, <2>3, StaffFields, SourceMoves
<1>11. CASE UNCHANGED tx
  <2>1. ASSUME NEW a \in Actors PROVE SourceFor(a)'
    BY <1>11, SourceStands DEF Sourced
  <2>2. QED  BY <1>0, <2>1 DEF Sourced
<1>12. ASSUME NEW a \in Actors, Step(a) PROVE Sourced'
  BY <1>12, <1>1, <1>2, <1>3, <1>4, <1>5, <1>6, <1>7, <1>8 DEF Step
<1>13. CASE Environment
  BY <1>2, <1>11, <1>13
     DEF Environment, CloseUnsuccessful, Reopen, RollBackAgreement, TerminateMerchant, Tick,
         RetryJob
<1>14. QED
  BY <1>9, <1>10, <1>11, <1>12, <1>13 DEF Next, vars

LEMMA SourceInit == Init => Sourced
<1> SUFFICES ASSUME Init PROVE Sourced
  OBVIOUS
<1>1. JobsHaveSources
  BY DEF Init, NoJob, JobsHaveSources
<1>2. ASSUME NEW a \in Actors PROVE SourceFor(a)
  <2>1. tx[a] = IdleTx
    BY DEF Init
  <2>2. QED  BY <2>1 DEF IdleTx, SourceFor, Begun, Creating
<1>3. QED  BY <1>1, <1>2 DEF Sourced

-----------------------------------------------------------------------------
(* Circles *)

(* A creation never waits for its source behind another one of its target:  *)
(* what that one has locked is a prerequisite, and locked by the first.     *)
LEMMA LinksWaitElsewhere ==
  ASSUME TInv, Locks, Sourced, NEW a \in Actors, NEW b \in Actors, a # b,
         Links(a), tx[a].src \in tx[b].rows, tx[b].op # "close"
  PROVE  tx[a].target # tx[b].target
<1> SUFFICES ASSUME tx[a].target = tx[b].target PROVE FALSE
  OBVIOUS
<1>1. SourceFor(a) /\ SourceFor(b) /\ Creating(a)
  BY DEF Sourced, Links, Creating
<1>2. Required(b, tx[a].src)
  BY <1>1 DEF SourceFor
<1>3. Required(a, tx[a].src)
  BY <1>2 DEF Required
<1>4. tx[a].src \in tx[a].rows
  BY <1>1, <1>3 DEF SourceFor, Links
<1>5. QED  BY <1>4 DEF Locks, RowExclusive

(* Transactions of one target that close nothing and wait for one another   *)
(* in a circle: one that visits no jobs would wait for another that locks   *)
(* case rows, and the holder of the last of these rows waits for an earlier *)
(* one.                                                                     *)
LEMMA CirclesVisitJobs ==
  ASSUME TInv, Locks, Ordered, Sourced, NEW S \in SUBSET Actors,
         \A a \in S : tx[a].op # "close" /\ WaitsFor(a) \cap S # {},
         \A a, b \in S : tx[a].target = tx[b].target
  PROVE  \A a \in S : tx[a].op = "recover" /\ tx[a].snap # {}
<1> DEFINE Held == {k \in CaseIds : \E b \in S : k \in tx[b].rows}
<1>1. ASSUME NEW b \in S
      PROVE  /\ b \in Actors /\ OrderFor(b) /\ tx[b].op # "close"
             /\ tx[b].rows \in SUBSET CaseIds /\ tx[b].want \in SUBSET CaseIds
             /\ tx[b].pc \in {"claimed", "candidate"} => tx[b].target # NoQueue
  BY <1>1, FlowAssumption DEF TInv, TypeOK, Tx, HasTarget, Targeted, Ordered
<1>2. ASSUME NEW b \in S, NEW c \in S, tx[b].snap = {}, c \in WaitsFor(b)
      PROVE  \/ tx[b].pc \in {"claimed", "candidate"} /\ tx[c].adv = tx[b].target
             \/ tx[b].pc = "locking" /\ \E k \in tx[c].rows : NextRow(b, k)
  <2>1. b \in Actors /\ c \in Actors /\ b # c
    BY <1>2 DEF WaitsFor
  <2>2. ~(Links(b) /\ tx[b].src \in tx[c].rows)
    BY <1>1, <2>1, LinksWaitElsewhere
  <2> QED  BY <1>2, <2>2 DEF WaitsFor
<1>3. ASSUME NEW b \in S, NEW c \in S, tx[b].snap = {}, c \in WaitsFor(b)
      PROVE  tx[c].pc \in {"locking", "ready"} /\ tx[c].snap = {}
  <2>1. tx[c].adv # NoQueue \/ tx[c].rows # {}
    BY <1>1, <1>2, <1>3
  <2> QED  BY <1>1, <2>1 DEF OrderFor
<1>4. ASSUME NEW b \in S, tx[b].pc \in {"locking", "ready"}
      PROVE  \E k \in Held : NextRow(b, k)
  <2>1. tx[b].snap = {}
    BY <1>1, <1>4 DEF OrderFor
  <2>2. PICK c \in S : c \in WaitsFor(b)
    OBVIOUS
  <2>3. \E k \in tx[c].rows : NextRow(b, k)
    BY <1>2, <1>4, <2>1, <2>2
  <2> QED  BY <1>1, <2>3
<1>5. ASSUME NEW a \in S, tx[a].snap = {} PROVE FALSE
  <2>1. PICK b \in S : tx[b].pc \in {"locking", "ready"}
    BY <1>3, <1>5
  <2>2. Held # {} /\ Held \in SUBSET CaseIds
    BY <1>4, <2>1
  <2>3. PICK k \in Held : \A l \in Held : l <= k
    <3> HIDE DEF Held
    <3> QED  BY <2>2, GreatestCase
  <2>4. PICK d \in S : k \in tx[d].rows
    BY <2>3
  <2>5. tx[d].pc \in {"locking", "ready"}
    BY <1>1, <2>4 DEF OrderFor
  <2>6. PICK l \in Held : NextRow(d, l)
    BY <1>4, <2>5
  <2>7. k < l /\ l <= k /\ k \in Int /\ l \in Int
    BY <1>1, <2>3, <2>4, <2>6 DEF OrderFor, NextRow, CaseIds
  <2> QED  BY <2>7
<1> QED  BY <1>1, <1>5 DEF OrderFor

(* Workers, recoveries and manual creations of one target never wait for    *)
(* one another in a circle, however many there are: workers and recoveries  *)
(* lock the target first, all lock the prerequisite cases in ascending      *)
(* order, the source case of a link is free or locked already, and a        *)
(* recovery has given all of it up when it visits the jobs                  *)
(* (createMissingCloseTriggerCases completes them in a statement of its     *)
(* own). What is left to PostgreSQL to break are circles with a close in    *)
(* them, creations of different targets that link through each other's      *)
(* prerequisites, and two recoveries that visit the same jobs in different  *)
(* orders.                                                                  *)
THEOREM OneTargetNeverDeadlocks == Spec => []DeadlocksNeedTwoTargets
<1>1. Init => Ordered /\ Sourced
  BY OrderInit, SourceInit
<1>2. TInv /\ Locks /\ Once /\ Outbox /\ Ordered /\ Sourced /\ [Next]_vars =>
        (Ordered /\ Sourced)'
  BY OrderStep, OutboxStep, SourceStep
<1>3. TInv /\ Locks /\ Ordered /\ Sourced => DeadlocksNeedTwoTargets
  <2> SUFFICES ASSUME TInv, Locks, Ordered, Sourced, NEW S \in SUBSET Waiting,
                      \A a \in S : tx[a].op # "close" /\ WaitsFor(a) \cap S # {},
                      \A a, b \in S : tx[a].target = tx[b].target
               PROVE  \A a \in S : tx[a].op = "recover" /\ tx[a].snap # {}
    BY DEF DeadlocksNeedTwoTargets
  <2>1. S \in SUBSET Actors
    BY DEF Waiting
  <2>2. QED  BY <2>1, CirclesVisitJobs
<1>4. QED
  BY <1>1, <1>2, <1>3, OutboxAlways, PTL DEF Spec

-----------------------------------------------------------------------------
(* Rules that were checked stay true *)

Checked(a) == /\ tx[a].op \in {"job", "recover", "create", "close"}
              /\ tx[a].pc \in {"ready", "unblocking"}

(* A transaction past the check holds the cases that satisfied its rules;   *)
(* a creation that found nothing missing made no check.                     *)
RulesFor(a) ==
  /\ Checked(a) => RulesHold(a) \/ (tx[a].op \in {"job", "recover"} /\ tx[a].slots = {})
  /\ tx[a].op = "create" => \A s \in tx[a].slots : s.queue = tx[a].target

Ruled == \A a \in Actors : RulesFor(a)

(* What a step may do: succeed under its blockers, create under its         *)
(* requirements.                                                            *)
Lawful ==
  /\ \A k \in CaseIds : ~Succeeded(k) /\ Succeeded(k)' => BlockersMet(cases[k].queue)
  /\ \A k \in CaseIds : ~Exists(k) /\ Exists(k)' => RequirementsMet(cases'[k].queue)

LEMMA RulesUnlocked ==
  ASSUME NEW rows \in SUBSET CaseIds, NEW rules, NEW q, SatisfiedBy(rows, rules, q)
  PROVE  SatisfiedBy(CaseIds, rules, q)
  BY DEF SatisfiedBy

(* A transaction that stands still keeps its rules if nobody changes the    *)
(* successful cases it holds.                                               *)
LEMMA RulesStand ==
  ASSUME TInv, Once, Grows, NEW b \in Actors, RulesFor(b), tx'[b] = tx[b],
         \A k \in tx[b].rows : Succeeded(k) => cases'[k] = cases[k]
  PROVE  RulesFor(b)'
<1>1. tx[b].op = "close" /\ tx[b].pc # "idle" => cases'[tx[b].src].queue = cases[tx[b].src].queue
  BY DEF Once, CloserHolds, Grows, TInv, TypeOK, Tx
<1>2. ASSUME NEW rules, NEW q, SatisfiedBy(tx[b].rows, rules, q)
      PROVE  \A p \in Prerequisites(rules, q) :
               \E k \in tx[b].rows : cases'[k].queue = p /\ Succeeded(k)'
  BY <1>2 DEF SatisfiedBy, Succeeded
<1>3. Checked(b) /\ RulesHold(b) => RulesHold(b)'
  BY <1>1, <1>2 DEF Checked, RulesHold, SatisfiedBy
<1>4. QED  BY <1>3 DEF RulesFor, Checked

(* A step of a that changes no successful case but those a holds. *)
LEMMA RulesMove ==
  ASSUME TInv, Locks, Once, Grows, Ruled, NEW a \in Actors, Others(a), RulesFor(a)',
         \A k \in CaseIds : Succeeded(k) => cases'[k] = cases[k] \/ k \in tx[a].rows
  PROVE  Ruled'
<1>1. ASSUME NEW b \in Actors, b # a PROVE RulesFor(b)'
  <2>1. tx'[b] = tx[b] /\ RulesFor(b) /\ tx[b].rows \in SUBSET CaseIds
    BY <1>1 DEF Others, Ruled, TInv, TypeOK, Tx
  <2>2. \A k \in tx[b].rows : k \notin tx[a].rows
    BY <1>1 DEF Locks, RowExclusive
  <2>3. QED  BY <2>1, <2>2, RulesStand
<1>2. QED  BY <1>1 DEF Ruled

LEMMA NothingLawful ==
  ASSUME \A k \in CaseIds : Succeeded(k)' => Succeeded(k),
         \A k \in CaseIds : Exists(k)' => Exists(k)
  PROVE  Lawful
  BY DEF Lawful

(* A step of a that changes no case. *)
LEMMA RulesQuiet ==
  ASSUME TInv, Locks, Once, Ruled, NEW a \in Actors, Others(a), UNCHANGED cases, Grows,
         RulesFor(a)'
  PROVE  Ruled' /\ Lawful
<1>1. Ruled'
  BY RulesMove
<1>2. Lawful
  BY NothingLawful DEF Succeeded, Exists
<1>3. QED  BY <1>1, <1>2

LEMMA RulesEnd ==
  ASSUME NEW a \in Actors, tx'[a].pc \notin {"ready", "unblocking"}, tx'[a].op # "create"
  PROVE  RulesFor(a)'
  BY DEF RulesFor, Checked

(* The cases inserted for a transaction whose rules were checked. *)
LEMMA RulesInsert ==
  ASSUME TInv, Locks, Once, Grows, Ruled, NEW a \in Actors, Others(a),
         tx'[a].pc \notin {"ready", "unblocking"}, tx'[a].op # "create",
         tx[a].op \in {"job", "recover", "create"}, tx[a].pc = "ready",
         NEW origin, Insert(tx[a].slots, origin)
  PROVE  Ruled' /\ Lawful
<1>1. RulesFor(a) /\ tx[a].slots \in SUBSET Slot /\ tx[a].rows \in SUBSET CaseIds
  BY DEF Ruled, TInv, TypeOK, Tx
<1>2. \A k \in CaseIds : \/ cases'[k] = cases[k]
                         \/ \E s \in tx[a].slots : NewRow(k, s, origin)
  BY <1>1, InsertFacts
<1>3. \A s \in tx[a].slots : s.queue = tx[a].target
  BY <1>1 DEF RulesFor, Once, Fresh, Creating
<1>4. tx[a].slots # {} => RequirementsMet(tx[a].target)
  BY <1>1, RulesUnlocked DEF RulesFor, Checked, RulesHold, RequirementsMet
<1>5. \A k \in CaseIds : Succeeded(k) => cases'[k] = cases[k]
  BY <1>2 DEF NewRow, Succeeded, Exists
<1>6. Ruled'
  BY <1>5, RulesEnd, RulesMove
<1>7. ASSUME NEW k \in CaseIds, ~Exists(k), Exists(k)'
      PROVE  RequirementsMet(cases'[k].queue)
  <2>1. PICK s \in tx[a].slots : NewRow(k, s, origin)
    BY <1>2, <1>7 DEF Exists
  <2>2. cases'[k].queue = tx[a].target
    BY <1>3, <2>1 DEF NewRow
  <2>3. QED  BY <1>4, <2>1, <2>2
<1>8. ASSUME NEW k \in CaseIds, Succeeded(k)' PROVE Succeeded(k)
  BY <1>2, <1>8 DEF NewRow, Succeeded
<1>9. QED  BY <1>6, <1>7, <1>8 DEF Lawful

(* A single statement: the cases it changes are locked by nobody. *)
LEMMA RulesStatement ==
  ASSUME TInv, Once, Grows, Ruled, UNCHANGED tx,
         \A k \in CaseIds : cases'[k] = cases[k] \/ Unlocked(k) \/ ~Succeeded(k),
         \A k \in CaseIds : Succeeded(k)' => Succeeded(k),
         \A k \in CaseIds : Exists(k)' => Exists(k)
  PROVE  Ruled' /\ Lawful
<1>1. ASSUME NEW b \in Actors PROVE RulesFor(b)'
  <2>1. tx[b].rows \in SUBSET CaseIds /\ RulesFor(b)
    BY DEF TInv, TypeOK, Tx, Ruled
  <2>2. \A k \in tx[b].rows : Succeeded(k) => cases'[k] = cases[k]
    BY <2>1 DEF Unlocked
  <2>3. QED  BY <2>1, <2>2, RulesStand
<1>2. QED  BY <1>1, NothingLawful DEF Ruled

(* A close commits what it checked, for the case it holds. *)
LEMMA RulesClose ==
  ASSUME TInv, Locks, Once, Grows, Ruled, NEW a \in Actors, CloseCommit(a)
  PROVE  Ruled' /\ Lawful
<1>1. /\ tx[a].op = "close" /\ tx[a].pc = "unblocking" /\ RulesFor(a)
      /\ tx[a].rows \in SUBSET CaseIds /\ tx[a].src \in tx[a].rows /\ Exists(tx[a].src)
  BY DEF CloseCommit, Running, Ruled, Once, CloserHolds, TInv, TypeOK, Tx
<1>2. \A k \in CaseIds \ {tx[a].src} : cases'[k] = cases[k]
  BY DEF CloseCommit, TInv, TypeOK
<1>3. Others(a) /\ RulesFor(a)'
  BY IdleFields, RulesEnd DEF CloseCommit, Released
<1>4. Ruled'
  BY <1>1, <1>2, <1>3, RulesMove
<1>5. BlockersMet(cases[tx[a].src].queue)
  BY <1>1, RulesUnlocked DEF RulesFor, Checked, RulesHold, BlockersMet
<1>6. ASSUME NEW k \in CaseIds, ~Succeeded(k), Succeeded(k)'
      PROVE  BlockersMet(cases[k].queue)
  <2>1. k = tx[a].src
    BY <1>2, <1>6 DEF Succeeded
  <2>2. QED  BY <1>5, <2>1
<1>7. ASSUME NEW k \in CaseIds, Exists(k)' PROVE Exists(k)
  BY <1>1, <1>2, <1>7 DEF Exists
<1>8. QED  BY <1>4, <1>6, <1>7 DEF Lawful

LEMMA RulesStatus ==
  ASSUME TInv, Once, Grows, Ruled,
         TerminateMerchant \/ \E k \in CaseIds : CloseUnsuccessful(k) \/ Reopen(k) \/ RollBackAgreement(k)
  PROVE  Ruled' /\ Lawful
<1>1. UNCHANGED tx
  BY DEF TerminateMerchant, CloseUnsuccessful, Reopen, RollBackAgreement
<1>2. ASSUME NEW k \in CaseIds
      PROVE  /\ cases'[k] = cases[k] \/ Unlocked(k) \/ ~Succeeded(k)
             /\ Exists(k)' => Exists(k)
             /\ Succeeded(k)' => Succeeded(k)
  <2>1. cases[k] \in CaseRow
    BY DEF TInv, TypeOK
  <2>2. \/ cases'[k] = cases[k]
        \/ /\ Unlocked(k) /\ cases[k].status # "absent"
           /\ \/ cases'[k] = [cases[k] EXCEPT !.status = "closed", !.outcome = "unsuccessful"]
              \/ cases'[k] = [cases[k] EXCEPT !.status = "open"]
    BY DEF TerminateMerchant, CloseUnsuccessful, Reopen, RollBackAgreement, IsOpen, TInv, TypeOK
  <2>3. CASE cases'[k] = cases[k]
    BY <2>3 DEF Exists, Succeeded
  <2>4. CASE cases'[k] = [cases[k] EXCEPT !.status = "closed", !.outcome = "unsuccessful"]
    BY <2>1, <2>2, <2>4 DEF CaseRow, Exists, Succeeded
  <2>5. CASE cases'[k] = [cases[k] EXCEPT !.status = "open"]
    BY <2>1, <2>2, <2>5 DEF CaseRow, Exists, Succeeded
  <2>6. QED  BY <2>2, <2>3, <2>4, <2>5
<1>3. QED  BY <1>1, <1>2, RulesStatement

LEMMA RulesStep == TInv /\ Locks /\ Once /\ Grows /\ Ruled /\ [Next]_vars => Ruled' /\ Lawful
<1> SUFFICES ASSUME TInv, Locks, Once, Grows, Ruled, [Next]_vars PROVE Ruled' /\ Lawful
  OBVIOUS
<1>1. ASSUME NEW a \in Actors, TakeAdvisory(a) PROVE Ruled' /\ Lawful
  <2>1. tx[a].pc \in {"claimed", "candidate"} /\ tx[a].op \in {"job", "recover"}
    BY <1>1 DEF TakeAdvisory, TInv, HasTarget, Targeted
  <2>2. /\ Others(a) /\ tx'[a].op = tx[a].op
        /\ tx'[a].slots = {} \/ tx'[a].pc = "locking"
    BY <1>1, TakeAdvisoryFields
  <2>3. RulesFor(a)'
    BY <2>1, <2>2 DEF RulesFor, Checked
  <2>4. QED  BY <1>1, <2>2, <2>3, RulesQuiet DEF TakeAdvisory
<1>2. ASSUME NEW a \in Actors,
             \/ NoSelection(a) \/ Refused(a) \/ JobFail(a) \/ RecoverFinish(a)
             \/ DeadlockAbort(a) \/ TransientError(a) \/ Crash(a)
             \/ \E S \in SUBSET SubMerchants : SelectSubMerchants(a, S)
      PROVE  Ruled' /\ Lawful
  <2>1. /\ UNCHANGED cases
        /\ \/ Set(a, IdleTx)
           \/ /\ tx[a].op \in {"job", "recover"}
              /\ \E err \in Errors : Set(a, RolledBack(tx[a], err))
    <3>1. CASE NoSelection(a)
      BY <3>1 DEF NoSelection, Errors, TInv, HasTarget, Targeted
    <3>2. CASE Refused(a)
      BY <3>2 DEF Refused, Errors
    <3>3. CASE DeadlockAbort(a) \/ TransientError(a)
      BY <3>3 DEF DeadlockAbort, TransientError, Abort, Errors
    <3>4. CASE \/ JobFail(a) \/ RecoverFinish(a) \/ Crash(a)
               \/ \E S \in SUBSET SubMerchants : SelectSubMerchants(a, S)
      BY <3>4 DEF JobFail, RecoverFinish, Crash, SelectSubMerchants
    <3>5. QED  BY <1>2, <3>1, <3>2, <3>3, <3>4
  <2>2. /\ Others(a) /\ tx'[a].pc \notin {"ready", "unblocking"} /\ tx'[a].op # "create"
    BY <2>1, IdleFields, RolledBackFields DEF Released
  <2>3. QED  BY <2>1, <2>2, RulesEnd, RulesQuiet
<1>3. ASSUME NEW a \in Actors, LockRow(a) PROVE Ruled' /\ Lawful
  <2>1. RulesFor(a) /\ tx[a].pc = "locking" /\ UNCHANGED cases
    BY <1>3 DEF LockRow, Ruled
  <2>2. RulesFor(a)'
    BY <1>3, <2>1, LockRowFields DEF RulesFor, Checked
  <2>3. QED  BY <1>3, <2>1, <2>2, LockRowFields, RulesQuiet
<1>4. ASSUME NEW a \in Actors, Satisfied(a) PROVE Ruled' /\ Lawful
  <2>1. RulesFor(a) /\ RulesHold(a) /\ UNCHANGED cases
    BY <1>4 DEF Satisfied, Ruled
  <2>2. RulesHold(a)'
    BY <1>4, <2>1, SatisfiedFields DEF RulesHold, SatisfiedBy, Succeeded
  <2>3. RulesFor(a)'
    BY <1>4, <2>1, <2>2, SatisfiedFields DEF RulesFor
  <2>4. QED  BY <1>4, <2>1, <2>3, SatisfiedFields, RulesQuiet
<1>5. ASSUME NEW a \in Actors, JobCommit(a) \/ CreateCommit(a) PROVE Ruled' /\ Lawful
  <2>1. /\ tx[a].op \in {"job", "create"} /\ tx[a].pc = "ready"
        /\ \E origin \in {"close", "manual"} : Insert(tx[a].slots, origin)
    BY <1>5 DEF JobCommit, CreateCommit, Running
  <2>2. Others(a) /\ tx'[a].pc = "idle" /\ tx'[a].op = "none"
    BY <1>5, IdleFields DEF JobCommit, CreateCommit, Released
  <2>3. QED  BY <2>1, <2>2, RulesInsert
<1>6. ASSUME NEW a \in Actors, RecoverCommit(a) PROVE Ruled' /\ Lawful
  BY <1>6, RecoverCommitFields, RulesInsert DEF RecoverCommit, Running
<1>7. ASSUME NEW a \in Actors, CloseWrite(a) PROVE Ruled' /\ Lawful
  <2>1. /\ RulesFor(a) /\ tx[a].op = "close" /\ tx[a].pc = "ready" /\ UNCHANGED cases
    BY <1>7 DEF CloseWrite, Running, Ruled
  <2>2. RulesHold(a)'
    BY <1>7, <2>1, CloseWriteFields DEF RulesFor, Checked, RulesHold, SatisfiedBy, Succeeded
  <2>3. RulesFor(a)'
    BY <1>7, <2>2, CloseWriteFields DEF RulesFor
  <2>4. QED  BY <1>7, <2>1, <2>3, CloseWriteFields, RulesQuiet
<1>8. ASSUME NEW a \in Actors, NEW j \in JobKeys, LockJob(a, j) PROVE Ruled' /\ Lawful
  <2>1. RulesFor(a) /\ UNCHANGED cases
    BY <1>8 DEF LockJob, Ruled
  <2>2. RulesHold(a) => RulesHold(a)'
    BY <1>8, <2>1, LockJobFields DEF RulesHold, SatisfiedBy, Succeeded
  <2>3. RulesFor(a)'
    BY <1>8, <2>1, <2>2, LockJobFields DEF RulesFor, Checked
  <2>4. QED  BY <1>8, <2>1, <2>3, LockJobFields, RulesQuiet
<1>9. ASSUME NEW a \in Actors, RecoverUpdate(a) PROVE Ruled' /\ Lawful
  <2>1. tx[a].op = "recover" /\ UNCHANGED cases
    BY <1>9 DEF RecoverUpdate
  <2>2. RulesFor(a)'
    BY <1>9, <2>1, RecoverUpdateFields, RulesEnd
  <2>3. QED  BY <1>9, <2>1, <2>2, RecoverUpdateFields, RulesQuiet
<1>10. ASSUME NEW w \in Workers, NEW j \in JobKeys, Claim(w, j) PROVE Ruled' /\ Lawful
  <2>1. w \in Actors /\ UNCHANGED cases
    BY <1>10 DEF Claim, Actors
  <2>2. QED  BY <1>10, <2>1, ClaimFields, RulesEnd, RulesQuiet
<1>11. ASSUME NEW r \in Requests, StaffBegins(r) PROVE Ruled' /\ Lawful
  <2>1. r \in Actors /\ UNCHANGED cases
    BY <1>11 DEF Actors, StaffBegins, SelectBegin, CloseBegin, RecoverBegin, CreateBegin
  <2>2. RulesFor(r)'
    BY <1>11, StaffFields DEF RulesFor, Checked
  <2>3. QED  BY <1>11, <2>1, <2>2, StaffFields, RulesQuiet
<1>12. CASE UNCHANGED <<cases, tx>>
  BY <1>12, RulesStatement DEF Succeeded, Exists
<1>13. ASSUME NEW a \in Actors, Step(a) PROVE Ruled' /\ Lawful
  BY <1>13, <1>1, <1>2, <1>3, <1>4, <1>5, <1>6, <1>7, <1>8, <1>9, RulesClose DEF Step
<1>14. CASE Environment
  BY <1>2, <1>12, <1>14, RulesStatus DEF Environment, Tick, RetryJob
<1>15. QED
  BY <1>10, <1>11, <1>12, <1>13, <1>14 DEF Next, vars

LEMMA RulesInit == Init => Ruled
<1> SUFFICES ASSUME Init, NEW a \in Actors PROVE RulesFor(a)
  BY DEF Ruled
<1>1. tx[a] = IdleTx
  BY DEF Init
<1>2. QED  BY <1>1 DEF IdleTx, RulesFor, Checked

LEMMA RulesAlways == Spec => [](TInv /\ Locks /\ Once /\ Outbox /\ Ruled)
<1>1. Init => Ruled
  BY RulesInit
<1>2. TInv /\ Locks /\ Once /\ Outbox /\ Ruled /\ [Next]_vars => Ruled'
  BY OutboxStep, RulesStep
<1>3. QED
  BY <1>1, <1>2, OutboxAlways, PTL DEF Spec

(* A case is closed successfully only while each close blocker of its queue *)
(* has a successfully closed case: assertCloseBlockersSatisfied locks the   *)
(* blockers' cases, so no resubmission reopens one before the commit.       *)
THEOREM ClosesUnderItsBlockers == Spec => ClosedOnlyWhenUnblocked
<1>1. TInv /\ Locks /\ Once /\ Outbox /\ Ruled /\ [Next]_vars =>
        [\A k \in CaseIds : ~Succeeded(k) /\ Succeeded(k)' => BlockersMet(cases[k].queue)]_vars
  BY OutboxStep, RulesStep DEF Lawful
<1>2. QED
  BY <1>1, RulesAlways, PTL DEF Spec, ClosedOnlyWhenUnblocked

(* Whoever creates a case - worker, recovery or staff - the requirements of *)
(* its queue hold when it becomes visible, although the prerequisites were  *)
(* looked up several steps before.                                          *)
THEOREM CreatesUnderItsRequirements == Spec => CreatedOnlyWhenRequirementsHold
<1>1. TInv /\ Locks /\ Once /\ Outbox /\ Ruled /\ [Next]_vars =>
        [\A k \in CaseIds : ~Exists(k) /\ Exists(k)' => RequirementsMet(cases'[k].queue)]_vars
  BY OutboxStep, RulesStep DEF Lawful
<1>2. QED
  BY <1>1, RulesAlways, PTL DEF Spec, CreatedOnlyWhenRequirementsHold

-----------------------------------------------------------------------------
(* The outbox implements FollowUps *)

Requested(t) == \E k \in CaseIds : jobs[<<k, t>>].state # "absent"

(* Whoever creates for a target does so on a job of it, or after a close    *)
(* that left one.                                                           *)
OwingTo(a) ==
  /\ tx[a].op = "job" => tx[a].jobRows # {}
  /\ tx[a].op = "recover" => tx[a].target \in Queues /\ Requested(tx[a].target)

Owing == \A a \in Actors : OwingTo(a)

LEMMA RequestedStays ==
  ASSUME Grows, NEW t \in Queues, Requested(t)
  PROVE  Requested(t)'
<1>1. PICK k \in CaseIds : jobs[<<k, t>>].state # "absent"
  BY DEF Requested
<1>2. <<k, t>> \in JobKeys
  BY DEF JobKeys
<1>3. QED  BY <1>1, <1>2 DEF Grows, Requested

LEMMA RequestedBy ==
  ASSUME NEW j \in JobKeys, jobs[j].state # "absent"
  PROVE  j[2] \in Queues /\ Requested(j[2])
<1>1. j[1] \in CaseIds /\ j[2] \in Queues /\ j = <<j[1], j[2]>>
  BY DEF JobKeys
<1>2. QED  BY <1>1 DEF Requested

LEMMA OwingMoves ==
  ASSUME Owing, Grows, NEW a \in Actors, Others(a),
         \/ tx'[a].op \notin {"job", "recover"}
         \/ /\ tx'[a].op = tx[a].op /\ tx'[a].target = tx[a].target
            /\ tx[a].jobRows \subseteq tx'[a].jobRows
  PROVE  Owing'
<1>1. OwingTo(a)'
  BY RequestedStays DEF Owing, OwingTo
<1>2. \A b \in Actors : b # a => OwingTo(b)'
  BY RequestedStays DEF Owing, OwingTo, Others
<1>3. QED  BY <1>1, <1>2 DEF Owing

LEMMA OwingStep == TInv /\ Outbox /\ Owing /\ Grows /\ [Next]_vars => Owing'
<1> SUFFICES ASSUME TInv, Outbox, Owing, Grows, [Next]_vars PROVE Owing'
  OBVIOUS
<1>1. ASSUME NEW a \in Actors,
             \/ TakeAdvisory(a) \/ LockRow(a) \/ Satisfied(a) \/ RecoverUpdate(a)
             \/ CloseWrite(a) \/ RecoverCommit(a) \/ \E j \in JobKeys : LockJob(a, j)
      PROVE  Owing'
  <2>1. CASE RecoverCommit(a)
    <3>1. tx[a].op = "recover"
      BY <2>1 DEF RecoverCommit, Running
    <3>2. OwingTo(a)'
      BY <2>1, <3>1, RecoverCommitFields, RequestedStays DEF Owing, OwingTo
    <3>3. \A b \in Actors : b # a => OwingTo(b)'
      BY <2>1, RecoverCommitFields, RequestedStays DEF Owing, OwingTo, Others
    <3>4. QED  BY <3>2, <3>3 DEF Owing
  <2>2. CASE \/ TakeAdvisory(a) \/ LockRow(a) \/ Satisfied(a) \/ RecoverUpdate(a)
             \/ CloseWrite(a) \/ \E j \in JobKeys : LockJob(a, j)
    <3>1. /\ Others(a)
          /\ \/ tx'[a].op = "close"
             \/ /\ tx'[a].op = tx[a].op /\ tx'[a].target = tx[a].target
                /\ tx[a].jobRows \subseteq tx'[a].jobRows
      BY <2>2, TakeAdvisoryFields, LockRowFields, SatisfiedFields, RecoverUpdateFields,
         CloseWriteFields, LockJobFields
    <3>2. QED  BY <3>1, OwingMoves
  <2>3. QED  BY <1>1, <2>1, <2>2
<1>2. ASSUME NEW a \in Actors,
             \/ NoSelection(a) \/ Refused(a) \/ JobCommit(a) \/ JobFail(a) \/ CloseCommit(a)
             \/ RecoverFinish(a) \/ CreateCommit(a) \/ DeadlockAbort(a)
             \/ TransientError(a) \/ Crash(a)
             \/ \E S \in SUBSET SubMerchants : SelectSubMerchants(a, S)
      PROVE  Owing'
  <2>1. Set(a, IdleTx) \/ \E err \in Errors : Set(a, RolledBack(tx[a], err))
    BY <1>2 DEF NoSelection, Refused, JobCommit, JobFail, CloseCommit, RecoverFinish,
       CreateCommit, DeadlockAbort, TransientError, Crash, SelectSubMerchants, Abort, Errors
  <2>2. QED  BY <2>1, IdleFields, RolledBackFields, OwingMoves DEF Released
<1>3. ASSUME NEW w \in Workers, NEW j \in JobKeys, Claim(w, j) PROVE Owing'
  <2>1. w \in Actors
    BY DEF Actors
  <2>2. OwingTo(w)'
    BY <1>3, ClaimFields DEF OwingTo
  <2>3. \A b \in Actors : b # w => OwingTo(b)'
    BY <1>3, ClaimFields, RequestedStays DEF Owing, OwingTo, Others
  <2>4. QED  BY <2>1, <2>2, <2>3 DEF Owing
<1>4. ASSUME NEW r \in Requests, NEW k \in CaseIds, NEW t \in Queues, RecoverBegin(r, k, t)
      PROVE  Owing'
  <2>1. r \in Actors
    BY DEF Actors
  <2>2. /\ Others(r)
        /\ tx'[r] = [IdleTx EXCEPT !.op = "recover", !.pc = "candidate", !.src = k,
                                    !.target = t]
    BY <1>4, <2>1, SetOthers DEF RecoverBegin
  <2>3. tx'[r].op = "recover" /\ tx'[r].target = t
    BY <2>2 DEF IdleTx
  <2>4. jobs[<<k, t>>].state # "absent" \/ Tombstone(t)
    BY <1>4 DEF RecoverBegin, Outbox, CloseIsOwed
  <2>5. Requested(t)
    BY <2>4, RequestedBy DEF Tombstone, Requested
  <2>6. OwingTo(r)'
    BY <2>3, <2>5, RequestedStays DEF OwingTo
  <2>7. \A b \in Actors : b # r => OwingTo(b)'
    BY <2>2, RequestedStays DEF Owing, OwingTo, Others
  <2>8. QED  BY <2>6, <2>7 DEF Owing
<1>5. ASSUME NEW r \in Requests, StaffBegins(r) PROVE Owing'
  <2>1. CASE \E k \in CaseIds, t \in Queues : RecoverBegin(r, k, t)
    BY <1>4, <2>1
  <2>2. CASE tx'[r].op # "recover"
    BY <1>5, <2>2, StaffFields, OwingMoves DEF Actors
  <2>3. ASSUME NEW k \in CaseIds, CloseBegin(r, k) PROVE tx'[r].op # "recover"
    <3>1. PICK W : Set(r, [IdleTx EXCEPT !.op = "close", !.pc = "locking", !.src = k,
                                         !.rows = {k}, !.want = W])
      BY <2>3 DEF CloseBegin
    <3>2. tx'[r] = [IdleTx EXCEPT !.op = "close", !.pc = "locking", !.src = k,
                                  !.rows = {k}, !.want = W]
      BY <3>1, SetOthers DEF Actors
    <3>3. QED  BY <3>2 DEF IdleTx
  <2>4. ASSUME NEW s \in Slot, CreateBegin(r, s) PROVE tx'[r].op # "recover"
    <3>1. PICK l, W : Set(r, [IdleTx EXCEPT !.op = "create", !.pc = "locking",
                                !.target = s.queue, !.live = l, !.slots = {s}, !.want = W])
      BY <2>4 DEF CreateBegin
    <3>2. tx'[r] = [IdleTx EXCEPT !.op = "create", !.pc = "locking",
                                !.target = s.queue, !.live = l, !.slots = {s}, !.want = W]
      BY <3>1, SetOthers DEF Actors
    <3>3. QED  BY <3>2 DEF IdleTx
  <2>5. ASSUME SelectBegin(r) PROVE tx'[r].op # "recover"
    <3>1. tx'[r] = [IdleTx EXCEPT !.op = "select", !.pc = "ready"]
      BY <2>5, SetOthers DEF SelectBegin, Actors
    <3>2. QED  BY <3>1 DEF IdleTx
  <2>6. QED  BY <1>5, <2>1, <2>2, <2>3, <2>4, <2>5 DEF StaffBegins
<1>6. CASE UNCHANGED tx
  BY <1>6, RequestedStays DEF Owing, OwingTo
<1>7. ASSUME NEW a \in Actors, Step(a) PROVE Owing'
  BY <1>7, <1>1, <1>2 DEF Step
<1>8. CASE Environment
  BY <1>2, <1>6, <1>8
     DEF Environment, CloseUnsuccessful, Reopen, RollBackAgreement, TerminateMerchant, Tick, RetryJob
<1>9. QED
  BY <1>3, <1>5, <1>6, <1>7, <1>8 DEF Next, vars

LEMMA OwingInit == Init => Owing
<1> SUFFICES ASSUME Init, NEW a \in Actors PROVE OwingTo(a)
  BY DEF Owing
<1>1. tx[a] = IdleTx
  BY DEF Init
<1>2. QED  BY <1>1 DEF IdleTx, OwingTo

(* The variables of FollowUps, as CaseFlow maps them. *)
Owed    == {t \in Queues : Requested(t)}
Covered == {q \in Queues : CasesIn({q}) # {}}
Count   == [s \in Slot |-> Cardinality(Made(s))]
Settled == {t \in Queues : Tombstone(t)}

LEMMA MappedInit ==
  ASSUME Owed = {}, Covered \in SUBSET Queues, Count = [s \in Slot |-> 0], Settled = {}
  PROVE  Promise!Init
  BY DEF Promise!Init, Owed, Covered, Count, Settled, Requested

LEMMA SameMapped ==
  ASSUME UNCHANGED <<Owed, Covered, Count, Settled>>
  PROVE  UNCHANGED Promise!fvars
  BY DEF Promise!fvars, Owed, Covered, Count, Settled, Requested

LEMMA MappedOwe ==
  ASSUME NEW T \in SUBSET Queues, Owed' = Owed \cup T,
         UNCHANGED <<Covered, Count, Settled>>
  PROVE  Promise!Next
  BY DEF Promise!Next, Promise!Owe, Owed, Covered, Count, Settled, Requested

LEMMA MappedFulfil ==
  ASSUME NEW t \in Owed, Owed' = Owed,
         NEW S \in SUBSET {s \in Slot : s.queue = t /\ Count[s] = 0},
         Count' = [s \in Slot |-> IF s \in S THEN 1 ELSE Count[s]],
         Covered' = IF S = {} THEN Covered ELSE Covered \cup {t},
         Settled' \in {Settled, Settled \cup {t}}, Settled' \subseteq Covered'
  PROVE  Promise!Next
<1>1. t \in Queues
  BY DEF Owed
<1>2. Promise!Fulfil(t)
  BY DEF Promise!Fulfil, Owed, Covered, Count, Settled, Requested
<1>3. QED  BY <1>1, <1>2 DEF Promise!Next

LEMMA MappedCover ==
  ASSUME NEW q \in Queues, Covered' = Covered \cup {q}, UNCHANGED <<Owed, Count, Settled>>
  PROVE  Promise!Next
<1>1. Promise!Cover(q)
  BY DEF Promise!Cover, Owed, Covered, Count, Settled, Requested
<1>2. QED  BY <1>1 DEF Promise!Next

LEMMA CasesMapped ==
  ASSUME Kept
  PROVE  UNCHANGED <<Covered, Count>>
<1>1. \A q \in Queues : CasesIn({q})' = CasesIn({q})
  BY DEF Kept, CasesIn
<1>2. \A s \in Slot : Made(s)' = Made(s)
  BY DEF Kept, Made
<1>3. QED  BY <1>1, <1>2 DEF Covered, Count

LEMMA JobsMapped ==
  ASSUME \A j \in JobKeys : jobs'[j].state = jobs[j].state
  PROVE  UNCHANGED <<Owed, Settled>>
<1>1. \A t \in Queues : Requested(t)' = Requested(t)
  BY DEF Requested, JobKeys
<1>2. \A t \in Queues : Tombstone(t)' = Tombstone(t)
  BY DEF Tombstone
<1>3. QED  BY <1>1, <1>2 DEF Owed, Settled

(* What the inserts of a transaction do to the mapped variables. *)
LEMMA CoveredInsert ==
  ASSUME TInv, NEW slots \in SUBSET Slot, NEW origin, Insert(slots, origin),
         NEW t \in Queues, \A s \in slots : s.queue = t
  PROVE  Covered' = IF slots = {} THEN Covered ELSE Covered \cup {t}
<1>1. /\ \A k \in CaseIds : Exists(k) => Exists(k)' /\ cases'[k].queue = cases[k].queue
      /\ \A s \in slots : PresentAfter(s.queue)
  BY InsertGrows
<1>2. \A k \in CaseIds : cases'[k] = cases[k] \/ \E s \in slots : NewRow(k, s, origin)
  BY InsertFacts
<1>3. ASSUME NEW q \in Queues
      PROVE  (CasesIn({q}) # {})' <=> CasesIn({q}) # {} \/ (slots # {} /\ q = t)
  <2>1. CASE CasesIn({q}) # {}
    BY <1>1, <2>1 DEF CasesIn
  <2>2. ASSUME slots # {}, q = t PROVE (CasesIn({q}) # {})'
    BY <1>1, <2>2 DEF CasesIn, PresentAfter
  <2>3. ASSUME NEW k \in CaseIds, Exists(k)', cases'[k].queue = q, CasesIn({q}) = {}
        PROVE  slots # {} /\ q = t
    BY <1>2, <2>3 DEF CasesIn, NewRow, Exists
  <2>4. (CasesIn({q}) # {})' => \E k \in CaseIds : Exists(k)' /\ cases'[k].queue = q
    BY DEF CasesIn
  <2>5. QED  BY <2>1, <2>2, <2>3, <2>4
<1>4. QED  BY <1>3 DEF Covered

LEMMA CountInsert ==
  ASSUME TInv, Once, NEW a \in Actors, Creating(a), Insert(tx[a].slots, "close")
  PROVE  /\ \A s \in tx[a].slots : Count[s] = 0
         /\ Count' = [s \in Slot |-> IF s \in tx[a].slots THEN 1 ELSE Count[s]]
<1>1. tx[a].slots \in SUBSET Slot
  BY DEF TInv, TypeOK, Tx
<1>2. /\ \A k \in CaseIds : \/ cases'[k] = cases[k]
                            \/ \E s \in tx[a].slots : NewRow(k, s, "close")
      /\ \A s \in tx[a].slots : \E k \in CaseIds : NewRow(k, s, "close")
      /\ \A k, l \in CaseIds, s \in tx[a].slots :
           NewRow(k, s, "close") /\ NewRow(l, s, "close") => k = l
  BY <1>1, InsertFacts
<1>3. ASSUME NEW s \in tx[a].slots PROVE Cardinality(Made(s)) = 0 /\ Cardinality(Made(s)') = 1
  <2>1. Made(s) = {}
    BY DEF Once, Fresh, Made
  <2>2. PICK k \in CaseIds : NewRow(k, s, "close")
    BY <1>2
  <2>3. k \in Made(s)'
    BY <2>2 DEF NewRow, Made
  <2>4. ASSUME NEW l \in Made(s)' PROVE l = k
    <3>1. l \in CaseIds /\ cases'[l].origin = "close" /\ cases'[l].queue = s.queue
          /\ cases'[l].sub = s.sub
      BY DEF Made
    <3>2. cases'[l] # cases[l]
      BY <2>1, <3>1 DEF Made
    <3>3. PICK u \in tx[a].slots : NewRow(l, u, "close")
      BY <1>2, <3>1, <3>2
    <3>4. u = s
      <4>1. u \in Slot /\ s \in Slot /\ u.queue = s.queue /\ u.sub = s.sub
        BY <1>1, <3>1, <3>3 DEF NewRow
      <4>2. QED  BY <4>1 DEF Slot
    <3>5. QED  BY <1>2, <2>2, <3>1, <3>3, <3>4
  <2>5. Made(s)' = {k}
    BY <2>3, <2>4
  <2>6. QED  BY <2>1, <2>5, FS_EmptySet, FS_Singleton
<1>4. ASSUME NEW s \in Slot \ tx[a].slots PROVE Made(s)' = Made(s)
  <2>1. ASSUME NEW k \in CaseIds, NEW u \in tx[a].slots, NewRow(k, u, "close")
        PROVE  k \notin Made(s) /\ k \notin Made(s)'
    <3>1. k \notin Made(s)
      BY <2>1 DEF NewRow, Once, AbsentRows, Made
    <3>2. u.queue # s.queue \/ u.sub # s.sub
      BY <1>1 DEF Slot
    <3>3. QED  BY <2>1, <3>1, <3>2 DEF NewRow, Made
  <2>2. ASSUME NEW k \in CaseIds, cases'[k] = cases[k] PROVE k \in Made(s)' <=> k \in Made(s)
    BY <2>2 DEF Made
  <2>3. Made(s) \subseteq CaseIds /\ Made(s)' \subseteq CaseIds
    BY DEF Made
  <2>4. QED  BY <1>2, <2>1, <2>2, <2>3
<1>5. QED  BY <1>1, <1>3, <1>4 DEF Count

(* A manual case is counted for nobody. *)
LEMMA CountManual ==
  ASSUME TInv, Once, NEW slots \in SUBSET Slot, Insert(slots, "manual")
  PROVE  UNCHANGED Count
<1>1. \A k \in CaseIds : cases'[k] = cases[k] \/ \E s \in slots : NewRow(k, s, "manual")
  BY InsertFacts
<1>2. ASSUME NEW s \in Slot PROVE Made(s)' = Made(s)
  BY <1>1 DEF NewRow, Once, AbsentRows, Made
<1>3. QED  BY <1>2 DEF Count

LEMMA CloseCommitPromise ==
  ASSUME TInv, Once, Outbox, NEW a \in Actors, CloseCommit(a)
  PROVE  Promise!Next
<1>1. UNCHANGED <<Covered, Count>>
  BY CloseCommitKept, CasesMapped
<1>2. \A j \in JobKeys :
        \/ jobs'[j].state = jobs[j].state
        \/ jobs[j].state = "absent" /\ jobs'[j].state = "open"
  BY CloseCommitJobs
<1>3. UNCHANGED Settled
  BY <1>2 DEF Settled, Tombstone
<1>4. Owed \subseteq Owed' /\ Owed' \subseteq Queues
  BY <1>2 DEF Owed, Requested, JobKeys
<1>5. Owed' = Owed \cup Owed'
  BY <1>4
<1>6. QED  BY <1>1, <1>3, <1>4, <1>5, MappedOwe

(* A worker settles the debt it creates for. *)
LEMMA JobCommitPromise ==
  ASSUME TInv, Once, Outbox, Owing, TombstoneIsProof', NEW a \in Actors, JobCommit(a)
  PROVE  Promise!Next
<1>0. PICK t : t = tx[a].target
  OBVIOUS
<1>1. /\ tx[a].slots \in SUBSET Slot /\ tx[a].jobRows \in SUBSET JobKeys
      /\ tx[a].op = "job" /\ Creating(a) /\ Insert(tx[a].slots, "close")
  BY DEF JobCommit, Running, Creating, TInv, TypeOK, Tx
<1>2. /\ tx[a].jobRows # {} /\ t \in Queues
      /\ \A j \in tx[a].jobRows : jobs[j].state = "open" /\ j[2] = t
      /\ \A s \in tx[a].slots : s.queue = t
  BY <1>0, <1>1 DEF Owing, OwingTo, Outbox, JobFor, LockedFor, TargetFor, Once, LockHeld, Fresh
<1>3. t \in Owed
  BY <1>1, <1>2, RequestedBy DEF Owed
<1>4. \A j \in JobKeys : IF j \in tx[a].jobRows THEN jobs'[j].state = "done"
                                              ELSE jobs'[j] = jobs[j]
  BY JobCommitJobs
<1>5. Owed' = Owed
  <2>1. \A j \in JobKeys : (jobs'[j].state = "absent") = (jobs[j].state = "absent")
    BY <1>2, <1>4
  <2>2. QED  BY <2>1 DEF Owed, Requested, JobKeys
<1>6. Settled' = Settled \cup {t}
  <2>1. ASSUME NEW q \in Queues PROVE Tombstone(q)' <=> Tombstone(q) \/ q = t
    <3>1. Tombstone(q) => Tombstone(q)'
      BY <1>2, <1>4 DEF Tombstone
    <3>2. Tombstone(t)'
      BY <1>1, <1>2, <1>4 DEF Tombstone
    <3>3. Tombstone(q)' => Tombstone(q) \/ q = t
      BY <1>2, <1>4 DEF Tombstone
    <3>4. QED  BY <3>1, <3>2, <3>3
  <2>2. QED  BY <1>2, <2>1 DEF Settled
<1>7. Covered' = IF tx[a].slots = {} THEN Covered ELSE Covered \cup {t}
  BY <1>1, <1>2, CoveredInsert
<1>8. /\ \A s \in tx[a].slots : Count[s] = 0
      /\ Count' = [s \in Slot |-> IF s \in tx[a].slots THEN 1 ELSE Count[s]]
  BY <1>1, CountInsert
<1>9. Settled' \subseteq Covered'
  BY DEF TombstoneIsProof, Settled, Covered
<1>10. tx[a].slots \in SUBSET {s \in Slot : s.queue = t /\ Count[s] = 0}
  BY <1>1, <1>2, <1>8
<1>11. QED  BY <1>3, <1>5, <1>6, <1>7, <1>8, <1>9, <1>10, MappedFulfil

(* A recovery creates for a debt and leaves it to be settled. *)
LEMMA RecoverCommitPromise ==
  ASSUME TInv, Once, Outbox, Owing, TombstoneIsProof', NEW a \in Actors, RecoverCommit(a)
  PROVE  Promise!Next
<1>0. PICK t : t = tx[a].target
  OBVIOUS
<1>1. /\ tx[a].slots \in SUBSET Slot /\ UNCHANGED jobs
      /\ tx[a].op = "recover" /\ Creating(a) /\ Insert(tx[a].slots, "close")
  BY DEF RecoverCommit, Running, Creating, TInv, TypeOK, Tx
<1>2. t \in Owed /\ \A s \in tx[a].slots : s.queue = t
  BY <1>0, <1>1 DEF Owing, OwingTo, Owed, Once, Fresh
<1>3. Owed' = Owed /\ Settled' = Settled
  BY <1>1, JobsMapped
<1>4. Covered' = IF tx[a].slots = {} THEN Covered ELSE Covered \cup {t}
  BY <1>1, <1>2, CoveredInsert DEF Owed
<1>5. /\ \A s \in tx[a].slots : Count[s] = 0
      /\ Count' = [s \in Slot |-> IF s \in tx[a].slots THEN 1 ELSE Count[s]]
  BY <1>1, CountInsert
<1>6. Settled' \subseteq Covered'
  BY DEF TombstoneIsProof, Settled, Covered
<1>7. tx[a].slots \in SUBSET {s \in Slot : s.queue = t /\ Count[s] = 0}
  BY <1>1, <1>2, <1>5
<1>8. QED  BY <1>2, <1>3, <1>4, <1>5, <1>6, <1>7, MappedFulfil

(* The statement after a recovery settles at most its target. *)
LEMMA RecoverFinishPromise ==
  ASSUME TInv, Outbox, Owing, TombstoneIsProof', NEW a \in Actors, RecoverFinish(a)
  PROVE  Promise!Next
<1>0. PICK t : t = tx[a].target
  OBVIOUS
<1>1. /\ tx[a].jobRows \in SUBSET JobKeys /\ tx[a].op = "recover" /\ UNCHANGED cases
  BY DEF RecoverFinish, TInv, TypeOK, Tx
<1>2. t \in Owed /\ t \in Queues /\ \A j \in tx[a].jobRows : j[2] = t
  BY <1>0, <1>1 DEF Owing, OwingTo, Owed, Outbox, JobFor, TargetFor
<1>3. \A j \in JobKeys :
        /\ j \notin tx[a].jobRows => jobs'[j] = jobs[j]
        /\ j \in tx[a].jobRows => jobs[j].state = "open"
        /\ j \in tx[a].jobRows => jobs'[j].state \in {"open", "done"}
  BY RecoverFinishJobs
<1>4. Owed' = Owed
  <2>1. \A j \in JobKeys : (jobs'[j].state = "absent") = (jobs[j].state = "absent")
    BY <1>3
  <2>2. QED  BY <2>1 DEF Owed, Requested, JobKeys
<1>5. Settled' \in {Settled, Settled \cup {t}}
  <2>1. ASSUME NEW q \in Queues, q # t PROVE Tombstone(q)' <=> Tombstone(q)
    BY <1>2, <1>3, <2>1 DEF Tombstone
  <2>2. Tombstone(t) => Tombstone(t)'
    BY <1>3 DEF Tombstone
  <2>3. CASE Tombstone(t)' <=> Tombstone(t)
    BY <2>1, <2>3 DEF Settled
  <2>4. CASE Tombstone(t)' /\ ~Tombstone(t)
    BY <1>2, <2>1, <2>4 DEF Settled
  <2>5. QED  BY <2>2, <2>3, <2>4
<1>6. UNCHANGED <<Covered, Count>>
  BY <1>1, UnchangedKept, CasesMapped
<1>7. Settled' \subseteq Covered'
  BY DEF TombstoneIsProof, Settled, Covered
<1>8. /\ Count' = [s \in Slot |-> IF s \in {} THEN 1 ELSE Count[s]]
      /\ Covered' = IF {} = {} THEN Covered ELSE Covered \cup {t}
      /\ {} \in SUBSET {s \in Slot : s.queue = t /\ Count[s] = 0}
  BY <1>6 DEF Count
<1>9. QED  BY <1>2, <1>4, <1>5, <1>7, <1>8, MappedFulfil

(* Staff cover a queue by hand. *)
LEMMA CreateCommitPromise ==
  ASSUME TInv, Once, Ruled, NEW a \in Actors, CreateCommit(a)
  PROVE  [Promise!Next]_(Promise!fvars)
<1>1. /\ tx[a].slots \in SUBSET Slot /\ tx[a].op = "create" /\ UNCHANGED jobs
      /\ Insert(tx[a].slots, "manual")
  BY DEF CreateCommit, Running, TInv, TypeOK, Tx
<1>2. UNCHANGED <<Owed, Settled, Count>>
  BY <1>1, JobsMapped, CountManual
<1>3. CASE tx[a].slots = {}
  <2>1. \A k \in CaseIds : cases'[k] = cases[k]
    BY <1>1, <1>3, InsertFacts
  <2>2. Kept
    BY <2>1 DEF Kept, Exists
  <2>3. QED  BY <1>2, <2>2, CasesMapped, SameMapped
<1>4. ASSUME NEW s \in tx[a].slots PROVE Promise!Next
  <2>1. s.queue \in Queues /\ \A u \in tx[a].slots : u.queue = s.queue
    BY <1>1, <1>4 DEF Ruled, RulesFor, Slot
  <2>2. Covered' = Covered \cup {s.queue}
    BY <1>1, <1>4, <2>1, CoveredInsert
  <2>3. QED  BY <1>2, <2>1, <2>2, MappedCover
<1>5. QED  BY <1>3, <1>4

LEMMA PromiseStep ==
  ASSUME TInv, Locks, Once, Outbox, Ruled, Owing, [Next]_vars
  PROVE  [Promise!Next]_(Promise!fvars)
<1>1. Outbox'
  BY OutboxStep
<1>2. TombstoneIsProof'
  BY <1>1 DEF Outbox
<1>3. CASE UNCHANGED <<cases, jobs>>
  <2>1. UNCHANGED <<Owed, Covered, Count, Settled>>
    BY <1>3, UnchangedKept, CasesMapped, JobsMapped
  <2>2. QED  BY <2>1, SameMapped
<1>4. ASSUME Kept, \A j \in JobKeys : jobs'[j].state = jobs[j].state
      PROVE  [Promise!Next]_(Promise!fvars)
  BY <1>4, CasesMapped, JobsMapped, SameMapped
<1>5. ASSUME NEW a \in Actors, Step(a) PROVE [Promise!Next]_(Promise!fvars)
  <2>1. CASE JobCommit(a)
    BY <1>2, <2>1, JobCommitPromise
  <2>2. CASE RecoverCommit(a)
    BY <1>2, <2>2, RecoverCommitPromise
  <2>3. CASE RecoverFinish(a)
    BY <1>2, <2>3, RecoverFinishPromise
  <2>4. CASE CloseCommit(a)
    BY <2>4, CloseCommitPromise
  <2>5. CASE CreateCommit(a)
    BY <2>5, CreateCommitPromise
  <2>6. CASE JobFail(a)
    <3>1. UNCHANGED cases /\ \A j \in JobKeys : jobs'[j].state = jobs[j].state
      BY <2>6, JobFailJobs DEF JobFail
    <3>2. QED  BY <1>4, <3>1, UnchangedKept
  <2>7. CASE \/ TakeAdvisory(a) \/ NoSelection(a) \/ LockRow(a) \/ Satisfied(a) \/ Refused(a)
             \/ CloseWrite(a) \/ RecoverUpdate(a) \/ DeadlockAbort(a)
             \/ \E j \in JobKeys : LockJob(a, j)
             \/ \E S \in SUBSET SubMerchants : SelectSubMerchants(a, S)
    <3>1. UNCHANGED <<cases, jobs>>
      BY <2>7 DEF TakeAdvisory, NoSelection, LockRow, Satisfied, Refused, CloseWrite,
         RecoverUpdate, DeadlockAbort, LockJob, SelectSubMerchants
    <3>2. QED  BY <1>3, <3>1
  <2>8. QED
    BY <1>5, <2>1, <2>2, <2>3, <2>4, <2>5, <2>6, <2>7 DEF Step
<1>6. CASE Environment
  <2>1. CASE TerminateMerchant \/ \E k \in CaseIds : CloseUnsuccessful(k) \/ Reopen(k) \/ RollBackAgreement(k)
    <3>1. Kept /\ UNCHANGED jobs
      BY <2>1, StatementKept DEF TerminateMerchant, CloseUnsuccessful, Reopen, RollBackAgreement
    <3>2. QED  BY <1>4, <3>1
  <2>2. ASSUME NEW j \in JobKeys, Tick(j) \/ RetryJob(j)
        PROVE  [Promise!Next]_(Promise!fvars)
    <3>1. UNCHANGED cases /\ \A i \in JobKeys : jobs'[i].state = jobs[i].state
      BY <2>2, TimeJobs
    <3>2. QED  BY <1>4, <3>1, UnchangedKept
  <2>3. CASE \E a \in Actors : TransientError(a) \/ Crash(a)
    BY <1>3, <2>3 DEF TransientError, Crash
  <2>4. QED  BY <1>6, <2>1, <2>2, <2>3 DEF Environment
<1>7. CASE \/ \E w \in Workers, j \in JobKeys : Claim(w, j)
           \/ \E r \in Requests : StaffBegins(r)
  BY <1>3, <1>7 DEF Claim, StaffBegins, SelectBegin, CloseBegin, RecoverBegin, CreateBegin
<1>8. CASE UNCHANGED vars
  BY <1>3, <1>8 DEF vars
<1>9. QED
  BY <1>5, <1>6, <1>7, <1>8 DEF Next

LEMMA PromiseInit == Init => Promise!Init
<1> SUFFICES ASSUME Init PROVE Promise!Init
  OBVIOUS
<1>1. \A j \in JobKeys : jobs[j].state = "absent"
  BY DEF Init, NoJob
<1>2. Owed = {} /\ Settled = {}
  BY <1>1 DEF Owed, Requested, JobKeys, Settled, Tombstone
<1>3. \A k \in CaseIds : cases[k].origin # "close"
  BY InitOrigin
<1>4. \A s \in Slot : Made(s) = {}
  BY <1>3 DEF Made
<1>5. Count = [s \in Slot |-> 0]
  BY <1>4, FS_EmptySet DEF Count
<1>6. QED  BY <1>2, <1>5, MappedInit DEF Covered

(* The outbox, its workers and the recovery action keep the promise of      *)
(* FollowUps: behind jobs, locks, savepoints, crashes and deadlocks every   *)
(* follow-up of a close is made once and by a job or a recovery that a      *)
(* close asked for, and a debt is settled only with a case in place.        *)
THEOREM OutboxKeepsPromise == Spec => KeepsPromise
<1>1. Init => Promise!Init /\ Owing
  BY PromiseInit, OwingInit
<1>2. TInv /\ Locks /\ Once /\ Outbox /\ Ruled /\ Owing /\ [Next]_vars
        => Owing' /\ [Promise!Next]_(Promise!fvars)
  BY OutboxStep, OwingStep, PromiseStep
<1>3. QED
  BY <1>1, <1>2, RulesAlways, PTL DEF Spec, KeepsPromise, Promise!Spec
=============================================================================
