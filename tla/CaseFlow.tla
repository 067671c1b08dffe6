------------------------------ MODULE CaseFlow ------------------------------
(***************************************************************************)
(* Automatic follow-up cases of one merchant: the transactional outbox of  *)
(* src/modules/cases/case-flow.service.ts and the database trigger of      *)
(* drizzle/0075_case_flow_versions.sql that fills it.                      *)
(*                                                                         *)
(* A successful close of a case writes one job per close trigger of the    *)
(* merchant's flow version; workers claim due jobs and create the target   *)
(* cases; staff can run the recovery action, create cases by hand, retry a *)
(* problem job.  Every actor is a PostgreSQL transaction under READ        *)
(* COMMITTED: what it writes becomes visible when it commits, and what it  *)
(* locks stays locked until it commits, rolls back or (for the locks a     *)
(* worker takes inside its savepoint) the savepoint is rolled back.        *)
(*                                                                         *)
(* The rows of different merchants are disjoint, so one merchant is        *)
(* modelled; its flow version never changes (0075 pins it).                *)
(***************************************************************************)
EXTENDS Naturals, FiniteSets

CONSTANTS
  Queues,                \* queues the merchant's flow version names
  StartQueues,           \* targets of its start rules
  StartCase,             \* id of the case each start rule created
  CloseTriggers,         \* pairs <<source queue, target queue>>
  CloseBlockers,         \* pairs <<blocked queue, prerequisite queue>>
  CreationRequirements,  \* pairs <<target queue, prerequisite queue>>
  ReviewQueues,          \* queues of workflow type document_review
  AgreementQueues,       \* queues of workflow type agreement
  SubFormQueues,         \* queues of workflow type sub_merchant_form
  LiveQueues,            \* queues of workflow type live
  ManualQueues,          \* bound: queues staff create cases in by hand
  SubMerchants,          \* sub-merchants a document review can select
  NoQueue, NoSub,        \* null
  Workers,               \* one case-flow worker per server process
  Requests,              \* staff requests in flight
  MaxCases,              \* bound: case ids that may be used
  MaxFaults              \* bound: crashes, transient errors and failed emails

CaseIds == 1..MaxCases
Actors  == Workers \cup Requests
JobKeys == CaseIds \X Queues    \* unique index (source_case_id, target_queue_id)

ASSUME FlowAssumption ==
  /\ NoQueue \notin Queues
  /\ NoSub \notin SubMerchants
  /\ StartQueues \subseteq Queues
  /\ CloseTriggers \subseteq Queues \X Queues
  /\ CloseBlockers \subseteq Queues \X Queues
  /\ CreationRequirements \subseteq Queues \X Queues
  /\ ReviewQueues \subseteq Queues
  /\ AgreementQueues \subseteq Queues
  /\ SubFormQueues \subseteq Queues
  /\ LiveQueues \subseteq Queues
  /\ Workers \cap Requests = {}
  /\ MaxCases \in Nat
  /\ ManualQueues \subseteq Queues
  /\ StartCase \in [StartQueues -> CaseIds]
  /\ \A p, q \in StartQueues : StartCase[p] = StartCase[q] => p = q
  /\ MaxFaults \in Nat

VARIABLES
  cases,       \* table cases (and the origin recorded in case_links)
  jobs,        \* table case_flow_close_jobs
  selected,    \* sub-merchants selected in the merchant's document review
  terminated,  \* merchants.status = 'terminated'
  tx,          \* the transaction each actor is running
  faults       \* crashes, transient errors and failed emails so far

vars == <<cases, jobs, selected, terminated, tx, faults>>

-----------------------------------------------------------------------------
(* Rows and transactions *)

Errors == {"none", "requirement", "selection", "transient"}

CaseRow ==
  [ queue   : Queues \cup {NoQueue},
    sub     : SubMerchants \cup {NoSub},
    origin  : {"none", "start", "close", "manual"},
    status  : {"absent", "open", "closed"},
    outcome : {"none", "successful", "unsuccessful"} ]

NoCase == [ queue |-> NoQueue, sub |-> NoSub, origin |-> "none",
            status |-> "absent", outcome |-> "none" ]

JobRow ==
  [ state    : {"absent", "open", "done"},   \* done: completed_at is set
    due      : BOOLEAN,                      \* available_at <= now()
    blocked  : BOOLEAN,                      \* blocked_at is set
    err      : Errors ]                      \* last_error, by its cause

NoJob == [ state |-> "absent", due |-> FALSE, blocked |-> FALSE, err |-> "none" ]

NewJob == [NoJob EXCEPT !.state = "open", !.due = TRUE]

Slot == [queue : Queues, sub : SubMerchants \cup {NoSub}]

Tx ==
  [ op      : {"none", "job", "recover", "create", "close", "select"},
    pc      : {"idle", "claimed", "candidate", "locking", "ready", "rolledBack",
               "unblocking", "created", "superseding", "recording"},
    src     : CaseIds \cup {0},             \* source case, or the case closed
    target  : Queues \cup {NoQueue},
    adv     : Queues \cup {NoQueue},        \* advisory lock (merchant, target)
    live    : BOOLEAN,                      \* advisory lock (merchant, 'live-case')
    want    : SUBSET CaseIds,               \* case rows still to lock
    rows    : SUBSET CaseIds,               \* case rows locked
    slots   : SUBSET Slot,                  \* cases it is about to insert
    snap    : SUBSET JobKeys,               \* job rows its UPDATE still has to visit
    jobRows : SUBSET JobKeys,               \* job rows locked
    newJobs : SUBSET JobKeys,               \* jobs it inserts
    err     : Errors ]

IdleTx ==
  [ op |-> "none", pc |-> "idle", src |-> 0, target |-> NoQueue,
    adv |-> NoQueue, live |-> FALSE, want |-> {}, rows |-> {}, slots |-> {},
    snap |-> {}, jobRows |-> {}, newJobs |-> {}, err |-> "none" ]

TypeOK ==
  /\ cases \in [CaseIds -> CaseRow]
  /\ jobs \in [JobKeys -> JobRow]
  /\ selected \in SUBSET SubMerchants
  /\ terminated \in BOOLEAN
  /\ tx \in [Actors -> Tx]
  /\ faults \in 0..MaxFaults

Exists(k)    == cases[k].status # "absent"
IsOpen(k)    == cases[k].status = "open"
Succeeded(k) == cases[k].status = "closed" /\ cases[k].outcome = "successful"
CasesIn(Q)   == {k \in CaseIds : Exists(k) /\ cases[k].queue \in Q}
FreeIds      == {k \in CaseIds : ~Exists(k)}

Prerequisites(rules, q) == {p \in Queues : <<q, p>> \in rules}

(* Every prerequisite queue has a successfully closed case among ks. *)
SatisfiedBy(ks, rules, q) ==
  \A p \in Prerequisites(rules, q) :
    \E k \in ks : cases[k].queue = p /\ Succeeded(k)

RequirementsMet(q) == SatisfiedBy(CaseIds, CreationRequirements, q)
BlockersMet(q)     == SatisfiedBy(CaseIds, CloseBlockers, q)

(* The cases the flow keeps for a target queue: one, or one per selected   *)
(* sub-merchant.                                                           *)
SlotsOf(q) ==
  [queue : {q}, sub : IF q \in SubFormQueues THEN selected ELSE {NoSub}]

Occupied(s) ==
  \E k \in CaseIds : Exists(k) /\ cases[k].queue = s.queue /\ cases[k].sub = s.sub

(* Mutant: one case per selected sub-merchant, without a look at what exists. *)
AllSlots(q) == {s \in SlotsOf(q) : s.queue = q}

MissingSlots(q) == {s \in SlotsOf(q) : ~Occupied(s)}

OpenJobs(t) == {j \in JobKeys : jobs[j].state = "open" /\ j[2] = t}
Tombstone(t) == \E j \in JobKeys : j[2] = t /\ jobs[j].state = "done"

RowFree(a, k) == \A b \in Actors \ {a} : k \notin tx[b].rows
JobFree(a, j) == \A b \in Actors \ {a} : j \notin tx[b].jobRows
(* Mutant: the advisory lock is keyed by source case and target. *)
AdvFreePerSource(a, q) ==
  \A b \in Actors \ {a} : tx[b].adv # q \/ tx[b].src # tx[a].src

AdvFree(a, q) == \A b \in Actors \ {a} : tx[b].adv # q
LiveFree(a)   == \A b \in Actors \ {a} : ~tx[b].live

(* Every case a worker or a recovery inserts is linked to its source case:  *)
(* the foreign key of case_links takes FOR KEY SHARE on the source's row,   *)
(* which a FOR UPDATE excludes. Nothing is waited for after it, so the lock *)
(* is taken in the step that commits.                                       *)
Links(a)    == tx[a].op \in {"job", "recover"} /\ tx[a].pc = "ready" /\ tx[a].slots # {}
LinkFree(a) == Links(a) => RowFree(a, tx[a].src)

Running(a, op, pc) == tx[a].op = op /\ tx[a].pc = pc
Set(a, t) == tx' = [tx EXCEPT ![a] = t]

(* Insert one case per slot, under ids chosen by the database. *)
Insert(slots, origin) ==
  \E id \in [slots -> FreeIds] :
    /\ \A s, u \in slots : id[s] = id[u] => s = u
    /\ cases' = [k \in CaseIds |->
                   IF \E s \in slots : id[s] = k
                   THEN LET s == CHOOSE u \in slots : id[u] = k
                        IN  [NoCase EXCEPT !.queue = s.queue, !.sub = s.sub,
                                           !.origin = origin, !.status = "open"]
                   ELSE cases[k]]

-----------------------------------------------------------------------------
(* The merchant was just submitted: the start rules created their cases in *)
(* the transaction that inserted it.                                       *)

Init ==
  /\ cases = [k \in CaseIds |->
                IF \E q \in StartQueues : StartCase[q] = k
                THEN [NoCase EXCEPT
                        !.queue = CHOOSE q \in StartQueues : StartCase[q] = k,
                        !.origin = "start", !.status = "open"]
                ELSE NoCase]
  /\ jobs = [j \in JobKeys |-> NoJob]
  /\ selected = {}
  /\ terminated = FALSE
  /\ tx = [a \in Actors |-> IdleTx]
  /\ faults = 0

-----------------------------------------------------------------------------
(* Creating the target of a close trigger: shared by the worker, the       *)
(* recovery action and (from the row locks on) manual creation.            *)

(* Serialize on (merchant, target), then look for the missing cases and    *)
(* start locking the prerequisite cases.                                   *)
TakeAdvisory(a) ==
  LET t == tx[a].target
      missing == MissingSlots(t)
  IN  /\ tx[a].pc \in {"claimed", "candidate"}
      /\ AdvFree(a, t)
      /\ SlotsOf(t) # {}
      /\ Set(a, [tx[a] EXCEPT
                   !.adv = t,
                   !.slots = missing,
                   !.want = IF missing = {} THEN {}
                            ELSE CasesIn(Prerequisites(CreationRequirements, t)),
                   !.pc = IF missing = {} THEN "ready" ELSE "locking"])
      /\ UNCHANGED <<cases, jobs, selected, terminated, faults>>

(* The savepoint of a worker, or the transaction of a recovery, rolls back *)
(* and leaves the error to be recorded.                                    *)
RolledBack(t, err) ==
  [t EXCEPT !.adv = NoQueue, !.want = {}, !.rows = {}, !.slots = {},
            !.pc = "rolledBack", !.err = err]

(* 409: no sub-merchant is selected in document review. *)
NoSelection(a) ==
  /\ tx[a].pc \in {"claimed", "candidate"}
  /\ AdvFree(a, tx[a].target)
  /\ SlotsOf(tx[a].target) = {}
  /\ Set(a, RolledBack(tx[a], "selection"))
  /\ UNCHANGED <<cases, jobs, selected, terminated, faults>>

NextRow(a, k) == k \in tx[a].want /\ \A l \in tx[a].want : k <= l

(* SELECT ... ORDER BY id FOR UPDATE, one row at a time. *)
LockRow(a) ==
  /\ tx[a].pc = "locking"
  /\ \E k \in CaseIds :
       /\ NextRow(a, k)
       /\ RowFree(a, k)
       /\ Set(a, [tx[a] EXCEPT !.rows = @ \cup {k}, !.want = @ \ {k}])
  /\ UNCHANGED <<cases, jobs, selected, terminated, faults>>

(* Mutant: a blocker is satisfied by any closed case, whatever its outcome. *)
RulesHoldIfClosed(a) ==
  IF tx[a].op = "close"
  THEN \A p \in Prerequisites(CloseBlockers, cases[tx[a].src].queue) :
         \E k \in tx[a].rows : cases[k].queue = p /\ cases[k].status = "closed"
  ELSE SatisfiedBy(tx[a].rows, CreationRequirements, tx[a].target)

RulesHold(a) ==
  IF tx[a].op = "close"
  THEN SatisfiedBy(tx[a].rows, CloseBlockers, cases[tx[a].src].queue)
  ELSE SatisfiedBy(tx[a].rows, CreationRequirements, tx[a].target)

(* Mutant: the prerequisites are read without FOR UPDATE. *)
SatisfiedUnlocked(a) ==
  /\ tx[a].pc = "locking"
  /\ tx[a].want = {}
  /\ RulesHold(a)
  /\ Set(a, [tx[a] EXCEPT !.pc = "ready", !.rows = {}])
  /\ UNCHANGED <<cases, jobs, selected, terminated, faults>>

Satisfied(a) ==
  /\ tx[a].pc = "locking"
  /\ tx[a].want = {}
  /\ RulesHold(a)
  /\ Set(a, [tx[a] EXCEPT !.pc = "ready"])
  /\ UNCHANGED <<cases, jobs, selected, terminated, faults>>

(* 409: a prerequisite queue has no successfully closed case. *)
Refused(a) ==
  /\ tx[a].pc = "locking"
  /\ tx[a].want = {}
  /\ ~RulesHold(a)
  /\ Set(a, IF tx[a].op \in {"job", "recover"}
            THEN RolledBack(tx[a], "requirement") ELSE IdleTx)
  /\ UNCHANGED <<cases, jobs, selected, terminated, faults>>

-----------------------------------------------------------------------------
(* The worker: processCaseFlowCloseJobs, one job per transaction *)

(* FOR UPDATE SKIP LOCKED on a due job. *)
Claim(w, j) ==
  /\ tx[w].pc = "idle"
  /\ jobs[j].state = "open" /\ jobs[j].due
  /\ JobFree(w, j)
  /\ Set(w, [IdleTx EXCEPT !.op = "job", !.pc = "claimed", !.src = j[1],
                           !.target = j[2], !.jobRows = {j}])
  /\ UNCHANGED <<cases, jobs, selected, terminated, faults>>

JobCommit(w) ==
  /\ Running(w, "job", "ready")
  /\ LinkFree(w)
  /\ Insert(tx[w].slots, "close")
  /\ jobs' = [j \in JobKeys |->
                IF j \in tx[w].jobRows
                THEN [jobs[j] EXCEPT !.state = "done", !.err = "none",
                                     !.blocked = FALSE]
                ELSE jobs[j]]
  /\ Set(w, IdleTx)
  /\ UNCHANGED <<selected, terminated, faults>>

(* Mutant: a failed job is given up. *)
DeadLetter(job, err) == [job EXCEPT !.state = "failed", !.due = FALSE, !.err = err]

JobFailure(job, err) ==
  [job EXCEPT !.due = FALSE, !.err = err, !.blocked = (err # "transient")]

(* The outer transaction kept the job row; it records the retry state. *)
JobFail(w) ==
  /\ Running(w, "job", "rolledBack")
  /\ jobs' = [j \in JobKeys |->
                IF j \in tx[w].jobRows /\ jobs[j].state = "open"
                THEN JobFailure(jobs[j], tx[w].err) ELSE jobs[j]]
  /\ Set(w, IdleTx)
  /\ UNCHANGED <<cases, selected, terminated, faults>>

(* Mutant: a blocked job waits for a close to unblock it. *)
TickUnblocked(j) ==
  /\ jobs[j].state = "open" /\ ~jobs[j].due /\ ~jobs[j].blocked
  /\ jobs' = [jobs EXCEPT ![j].due = TRUE]
  /\ UNCHANGED <<cases, selected, terminated, tx, faults>>

(* available_at passes: a retry is due. *)
Tick(j) ==
  /\ jobs[j].state = "open" /\ ~jobs[j].due
  /\ jobs' = [jobs EXCEPT ![j].due = TRUE]
  /\ UNCHANGED <<cases, selected, terminated, tx, faults>>

(* retryFailedCaseFlowCloseJob *)
RetryJob(j) ==
  /\ jobs[j].state = "open" /\ jobs[j].err # "none"
  /\ \A a \in Actors : j \notin tx[a].jobRows
  /\ jobs' = [jobs EXCEPT ![j] = NewJob]
  /\ UNCHANGED <<cases, selected, terminated, tx, faults>>

-----------------------------------------------------------------------------
(* Closing a case *)

(* transitionCaseState locks the case row, then assertCloseBlockersSatisfied *)
(* locks the blockers' cases.  A document review needs a selection.          *)
CloseBegin(r, k) ==
  /\ tx[r].pc = "idle"
  /\ IsOpen(k)
  /\ RowFree(r, k)
  /\ cases[k].queue \in ReviewQueues => selected # {}
  /\ Set(r, [IdleTx EXCEPT
               !.op = "close", !.pc = "locking", !.src = k, !.rows = {k},
               !.want = CasesIn(Prerequisites(CloseBlockers, cases[k].queue)) \ {k}])
  /\ UNCHANGED <<cases, jobs, selected, terminated, faults>>

(* Mutant: no job while another source's job for the target is open. *)
JobsForNewTargets(k) ==
  {j \in JobKeys : /\ j[1] = k
                   /\ <<cases[k].queue, j[2]>> \in CloseTriggers
                   /\ OpenJobs(j[2]) = {} /\ ~Tombstone(j[2])
                   /\ jobs[j].state = "absent"}

(* The jobs the database trigger (and the application again) inserts. *)
JobsFor(k) ==
  {j \in JobKeys : /\ j[1] = k
                   /\ <<cases[k].queue, j[2]>> \in CloseTriggers
                   /\ ~Tombstone(j[2])
                   /\ jobs[j].state = "absent"}

BlockedJobs == {j \in JobKeys : jobs[j].state = "open" /\ jobs[j].blocked}

(* UPDATE cases, the trigger's INSERT, then the UPDATE that re-opens the    *)
(* merchant's blocked jobs starts: it visits the rows its snapshot shows.   *)
CloseWrite(r) ==
  /\ Running(r, "close", "ready")
  /\ Set(r, [tx[r] EXCEPT !.pc = "unblocking", !.newJobs = JobsFor(tx[r].src),
                          !.snap = BlockedJobs])
  /\ UNCHANGED <<cases, jobs, selected, terminated, faults>>

(* Mutant: rows are taken as the snapshot showed them. *)
LockJobStale(r, j) ==
  /\ j \in tx[r].snap
  /\ JobFree(r, j)
  /\ Set(r, [tx[r] EXCEPT !.snap = @ \ {j}, !.jobRows = @ \cup {j}])
  /\ UNCHANGED <<cases, jobs, selected, terminated, faults>>

(* Visit a row of the snapshot: wait for its lock, then re-check it. *)
LockJob(r, j) ==
  LET matches == IF tx[r].pc = "unblocking" THEN j \in BlockedJobs
                 ELSE jobs[j].state = "open"
  IN  /\ j \in tx[r].snap
      /\ JobFree(r, j)
      /\ Set(r, [tx[r] EXCEPT !.snap = @ \ {j},
                              !.jobRows = IF matches THEN @ \cup {j} ELSE @])
      /\ UNCHANGED <<cases, jobs, selected, terminated, faults>>

CloseCommit(r) ==
  /\ Running(r, "close", "unblocking")
  /\ tx[r].snap = {}
  /\ cases' = [cases EXCEPT ![tx[r].src].status = "closed",
                            ![tx[r].src].outcome = "successful"]
  /\ jobs' = [j \in JobKeys |->
                IF j \in tx[r].newJobs THEN NewJob
                ELSE IF j \in tx[r].jobRows
                THEN [jobs[j] EXCEPT !.due = TRUE, !.blocked = FALSE, !.err = "none"]
                ELSE jobs[j]]
  /\ Set(r, IdleTx)
  /\ UNCHANGED <<selected, terminated, faults>>

Unlocked(k) == \A a \in Actors : k \notin tx[a].rows

(* closeUnsuccessful: one row, no blockers, no jobs. *)
CloseUnsuccessful(k) ==
  /\ IsOpen(k)
  /\ Unlocked(k)
  /\ cases' = [cases EXCEPT ![k].status = "closed", ![k].outcome = "unsuccessful"]
  /\ UNCHANGED <<jobs, selected, terminated, tx, faults>>

(* A public resubmission sets a review case back to working, whatever its   *)
(* status; the outcome stays (module Resubmission has the whole handler).   *)
Reopen(k) ==
  /\ cases[k].status = "closed"
  /\ cases[k].queue \in ReviewQueues
  /\ Unlocked(k)
  /\ cases' = [cases EXCEPT ![k].status = "open"]
  /\ UNCHANGED <<jobs, selected, terminated, tx, faults>>

(* The agreement email failed: the send rolls the case back by its id, also *)
(* when it was closed meanwhile (module CaseLifecycle has the handler).     *)
RollBackAgreement(k) ==
  /\ cases[k].status = "closed"
  /\ cases[k].queue \in AgreementQueues
  /\ Unlocked(k)
  /\ faults < MaxFaults
  /\ faults' = faults + 1
  /\ cases' = [cases EXCEPT ![k].status = "open"]
  /\ UNCHANGED <<jobs, selected, terminated, tx>>

(* saveDocumentReviewSubMerchant checks that the review is being worked on, *)
(* then replaces the selection in a transaction that does not look again.   *)
SelectBegin(r) ==
  /\ tx[r].pc = "idle"
  /\ \E k \in CasesIn(ReviewQueues) : IsOpen(k)
  /\ Set(r, [IdleTx EXCEPT !.op = "select", !.pc = "ready"])
  /\ UNCHANGED <<cases, jobs, selected, terminated, faults>>

SelectSubMerchants(r, S) ==
  /\ Running(r, "select", "ready")
  /\ S # {}
  /\ selected' = S
  /\ Set(r, IdleTx)
  /\ UNCHANGED <<cases, jobs, terminated, faults>>

(* terminateMerchant closes every open case; jobs are left as they are. *)
TerminateMerchant ==
  /\ ~terminated
  /\ \A k \in CaseIds : IsOpen(k) => Unlocked(k)
  /\ terminated' = TRUE
  /\ cases' = [k \in CaseIds |->
                 IF IsOpen(k)
                 THEN [cases[k] EXCEPT !.status = "closed", !.outcome = "unsuccessful"]
                 ELSE cases[k]]
  /\ UNCHANGED <<jobs, selected, tx, faults>>

-----------------------------------------------------------------------------
(* Recovery action: createMissingCloseTriggerCases *)

(* The candidate list is read in a transaction of its own. *)
RecoverBegin(r, k, t) ==
  /\ tx[r].pc = "idle"
  /\ Succeeded(k)
  /\ <<cases[k].queue, t>> \in CloseTriggers
  /\ CasesIn({t}) = {}
  /\ ~Tombstone(t)
  /\ Set(r, [IdleTx EXCEPT !.op = "recover", !.pc = "candidate", !.src = k,
                           !.target = t])
  /\ UNCHANGED <<cases, jobs, selected, terminated, faults>>

(* Mutant: the superseded jobs are completed in the creating transaction. *)
RecoverCommitHoldingLocks(r) ==
  /\ Running(r, "recover", "ready")
  /\ LinkFree(r)
  /\ Insert(tx[r].slots, "close")
  /\ Set(r, [tx[r] EXCEPT !.pc = "created", !.slots = {}])
  /\ UNCHANGED <<jobs, selected, terminated, faults>>

RecoverCommit(r) ==
  /\ Running(r, "recover", "ready")
  /\ LinkFree(r)
  /\ Insert(tx[r].slots, "close")
  /\ Set(r, [IdleTx EXCEPT !.op = "recover", !.pc = "created",
                           !.target = tx[r].target])
  /\ UNCHANGED <<jobs, selected, terminated, faults>>

(* Mutant: the jobs are completed after a failed recovery too. *)
SupersedeAlways(r) ==
  /\ tx[r].op = "recover" /\ tx[r].pc \in {"created", "rolledBack"}
  /\ Set(r, [tx[r] EXCEPT !.pc = "superseding", !.snap = OpenJobs(tx[r].target)])
  /\ UNCHANGED <<cases, jobs, selected, terminated, faults>>

(* A separate statement then completes the superseded jobs, or, after an    *)
(* error, records it on them.                                               *)
RecoverUpdate(r) ==
  /\ tx[r].op = "recover" /\ tx[r].pc \in {"created", "rolledBack"}
  /\ Set(r, [tx[r] EXCEPT
               !.pc = IF @ = "created" THEN "superseding" ELSE "recording",
               !.snap = OpenJobs(tx[r].target)])
  /\ UNCHANGED <<cases, jobs, selected, terminated, faults>>

RecoverFinish(r) ==
  /\ tx[r].op = "recover" /\ tx[r].pc \in {"superseding", "recording"}
  /\ tx[r].snap = {}
  /\ jobs' = [j \in JobKeys |->
                IF j \notin tx[r].jobRows THEN jobs[j]
                ELSE IF tx[r].pc = "superseding"
                THEN [jobs[j] EXCEPT !.state = "done", !.err = "none"]
                ELSE [jobs[j] EXCEPT !.err = tx[r].err]]
  /\ Set(r, IdleTx)
  /\ UNCHANGED <<cases, selected, terminated, faults>>

-----------------------------------------------------------------------------
(* Manual creation: createCase.  A live queue is serialized by a lock of    *)
(* its own and refuses a second live case.                                  *)

CreateBegin(r, s) ==
  /\ tx[r].pc = "idle"
  /\ s.queue \in ManualQueues
  /\ (s.sub = NoSub) = (s.queue \notin SubFormQueues)
  /\ s.queue \in LiveQueues => LiveFree(r) /\ CasesIn(LiveQueues) = {}
  /\ Set(r, [IdleTx EXCEPT
               !.op = "create", !.pc = "locking", !.target = s.queue,
               !.live = (s.queue \in LiveQueues), !.slots = {s},
               !.want = CasesIn(Prerequisites(CreationRequirements, s.queue))])
  /\ UNCHANGED <<cases, jobs, selected, terminated, faults>>

CreateCommit(r) ==
  /\ Running(r, "create", "ready")
  /\ Insert(tx[r].slots, "manual")
  /\ Set(r, IdleTx)
  /\ UNCHANGED <<jobs, selected, terminated, faults>>

-----------------------------------------------------------------------------
(* Failures *)

(* What the next step of a waits for: the holders of the lock it needs. *)
WaitsFor(a) ==
  { b \in Actors \ {a} :
      \/ tx[a].pc \in {"claimed", "candidate"} /\ tx[b].adv = tx[a].target
      \/ tx[a].pc = "locking" /\ \E k \in tx[b].rows : NextRow(a, k)
      \/ Links(a) /\ tx[a].src \in tx[b].rows
      \/ /\ \A j \in tx[a].snap : ~JobFree(a, j)
         /\ tx[a].snap \cap tx[b].jobRows # {} }

Waiting == {a \in Actors : WaitsFor(a) # {}}

Deadlocked(a) ==
  /\ a \in Waiting
  /\ \E S \in SUBSET Waiting :
       /\ a \in S
       /\ \A b \in S : /\ WaitsFor(b) \cap S # {}
                       /\ \E c \in S : b \in WaitsFor(c)

(* An error is thrown to the handler: a worker's savepoint and a recovery's *)
(* creation roll back and are recorded; anything else is rolled back whole. *)
Abort(a) ==
  Set(a, IF tx[a].op \in {"job", "recover"} /\ tx[a].pc \in {"claimed", "candidate", "locking", "ready"}
         THEN RolledBack(tx[a], "transient") ELSE IdleTx)

(* PostgreSQL breaks a deadlock by aborting one transaction in it. *)
DeadlockAbort(a) ==
  /\ Deadlocked(a)
  /\ Abort(a)
  /\ UNCHANGED <<cases, jobs, selected, terminated, faults>>

TransientError(a) ==
  /\ tx[a].pc # "idle"
  /\ faults < MaxFaults
  /\ faults' = faults + 1
  /\ Abort(a)
  /\ UNCHANGED <<cases, jobs, selected, terminated>>

(* The process or its connection dies: the transaction is rolled back. *)
Crash(a) ==
  /\ tx[a].pc # "idle"
  /\ faults < MaxFaults
  /\ faults' = faults + 1
  /\ Set(a, IdleTx)
  /\ UNCHANGED <<cases, jobs, selected, terminated>>

-----------------------------------------------------------------------------
(* A transaction under way takes its next step. *)
Step(a) ==
  \/ TakeAdvisory(a) \/ NoSelection(a)
  \/ LockRow(a) \/ Satisfied(a) \/ Refused(a)
  \/ JobCommit(a) \/ JobFail(a)
  \/ CloseWrite(a) \/ CloseCommit(a)
  \/ \E j \in JobKeys : LockJob(a, j)
  \/ RecoverCommit(a) \/ RecoverUpdate(a) \/ RecoverFinish(a)
  \/ CreateCommit(a)
  \/ \E S \in SUBSET SubMerchants : SelectSubMerchants(a, S)
  \/ DeadlockAbort(a)

StaffBegins(r) ==
  \/ SelectBegin(r)
  \/ \E k \in CaseIds : CloseBegin(r, k)
  \/ \E k \in CaseIds, t \in Queues : RecoverBegin(r, k, t)
  \/ \E s \in Slot : CreateBegin(r, s)

Environment ==
  \/ \E k \in CaseIds : CloseUnsuccessful(k) \/ Reopen(k) \/ RollBackAgreement(k)
  \/ TerminateMerchant
  \/ \E j \in JobKeys : Tick(j) \/ RetryJob(j)
  \/ \E a \in Actors : TransientError(a) \/ Crash(a)

Next ==
  \/ \E w \in Workers, j \in JobKeys : Claim(w, j)
  \/ \E r \in Requests : StaffBegins(r)
  \/ \E a \in Actors : Step(a)
  \/ Environment

Spec == Init /\ [][Next]_vars

(* Workers poll for ever and PostgreSQL grants locks in the order they were *)
(* asked for; due jobs are claimed oldest first; time passes.               *)
Triggered == CaseIds \X {pair[2] : pair \in CloseTriggers}   \* jobs there may be

Fairness ==
  /\ \A a \in Actors : SF_vars(Step(a))
  /\ \A j \in Triggered : /\ SF_vars(\E w \in Workers : Claim(w, j))
                          /\ WF_vars(Tick(j))

FairSpec == Spec /\ Fairness

-----------------------------------------------------------------------------
(* Properties *)

Made(s) == {k \in CaseIds : /\ cases[k].origin = "close"
                            /\ cases[k].queue = s.queue /\ cases[k].sub = s.sub}

Promise == INSTANCE FollowUps WITH
  Slots   <- Slot,
  owed    <- {t \in Queues : \E k \in CaseIds : jobs[<<k, t>>].state # "absent"},
  covered <- {q \in Queues : CasesIn({q}) # {}},
  made    <- [s \in Slot |-> Cardinality(Made(s))],
  settled <- {t \in Queues : Tombstone(t)}

(* The outbox, its workers and the recovery action implement the promise.   *)
KeepsPromise == Promise!Spec

(* However many workers, recoveries and re-closes run, the flow creates at  *)
(* most one case per target queue (and sub-merchant).                       *)
OnceOnly ==
  \A k, l \in CaseIds :
    /\ cases[k].origin = "close" /\ cases[l].origin = "close"
    /\ cases[k].queue = cases[l].queue /\ cases[k].sub = cases[l].sub
    => k = l

(* A completed job proves that its target case was created. *)
TombstoneIsProof == \A t \in Queues : Tombstone(t) => CasesIn({t}) # {}

(* A successful close is never forgotten, even if everything crashes right  *)
(* after it: each of its targets has a job, or was created before.          *)
CloseIsOwed ==
  \A k \in CaseIds, t \in Queues :
    Succeeded(k) /\ <<cases[k].queue, t>> \in CloseTriggers =>
      jobs[<<k, t>>].state # "absent" \/ Tombstone(t)

(* The cases a step inserts meet their queue's creation requirements at the *)
(* moment they become visible, although prerequisites can be reopened.      *)
CreatedOnlyWhenRequirementsHold ==
  [][\A k \in CaseIds : ~Exists(k) /\ Exists(k)' =>
       RequirementsMet(cases'[k].queue)]_vars

(* A case is closed successfully only while every close blocker holds. *)
ClosedOnlyWhenUnblocked ==
  [][\A k \in CaseIds : ~Succeeded(k) /\ Succeeded(k)' =>
       BlockersMet(cases[k].queue)]_vars

(* A completed job is never reopened, retried or marked failed. *)
DoneJobsStayDone ==
  [][\A j \in JobKeys : jobs[j].state = "done" => jobs'[j] = jobs[j]]_vars

(* Creations of one target never deadlock: where transactions that close    *)
(* nothing wait for one another in a circle, they create for two targets at *)
(* least, or all are recoveries that have their cases and visit the jobs.   *)
(* (Two workers of different targets can each lock, as a prerequisite, the  *)
(* case the other one links to. A creation with a case per sub-merchant     *)
(* locks again for each; it is left out beside manual creation.)            *)
DeadlocksNeedTwoTargets ==
  \A S \in SUBSET Waiting :
    (\A a \in S : /\ WaitsFor(a) \cap S # {}
                  /\ tx[a].op # "close"
                  /\ tx[a].op = "create" => tx[a].target \notin SubFormQueues) =>
      \/ \E a, b \in S : tx[a].target # tx[b].target
      \/ \A a \in S : tx[a].op = "recover" /\ tx[a].snap # {}

(* Once a target's requirements hold for good, no job for it stays open:    *)
(* failures, blocks, crashes and deadlocks only delay it.                   *)
JobsDrain ==
  \A t \in {rule[2] : rule \in CloseTriggers} :
    <>[](RequirementsMet(t) /\ SlotsOf(t) # {}) => <>[](OpenJobs(t) = {})

=============================================================================
