--------------------------- MODULE CaseLifecycle ---------------------------
(***************************************************************************)
(* One agreement case of an agent's queue from its creation to its close:  *)
(* who owns it (src/modules/cases/case-assignment.service.ts), where it    *)
(* stands (case-stage.service.ts, case-transition.service.ts), what its    *)
(* paperwork needs (agreement-case.service.ts) and which agents may work   *)
(* the queue meanwhile (src/modules/users/users.service.ts).               *)
(*                                                                         *)
(* A request first reads and checks (Begin), then commits.  The reads of   *)
(* one Begin happen one after the other; every commit that relies on the   *)
(* case row tests it again, so nothing tells them from one read.           *)
(* In the agreement queue stage and status say the same and every update   *)
(* writes both; closed_at is set and cleared with the outcome.             *)
(***************************************************************************)
EXTENDS Naturals

CONSTANTS
  Agents,     \* users with the role agent
  NoOne,      \* cases.owner_id is null
  Requests,   \* requests in flight; one that dies takes no further step
  MaxFailed   \* bound: emails that fail

ASSUME LifecycleAssumption == NoOne \notin Agents /\ MaxFailed \in Nat

VARIABLES
  status,     \* cases.status
  owner,      \* cases.owner_id
  outcome,    \* cases.close_outcome
  final,      \* agreement_case_details: the Final Agreement is uploaded,
  received,   \* ... the signed copy is uploaded,
  mail,       \* ... email_status
  access,     \* user_queue_access: may the agent work the queue
  active,     \* users.status
  terminated, \* merchants.status
  req,        \* what each request is doing
  failed      \* emails that failed so far

case   == <<status, owner, outcome>>
papers == <<final, received, mail>>
people == <<access, active>>
vars   == <<case, papers, people, terminated, req, failed>>

Statuses == {"new", "working", "awaiting_merchant", "closed"}
Owners   == Agents \cup {NoOne}
UserStatuses == {"as_is", "active", "inactive"}   \* of updateUser's form

Request ==
  [ op : {"none", "take", "assign", "status", "advance", "fail", "final", "send",
          "manual", "received", "user"},
    pc : {"idle", "checked", "reserved", "unsent"},
    user : Owners,                        \* who acts, is assigned or is changed
    owner : Owners, status : Statuses,    \* the case as it was read
    works : BOOLEAN, becomes : UserStatuses ]   \* what the form says of the user

Idle == [op |-> "none", pc |-> "idle", user |-> NoOne, owner |-> NoOne,
         status |-> "new", works |-> FALSE, becomes |-> "as_is"]

TypeOK ==
  /\ status \in Statuses /\ owner \in Owners
  /\ outcome \in {"none", "successful", "unsuccessful"}
  /\ final \in BOOLEAN /\ received \in BOOLEAN
  /\ mail \in {"not_sent", "sent", "failed"}
  /\ access \in [Agents -> BOOLEAN] /\ active \in [Agents -> BOOLEAN]
  /\ terminated \in BOOLEAN
  /\ req \in [Requests -> Request]
  /\ failed \in 0..MaxFailed

Init ==
  /\ status = "new" /\ owner = NoOne /\ outcome = "none"
  /\ final = FALSE /\ received = FALSE /\ mail = "not_sent"
  /\ access \in [Agents -> BOOLEAN]
  /\ active = [u \in Agents |-> TRUE]
  /\ terminated = FALSE
  /\ req = [r \in Requests |-> Idle]
  /\ failed = 0

-----------------------------------------------------------------------------
Begin(r, op, u) ==
  /\ req[r].pc = "idle"
  /\ req' = [req EXCEPT ![r] = [Idle EXCEPT
               !.op = op, !.pc = "checked", !.user = u,
               !.owner = owner, !.status = status]]
  /\ UNCHANGED <<case, papers, people, terminated, failed>>

Doing(r, op) == req[r].op = op /\ req[r].pc = "checked"

Finish(r) ==
  /\ req' = [req EXCEPT ![r] = Idle]
  /\ UNCHANGED <<people, terminated, failed>>

(* The caller is signed in, owns the case and may work its queue. *)
MayWork(u) == active[u] /\ owner = u /\ access[u]

(* "Closed cases cannot be assigned or transferred." *)
Assignable == status # "closed" /\ outcome = "none"

(* An update that tests the row it locked: nothing happens when the guard   *)
(* of transitionCaseState finds a case other than the one that was read.    *)
Transition(guard, status2, owner2, outcome2) ==
  IF guard THEN status' = status2 /\ owner' = owner2 /\ outcome' = outcome2
           ELSE UNCHANGED case

-----------------------------------------------------------------------------
(* Ownership *)

TakeBegin(r, u) ==
  /\ active[u]
  /\ Assignable /\ owner = NoOne /\ status = "new"
  /\ Begin(r, "take", u)

TakeCommit(r) ==
  /\ Doing(r, "take")
  /\ Transition(access[req[r].user] /\ status = req[r].status /\ owner = NoOne,
                "working", req[r].user, outcome)
  /\ Finish(r)
  /\ UNCHANGED papers

MayOwn(u) == u # NoOne => active[u] /\ access[u]

(* Who becomes the owner, and where the case goes with that. *)
StatusUnder(u, s) == IF u = NoOne THEN "new" ELSE IF s = "new" THEN "working" ELSE s

AssignBegin(r, u) ==
  /\ Assignable /\ MayOwn(u) /\ owner # u
  /\ Begin(r, "assign", u)

(* Mutant: the transfer tests where the case stands, not whose it is. *)
AssignWhereItStands(r) ==
  /\ Doing(r, "assign")
  /\ Transition(status = req[r].status,
                StatusUnder(req[r].user, req[r].status), req[r].user,
                IF req[r].user = NoOne THEN "none" ELSE outcome)
  /\ Finish(r)
  /\ UNCHANGED papers

AssignCommit(r) ==
  /\ Doing(r, "assign")
  /\ Transition(status = req[r].status /\ owner = req[r].owner,
                StatusUnder(req[r].user, req[r].status), req[r].user,
                IF req[r].user = NoOne THEN "none" ELSE outcome)
  /\ Finish(r)
  /\ UNCHANGED papers

(* bulkAssignCases locks the case and looks at it under the lock. *)
BulkAssign(u) ==
  /\ Assignable /\ MayOwn(u) /\ owner # u
  /\ owner' = u /\ status' = StatusUnder(u, status)
  /\ outcome' = IF u = NoOne THEN "none" ELSE outcome
  /\ UNCHANGED <<papers, people, terminated, req, failed>>

-----------------------------------------------------------------------------
(* Stages *)

(* updateCaseStatus: only from awaiting_merchant, only to working. *)
StatusBegin(r, u) ==
  /\ MayWork(u) /\ status = "awaiting_merchant"
  /\ Begin(r, "status", u)

StatusCommit(r) ==
  /\ Doing(r, "status")
  /\ Transition(status = req[r].status /\ owner = req[r].user,
                "working", owner, outcome)
  /\ Finish(r)
  /\ UNCHANGED papers

(* advanceStage reads the paperwork before the case is locked. *)
AdvanceBegin(r, u) ==
  /\ MayWork(u) /\ status = "working"
  /\ final /\ received
  /\ Begin(r, "advance", u)

(* Mutant: the close trusts what it read. *)
AdvanceUnguarded(r) ==
  /\ Doing(r, "advance")
  /\ Transition(TRUE, "closed", owner, "successful")
  /\ Finish(r)
  /\ UNCHANGED papers

AdvanceCommit(r) ==
  /\ Doing(r, "advance")
  /\ Transition(status = req[r].status /\ owner = req[r].user,
                "closed", owner, "successful")
  /\ Finish(r)
  /\ UNCHANGED papers

(* A blocker is open, or the latest email has not been delivered. *)
AdvanceRefused(r) ==
  /\ Doing(r, "advance")
  /\ Finish(r)
  /\ UNCHANGED <<case, papers>>

(* closeUnsuccessful *)
FailBegin(r, u) ==
  /\ MayWork(u) /\ status # "closed"
  /\ Begin(r, "fail", u)

FailCommit(r) ==
  /\ Doing(r, "fail")
  /\ Transition(status = req[r].status /\ owner = req[r].user,
                "closed", owner, "unsuccessful")
  /\ Finish(r)
  /\ UNCHANGED papers

(* terminateMerchant closes what is open, once. *)
Terminate ==
  /\ ~terminated
  /\ terminated' = TRUE
  /\ Transition(status # "closed", "closed", owner, "unsuccessful")
  /\ UNCHANGED <<papers, people, req, failed>>

-----------------------------------------------------------------------------
(* Paperwork *)

(* uploadAgreementFinalAgreement: checks, a long upload, then an update     *)
(* that looks at nothing.                                                   *)
FinalBegin(r, u) ==
  /\ MayWork(u) /\ status = "working" /\ mail # "sent"
  /\ Begin(r, "final", u)

FinalCommit(r) ==
  /\ Doing(r, "final")
  /\ final' = TRUE /\ received' = FALSE /\ mail' = "not_sent"
  /\ Finish(r)
  /\ UNCHANGED case

(* The one update that moves a case to its merchant. *)
Reserve(r) ==
  /\ IF status = "working"
     THEN /\ status' = "awaiting_merchant"
          /\ req' = [req EXCEPT ![r].pc = "reserved"]
     ELSE /\ req' = [req EXCEPT ![r] = Idle]
          /\ UNCHANGED status
  /\ UNCHANGED <<owner, outcome, papers, people, terminated, failed>>

(* sendAgreementToClient *)
SendBegin(r, u) ==
  /\ MayWork(u) /\ status = "working" /\ final
  /\ Begin(r, "send", u)

SendReserve(r) == Doing(r, "send") /\ Reserve(r)

SendSent(r) ==
  /\ req[r].op = "send" /\ req[r].pc = "reserved"
  /\ mail' = "sent"
  /\ Finish(r)
  /\ UNCHANGED <<case, final, received>>

(* The email fails: the case goes back to working, whatever it is by now. *)
SendFailed(r) ==
  /\ req[r].op = "send" /\ req[r].pc = "reserved"
  /\ failed < MaxFailed
  /\ failed' = failed + 1
  /\ status' = "working"
  /\ req' = [req EXCEPT ![r].pc = "unsent"]
  /\ UNCHANGED <<owner, outcome, papers, people, terminated>>

SendRecord(r) ==
  /\ req[r].op = "send" /\ req[r].pc = "unsent"
  /\ mail' = "failed"
  /\ Finish(r)
  /\ UNCHANGED <<case, final, received>>

(* confirmAgreementEmailManual: staff sent the email themselves.  When the  *)
(* proof cannot be uploaded the case stays with the merchant.               *)
ManualBegin(r, u) ==
  /\ MayWork(u) /\ status = "working" /\ final
  /\ Begin(r, "manual", u)

ManualReserve(r) == Doing(r, "manual") /\ Reserve(r)

ManualConfirm(r, proven) ==
  /\ req[r].op = "manual" /\ req[r].pc = "reserved"
  /\ mail' = IF proven THEN "sent" ELSE mail
  /\ Finish(r)
  /\ UNCHANGED <<case, final, received>>

(* uploadReceivedAgreement *)
ReceivedBegin(r, u) ==
  /\ MayWork(u) /\ status = "awaiting_merchant"
  /\ final /\ mail = "sent"
  /\ Begin(r, "received", u)

(* Mutant: the case is back in work wherever it went during the upload. *)
ReceivedAnyway(r) ==
  /\ Doing(r, "received")
  /\ received' = TRUE
  /\ Transition(TRUE, "working", owner, outcome)
  /\ Finish(r)
  /\ UNCHANGED <<final, mail>>

ReceivedCommit(r) ==
  /\ Doing(r, "received")
  /\ received' = TRUE
  /\ Transition(status = "awaiting_merchant", "working", owner, outcome)
  /\ Finish(r)
  /\ UNCHANGED <<final, mail>>

-----------------------------------------------------------------------------
(* Agents *)

(* updateUser: the new access is the form's, or the one just read.  It must *)
(* not strand open cases unless the user is deactivated with it.            *)
UserBegin(r, u, works, becomes) ==
  /\ req[r].pc = "idle"
  /\ access[u] /\ ~works /\ becomes # "inactive" => ~(owner = u /\ status # "closed")
  /\ req' = [req EXCEPT ![r] = [Idle EXCEPT
               !.op = "user", !.pc = "checked", !.user = u,
               !.works = works, !.becomes = becomes]]
  /\ UNCHANGED <<case, papers, people, terminated, failed>>

Becomes(now, form) == form = "active" \/ (now /\ form # "inactive")

(* Mutant: replaceQueueAccess deletes the rows and inserts none. *)
RowsOnlyDeleted(r) ==
  /\ Doing(r, "user")
  /\ access' = [u \in Agents \ {req[r].user} |-> access[u]]
  /\ active' = [active EXCEPT ![req[r].user] = Becomes(@, req[r].becomes)]
  /\ req' = [req EXCEPT ![r] = Idle]
  /\ UNCHANGED <<case, papers, terminated, failed>>

UserCommit(r) ==
  /\ Doing(r, "user")
  /\ access' = [access EXCEPT ![req[r].user] = req[r].works]
  /\ active' = [active EXCEPT ![req[r].user] = Becomes(@, req[r].becomes)]
  /\ req' = [req EXCEPT ![r] = Idle]
  /\ UNCHANGED <<case, papers, terminated, failed>>

(* bulkUpdateUserStatus *)
SetActive(u, on) ==
  /\ active' = [active EXCEPT ![u] = on]
  /\ UNCHANGED <<case, papers, access, terminated, req, failed>>

-----------------------------------------------------------------------------
Starts(r) ==
  \/ \E u \in Agents :
       \/ TakeBegin(r, u) \/ StatusBegin(r, u) \/ AdvanceBegin(r, u) \/ FailBegin(r, u)
       \/ FinalBegin(r, u) \/ SendBegin(r, u) \/ ManualBegin(r, u) \/ ReceivedBegin(r, u)
       \/ \E works \in BOOLEAN, becomes \in UserStatuses : UserBegin(r, u, works, becomes)
  \/ \E u \in Owners : AssignBegin(r, u)

Commits(r) ==
  \/ TakeCommit(r) \/ AssignCommit(r) \/ StatusCommit(r)
  \/ AdvanceCommit(r) \/ AdvanceRefused(r) \/ FailCommit(r) \/ FinalCommit(r)
  \/ SendReserve(r) \/ SendSent(r) \/ SendFailed(r) \/ SendRecord(r)
  \/ ManualReserve(r) \/ (\E proven \in BOOLEAN : ManualConfirm(r, proven))
  \/ ReceivedCommit(r) \/ UserCommit(r)

Next ==
  \/ \E r \in Requests : Starts(r) \/ Commits(r)
  \/ \E u \in Owners : BulkAssign(u)
  \/ \E u \in Agents, on \in BOOLEAN : SetActive(u, on)
  \/ Terminate

Spec == Init /\ [][Next]_vars

-----------------------------------------------------------------------------
(* Properties *)

(* A case has an owner exactly while it is being worked: whatever           *)
(* unassignments, uploads, sends and transfers overlap, none leaves a case  *)
(* in work that nobody owns and nobody can take.  The rollback of a failed  *)
(* email does that, so the second half is about runs without one.           *)
OwnedUnlessNew ==
  /\ status = "new" => owner = NoOne
  /\ failed = 0 /\ status \in {"working", "awaiting_merchant"} => owner # NoOne

(* No one's assignment is overwritten by a take or a transfer that has not  *)
(* seen it.                                                                 *)
NoLostAssignment ==
  [][\A r \in Requests :
       req[r].op \in {"take", "assign"} /\ req'[r] # req[r] /\ owner' # owner =>
         owner = req[r].owner]_vars

(* A close is not undone, nor made into another, by a request that began    *)
(* before it; the rollback of a failed email alone takes the case back.     *)
ClosedIsFrozen ==
  [][status = "closed" =>
       /\ owner' = owner /\ outcome' = outcome
       /\ status' = "closed" \/ failed' > failed]_vars

=============================================================================
