----------------------- MODULE CaseLifecycle_proofs ------------------------
(* Ownership and closing, for every set of agents and requests. *)
EXTENDS CaseLifecycle, TLAPS

(* What a request remembers of the case: it was not closed when the request *)
(* began and, to be taken, had no owner; only an assignment is to nobody.   *)
Remembers ==
  \A r \in Requests :
    /\ req[r].op \notin {"none", "user"} => req[r].status # "closed"
    /\ req[r].op \notin {"none", "assign"} => req[r].user \in Agents
    /\ req[r].op = "take" => req[r].owner = NoOne

Kept == TypeOK /\ Remembers /\ OwnedUnlessNew

LEMMA IdleIsRequest == Idle \in Request
  BY DEF Idle, Request, Owners, Statuses, UserStatuses

LEMMA InitKept == Init => Kept
<1> SUFFICES ASSUME Init PROVE Kept
  OBVIOUS
<1>1. TypeOK
  <2>1. active \in [Agents -> BOOLEAN] /\ access \in [Agents -> BOOLEAN]
    BY DEF Init
  <2>2. req \in [Requests -> Request]
    BY IdleIsRequest DEF Init
  <2>3. failed \in 0..MaxFailed
    BY LifecycleAssumption DEF Init
  <2> QED BY <2>1, <2>2, <2>3 DEF Init, TypeOK, Statuses, Owners
<1>2. Remembers /\ OwnedUnlessNew
  BY DEF Init, Remembers, OwnedUnlessNew, Idle
<1> QED BY <1>1, <1>2 DEF Kept

-----------------------------------------------------------------------------
(* Every request that begins has looked at an open case. *)
LEMMA BeginKeeps ==
  ASSUME Kept, NEW r \in Requests, NEW u \in Owners,
         NEW op \in {"take", "assign", "status", "advance", "fail", "final", "send",
                     "manual", "received"},
         status # "closed", op # "assign" => u \in Agents, op = "take" => owner = NoOne,
         Begin(r, op, u)
  PROVE  Kept'
<1> DEFINE new == [Idle EXCEPT !.op = op, !.pc = "checked", !.user = u,
                               !.owner = owner, !.status = status]
<1>1. /\ new \in Request
      /\ new.op = op /\ new.user = u /\ new.status = status /\ new.owner = owner
  BY DEF Idle, Request, Kept, TypeOK, Owners, Statuses, UserStatuses
<1>2. req' = [req EXCEPT ![r] = new]
  BY DEF Begin
<1> HIDE DEF new
<1>3. req' \in [Requests -> Request]
  BY <1>1, <1>2 DEF Kept, TypeOK
<1>4. TypeOK'
  BY <1>3 DEF Begin, Kept, TypeOK, case, papers, people
<1>5. Remembers'
  <2> SUFFICES ASSUME NEW q \in Requests
               PROVE  /\ req'[q].op \notin {"none", "user"} => req'[q].status # "closed"
                      /\ req'[q].op \notin {"none", "assign"} => req'[q].user \in Agents
                      /\ req'[q].op = "take" => req'[q].owner = NoOne
    BY DEF Remembers
  <2>1. CASE q = r
    BY <2>1, <1>1, <1>2 DEF Kept, TypeOK
  <2>2. CASE q # r
    BY <2>2, <1>2 DEF Kept, TypeOK, Remembers
  <2> QED BY <2>1, <2>2
<1>6. OwnedUnlessNew'
  BY DEF Begin, Kept, OwnedUnlessNew, case
<1> QED BY <1>4, <1>5, <1>6 DEF Kept

(* A request that ends, or goes on with its operation, remembers no more    *)
(* than it did.                                                             *)
LEMMA EndRemembers ==
  ASSUME Kept, NEW r \in Requests, req' = [req EXCEPT ![r] = Idle]
  PROVE  req' \in [Requests -> Request] /\ Remembers'
<1>1. req' \in [Requests -> Request]
  BY IdleIsRequest DEF Kept, TypeOK
<1>2. Remembers'
  <2> SUFFICES ASSUME NEW q \in Requests
               PROVE  /\ req'[q].op \notin {"none", "user"} => req'[q].status # "closed"
                      /\ req'[q].op \notin {"none", "assign"} => req'[q].user \in Agents
                      /\ req'[q].op = "take" => req'[q].owner = NoOne
    BY DEF Remembers
  <2>1. CASE q = r
    BY <2>1 DEF Kept, TypeOK, Idle
  <2>2. CASE q # r
    BY <2>2 DEF Kept, TypeOK, Remembers
  <2> QED BY <2>1, <2>2
<1> QED BY <1>1, <1>2

LEMMA GoOnRemembers ==
  ASSUME Kept, NEW r \in Requests, NEW p \in {"reserved", "unsent"},
         req' = [req EXCEPT ![r].pc = p]
  PROVE  req' \in [Requests -> Request] /\ Remembers'
<1>1. req[r] \in Request
  BY DEF Kept, TypeOK
<1>2. /\ [req[r] EXCEPT !.pc = p] \in Request
      /\ [req[r] EXCEPT !.pc = p].op = req[r].op
      /\ [req[r] EXCEPT !.pc = p].user = req[r].user
      /\ [req[r] EXCEPT !.pc = p].status = req[r].status
      /\ [req[r] EXCEPT !.pc = p].owner = req[r].owner
  BY <1>1 DEF Request
<1>3. req' = [req EXCEPT ![r] = [req[r] EXCEPT !.pc = p]]
  BY DEF Kept, TypeOK
<1>4. req' \in [Requests -> Request]
  BY <1>2, <1>3 DEF Kept, TypeOK
<1>5. Remembers'
  <2> SUFFICES ASSUME NEW q \in Requests
               PROVE  /\ req'[q].op \notin {"none", "user"} => req'[q].status # "closed"
                      /\ req'[q].op \notin {"none", "assign"} => req'[q].user \in Agents
                      /\ req'[q].op = "take" => req'[q].owner = NoOne
    BY DEF Remembers
  <2>1. CASE q = r
    BY <2>1, <1>2, <1>3 DEF Kept, TypeOK, Remembers
  <2>2. CASE q # r
    BY <2>2, <1>3 DEF Kept, TypeOK, Remembers
  <2> QED BY <2>1, <2>2
<1> QED BY <1>4, <1>5

-----------------------------------------------------------------------------
(* A commit that ends its request keeps the invariant when what it does to  *)
(* the case and its papers does.                                            *)
LEMMA FinishKeeps ==
  ASSUME Kept, NEW r \in Requests, Finish(r),
         status' \in Statuses, owner' \in Owners,
         outcome' \in {"none", "successful", "unsuccessful"},
         final' \in BOOLEAN, received' \in BOOLEAN,
         mail' \in {"not_sent", "sent", "failed"},
         status' = "new" => owner' = NoOne,
         failed = 0 /\ status' \in {"working", "awaiting_merchant"} => owner' # NoOne
  PROVE  Kept'
<1>1. req' \in [Requests -> Request] /\ Remembers'
  BY EndRemembers DEF Finish
<1>2. TypeOK'
  BY <1>1 DEF Finish, Kept, TypeOK, people
<1>3. OwnedUnlessNew'
  BY DEF Finish, OwnedUnlessNew
<1> QED BY <1>1, <1>2, <1>3 DEF Kept

LEMMA StartsKeep ==
  ASSUME Kept, NEW r \in Requests, Starts(r)
  PROVE  Kept'
<1>1. ASSUME NEW u \in Agents, TakeBegin(r, u) PROVE Kept'
  BY <1>1, BeginKeeps DEF TakeBegin, Assignable, Owners
<1>2. ASSUME NEW u \in Agents, StatusBegin(r, u) PROVE Kept'
  BY <1>2, BeginKeeps DEF StatusBegin, Owners
<1>3. ASSUME NEW u \in Agents, AdvanceBegin(r, u) PROVE Kept'
  BY <1>3, BeginKeeps DEF AdvanceBegin, Owners
<1>4. ASSUME NEW u \in Agents, FailBegin(r, u) PROVE Kept'
  BY <1>4, BeginKeeps DEF FailBegin, Owners
<1>5. ASSUME NEW u \in Agents, FinalBegin(r, u) PROVE Kept'
  BY <1>5, BeginKeeps DEF FinalBegin, Owners
<1>6. ASSUME NEW u \in Agents, SendBegin(r, u) PROVE Kept'
  BY <1>6, BeginKeeps DEF SendBegin, Owners
<1>7. ASSUME NEW u \in Agents, ManualBegin(r, u) PROVE Kept'
  BY <1>7, BeginKeeps DEF ManualBegin, Owners
<1>8. ASSUME NEW u \in Agents, ReceivedBegin(r, u) PROVE Kept'
  BY <1>8, BeginKeeps DEF ReceivedBegin, Owners
<1>9. ASSUME NEW u \in Owners, AssignBegin(r, u) PROVE Kept'
  BY <1>9, BeginKeeps DEF AssignBegin, Assignable
<1>10. ASSUME NEW u \in Agents, NEW works \in BOOLEAN, NEW becomes \in UserStatuses,
              UserBegin(r, u, works, becomes)
       PROVE  Kept'
  <2> DEFINE new == [Idle EXCEPT !.op = "user", !.pc = "checked", !.user = u,
                                 !.works = works, !.becomes = becomes]
  <2>1. new \in Request /\ new.op = "user" /\ new.user = u
    BY DEF Idle, Request, Owners, Statuses, UserStatuses
  <2>2. req' = [req EXCEPT ![r] = new]
    BY <1>10 DEF UserBegin
  <2> HIDE DEF new
  <2>3. req' \in [Requests -> Request]
    BY <2>1, <2>2 DEF Kept, TypeOK
  <2>4. TypeOK'
    BY <1>10, <2>3 DEF UserBegin, Kept, TypeOK, case, papers, people
  <2>5. Remembers'
    <3> SUFFICES ASSUME NEW q \in Requests
                 PROVE  /\ req'[q].op \notin {"none", "user"} => req'[q].status # "closed"
                        /\ req'[q].op \notin {"none", "assign"} => req'[q].user \in Agents
                        /\ req'[q].op = "take" => req'[q].owner = NoOne
      BY DEF Remembers
    <3>1. CASE q = r
      BY <3>1, <2>1, <2>2 DEF Kept, TypeOK
    <3>2. CASE q # r
      BY <3>2, <2>2 DEF Kept, TypeOK, Remembers
    <3> QED BY <3>1, <3>2
  <2>6. OwnedUnlessNew'
    BY <1>10 DEF UserBegin, Kept, OwnedUnlessNew, case
  <2> QED BY <2>4, <2>5, <2>6 DEF Kept
<1> QED BY <1>1, <1>2, <1>3, <1>4, <1>5, <1>6, <1>7, <1>8, <1>9, <1>10 DEF Starts

LEMMA ReserveKeeps ==
  ASSUME Kept, NEW r \in Requests, Reserve(r)
  PROVE  Kept'
<1>1. req' \in [Requests -> Request] /\ Remembers'
  BY EndRemembers, GoOnRemembers DEF Reserve
<1>2. TypeOK'
  BY <1>1 DEF Reserve, Kept, TypeOK, Statuses, papers, people
<1>3. OwnedUnlessNew'
  BY DEF Reserve, Kept, OwnedUnlessNew
<1> QED BY <1>1, <1>2, <1>3 DEF Kept

LEMMA CommitsKeep ==
  ASSUME Kept, NEW r \in Requests, Commits(r)
  PROVE  Kept'
<1> USE DEF Doing, Transition
<1>t. /\ TypeOK /\ Remembers /\ OwnedUnlessNew
      /\ req[r] \in Request
  BY DEF Kept, TypeOK
<1>1. CASE TakeCommit(r)
  <2>1. req[r].user \in Agents
    BY <1>1, <1>t DEF TakeCommit, Remembers
  <2> QED BY <1>1, <1>t, <2>1, FinishKeeps, LifecycleAssumption
      DEF TakeCommit, TypeOK, OwnedUnlessNew, Owners, Statuses, case, papers
<1>2. CASE AssignCommit(r)
  <2>1. req[r].user \in Owners /\ req[r].status \in Statuses
    BY <1>t DEF Request
  <2>2. /\ StatusUnder(req[r].user, req[r].status) \in Statuses
        /\ StatusUnder(req[r].user, req[r].status) = "new" => req[r].user = NoOne
        /\ StatusUnder(req[r].user, req[r].status) # "new" => req[r].user # NoOne
    BY <2>1 DEF StatusUnder, Statuses
  <2> QED BY <1>2, <1>t, <2>1, <2>2, FinishKeeps
      DEF AssignCommit, TypeOK, OwnedUnlessNew, case, papers
<1>3. CASE StatusCommit(r)
  <2>1. req[r].user \in Agents
    BY <1>3, <1>t DEF StatusCommit, Remembers
  <2> QED BY <1>3, <1>t, <2>1, FinishKeeps, LifecycleAssumption
      DEF StatusCommit, TypeOK, OwnedUnlessNew, Statuses, case, papers
<1>4. CASE AdvanceCommit(r)
  BY <1>4, <1>t, FinishKeeps DEF AdvanceCommit, TypeOK, OwnedUnlessNew, Statuses, case, papers
<1>5. CASE AdvanceRefused(r)
  BY <1>5, <1>t, FinishKeeps DEF AdvanceRefused, TypeOK, OwnedUnlessNew, case, papers
<1>6. CASE FailCommit(r)
  BY <1>6, <1>t, FinishKeeps DEF FailCommit, TypeOK, OwnedUnlessNew, Statuses, case, papers
<1>7. CASE FinalCommit(r)
  BY <1>7, <1>t, FinishKeeps DEF FinalCommit, TypeOK, OwnedUnlessNew, case
<1>8. CASE SendReserve(r)
  BY <1>8, ReserveKeeps DEF SendReserve
<1>9. CASE SendSent(r)
  BY <1>9, <1>t, FinishKeeps DEF SendSent, TypeOK, OwnedUnlessNew, case
<1>10. CASE SendFailed(r)
  <2>1. req' \in [Requests -> Request] /\ Remembers'
    BY <1>10, GoOnRemembers DEF SendFailed
  <2>2. failed' \in 0..MaxFailed /\ failed' # 0
    BY <1>10, <1>t, LifecycleAssumption DEF SendFailed, TypeOK
  <2>3. TypeOK'
    BY <1>10, <1>t, <2>1, <2>2 DEF SendFailed, TypeOK, Statuses, papers, people
  <2>4. OwnedUnlessNew'
    BY <1>10, <2>2 DEF SendFailed, OwnedUnlessNew
  <2> QED BY <2>1, <2>3, <2>4 DEF Kept
<1>11. CASE SendRecord(r)
  BY <1>11, <1>t, FinishKeeps DEF SendRecord, TypeOK, OwnedUnlessNew, case
<1>12. CASE ManualReserve(r)
  BY <1>12, ReserveKeeps DEF ManualReserve
<1>13. ASSUME NEW proven \in BOOLEAN, ManualConfirm(r, proven) PROVE Kept'
  BY <1>13, <1>t, FinishKeeps DEF ManualConfirm, TypeOK, OwnedUnlessNew, case
<1>14. CASE ReceivedCommit(r)
  BY <1>14, <1>t, FinishKeeps DEF ReceivedCommit, TypeOK, OwnedUnlessNew, Statuses, case
<1>15. CASE UserCommit(r)
  <2>1. req' \in [Requests -> Request] /\ Remembers'
    BY <1>15, EndRemembers DEF UserCommit
  <2>2. req[r].user \in Agents /\ req[r].works \in BOOLEAN
    BY <1>15, <1>t DEF UserCommit, Remembers, Request
  <2>3. access' \in [Agents -> BOOLEAN]
    BY <1>15, <1>t, <2>2 DEF UserCommit, TypeOK
  <2>4. active' \in [Agents -> BOOLEAN]
    <3>1. Becomes(active[req[r].user], req[r].becomes) \in BOOLEAN
      BY DEF Becomes
    <3> QED BY <1>15, <1>t, <2>2, <3>1 DEF UserCommit, TypeOK
  <2>5. TypeOK'
    BY <1>15, <1>t, <2>1, <2>3, <2>4 DEF UserCommit, TypeOK, case, papers
  <2>6. OwnedUnlessNew'
    BY <1>15, <1>t DEF UserCommit, OwnedUnlessNew, case
  <2> QED BY <2>1, <2>5, <2>6 DEF Kept
<1> QED BY <1>1, <1>2, <1>3, <1>4, <1>5, <1>6, <1>7, <1>8, <1>9, <1>10, <1>11, <1>12,
           <1>13, <1>14, <1>15 DEF Commits

LEMMA StepKept == Kept /\ [Next]_vars => Kept'
<1> SUFFICES ASSUME Kept, [Next]_vars PROVE Kept'
  OBVIOUS
<1>1. ASSUME NEW r \in Requests, Starts(r) \/ Commits(r) PROVE Kept'
  BY <1>1, StartsKeep, CommitsKeep
<1>2. ASSUME NEW u \in Owners, BulkAssign(u) PROVE Kept'
  BY <1>2 DEF BulkAssign, StatusUnder, Kept, TypeOK, Remembers, OwnedUnlessNew, Statuses,
              papers, people
<1>3. ASSUME NEW u \in Agents, NEW on \in BOOLEAN, SetActive(u, on) PROVE Kept'
  BY <1>3 DEF SetActive, Kept, TypeOK, Remembers, OwnedUnlessNew, case, papers
<1>4. CASE Terminate
  BY <1>4 DEF Terminate, Transition, Kept, TypeOK, Remembers, OwnedUnlessNew, Statuses,
              case, papers, people
<1>5. CASE UNCHANGED vars
  BY <1>5 DEF vars, Kept, TypeOK, Remembers, OwnedUnlessNew, case, papers, people
<1> QED BY <1>1, <1>2, <1>3, <1>4, <1>5 DEF Next

LEMMA AlwaysKept == Spec => []Kept
  BY InitKept, StepKept, PTL DEF Spec

(* Every variable keeps its type. *)
THEOREM LifecycleTypes == Spec => []TypeOK
<1>1. Kept => TypeOK
  BY DEF Kept
<1> QED BY AlwaysKept, <1>1, PTL

-----------------------------------------------------------------------------
(* Owned while in work, free while new: for any number of agents and of     *)
(* requests that read before and write after each other.                    *)
THEOREM InWorkIsOwned == Spec => []OwnedUnlessNew
<1>1. Kept => OwnedUnlessNew
  BY DEF Kept
<1> QED BY AlwaysKept, <1>1, PTL

-----------------------------------------------------------------------------
(* Beginning changes nothing of the case. *)
LEMMA StartsLeaveCase ==
  ASSUME NEW r \in Requests, Starts(r)
  PROVE  UNCHANGED case
  BY DEF Starts, Begin, TakeBegin, StatusBegin, AdvanceBegin, FailBegin, FinalBegin,
         SendBegin, ManualBegin, ReceivedBegin, UserBegin, AssignBegin

(* Of the requests only a take or an assignment changes the owner. *)
LEMMA OwnersChange ==
  ASSUME NEW r \in Requests, Starts(r) \/ Commits(r), owner' # owner
  PROVE  TakeCommit(r) \/ AssignCommit(r)
<1>1. Commits(r)
  BY StartsLeaveCase DEF case
<1> QED BY <1>1
    DEF Commits, StatusCommit, AdvanceCommit, AdvanceRefused, FailCommit, FinalCommit,
        SendReserve, ManualReserve, Reserve, SendSent, SendFailed, SendRecord,
        ManualConfirm, ReceivedCommit, UserCommit, Transition, case

(* No take and no transfer overwrites an owner it has not seen. *)
THEOREM AssignmentsAreSeen == Spec => NoLostAssignment
<1>1. Kept /\ [Next]_vars =>
        [\A r \in Requests :
           req[r].op \in {"take", "assign"} /\ req'[r] # req[r] /\ owner' # owner =>
             owner = req[r].owner]_vars
  <2> SUFFICES ASSUME Kept, Next, NEW r \in Requests,
                      req[r].op \in {"take", "assign"}, req'[r] # req[r], owner' # owner
               PROVE  owner = req[r].owner
    OBVIOUS
  <2>1. PICK q \in Requests : Starts(q) \/ Commits(q)
    BY DEF Next, BulkAssign, SetActive, Terminate
  <2>2. TakeCommit(q) \/ AssignCommit(q)
    BY <2>1, OwnersChange
  <2>3. q = r
    BY <2>2 DEF TakeCommit, AssignCommit, Finish, Kept, TypeOK
  <2>4. CASE TakeCommit(r)
    BY <2>4 DEF TakeCommit, Doing, Transition, case, Kept, Remembers
  <2>5. CASE AssignCommit(r)
    BY <2>5 DEF AssignCommit, Doing, Transition, case
  <2> QED BY <2>2, <2>3, <2>4, <2>5
<1> QED BY AlwaysKept, <1>1, PTL DEF Spec, NoLostAssignment

(* A close stays as it was made, but for the rollback of a failed email. *)
THEOREM CloseIsKept == Spec => ClosedIsFrozen
<1>1. Kept /\ [Next]_vars =>
        [status = "closed" =>
           /\ owner' = owner /\ outcome' = outcome
           /\ status' = "closed" \/ failed' > failed]_vars
  <2> SUFFICES ASSUME Kept, Next, status = "closed"
               PROVE  /\ owner' = owner /\ outcome' = outcome
                      /\ status' = "closed" \/ failed' > failed
    OBVIOUS
  <2>1. ASSUME NEW r \in Requests, Starts(r) PROVE UNCHANGED case
    BY <2>1, StartsLeaveCase
  <2>2. ASSUME NEW r \in Requests, Commits(r)
        PROVE  /\ owner' = owner /\ outcome' = outcome
               /\ status' = "closed" \/ failed' > failed
    <3>1. req[r].op \notin {"none", "user"} => req[r].status # "closed"
      BY DEF Kept, Remembers
    <3>2. failed \in Nat
      BY LifecycleAssumption DEF Kept, TypeOK
    <3>3. CASE SendFailed(r)
      BY <3>2, <3>3 DEF SendFailed
    <3>4. CASE ~SendFailed(r)
      BY <2>2, <3>1, <3>4
      DEF Commits, TakeCommit, AssignCommit, StatusCommit, AdvanceCommit, AdvanceRefused,
          FailCommit, FinalCommit, SendReserve, ManualReserve, Reserve, SendSent, SendRecord,
          ManualConfirm, ReceivedCommit, UserCommit, Doing, Transition, case
    <3> QED BY <3>3, <3>4
  <2>3. ASSUME NEW u \in Owners, BulkAssign(u) PROVE FALSE
    BY <2>3 DEF BulkAssign, Assignable
  <2>4. ASSUME NEW u \in Agents, NEW on \in BOOLEAN, SetActive(u, on)
        PROVE  UNCHANGED case
    BY <2>4 DEF SetActive
  <2>5. CASE Terminate
    BY <2>5 DEF Terminate, Transition, case
  <2> QED BY <2>1, <2>2, <2>3, <2>4, <2>5 DEF Next, case
<1> QED BY AlwaysKept, <1>1, PTL DEF Spec, ClosedIsFrozen
=============================================================================
