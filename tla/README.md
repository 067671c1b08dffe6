# Verification of the onboarding portal back end

TLA+ models, TLC runs and TLAPS proofs about the back end of the merchant
onboarding portal (`src/`, a Bun/Hono server on PostgreSQL through Drizzle).
Line numbers below are of the commit in `src/`. `PROJECT.json` maps every
definition to the lines it stands for.

## 1. The system

A merchant fills a public form; each submission opens cases in queues. Staff own
cases, review documents, send emails, move cases through stages and close them.
A published flow version says which closes create which follow-up cases. Every
state lives in PostgreSQL; server processes are several and stateless but for a
worker loop each. All transactions run under READ COMMITTED, with row locks
(`FOR UPDATE`), transaction advisory locks, unique and partial indexes, and
optimistic conditions in `UPDATE ... WHERE`.

| component | state | operations | what makes it correct | here |
|---|---|---|---|---|
| Case flow outbox (`modules/cases/case-flow.service.ts`, `drizzle/0075`) | `case_flow_close_jobs`, `cases`, `case_links`, the pinned flow version | enqueue on close (SQL trigger), claim, create, fail/retry, bulk recovery, retry of a problem job | a follow-up is created at most once, never forgotten, only when its requirements hold | `CaseFlow`, `FollowUps` |
| Worker loop (`index.ts`, `case-flow-worker.ts`) | timer, running cycle, drain flag, back-off, health fields | cycle, request, reschedule, shutdown, `/health/db` | never stops, never doubles, no job waits longer than it must | `FlowWorker` |
| Document review and resubmission (`case-documents-review.service.ts`, `case-resubmission-tokens.service.ts`, `public-resubmission.routes.ts`, `lib/storage/ownership.ts`) | reviews, links (tokens), documents, `storage_objects` ledger | save reviews, send back, regenerate, preview and confirm by hand, public form, clean-up | one usable link, used once; documents keep their files | `Resubmission` |
| Email delivery (`modules/email`, `case-email-delivery.ts`) | `email_log`, case history, the provider's own state | send, webhook, status check, owner's confirmation, close gate | the row ends where the provider is, whatever the order | `EmailDelivery` |
| Case transitions and stages (`case-transition.service.ts`, `case-stage.service.ts`) | `cases.status, stage, outcome, owner` | take, advance, move back, close, optimistic guard | a transition is decided on the state it writes over, a closed case has what its gate asked for | `CaseLifecycle`; the gates in `CaseWork`, `CaseFlow`, `Resubmission`, `EmailDelivery` |
| Assignment and ownership (`case-assignment.service.ts`) | `cases.owner_id` | take, assign, bulk assign | one owner, no lost assignment | `CaseLifecycle` |
| Case creation (`case-query.service.ts`) | `cases`, `case_links` | manual creation beside the automatic one | one live case per merchant | `CaseFlow` |
| Flow configuration (`configuration.service.ts`, `case-flow-graph.ts`) | flow versions, the active one and its revision, merchants' pins | load, publish, check the graph | only sound rules become active, none over another editor's; merchants keep the rules they started with, and their queues | `FlowVersions` |
| Queues (`queues.service.ts`) | lifecycle, revision | change, activate, retire | no queue that an active or open flow names is retired | `FlowVersions` |
| Merchant submission and administration (`merchants.service.ts`) | `merchants`, submission keys, files, start cases | submit, terminate, remove, delete for good | one application however often it is sent; files belong to somebody | `Merchants`; start cases in `CaseFlow`, termination there and in three others |
| Merchant folders and storage (`merchant-drive-folders.ts`, `lib/storage`) | claims, `storage_objects`, Drive | claim, bind, clean up | clean-ups take what their attempt made and nothing else | `Merchants`, `Resubmission` |
| Sessions (`auth.service.ts`, `middleware/auth.ts`) | refresh tokens and their chain, session version, password links | log in, refresh, log out, revoke, set a password | a login has one live end, a stale access token is refused, a link works once | `Sessions` |
| Users (`users.service.ts`) | `users.role, status`, `user_queue_access` | create, invite, change, deactivate | what is revoked stays revoked; owners can work their cases | `Sessions`, `CaseLifecycle` |
| Workflow services (agreement, MID, live, testing, WordPress, sub-merchant form) | one row each, case history | save, send, mark, upload | what the close gate asks for is true and stays true | agreement in `CaseLifecycle`, the others in `CaseWork`; their emails in `EmailDelivery` |
| Portal credentials (`portal-password-code.service.ts`, `portal-api-credentials.service.ts`) | one-time codes, API credentials | generate, replace, send, consume | one active code, spent by a message that carried it and went out | `CaseWork` |
| Manual communications (`case-communications.service.ts`) | previews, screenshots | preview, confirm | as the automatic send | `Resubmission`, `CaseLifecycle`, `CaseWork` |
| Dashboard | applied limits of a MID | apply | the rest only reads | `CaseWork` |
| Database, configuration, HTTP | schema, indexes | | | in the modules that rely on them |
| Comments; notifications and events | rows inserted once; in-process fan-out | | nothing beyond single statements | not modelled |

How they interact. A successful close (`transitionCaseState`) runs the close
gates (blockers, email delivery, rejected reviews), updates the case, and the
SQL trigger inserts the jobs in the same transaction; after the commit the
process requests a worker run. The worker locks a job, creates cases in a
savepoint, and completes or reschedules the job. The public form moves a case
back to `working`, which can re-open a prerequisite another creation relies on.
Webhooks write the rows that the close gate reads. The MID case makes the portal
account that the testing case sends, under limits the dashboard applies, and the
API credentials that the WordPress case uses; the review selects the
sub-merchants that the WordPress case and the form need. A submission is pinned
to the flow version that is active, and editors replace that version meanwhile.

Hard behaviours: many processes work the same jobs; locks are taken in four
different orders (worker, closer, recovery, manual creation); checks are made
before the transaction that relies on them; uploads take minutes between
reading what is to be replaced and replacing it; steps after a commit sit in the
same `try` whose `catch` undoes; Drive and the database have no common
transaction; webhooks come late, twice and out of order; a login signs what it
read before an administrator changed it; the worker's timer, back-off and request
flag race. The full list, each at its line
with the property that covers it, is in `PROJECT.json` under `hazards`.

## 2. The modules

### FollowUps and CaseFlow

`FollowUps` is the promise: a close owes its targets, a follow-up is made at
most once, a debt is settled only when a case for the target is there.
`CaseFlow` is the code, one merchant and its pinned flow version, every actor a
database transaction:

| action | code |
|---|---|
| `CloseBegin`, `CloseWrite`, `LockJob`, `CloseCommit` | `transitionCaseState`, the trigger of `0075` (jobs, skipping targets whose job was completed) and the re-check of blocked jobs, whose `UPDATE` visits the rows its snapshot held one by one |
| `Claim`, `TakeAdvisory`, `LockRow`, `Satisfied`, `Refused`, `NoSelection`, `JobCommit`, `JobFail` | `processCaseFlowCloseJobs`: `FOR UPDATE SKIP LOCKED`, the savepoint, the advisory lock on (merchant, target), the requirement check that locks prerequisite rows in id order, the link to the source case (`LinkFree`: its foreign key waits for that row), the outcome |
| `RecoverBegin` ... `RecoverFinish` | `listMissingCloseTriggerCandidates`, `createMissingCloseTriggerCases`: two transactions, the second resolves superseded jobs |
| `CreateBegin`, `CreateCommit` | `createCase` and its (merchant, 'live-case') lock |
| `CloseUnsuccessful`, `Reopen`, `RollBackAgreement`, `SelectBegin`, `SelectSubMerchants`, `TerminateMerchant`, `RetryJob`, `Tick` | the single-statement writers around it; `Tick` is `available_at` passing |
| `TransientError`, `Crash`, `DeadlockAbort` | the database and the process failing |

A transaction is a record in `tx[a]`: where it is, what it locked (`adv`, `live`,
`rows`, `jobRows`) and what it will write. It writes at its commit. `WaitsFor`
is the lock graph: PostgreSQL aborts one member of a cycle.

### FlowWorker

The loop of `index.ts` for one process: `Start`/`Process`/`ClaimedAll`/
`AskNextDue`/`CycleError`/`Finish` are `drainCaseFlowCloseJobs` between its
awaits, `Request` is `requestCaseFlowWorkerRun`, `NextDelay` and `BackedOff` are
`nextCaseFlowWorkerDelay`, `Ready` is `/health/db`. Time is counted in active
polls. `CaseFlow` abstracts this loop to "a worker may claim any due job";
`FlowWorker` abstracts the creation to "the job is completed or gets a new due
date", so they share the job's life cycle and nothing else.

### Resubmission

One case in review, its documents, its links and the files uploaded for it.
Staff requests are split where they await (`SendBegin` check, `SendReserve`
update, `SendIssue` link, `SendEmail`, then `SendConsume` and `SendRestore` when
the email fails); the manual send is `PreviewBegin`, `PreviewIssue`,
`ManualBegin`, `ManualReserve`. A public form is `PostBegin` (reads link and
files), `Upload` per document, `PostCommit` or `PostLose`, then `PostMark` and
`PostSupersede` outside the transaction; `PostError` is the `catch`, `PostCleanup`
what it calls. `StaffDies` and `PostDies` are process loss.

### EmailDelivery

The emails of one case. `InsertRow`, `Accept`, `Store`, `Reject`, `MarkFailed`
are `sendEmail`; `Provide` is Resend; `Webhook`, `Ask` and `Answer` end in
`Apply`, which is `applyEmailDeliveryStatus` with its table of replaceable
statuses (`Replaces`); `Record` is `recordUndeliveredCaseEmail`; `Confirm` and
`CloseSuccessfully` are the owner's confirmation and the close gate. An event
stays in `pending`, to be delivered again, until a webhook answered 200.

### CaseLifecycle

One agreement case of an agent's queue: `status`, `owner`, `outcome`, its
paperwork (`final`, `received`, `mail`) and the agents (`access`, `active`).
A request is a record in `req[r]`: its operation, where it is and what it read.

| actions | code |
|---|---|
| `TakeBegin`, `TakeCommit` | `takeOwnership` |
| `AssignBegin`, `AssignCommit`, `BulkAssign` | `assignCase`, `bulkAssignCases` (which reads under its locks) |
| `StatusBegin`/`Commit`, `AdvanceBegin`/`Commit`, `AdvanceRefused`, `FailBegin`/`Commit` | `updateCaseStatus`, `advanceStage`, `closeUnsuccessful` |
| `Terminate` | `terminateMerchant`, the close of open cases |
| `FinalBegin`, `FinalCommit` | `uploadAgreementFinalAgreement`, before and after the upload |
| `SendBegin`, `SendReserve`, `SendSent`, `SendFailed`, `SendRecord` | `sendAgreementToClient`: checks, reservation, email, roll-back, record |
| `ManualBegin`, `ManualReserve`, `ManualConfirm` | `confirmAgreementEmailManual` |
| `ReceivedBegin`, `ReceivedCommit` | `uploadReceivedAgreement` |
| `UserBegin`, `UserCommit`, `SetActive` | `updateUser`, `bulkUpdateUserStatus` |

`Transition(guard, ...)` is `transitionCaseState`: it locks the row, tests it
against what was read and changes nothing otherwise. In the agreement queue a
stage and a status name the same place and every writer sets both, so one
variable stands for both; `closed_at` is written with the outcome. A request
that dies takes no further step. The blockers and the delivery gate, which have
models of their own, are the choice between `AdvanceCommit` and
`AdvanceRefused`. Admins, who may own cases of any queue, are not among the
agents: the access checks let them through. The agreement email and
`EmailDelivery` share the close gate only.

### Sessions

The account of one user. `user` is its row with the session version, `tok` the
refresh tokens and the one each replaced (`from`), `access` what any one access
token signed so far says, `link` the password links. A request is one transaction
at a time; its multi-row updates take their rows one by one, in any order.

| actions | code |
|---|---|
| `LoginBegin`, `LoginStamp`, `LoginIssue` | `login`: verify, stamp, issue; the claims are those of the first read |
| `RefreshLookup`, `RefreshBegin`, `RefreshRotate`, `RefreshCommit` | `refreshSession`: look-up, and the transaction whose conditional update decides who rotates; a token used again after its grace window starts a revocation |
| `Logout` | `logout` |
| `UpdateBegin`, `LockUser`, `RevokeBegin`, `RevokeRow`, `CommitUpdate`, `CommitRevoke`, `Reactivate` | `updateUser`, `bulkUpdateUserStatus`, `deactivateUser`, `revokeAllUserSessions`, whose lock orders differ |
| `CreateUser`, `SendReset`, `SendAccepted`, `SendFailed`, `DeleteUser`, `ConsumeBegin`, `ConsumeRow`, `CommitSend` | `createUser`, password emails, and what a failed one takes back |
| `SetClaim`, `SetFindUser`, `CommitPassword` | `setPasswordWithToken`, which holds its link before the user and the tokens |
| `Dies` | a lost process, a failed statement, a broken deadlock |

### FlowVersions

The row that names the active version, the published versions, the lifecycle and
revision of every queue, and the version each merchant is pinned to. `Load`,
`PublishLock`, `PublishCheck`, `PublishCommit` are an editor's load and
`updateCaseFlowConfiguration`; `UpdateQueue`, `UpdateQueueStatus`, `UpdateQueueSla`
with `BumpRevision` and `QueueCommit` are the three updates of `queues.service.ts`;
`QueueCommit` runs the trigger of `0075` on queues: a change of the lifecycle locks
the active version and is refused (`Needed`) for a queue that the active version or
a merchant's open flow names; raising the revision asks for neither. `Load` may
show an older version, with the revision of today, so publishing it again is a
publication like any other. `Pin`, `StartCases`, `SubmitCommit` are the trigger of
`0075` on merchants and the start cases of a submission; `FlowEnds` stands for the
merchant being live or gone with its cases closed and its jobs done. `Visit`, `Leave` and `NextGraph` are the
depth-first search of `case-flow-graph.ts` over the three graphs of
`assertActiveFlowGraphValid`: the path is the stack of its recursive calls, a step
is a call, a return, or the end of one graph's search. The order of its loops is
left open, so the model searches in every order. `CaseFlow` takes one published
version as constants: what it assumes of them is what a publication lets through.

### Merchants

Two forms, their merchants, the ledger of files (`ledger`), Drive itself
(`drive`), requests that need the public folder, and a permanent deletion.

| actions | code |
|---|---|
| `Receive`, `CreateRoot`, `RecordRoot`, `Upload`, `RecordUpload`, `CheckAgain`, `Commit`, `Attach`, `MarkCurrent` | `createMerchantSubmission`: answer by key, upload side by side, check again under the business lock, insert, book-keeping after the commit |
| `UploadFails`, `SubmissionFails`, `CleanUp`, `CleanedUp`, `SubmissionDies` | its `catch` with `cleanupFailedAttemptObjects`; the other uploads go on behind it |
| `Claim`, `CreatePublic`, `Bind`, `SetPublic`, `CleanUpPublic` | `ensureMerchantRootFolder` |
| `Terminate`, `SoftDelete`, `DeleteBegin`, `DeleteDrive`, `DeleteCommit`, `DeleteFails` | `terminateMerchant`, `deleteMerchant`, `permanentlyDeleteMerchant` |

### CaseWork

What the owners do in the other cases of one merchant, and the gates of
`advanceStage` that look at it. A `scene` is the set of cases the merchant has
from the start: one of a kind, except that a WordPress case may be created later and
again after one that ended. Any request may be lost at any place. A message that the
provider accepted is not one that arrived: `track` is what is known of the latest.

| actions | code |
|---|---|
| `GenerateBegin`, `GenerateLock`, `GenerateReplace`, `GenerateCommit` | generation of the password code under the merchant's lock, with the partial unique index |
| `DetailsBegin`/`Commit`, `KeysBegin`/`Commit`, `ApplyLimits` | the MID case and the dashboard |
| `SendBegin`, `SendRead`, `SendOut`, `SendFailed`, `SendRecord`, `MailByHand`, `Confirm`, `ConfirmRecord`, `Consume` | the testing case sends the account by the API or by hand; the code is consumed once the provider accepted the message |
| `Delivered`, `Undelivered`, `ConfirmDelivery` | what becomes of the latest tracked message (`EmailDelivery` in short), and the owner's word for it |
| `MarkBegin`/`Commit`, `SelectBegin`/`Commit`, `SiteBegin`/`Commit`, `Inherit`, `FormBegin`/`Commit`, `ProofCommit` | limits marked as applied, sub-merchants, WordPress details and logos, the form and its proof |
| `CloseBegin`, `CloseCommit`, `Abandon`, `Terminate`, `CreateWordpress` | `advanceStage` with the gate read before the transaction, which looks at the delivery again, `closeUnsuccessful`, `terminateMerchant`, `createCase` |

The rules of transitions, owners and emails are those of `CaseLifecycle` and
`EmailDelivery`: here a case is `working` or it is not.

### Proof and MC modules

Every `X_proofs` extends its module `X` and `TLAPS`: `CaseFlow_proofs`,
`CaseLifecycle_proofs`, `Sessions_proofs`, `CaseWork_proofs`, `Resubmission_proofs`,
`Merchants_proofs`, `EmailDelivery_proofs`. `Flow_proofs` extends `FlowVersions` and
`FlowWorker`, the two ends of the case flow that `CaseFlow` takes as given: its rules
and the loop that calls for its jobs (the definitions of the loop's specification
are `LoopInit`, `LoopNext`, `LoopSpec` for that reason). The
`MC_*` modules name small flow versions and symmetry sets. A definition whose
comment starts with "Mutant" is a deliberate fault that no action of `Next`
uses; `PROJECT.json` names the property each one breaks.

## 3. The runs

| run | instance | what it shows |
|---|---|---|
| `caseflow_core` | 2 workers, 2 staff requests, 1 fault; review and agreement trigger the target, the agreement is blocked by the review and required by the target | jobs are created with the close, a follow-up is created at most once, completed jobs are true and final, no close passes an unmet blocker |
| `caseflow_subs` | 2 workers, 1 request, 2 sub-merchants; a required review the public form reopens, a case per selected sub-merchant, a selection that changes or is still empty | the outbox implements `FollowUps`, and creates only while the requirement holds |
| `caseflow_drain` | 2 workers, 1 request that also creates the target by hand, 1 fault or failed agreement email, the review required by the target, under `FairSpec` | transactions that create for one target never deadlock; a job whose requirements hold for good is completed |
| `resubmission_core` | 2 staff requests, 2 forms, 2 links, 1 fault | one usable link, used once; a case that waits for its merchant has a link; a file in use is not superseded, and deleted only by its own failed attempt |
| `resubmission_documents` | 2 documents, one optional, manual links | what is superseded is what was replaced |
| `flowworker_core` | 2 jobs, idle poll 5 x poll, retries of 2 and 7 polls | the loop never stops or doubles, a told job runs now, none is late, a healthy worker is ready |
| `email_core` | 2 emails, 2 handlers, 1 fault, timeouts | the row settles at the provider's status, the history tells it once, a confirmed failure stays one, proof of delivery is taken back only by a newer email, a bounce or a complaint |
| `lifecycle_core` | 2 agents, 2 requests, 1 failed email | a case in work has an owner, no assignment is lost, a close stays closed but for the roll-back of a failed email |
| `sessions_core` | 2 requests, 3 tokens and links together, 2 revocations | of the tokens of one login one is active; an accepted access token says the role and was signed under the password the user has; a delivered link works, and of links that were open together one sets a password |
| `flowversions_core` | 3 queues, 2 editors, 1 administrator, 1 merchant, 3 versions, 8 drafts and what was loaded | the depth-first search, in any order, reports exactly the circular waits; what becomes active replaces what was active when its editor loaded; the queues of the active version and of open flows stay active; merchants are pinned to what is active when they commit |
| `merchants_core` | 2 forms out of 3, 2 documents, 2 folder requests, 1 fault | one open application per business and contact, one merchant per key; open merchants keep their files; a deleted merchant leaves nothing of what it named |
| `casework_core` | 2 requests, 2 MIDs, 2 sub-merchants, 2 codes, requests lost anywhere; seven sets of cases | one code is active and only a message that carried it and went out spends it; what a gate asked for is there after the close, and the account is known to have arrived |

Bounds. Every race of the code is between two transactions on one (merchant,
target), so two workers plus two requests give every pair of roles together with
a third party that changes what both looked at. Case ids are a bound on inserts:
one more than a correct run needs, so a duplicate has room to appear. One fault
puts a crash or error at any single step. Ids are random uuids and locks are taken
in their order: the review gets the higher one, so that a close locks against it.
Manual creation stands beside two workers in `caseflow_drain` only, where it may
take the slot a job was going to fill; that the flow's own cases stay unique beside
it is proved (`CreatedOnce`). There a source case is a prerequisite as well, and
the roll-back of a failed agreement email reopens a source whose job is due, so a
creation waits for the row it links to. Errors after the commit of a resubmission are in
`resubmission_core`, with one document that may be replaced or removed. Two forms on one
link, two links and two documents are the least in which a stale form and a
newer round meet. In `email_core` the first email may be delivered, bounce or be
complained about, the second is only accepted: it exists to become the latest
one; the delayed, suppressed and failed statuses are in the table `Replaces`
but reported by no run (with "delivery_delayed" added `email_core` also passes,
in 2.3 million states). In `lifecycle_core` every pair of requests
meets with bulk assignment, termination and status changes, which take one step
and need no request; two agents are the old and the new owner, and one failed
email puts the roll-back anywhere. Agents are alike and so are requests, hence
the symmetry.

In `sessions_core` three tokens are a login, its refresh and one that the same
token would give; two links are the older and the newer of a purpose, with a
token beside them. Two revocations (`MaxVersion`) are one that a login overlaps
and one that starts from it. In `flowversions_core` the editors choose among
paths and circles of triggers, two sound flows with a third queue, circles of mixed
rules and the version they were shown; three versions let a merchant be pinned
between two publications. In
`merchants_core` two forms match by key only, by a contact only, by both or not
at all. In `casework_core` the sets of cases are the ones that share state: the
portal account, the API credentials and the selected sub-merchants. Two codes are one and its replacement.

`MaxFaults`, `MaxFailed`, `MaxCases`, `MaxTokens`, `MaxEmails`, `MaxIssued`,
`MaxVersion`, `MaxVersions`, `MaxRevision`, `MaxCodes` and `ManualQueues` are the
only bounds in guards.

`CHECK_DEADLOCK FALSE` is set everywhere: a merchant whose cases are all closed,
a process that exited and a case that is closed are final states.

Fairness (`FairSpec`, only for `caseflow_drain`). `SF(Step(a))`: PostgreSQL grants
locks in the order they were asked for, so a step that is enabled again and
again is taken, and a server keeps running its transactions. `SF(Claim)` per job:
workers poll for ever (that is what `FlowWorker` shows) and claim the oldest due
job first, so a due job is not passed over for ever. `WF(Tick)`: time passes. No
fairness is assumed of staff, of faults or of recovery.

## 4. What is proved

For every value of the constants, with TLAPS. Every proof module extends the
module it is about; a theorem that states a property of a run names it.

| theorem | states | from |
|---|---|---|
| `CaseFlow_proofs!TypeCorrect` | `[]TypeOK` | `TInv`: what each field of a transaction may be at its place |
| `CreatedOnce` | `[]OnceOnly` | `Locks`, `Once` |
| `CloseRemembered`, `CompletionIsTrue`, `CompletionIsFinal` | `[]CloseIsOwed`, `[]TombstoneIsProof`, `DoneJobsStayDone` | `Outbox` |
| `OneTargetNeverDeadlocks` | `[]DeadlocksNeedTwoTargets` | `Ordered`, `Sourced` |
| `ClosesUnderItsBlockers`, `CreatesUnderItsRequirements` | `ClosedOnlyWhenUnblocked`, `CreatedOnlyWhenRequirementsHold` | `Ruled` |
| `OutboxKeepsPromise` | `KeepsPromise`: `CaseFlow` implements `FollowUps` | all of these and `Owing` |
| `Flow_proofs!VersionsStayTyped`, `MerchantsArePinned` | `[]TypeOK`, `PinnedToActive` of `FlowVersions` | `Versioned` |
| `ChecksStayExact`, `FlowsStayUsable` | `[]ChecksAreExact`, `FlowsStaySound` | `Versioned`, `Searched`, `InUse` |
| `SearchesAdvance` | `SearchGoesOn`: what a search does takes it closer to its end | `Versioned`, `Straight` |
| `RulesOfAMerchantNeverChange` | the rules that `CaseFlow` takes as constants never change | `Versioned` |
| `WorkerStaysInRange`, `LoopGoesOn`, `LoopKeepsUp` | `[]LoopTypeOK`, `[]OneCycleOrTimer`, `[]KeepsUp` | `LoopInv`, `Fresh`, `JobFor` |
| `CaseLifecycle_proofs!LifecycleTypes`, `InWorkIsOwned`, `AssignmentsAreSeen`, `CloseIsKept` | `[]TypeOK`, `[]OwnedUnlessNew`, `NoLostAssignment`, `ClosedIsFrozen` | `Kept` |
| `Sessions_proofs!SessionsStayTyped`, `AccessTokensAreCurrent`, `OneEndOfEachLogin`, `LinksOfAUserWork` | `[]TypeOK`, `[]AccessIsCurrent`, `[]OneLiveEnd`, `[]LinksWork` | `Base` and `Signed`, `Rotations`, `LinkInv` |
| `CaseWork_proofs!WorkStaysTyped`, `OneCodeOfTheMerchant`, `ClosedCasesKeepTheirWork` | `[]TypeOK`, `[]OneCode`, `[]ClosedWithItsWork` | `Types` and `Messages`; `Kept`, whose part `Heard` ties what was sent to what arrived |
| `Resubmission_proofs!ReviewStaysTyped`, `OneLinkUsedOnce`, `SupersedesOnlyTheReplaced`, `CurrentFilesAreKept`, `AwaitingCasesHaveALink` | `[]TypeOK`, `[]OneUseOfOneLink`, `SupersedesWhatItReplaced`, `[]DocumentsKeepTheirFiles`, `[]AwaitingHasLink` | `Types`, `Links`, `Files` and `Safe`, `Awaiting` |
| `Merchants_proofs!MerchantsStayTyped`, `OneApplication`, `OpenMerchantsKeepTheirFiles`, `DeletionsLeaveNothing` | `[]TypeOK`, `[]SubmittedOnce`, `[]OpenMerchantsHaveTheirFiles`, `DeletionLeavesNothing` | `Books` and `Singles`, `Keys`, `Replies` |
| `EmailDelivery_proofs!DeliveryStaysTyped`, `EmailsAreSettled`, `ProofOfDeliveryStays` | `[]TypeOK`, `[]EmailsSettle`, `DeliveryStaysProven` | `Truthful` |

TLC found each inductive invariant to hold on the run's instance before it was
proved for all. Why each is needed:

* Outbox, created once. `Locks` says that the advisory, row and job locks are
  exclusive and that a transaction past `TakeAdvisory` holds the lock of its
  target; `Once` adds that the slots a transaction is about to insert are
  distinct from every case of the flow and from every other transaction's slots.
  `OnceOnly` alone says nothing of a transaction between its check and its
  commit: it is the lock, held from the one to the other, that keeps the check true.
* Outbox, jobs. `Outbox` says what each transaction knows of the jobs while it
  waits: those it has locked are open, those a close will insert are absent and
  cover each trigger that is not answered yet, those of a worker or a recovery
  are for its target, and one that found nothing to create, or has created, has a
  case there. Each step then `Grows` the tables (jobs are never deleted or
  reopened, cases never deleted or moved), which keeps what the other
  transactions know; a close is `Repaid` by its jobs, a completion is `Honest`.
* Outbox, locks. `Ordered`: whoever closes no case takes its target's lock first,
  then case rows in ascending order, and visits jobs only as a recovery in the
  statement after them. In a circle of such transactions each one that visits no
  jobs waits for a holder of case rows, and the holder of the greatest of these
  rows waits for a smaller one, which it cannot. A creation also waits for the row
  it links to, out of that order: `Sourced` says that what it has locked are
  exactly the cases of its target's prerequisites, its source among them if its
  queue is one, so two creations of one target never wait for one another there.
  With two targets they may (section 5). Two recoveries may lock the same jobs in
  different orders, and a close takes the row of its own case first: those circles
  PostgreSQL breaks (`DeadlockAbort`).
* Outbox, rules. `Ruled`: a transaction past its check holds, locked, a successful
  case for every prerequisite, so no step of another takes one away. With
  `Owing`, that whoever creates does so for a job that exists, every step of the
  code is one of `FollowUps` or changes nothing that it sees.
* Flow versions. `Versioned`: row locks exclude one another; a publication that is
  being searched or was found valid holds the queues it names and the active
  version; a submission holds the active version from the trigger to its commit.
  `Searched` is what the search knows: what it has left leads only to what it has
  left, and every set of such nodes has one that leads to none of the set
  (`Explored`); the path is a chain of edges. A node met on the path closes the
  chain to a circle, and when the last graph has nothing left to visit, a set of
  queues that wait for one another would be a set of left nodes, which `Explored`
  rules out. A set in which each waits for another is what stops a merchant;
  that it is equivalent to the circle the editor is shown is part of the proof.
  `InUse`: the version of an open flow is a published one and its queues are active;
  a submission adds no version to them, since it holds the active one.
  `Straight`: the path names no queue twice and none that was left, so each step
  makes the graph, the set of left queues or the path greater, in this order, and
  the path is never longer than there are queues.
* Worker loop. A requested or scheduled job is late only while the loop waits, and
  what it has waited and what is left of the timer have a sum that only shrinks
  (`WaitFor`, `Fresh`); a request that meets a running cycle leaves the drain flag
  or a full batch behind (`RequestFor`).
* Case life cycle. `Remembers`: a request that works on the case read it before it
  was closed, a take read a case nobody owned, and everyone but an unassignment
  acts for an agent. A commit finds the status it read, so it never finds a
  closed case. The uploads, which test nothing or only the status, need
  `OwnedUnlessNew` itself: a case that awaits its merchant has an owner, so moving
  it back to working cannot leave it without one.
* Sessions. `Signed`: what a login or refresh has read is, under the version it
  read, still what the user's row says, since each change of role or password
  raises the version. `Rotations`: a request that rotates a token
  holds its row to the commit, so nobody else finds it active, and a token that was
  replaced is out of use and replaced by one. `LinkInv` is about
  sends under way: which links one has replaced, which row locks it has, and that a
  delivered link is replaced by nothing but a delivered one of its purpose.
* Case work. Generations are serialised by the merchant's lock from the update to
  the insert (`OneMaker`, `Replaces`); a message is on record before its code is
  spent (`Carries`). Of each gate, `Earned` names the part that no later step takes
  back, and a request that has passed its gate keeps it (`Found`).
* Resubmission. `Links`: a form commits by taking an active link, so of the forms
  on one link a single one does. `Files`: while its link is active, what a form
  read as current still is. `AwaitingCasesHaveALink` has the hypothesis that
  emails by hand are off (`"manual"` not in `Modes`), as in the run that checks
  it: a confirmation by hand may come after its link was replaced (section 5).
* Merchants. `Books`: what the second check found under the lock of the business
  is true until the commit (`Alone`), a recorded file belongs to nobody or to the
  merchant of its attempt (`Entered`), a claim holds its row (`Claimed`), and a
  deletion has listed all that its merchant names and nothing of others
  (`Deleting`).
* Email delivery. `Truthful`: a row never knows more than the provider, nor less
  once the last event is acknowledged (`Heard`); of several handlers one alone is
  about to write the history (`Wrote`).

The proofs use only the named assumptions on the constants, which TLC evaluates
in the runs: `FlowAssumption`, `FlowVersionsAssumption`, `FlowWorkerAssumption`,
`LifecycleAssumption`, `SessionsAssumption`, `CaseWorkAssumption`,
`ResubmissionAssumption`, `MerchantsAssumption`, `EmailDeliveryAssumption`. Two
say more than the type of a constant. `FlowWorkerAssumption`: the retry delays
have a greatest one, by the caps of `case-flow-retry.ts:13` and `env.ts`.
`MerchantsAssumption`: submissions and folder requests are different attempts,
since an attempt's id is a fresh uuid.

Only model-checked. `JobsDrain`, since liveness under fairness is out of the
provers' reach; every other property of the runs is a theorem. That the steps of the search
of `FlowVersions` are the recursive function of `case-flow-graph.ts` is a matter of
reading them: the model is that function's stack. Of its end `SearchesAdvance`
proves the part without fairness. No module declares a RECURSIVE operator.

## 5. Disagreements with the documents

Steps the models let the code take, found while they were built. Where a property
of a run leaves one out, its comment says so; no run exists to show them.

* `case-query.service.ts:121` and `case-flow.service.ts:981` lock different keys: a
  manual live case and an automatic one may be created side by side.
* `public-resubmission.routes.ts:670` to `:704`, `merchants.service.ts:451` to `:464`:
  the book-keeping after the commit is in the `try` whose `catch` deletes the
  attempt's files, so a failure there deletes files of a resubmission or of a
  merchant that was committed. `DocumentsKeepTheirFiles` and
  `OpenMerchantsHaveTheirFiles` name exactly this attempt.
* `users.service.ts:597`: the check for open cases is made before the transaction
  that takes the access away, so an active agent may own a case of a queue they
  cannot work.
* `case-flow.service.ts:826` locks prerequisites "for update" in id order, and
  the insert of `case_links` (line 559) then waits for the row of the source case,
  which is in no order: two creations of different targets, each of whose sources is
  a prerequisite of the other target, deadlock. PostgreSQL aborts one, which
  is tried again later; `DeadlocksNeedTwoTargets` says that this takes two targets.
* `apis/configuration.md:135` "Rules with `id` are updated in place": every
  publication inserts all its rules for a new version (`configuration.service.ts:812`
  and on); the rules of a published version are not changed or deactivated (`RulesOfAMerchantNeverChange`).
* `apis/configuration.md:160` "Auto close triggers skip their target when that
  case already exists": a manual case committed between check and insert is not
  seen.
* `case-flow.service.ts:892` "Re-check those jobs immediately": the `UPDATE`
  visits only jobs that are blocked in its snapshot, so a job whose failure is
  being recorded stays blocked until its timed retry.
* `case-documents-review.service.ts:104` "Rejection changes are locked while
  awaiting merchant resubmission" and `case-stage.service.ts:212` "Resolve all
  rejected fields and documents before closing": both checked before the
  transaction that relies on them.
* `case-communications.service.ts:285`: a link previewed for a manual send can be
  replaced between its check and the case's update.
* `case-stage.service.ts:594` "Case is already in a terminal stage": a public
  resubmission (`public-resubmission.routes.ts:634`) and the roll-backs of failed
  sends (`case-documents-review.service.ts:686`, `agreement-case.service.ts:357`)
  set a case to working by its id alone: one that was closed meanwhile is worked
  again with its outcome set, and one that was unassigned is in work without an
  owner. `OwnedUnlessNew` and `ClosedIsFrozen` leave out exactly that step.
* `case-stage.service.ts:290` "Upload the signed physical agreement received by
  the office before closing this case": a replacement of the final agreement that
  began before the email was sent (`agreement-case.service.ts:216`) takes the
  signed copy away after the close.
* `email-delivery-status.ts:52` "for a failed delivery, records it on the case":
  when the history write fails, the repeated event finds the status unchanged and
  is acknowledged.
* `src/README.md:22` "back off to one minute while idle": the default idle poll is 15
  minutes (`env.ts:64`).
* `email.service.ts:163`: a send that timed out marks the row failed whatever a
  webhook wrote before. `SettledStatus` (in `EmailsSettle`) therefore allows
  "failed" after such a call, and `ConfirmedStaysFailed`, `RecordedOnce` and
  `DeliveryStaysProven` leave such emails (`Misjudged`) out.
* `case-email-delivery.ts:142`: the close gate looks at emails that have a
  provider id, so a case can close while its email is being sent.
* `auth.service.ts:344`: a refresh or a login that read the user before a
  revocation commits its refresh token after it. The access token is refused by its
  version (`AccessIsCurrent`), the new refresh token is not.
* `merchant-drive-folders.ts:239`: a claim whose process died stays
  `provisioning`, and every later request for that folder ends in 503. A folder
  created while its merchant is deleted stays on Drive, and so do uploads that
  finish behind the clean-up of their attempt.
* `merchants.service.ts:887`: files go before the rows; when a later delete fails
  the merchant is still there, terminated, with files missing. A merchant one of
  whose cases has a file is never deletable: those files are in no ledger.
* `case-email-delivery.ts:181` to `:186` "Send it again to a working address, or send
  it manually by Gmail or WhatsApp": `mid-case.service.ts:308` spends the password code
  once the provider accepted the message. When that one bounces, generation answers 409
  (`portal-password-code.service.ts:143`) and both ways to send ask for an active code
  (`:228`), so the testing case cannot do what it is told to. Without a copied address
  to vouch for the To address (`:284`) it can only be closed unsuccessfully.
  `OneCode` says what a spent code tells: its message went out, not that it arrived.
* `case-query.service.ts:83`: a second WordPress case may be created after the first
  one's close deleted the API credentials (`case-transition.service.ts:336`), or for a
  terminated merchant, and starts without them: `ClosedWithItsWork` promises them until
  then.
* `mid-case.service.ts:308`: an email may go out with a code that was replaced
  meanwhile, and a code consumed between generation's two reads is followed by a
  new active one.
* `portal-api-credentials.service.ts`: a save that began before the WordPress case
  closed or the merchant was terminated puts the credentials back.
* `case-stage.service.ts:331` and on: a save that began before the close may follow
  it. A logo can go after the WordPress gate and a final form can replace the one
  whose proof was recorded, so `ClosedWithItsWork` asks for the saved site and for
  a proof, not for the proof of that form.

## 6. Not modelled

Wording, templates, uploads' contents and formats, list and dashboard queries,
pagination, comments, notifications to open pages, CORS, rate limits, connection
pooling, health counters, the jitter of retry delays, seeds. Emails sent while
webhooks are not configured, the provider's idempotency keys, the throttle of
status checks. Settings rows, draft templates and inactive rules of the
configuration; `createQueue`, and changes of a queue's prefix or workflow, which a
count of its cases refuses without a lock (`queues.service.ts:245`), the protection
of a queue's stages, and a case that staff create after a merchant's flow has ended,
whose flow may name a queue that was retired since. Profile
fields of users, the purge of expired tokens. Sub-folders of cases and rounds.
Drive folders and the fields as such of the workflow services. Stages of generic
queues. Merchants other than one, save where two submissions meet: their rows are
disjoint.

## 7. Plan

Done: `FollowUps`, `CaseFlow` (composition of outbox, staff and faults),
`FlowWorker`, `Resubmission`, `EmailDelivery`, `CaseLifecycle`, `Sessions`,
`FlowVersions`, `Merchants`, `CaseWork`; the theorems of section 4.

Next theorems: refinements between the components that share a table. `CaseFlow`'s
worker against `FlowWorker`'s life of a job; the gate of `CaseWork` against the
transitions of `CaseLifecycle`.

Next models: the retry delay of `case-flow-retry.ts` against its bounds, stages of
generic queues, folders of resubmission rounds.
