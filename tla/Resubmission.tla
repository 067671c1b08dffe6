---------------------------- MODULE Resubmission ----------------------------
(***************************************************************************)
(* One document-review case that goes back to its merchant: staff reject   *)
(* fields and mail a one-time link (src/modules/cases/                     *)
(* case-documents-review.service.ts), the merchant uploads the documents   *)
(* again (src/modules/merchants/public-resubmission.routes.ts), staff      *)
(* close the case (case-stage.service.ts).                                 *)
(*                                                                         *)
(* Requests run concurrently.  A step is one committed statement or        *)
(* transaction; what a request read in an earlier step may be stale.       *)
(***************************************************************************)
EXTENDS Naturals, FiniteSets

CONSTANTS
  Fields,          \* reviewed fields, each with its document
  OptionalFields,  \* documents the merchant may remove instead of replacing
  Staff,           \* staff requests in flight
  Modes,           \* how emails may be sent: "auto" by the API, "manual" by staff
  Posts,           \* bound: resubmissions sent by the merchant
  Form,            \* the attempt that uploaded the original documents
  Gone,            \* no document: it was removed
  MaxTokens,       \* bound: links issued
  MaxFaults        \* bound: requests that die or throw

ASSUME ResubmissionAssumption ==
  /\ OptionalFields \subseteq Fields
  /\ Modes \subseteq {"auto", "manual"}
  /\ Form \notin Posts /\ Gone \notin Posts /\ Form # Gone
  /\ MaxTokens \in Nat /\ MaxFaults \in Nat

Tokens   == 1..MaxTokens
Attempts == Posts \cup {Form}
Objects  == Attempts \X Fields    \* stored files, by the attempt that uploaded them

VARIABLES
  status,   \* cases.status: new and pending cases are not modelled
  outcome,  \* cases.close_outcome
  review,   \* case_field_reviews.status
  file,     \* merchant_documents: the attempt that uploaded the current file
  store,    \* storage_objects.lifecycle; deleted: marked failed, gone from Drive
  token,    \* case_resubmission_tokens
  known,    \* links the merchant received
  req,      \* what each staff request is doing
  post,     \* what each resubmission is doing
  faults

vars == <<status, outcome, review, file, store, token, known, req, post, faults>>

Verdicts == {"pending", "approved", "rejected"}

Request ==
  [ op : {"none", "save", "send", "regenerate", "preview", "manual", "close"},
    pc : {"idle", "checked", "reserved", "emailing", "failing", "restoring"},
    token : Tokens \cup {0}, fields : SUBSET Fields, verdict : Verdicts ]

IdleRequest ==
  [op |-> "none", pc |-> "idle", token |-> 0, fields |-> {}, verdict |-> "pending"]

Submission ==
  [ pc : {"new", "uploading", "losing", "committed", "marked", "done", "failed", "dead"},
    token : Tokens \cup {0},
    replaced : SUBSET Fields, removed : SUBSET Fields,
    uploaded : SUBSET Fields, previous : SUBSET Objects ]

NewSubmission ==
  [pc |-> "new", token |-> 0, replaced |-> {}, removed |-> {}, uploaded |-> {},
   previous |-> {}]

TypeOK ==
  /\ status \in {"working", "awaiting_merchant", "closed"}
  /\ outcome \in {"none", "successful", "unsuccessful"}
  /\ review \in [Fields -> Verdicts]
  /\ file \in [Fields -> Attempts \cup {Gone}]
  /\ store \in [Objects -> {"none", "provisioning", "current", "superseded", "deleted"}]
  /\ token \in [Tokens -> {"unissued", "active", "consumed"}]
  /\ known \subseteq Tokens
  /\ req \in [Staff -> Request]
  /\ post \in [Posts -> Submission]
  /\ faults \in 0..MaxFaults

Rejected == {f \in Fields : review[f] = "rejected"}
Active   == {t \in Tokens : token[t] = "active"}

Doing(r, op, pc) == req[r].op = op /\ req[r].pc = pc
Finish(r) == req' = [req EXCEPT ![r] = IdleRequest]

Init ==
  /\ status = "working" /\ outcome = "none"
  /\ review = [f \in Fields |-> "pending"]
  /\ file = [f \in Fields |-> Form]
  /\ store = [o \in Objects |-> IF o[1] = Form THEN "current" ELSE "none"]
  /\ token = [t \in Tokens |-> "unissued"]
  /\ known = {}
  /\ req = [r \in Staff |-> IdleRequest]
  /\ post = [p \in Posts |-> NewSubmission]
  /\ faults = 0

-----------------------------------------------------------------------------
(* Reviewing: saveFieldReviews checks the case, then upserts the reviews in *)
(* a transaction that does not look at the case again.                      *)

SaveBegin(r, F, v) ==
  /\ req[r].pc = "idle"
  /\ status = "working"
  /\ F # {}
  /\ req' = [req EXCEPT ![r] = [IdleRequest EXCEPT
               !.op = "save", !.pc = "checked", !.fields = F, !.verdict = v]]
  /\ UNCHANGED <<status, outcome, review, file, store, token, known, post, faults>>

SaveCommit(r) ==
  /\ Doing(r, "save", "checked")
  /\ review' = [f \in Fields |-> IF f \in req[r].fields THEN req[r].verdict ELSE review[f]]
  /\ Finish(r)
  /\ UNCHANGED <<status, outcome, file, store, token, known, post, faults>>

-----------------------------------------------------------------------------
(* Links *)

(* Mutant: older links of the case stay usable. *)
IssueBeside(t) ==
  /\ token[t] = "unissued"
  /\ token' = [token EXCEPT ![t] = "active"]

(* issueToken: consume the case's usable links and insert a new one.  Two   *)
(* concurrent issuers collide on the unique index over unconsumed links:    *)
(* one of them throws, which is a fault of its request here.                *)
Issue(t) ==
  /\ token[t] = "unissued"
  /\ token' = [u \in Tokens |-> IF u = t THEN "active"
                                ELSE IF u \in Active THEN "consumed" ELSE token[u]]

(* sendForResubmission: check, reserve the case, issue, mail. *)
SendBegin(r) ==
  /\ "auto" \in Modes
  /\ req[r].pc = "idle"
  /\ status = "working"
  /\ Rejected # {}
  /\ req' = [req EXCEPT ![r] = [IdleRequest EXCEPT !.op = "send", !.pc = "checked"]]
  /\ UNCHANGED <<status, outcome, review, file, store, token, known, post, faults>>

SendReserve(r) ==
  /\ Doing(r, "send", "checked")
  /\ IF status = "working"
     THEN /\ status' = "awaiting_merchant"
          /\ req' = [req EXCEPT ![r].pc = "reserved"]
     ELSE /\ Finish(r)                     \* 409: already sent
          /\ UNCHANGED status
  /\ UNCHANGED <<outcome, review, file, store, token, known, post, faults>>

SendIssue(r, t) ==
  /\ Doing(r, "send", "reserved")
  /\ Issue(t)
  /\ req' = [req EXCEPT ![r].pc = "emailing", ![r].token = t]
  /\ UNCHANGED <<status, outcome, review, file, store, known, post, faults>>

(* The email may arrive although sending it is reported as failed (a        *)
(* timeout), and may not arrive although it is reported as sent.            *)
SendEmail(r, sent, arrives) ==
  /\ Doing(r, "send", "emailing")
  /\ known' = IF arrives THEN known \cup {req[r].token} ELSE known
  /\ IF sent THEN Finish(r) ELSE req' = [req EXCEPT ![r].pc = "failing"]
  /\ UNCHANGED <<status, outcome, review, file, store, token, post, faults>>

(* Mutant: the unused link is deleted. *)
SendDelete(r) ==
  /\ Doing(r, "send", "failing")
  /\ token' = [t \in Tokens \ {req[r].token} |-> token[t]]
  /\ req' = [req EXCEPT ![r].pc = "restoring"]
  /\ UNCHANGED <<status, outcome, review, file, store, known, post, faults>>

SendConsume(r) ==
  /\ Doing(r, "send", "failing")
  /\ token' = [token EXCEPT ![req[r].token] = "consumed"]
  /\ req' = [req EXCEPT ![r].pc = "restoring"]
  /\ UNCHANGED <<status, outcome, review, file, store, known, post, faults>>

(* Mutant: the case is left with the merchant. *)
SendGiveUp(r) ==
  /\ Doing(r, "send", "restoring")
  /\ Finish(r)
  /\ UNCHANGED <<status, outcome, review, file, store, token, known, post, faults>>

(* The case goes back to working, whatever happened to it meanwhile. *)
SendRestore(r) ==
  /\ Doing(r, "send", "restoring")
  /\ status' = "working"
  /\ Finish(r)
  /\ UNCHANGED <<outcome, review, file, store, token, known, post, faults>>

(* regenerateResubmissionLink *)
RegenerateBegin(r) ==
  /\ req[r].pc = "idle"
  /\ status = "awaiting_merchant"
  /\ Rejected # {}
  /\ req' = [req EXCEPT ![r] = [IdleRequest EXCEPT !.op = "regenerate", !.pc = "checked"]]
  /\ UNCHANGED <<status, outcome, review, file, store, token, known, post, faults>>

RegenerateIssue(r, t) ==
  /\ Doing(r, "regenerate", "checked")
  /\ Issue(t)
  /\ known' = known \cup {t}
  /\ Finish(r)
  /\ UNCHANGED <<status, outcome, review, file, store, post, faults>>

(* getResubmissionEmailPreview: the text of an email staff will send       *)
(* themselves, with a new link.                                            *)
PreviewBegin(r) ==
  /\ "manual" \in Modes
  /\ req[r].pc = "idle"
  /\ status # "closed"
  /\ Rejected # {}
  /\ req' = [req EXCEPT ![r] = [IdleRequest EXCEPT !.op = "preview", !.pc = "checked"]]
  /\ UNCHANGED <<status, outcome, review, file, store, token, known, post, faults>>

PreviewIssue(r, t) ==
  /\ Doing(r, "preview", "checked")
  /\ Issue(t)
  /\ known' = known \cup {t}
  /\ Finish(r)
  /\ UNCHANGED <<status, outcome, review, file, store, post, faults>>

(* confirmResubmissionEmailManual: staff sent the previewed email.  The     *)
(* WhatsApp reminder of a case already with its merchant changes nothing.   *)
ManualBegin(r, t) ==
  /\ "manual" \in Modes
  /\ req[r].pc = "idle"
  /\ status = "working"
  /\ token[t] = "active"
  /\ req' = [req EXCEPT ![r] = [IdleRequest EXCEPT
               !.op = "manual", !.pc = "checked", !.token = t]]
  /\ UNCHANGED <<status, outcome, review, file, store, token, known, post, faults>>

ManualReserve(r) ==
  /\ Doing(r, "manual", "checked")
  /\ status' = IF status = "working" THEN "awaiting_merchant" ELSE status
  /\ Finish(r)
  /\ UNCHANGED <<outcome, review, file, store, token, known, post, faults>>

-----------------------------------------------------------------------------
(* Stages.  transitionCaseState re-checks the status it was given. *)

(* updateCaseStatus: the owner takes the case back; its link stays usable. *)
TakeBack ==
  /\ status = "awaiting_merchant"
  /\ status' = "working"
  /\ UNCHANGED <<outcome, review, file, store, token, known, req, post, faults>>

CloseUnsuccessful ==
  /\ status # "closed"
  /\ status' = "closed" /\ outcome' = "unsuccessful"
  /\ UNCHANGED <<review, file, store, token, known, req, post, faults>>

(* advanceStage reads the reviews before the transition. *)
CloseBegin(r) ==
  /\ req[r].pc = "idle"
  /\ status = "working"
  /\ Rejected = {}
  /\ req' = [req EXCEPT ![r] = [IdleRequest EXCEPT !.op = "close", !.pc = "checked"]]
  /\ UNCHANGED <<status, outcome, review, file, store, token, known, post, faults>>

CloseCommit(r) ==
  /\ Doing(r, "close", "checked")
  /\ IF status = "working"
     THEN status' = "closed" /\ outcome' = "successful"
     ELSE UNCHANGED <<status, outcome>>    \* 409: the state was updated
  /\ Finish(r)
  /\ UNCHANGED <<review, file, store, token, known, post, faults>>

-----------------------------------------------------------------------------
(* The merchant's resubmission: POST /api/public/resubmission/:token *)

(* A usable link and every rejected field are needed.  The form reads the   *)
(* files it is about to replace, or remove where the document is optional.  *)
PostBegin(p, t, X) ==
  /\ post[p].pc = "new"
  /\ t \in known /\ token[t] = "active"
  /\ Rejected # {}
  /\ \A f \in Rejected : file[f] # Gone
  /\ X \subseteq Rejected \cap OptionalFields
  /\ post' = [post EXCEPT ![p] = [NewSubmission EXCEPT
                !.pc = "uploading", !.token = t, !.removed = X,
                !.replaced = Rejected \ X,
                !.previous = {<<file[f], f>> : f \in Rejected}]]
  /\ UNCHANGED <<status, outcome, review, file, store, token, known, req, faults>>

Upload(p, f) ==
  /\ post[p].pc = "uploading"
  /\ f \in post[p].replaced \ post[p].uploaded
  /\ store' = [store EXCEPT ![<<p, f>>] = "provisioning"]
  /\ post' = [post EXCEPT ![p].uploaded = @ \cup {f}]
  /\ UNCHANGED <<status, outcome, review, file, token, known, req, faults>>

Uploaded(p) == post[p].pc = "uploading" /\ post[p].uploaded = post[p].replaced

Apply(p) ==
  /\ token' = [t \in Tokens |->
                 IF t \in Active \cup {post[p].token} THEN "consumed" ELSE token[t]]
  /\ file' = [f \in Fields |-> IF f \in post[p].removed THEN Gone
                               ELSE IF f \in post[p].replaced /\ file[f] # Gone THEN p
                               ELSE file[f]]
  /\ review' = [f \in Fields |-> IF f \in post[p].replaced THEN "pending"
                                 ELSE IF f \in post[p].removed THEN "approved"
                                 ELSE review[f]]
  /\ status' = "working"
  /\ post' = [post EXCEPT ![p].pc = "committed"]
  /\ UNCHANGED <<outcome, store, known, req, faults>>

(* Mutant: the link was checked when the form was opened. *)
PostCommitUnchecked(p) == Uploaded(p) /\ Apply(p)

(* Consume the link, move the documents and reviews on, whatever the status. *)
PostCommit(p) == Uploaded(p) /\ token[post[p].token] = "active" /\ Apply(p)

(* 410: somebody else used the link, or a newer one replaced it. *)
PostLose(p) ==
  /\ Uploaded(p)
  /\ token[post[p].token] # "active"
  /\ post' = [post EXCEPT ![p].pc = "losing"]
  /\ UNCHANGED <<status, outcome, review, file, store, token, known, req, faults>>

(* After the commit: the attempt's objects become current ... *)
PostMark(p) ==
  /\ post[p].pc = "committed"
  /\ store' = [o \in Objects |->
                 IF o[1] = p /\ o[2] \in post[p].uploaded THEN "current" ELSE store[o]]
  /\ post' = [post EXCEPT ![p].pc = "marked"]
  /\ UNCHANGED <<status, outcome, review, file, token, known, req, faults>>

(* Mutant: the replaced files are looked up after the commit. *)
SupersedeCurrent(p) ==
  /\ post[p].pc = "marked"
  /\ store' = [o \in Objects |->
                 IF o[2] \in post[p].replaced /\ file[o[2]] = o[1]
                 THEN "superseded" ELSE store[o]]
  /\ post' = [post EXCEPT ![p].pc = "done"]
  /\ UNCHANGED <<status, outcome, review, file, token, known, req, faults>>

(* ... and the files it replaced are superseded. *)
PostSupersede(p) ==
  /\ post[p].pc = "marked"
  /\ store' = [o \in Objects |-> IF o \in post[p].previous THEN "superseded" ELSE store[o]]
  /\ post' = [post EXCEPT ![p].pc = "done"]
  /\ UNCHANGED <<status, outcome, review, file, token, known, req, faults>>

Cleaned(p) ==
  [o \in Objects |-> IF o[1] = p /\ store[o] \in {"provisioning", "current"}
                     THEN "deleted" ELSE store[o]]

(* The catch block deletes what this attempt stored, wherever it failed. *)
PostCleanup(p) ==
  /\ post[p].pc = "losing"
  /\ store' = Cleaned(p)
  /\ post' = [post EXCEPT ![p].pc = "failed"]
  /\ UNCHANGED <<status, outcome, review, file, token, known, req, faults>>

-----------------------------------------------------------------------------
(* Faults *)

(* The catch block covers the bookkeeping after the commit as well.         *)
PostError(p) ==
  /\ post[p].pc \in {"uploading", "committed", "marked"}
  /\ faults < MaxFaults
  /\ faults' = faults + 1
  /\ store' = Cleaned(p)
  /\ post' = [post EXCEPT ![p].pc = "failed"]
  /\ UNCHANGED <<status, outcome, review, file, token, known, req>>

(* The server process of a resubmission dies. *)
PostDies(p) ==
  /\ post[p].pc \in {"uploading", "losing", "committed", "marked"}
  /\ faults < MaxFaults
  /\ faults' = faults + 1
  /\ post' = [post EXCEPT ![p].pc = "dead"]
  /\ UNCHANGED <<status, outcome, review, file, store, token, known, req>>

(* A staff request dies, or throws: it has no compensation but SendEmail's. *)
StaffDies(r) ==
  /\ req[r].pc # "idle"
  /\ faults < MaxFaults
  /\ faults' = faults + 1
  /\ Finish(r)
  /\ UNCHANGED <<status, outcome, review, file, store, token, known, post>>

-----------------------------------------------------------------------------
StaffStep(r) ==
  \/ \E F \in SUBSET Fields, v \in Verdicts : SaveBegin(r, F, v)
  \/ SaveCommit(r)
  \/ SendBegin(r) \/ SendReserve(r) \/ SendConsume(r) \/ SendRestore(r)
  \/ RegenerateBegin(r) \/ PreviewBegin(r) \/ ManualReserve(r)
  \/ \E t \in Tokens : \/ SendIssue(r, t) \/ RegenerateIssue(r, t)
                       \/ PreviewIssue(r, t) \/ ManualBegin(r, t)
  \/ \E sent, arrives \in BOOLEAN : SendEmail(r, sent, arrives)
  \/ CloseBegin(r) \/ CloseCommit(r)

PostStep(p) ==
  \/ \E t \in Tokens, X \in SUBSET Fields : PostBegin(p, t, X)
  \/ \E f \in Fields : Upload(p, f)
  \/ PostCommit(p) \/ PostLose(p) \/ PostMark(p) \/ PostSupersede(p) \/ PostCleanup(p)

Faulty ==
  \/ \E r \in Staff : StaffDies(r)
  \/ \E p \in Posts : PostError(p) \/ PostDies(p)

Next ==
  \/ \E r \in Staff : StaffStep(r)
  \/ TakeBack \/ CloseUnsuccessful
  \/ \E p \in Posts : PostStep(p)
  \/ Faulty

Spec == Init /\ [][Next]_vars

-----------------------------------------------------------------------------
(* Properties *)

(* A case has one usable link: issueToken and the sends, regenerations and  *)
(* resubmissions that race with it never leave two.                         *)
OneLiveLink == Cardinality(Active) <= 1

Accepted(p) ==
  post[p].pc \in {"committed", "marked", "done"}

(* A link works once, however many forms were opened with it. *)
LinkWorksOnce ==
  \A p, q \in Posts : Accepted(p) /\ Accepted(q) /\ post[p].token = post[q].token => p = q

(* The files a resubmission is going to supersede are the ones its commit   *)
(* replaced, although it read them before a long upload.                    *)
SupersedesWhatItReplaced ==
  [][\A p \in Posts : post[p].pc = "uploading" /\ post'[p].pc = "committed" =>
       post[p].previous = {<<file[f], f>> : f \in post[p].replaced \cup post[p].removed}]_vars

(* A document's current file is never superseded, and deleted only by the   *)
(* cleanup of its own resubmission, when the bookkeeping failed after the   *)
(* commit (public-resubmission.routes.ts:670): not by the cleanup of a      *)
(* resubmission that lost, nor by the bookkeeping of another one.           *)
DocumentsKeepTheirFiles ==
  \A f \in Fields : file[f] # Gone =>
    /\ store[<<file[f], f>>] # "superseded"
    /\ store[<<file[f], f>>] = "deleted" => /\ file[f] \in Posts
                                           /\ post[file[f]].pc = "failed"

(* A case the API sent to its merchant has a usable link, once the sends    *)
(* that are under way have ended and unless one of them died.               *)
AwaitingHasLink ==
  status = "awaiting_merchant" /\ faults = 0 /\ (\A r \in Staff : req[r].op # "send") =>
    Active # {}

(* A case has one usable link, and a link is used once. *)
OneUseOfOneLink == OneLiveLink /\ LinkWorksOnce
=============================================================================
