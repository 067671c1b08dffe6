------------------------ MODULE Resubmission_proofs ------------------------
(* One usable link, used once, and documents that keep their files, for     *)
(* every set of fields, staff requests and resubmissions: the facts the     *)
(* model checker finds for a case with one or two of each.                  *)
EXTENDS Resubmission, FiniteSetTheorems, TLAPS

(* An attempt whose outcome is known: it can no longer commit.              *)
Settled(a) == a \in Posts => post[a].pc \notin {"new", "uploading", "losing"}

OneActive == \A t, u \in Active : t = u
Opened(p) == post[p].pc # "new" => post[p].token \in Tokens /\ token[post[p].token] # "unissued"
Used(p)   == Accepted(p) => token[post[p].token] = "consumed"
Links     == OneActive /\ LinkWorksOnce /\ \A p \in Posts : Opened(p) /\ Used(p)

(* Of the files a resubmission read: they are of settled attempts; none is  *)
(* the current file of its document once the resubmission has committed;    *)
(* and while its link is usable nothing has changed since.                  *)
Before(p) == {<<file[f], f>> : f \in post[p].replaced \cup post[p].removed}
Old(p) ==
  /\ \A o \in post[p].previous : Settled(o[1])
  /\ post[p].pc \in {"committed", "marked"} => \A o \in post[p].previous : file[o[2]] # o[1]
  /\ post[p].pc = "uploading" =>
       /\ \A f \in post[p].uploaded : store[<<p, f>>] = "provisioning"
       /\ \A o \in post[p].previous : o[2] \in post[p].replaced \cup post[p].removed
       /\ token[post[p].token] = "active" => post[p].previous = Before(p)
Files == /\ \A f \in Fields : Settled(file[f])
         /\ \A p \in Posts : Old(p)

(* A send has its link before it mails it.                                  *)
Mailing(r) == req[r].pc = "emailing" => req[r].token \in Tokens
Types      == TypeOK /\ \A r \in Staff : Mailing(r)

-----------------------------------------------------------------------------
(* Steps *)

OneStaffStep(r) == StaffStep(r) \/ StaffDies(r)
OnePostStep(p)  == PostStep(p) \/ PostError(p) \/ PostDies(p)

LEMMA Steps ==
  ASSUME Next
  PROVE  \/ \E r \in Staff : OneStaffStep(r)
         \/ \E p \in Posts : OnePostStep(p)
         \/ TakeBack \/ CloseUnsuccessful
  BY DEF Next, Faulty, OneStaffStep, OnePostStep

(* Staff leave the documents and the resubmissions alone.                   *)
LEMMA StaffWrites ==
  ASSUME NEW r \in Staff, OneStaffStep(r)
  PROVE  /\ UNCHANGED <<file, store, post>>
         /\ \E new : req' = [req EXCEPT ![r] = new]
<1> USE DEF Finish
<1>1. CASE \E F \in SUBSET Fields, v \in Verdicts : SaveBegin(r, F, v)
  BY <1>1 DEF SaveBegin
<1>2. CASE SaveCommit(r) \/ SendBegin(r) \/ SendReserve(r) \/ SendConsume(r) \/ SendRestore(r)
  BY <1>2 DEF SaveCommit, SendBegin, SendReserve, SendConsume, SendRestore
<1>3. CASE RegenerateBegin(r) \/ PreviewBegin(r) \/ ManualReserve(r)
  BY <1>3 DEF RegenerateBegin, PreviewBegin, ManualReserve
<1>4. CASE \E t \in Tokens : \/ SendIssue(r, t) \/ RegenerateIssue(r, t)
                             \/ PreviewIssue(r, t) \/ ManualBegin(r, t)
  BY <1>4 DEF SendIssue, RegenerateIssue, PreviewIssue, ManualBegin
<1>5. CASE \E sent, arrives \in BOOLEAN : SendEmail(r, sent, arrives)
  BY <1>5 DEF SendEmail
<1>6. CASE CloseBegin(r) \/ CloseCommit(r) \/ StaffDies(r)
  BY <1>6 DEF CloseBegin, CloseCommit, StaffDies
<1> QED
  BY <1>1, <1>2, <1>3, <1>4, <1>5, <1>6 DEF OneStaffStep, StaffStep

(* A link is issued once, in place of the others, and never comes back.     *)
Issued    == \E t \in Tokens : Issue(t)
Withdrawn == \E t \in Tokens \cup {0} : token' = [token EXCEPT ![t] = "consumed"]

LEMMA StaffTokens ==
  ASSUME TypeOK, NEW r \in Staff, OneStaffStep(r)
  PROVE  Issued \/ Withdrawn \/ UNCHANGED token
<1>1. req[r].token \in Tokens \cup {0}
  BY DEF TypeOK, Request
<1>2. CASE \E F \in SUBSET Fields, v \in Verdicts : SaveBegin(r, F, v)
  BY <1>2 DEF SaveBegin
<1>3. CASE SaveCommit(r) \/ SendBegin(r) \/ SendReserve(r) \/ SendRestore(r)
           \/ RegenerateBegin(r) \/ PreviewBegin(r) \/ ManualReserve(r)
  BY <1>3 DEF SaveCommit, SendBegin, SendReserve, SendRestore, RegenerateBegin, PreviewBegin,
     ManualReserve
<1>4. CASE SendConsume(r)
  BY <1>1, <1>4 DEF SendConsume, Withdrawn
<1>5. CASE \E t \in Tokens : \/ SendIssue(r, t) \/ RegenerateIssue(r, t)
                             \/ PreviewIssue(r, t) \/ ManualBegin(r, t)
  BY <1>5 DEF SendIssue, RegenerateIssue, PreviewIssue, ManualBegin, Issued
<1>6. CASE \E sent, arrives \in BOOLEAN : SendEmail(r, sent, arrives)
  BY <1>6 DEF SendEmail
<1>7. CASE CloseBegin(r) \/ CloseCommit(r) \/ StaffDies(r)
  BY <1>7 DEF CloseBegin, CloseCommit, StaffDies
<1> QED
  BY <1>2, <1>3, <1>4, <1>5, <1>6, <1>7 DEF OneStaffStep, StaffStep

LEMMA PostTokens ==
  ASSUME NEW p \in Posts, OnePostStep(p)
  PROVE  PostCommit(p) \/ UNCHANGED token
  BY DEF OnePostStep, PostStep, PostBegin, Upload, PostLose, PostMark, PostSupersede, PostCleanup,
     PostError, PostDies

(* What a step leaves of the links.                                         *)
LEMMA TokensAge ==
  ASSUME TypeOK, Next
  PROVE  \A t \in Tokens : /\ token[t] = "consumed" => token'[t] = "consumed"
                           /\ token[t] = "active" => token'[t] # "unissued"
                           /\ token'[t] = "active" => token[t] \in {"unissued", "active"}
<1>0. token \in [Tokens -> {"unissued", "active", "consumed"}]
  BY DEF TypeOK
<1>1. CASE Issued
  BY <1>0, <1>1 DEF Issued, Issue, Active
<1>2. CASE Withdrawn
  BY <1>0, <1>2 DEF Withdrawn
<1>3. ASSUME NEW p \in Posts, PostCommit(p)
      PROVE  \A t \in Tokens : /\ token[t] = "consumed" => token'[t] = "consumed"
                               /\ token[t] = "active" => token'[t] # "unissued"
                               /\ token'[t] = "active" => token[t] \in {"unissued", "active"}
  BY <1>0, <1>3 DEF PostCommit, Apply
<1>4. CASE UNCHANGED token
  BY <1>0, <1>4
<1>5. TakeBack \/ CloseUnsuccessful => UNCHANGED token
  BY DEF TakeBack, CloseUnsuccessful
<1> QED
  BY <1>1, <1>2, <1>3, <1>4, <1>5, Steps, StaffTokens, PostTokens

LEMMA OneActiveKept ==
  ASSUME TypeOK, OneActive, Next
  PROVE  OneActive'
<1>0. token \in [Tokens -> {"unissued", "active", "consumed"}]
  BY DEF TypeOK
<1>1. CASE Issued
  BY <1>0, <1>1 DEF Issued, Issue, Active, OneActive
<1>2. CASE Withdrawn
  BY <1>0, <1>2 DEF Withdrawn, Active, OneActive
<1>3. ASSUME NEW p \in Posts, PostCommit(p)
      PROVE  OneActive'
  BY <1>0, <1>3 DEF PostCommit, Apply, Active, OneActive
<1>4. CASE UNCHANGED token
  BY <1>4 DEF Active, OneActive
<1>5. TakeBack \/ CloseUnsuccessful => UNCHANGED token
  BY DEF TakeBack, CloseUnsuccessful
<1> QED
  BY <1>1, <1>2, <1>3, <1>4, <1>5, Steps, StaffTokens, PostTokens

-----------------------------------------------------------------------------
(* Types *)

LEMMA StaffTyped ==
  ASSUME TypeOK, NEW r \in Staff, OneStaffStep(r), Mailing(r)
  PROVE  TypeOK'
<1>0. /\ req \in [Staff -> Request] /\ req[r] \in Request /\ IdleRequest \in Request
      /\ token \in [Tokens -> {"unissued", "active", "consumed"}]
  BY DEF TypeOK, Request, IdleRequest, Verdicts
<1>1. token' \in [Tokens -> {"unissued", "active", "consumed"}]
  BY <1>0, StaffTokens DEF Issued, Issue, Withdrawn
<1>2. [req EXCEPT ![r] = IdleRequest] \in [Staff -> Request]
  BY <1>0
<1> USE DEF Finish
<1>3. CASE \E F \in SUBSET Fields, v \in Verdicts : SaveBegin(r, F, v)
  <2>1. PICK F \in SUBSET Fields, v \in Verdicts : SaveBegin(r, F, v)
    BY <1>3
  <2>2. [IdleRequest EXCEPT !.op = "save", !.pc = "checked", !.fields = F, !.verdict = v] \in Request
    BY <1>0 DEF Request
  <2> QED
    BY <1>0, <2>1, <2>2 DEF SaveBegin, TypeOK
<1>4. CASE SaveCommit(r)
  BY <1>0, <1>2, <1>4 DEF SaveCommit, TypeOK, Request
<1>5. CASE SendBegin(r) \/ RegenerateBegin(r) \/ PreviewBegin(r) \/ CloseBegin(r)
  <2>1. \A op \in {"send", "regenerate", "preview", "close"} :
          [IdleRequest EXCEPT !.op = op, !.pc = "checked"] \in Request
    BY <1>0 DEF Request
  <2> QED
    BY <1>0, <1>5, <2>1 DEF SendBegin, RegenerateBegin, PreviewBegin, CloseBegin, TypeOK
<1>6. CASE SendReserve(r) \/ SendConsume(r) \/ SendRestore(r)
  <2>1. \A pc \in {"reserved", "restoring"} : [req[r] EXCEPT !.pc = pc] \in Request
    BY <1>0 DEF Request
  <2> QED
    BY <1>0, <1>1, <1>2, <1>6, <2>1 DEF SendReserve, SendConsume, SendRestore, TypeOK
<1>7. ASSUME NEW t \in Tokens, SendIssue(r, t)
      PROVE  TypeOK'
  <2>1. [[req[r] EXCEPT !.pc = "emailing"] EXCEPT !.token = t] \in Request
    BY <1>0 DEF Request
  <2> QED
    BY <1>0, <1>1, <1>7, <2>1 DEF SendIssue, TypeOK
<1>8. ASSUME NEW t \in Tokens, RegenerateIssue(r, t) \/ PreviewIssue(r, t)
      PROVE  TypeOK'
  BY <1>1, <1>2, <1>8 DEF RegenerateIssue, PreviewIssue, TypeOK
<1>9. ASSUME NEW t \in Tokens, ManualBegin(r, t)
      PROVE  TypeOK'
  <2>1. [IdleRequest EXCEPT !.op = "manual", !.pc = "checked", !.token = t] \in Request
    BY <1>0 DEF Request
  <2> QED
    BY <1>0, <1>9, <2>1 DEF ManualBegin, TypeOK
<1>10. ASSUME NEW sent \in BOOLEAN, NEW arrives \in BOOLEAN, SendEmail(r, sent, arrives)
       PROVE  TypeOK'
  <2>0. known' \subseteq Tokens
    BY <1>10 DEF SendEmail, Doing, Mailing, TypeOK
  <2>1. [req[r] EXCEPT !.pc = "failing"] \in Request
    BY <1>0 DEF Request
  <2> QED
    BY <1>0, <1>2, <1>10, <2>0, <2>1 DEF SendEmail, TypeOK
<1>11. CASE ManualReserve(r) \/ CloseCommit(r)
  BY <1>2, <1>11 DEF ManualReserve, CloseCommit, TypeOK
<1>12. CASE StaffDies(r)
  BY <1>2, <1>12, ResubmissionAssumption DEF StaffDies, TypeOK
<1> QED
  BY <1>3, <1>4, <1>5, <1>6, <1>7, <1>8, <1>9, <1>10, <1>11, <1>12 DEF OneStaffStep, StaffStep

(* A staff request mails only after it issued its link.                     *)
LEMMA MailingKept ==
  ASSUME TypeOK, NEW r \in Staff, OneStaffStep(r), NEW s \in Staff, Mailing(s)
  PROVE  Mailing(s)'
<1>0. req \in [Staff -> Request]
  BY DEF TypeOK
<1>1. CASE s # r
  BY <1>0, <1>1, StaffWrites DEF Mailing
<1>2. Finish(r) => req'[r].pc = "idle"
  BY <1>0 DEF Finish, IdleRequest
<1>3. CASE \E t \in Tokens : SendIssue(r, t)
  <2>1. req'[r].token \in Tokens
    BY <1>0, <1>3 DEF SendIssue, Request
  <2> QED
    BY <1>1, <2>1 DEF Mailing
<1>4. CASE ~\E t \in Tokens : SendIssue(r, t)
  <2>1. ASSUME \E F \in SUBSET Fields, v \in Verdicts : SaveBegin(r, F, v)
        PROVE  req'[r].pc # "emailing"
    BY <1>0, <2>1 DEF SaveBegin, IdleRequest
  <2>2. ASSUME \E t \in Tokens : \/ RegenerateIssue(r, t) \/ PreviewIssue(r, t) \/ ManualBegin(r, t)
        PROVE  req'[r].pc # "emailing"
    BY <1>0, <1>2, <2>2 DEF RegenerateIssue, PreviewIssue, ManualBegin, IdleRequest
  <2>3. ASSUME SaveCommit(r) \/ ManualReserve(r) \/ CloseCommit(r) \/ StaffDies(r) \/ SendRestore(r)
        PROVE  req'[r].pc # "emailing"
    BY <1>2, <2>3 DEF SaveCommit, ManualReserve, CloseCommit, StaffDies, SendRestore
  <2>4. ASSUME SendBegin(r) \/ RegenerateBegin(r) \/ PreviewBegin(r) \/ CloseBegin(r)
        PROVE  req'[r].pc # "emailing"
    BY <1>0, <2>4 DEF SendBegin, RegenerateBegin, PreviewBegin, CloseBegin, IdleRequest
  <2>5. ASSUME SendReserve(r) \/ SendConsume(r)
        PROVE  req'[r].pc # "emailing"
    BY <1>0, <1>2, <2>5 DEF SendReserve, SendConsume, Request
  <2>6. ASSUME \E sent, arrives \in BOOLEAN : SendEmail(r, sent, arrives)
        PROVE  req'[r].pc # "emailing"
    BY <1>0, <1>2, <2>6 DEF SendEmail, Request
  <2>7. req'[r].pc # "emailing"
    BY <1>4, <2>1, <2>2, <2>3, <2>4, <2>5, <2>6 DEF OneStaffStep, StaffStep
  <2> QED
    BY <1>1, <2>7 DEF Mailing
<1> QED
  BY <1>3, <1>4

LEMMA PostTyped ==
  ASSUME TypeOK, NEW p \in Posts, OnePostStep(p)
  PROVE  TypeOK'
<1>0. /\ post \in [Posts -> Submission] /\ post[p] \in Submission /\ NewSubmission \in Submission
      /\ store \in [Objects -> {"none", "provisioning", "current", "superseded", "deleted"}]
      /\ \A pc \in {"losing", "committed", "marked", "done", "failed", "dead"} :
           [post EXCEPT ![p].pc = pc] \in [Posts -> Submission]
      /\ Rejected \subseteq Fields
  <2>1. NewSubmission \in Submission
    BY DEF NewSubmission, Submission
  <2>2. post \in [Posts -> Submission]
    BY DEF TypeOK
  <2>3. \A pc \in {"losing", "committed", "marked", "done", "failed", "dead"} :
           [post[p] EXCEPT !.pc = pc] \in Submission
    BY <2>2 DEF Submission
  <2> QED
    BY <2>1, <2>2, <2>3 DEF TypeOK, Rejected
<1>1. ASSUME NEW t \in Tokens, NEW X \in SUBSET Fields, PostBegin(p, t, X)
      PROVE  TypeOK'
  <2>1. {<<file[f], f>> : f \in Rejected} \subseteq Objects
    BY <1>0, <1>1 DEF PostBegin, TypeOK, Objects
  <2>2. [NewSubmission EXCEPT !.pc = "uploading", !.token = t, !.removed = X,
           !.replaced = Rejected \ X, !.previous = {<<file[f], f>> : f \in Rejected}] \in Submission
    BY <1>0, <2>1 DEF Submission
  <2> QED
    BY <1>0, <1>1, <2>2 DEF PostBegin, TypeOK
<1>2. ASSUME NEW f \in Fields, Upload(p, f)
      PROVE  TypeOK'
  <2>1. [post[p] EXCEPT !.uploaded = @ \cup {f}] \in Submission
    BY <1>0 DEF Submission
  <2>2. post' = [post EXCEPT ![p] = [post[p] EXCEPT !.uploaded = @ \cup {f}]]
    BY <1>0, <1>2 DEF Upload
  <2>3. post' \in [Posts -> Submission]
    BY <1>0, <2>1, <2>2
  <2>4. store' \in [Objects -> {"none", "provisioning", "current", "superseded", "deleted"}]
    BY <1>0, <1>2 DEF Upload
  <2> QED
    BY <1>2, <2>3, <2>4 DEF Upload, TypeOK
<1>3. CASE PostCommit(p)
  BY <1>0, <1>3 DEF PostCommit, Apply, TypeOK, Attempts, Verdicts
<1>4. CASE PostLose(p)
  BY <1>0, <1>4 DEF PostLose, TypeOK
<1>5. CASE PostMark(p) \/ PostSupersede(p)
  BY <1>0, <1>5 DEF PostMark, PostSupersede, TypeOK
<1>6. CASE PostCleanup(p)
  BY <1>0, <1>6 DEF PostCleanup, Cleaned, TypeOK
<1>7. CASE PostError(p) \/ PostDies(p)
  <2>1. faults' \in 0 .. MaxFaults
    BY <1>7, ResubmissionAssumption DEF PostError, PostDies, TypeOK
  <2> QED
    BY <1>0, <1>7, <2>1 DEF PostError, PostDies, Cleaned, TypeOK
<1> QED
  BY <1>1, <1>2, <1>3, <1>4, <1>5, <1>6, <1>7 DEF OnePostStep, PostStep

LEMMA TypesInvariant == Spec => []Types
<1>1. Init => Types
  <2> SUFFICES ASSUME Init
               PROVE  Types
    OBVIOUS
  <2>1. IdleRequest \in Request /\ NewSubmission \in Submission
    BY DEF Request, IdleRequest, NewSubmission, Submission, Verdicts
  <2>2. 0 \in 0 .. MaxFaults
    BY ResubmissionAssumption
  <2> QED
    BY <2>1, <2>2 DEF Init, Types, TypeOK, Mailing, IdleRequest, Verdicts, Attempts
<1>2. Types /\ [Next]_vars => Types'
  <2> SUFFICES ASSUME Types, [Next]_vars
               PROVE  Types'
    OBVIOUS
  <2>1. ASSUME NEW r \in Staff, OneStaffStep(r)
        PROVE  Types'
    BY <2>1, StaffTyped, MailingKept DEF Types
  <2>2. ASSUME NEW p \in Posts, OnePostStep(p)
        PROVE  Types'
    <3>1. req' = req
      BY <2>2 DEF OnePostStep, PostStep, PostBegin, Upload, PostCommit, Apply, PostLose, PostMark,
         PostSupersede, PostCleanup, PostError, PostDies
    <3> QED
      BY <2>2, <3>1, PostTyped DEF Types, Mailing
  <2>3. CASE TakeBack \/ CloseUnsuccessful
    BY <2>3 DEF TakeBack, CloseUnsuccessful, Types, TypeOK, Mailing
  <2>4. CASE UNCHANGED vars
    BY <2>4 DEF vars, Types, TypeOK, Mailing
  <2> QED
    BY <2>1, <2>2, <2>3, <2>4, Steps
<1> QED
  BY <1>1, <1>2, PTL DEF Spec

(* Every variable stays in its range.                                       *)
THEOREM ReviewStaysTyped == Spec => []TypeOK
<1>1. Types => TypeOK
  BY DEF Types
<1> QED
  BY <1>1, TypesInvariant, PTL

-----------------------------------------------------------------------------
(* One link, used once *)

(* What a step of a resubmission does to it and to the others.              *)
LEMMA PostMoves ==
  ASSUME TypeOK, NEW p \in Posts, OnePostStep(p)
  PROVE  /\ \A q \in Posts \ {p} : post'[q] = post[q]
         /\ post[p].pc = "new" => \E t \in Tokens, X \in SUBSET Fields : PostBegin(p, t, X)
         /\ post[p].pc # "new" =>
              /\ post'[p].token = post[p].token /\ post'[p].pc # "new"
              /\ post'[p].replaced = post[p].replaced /\ post'[p].removed = post[p].removed
              /\ post'[p].previous = post[p].previous
         /\ post'[p].pc = "uploading" /\ post[p].pc # "new" => \E f \in Fields : Upload(p, f)
         /\ post'[p].pc = "committed" => PostCommit(p)
         /\ post'[p].pc = "marked" => PostMark(p)
         /\ Accepted(p)' => Accepted(p) \/ PostCommit(p)
         /\ post[p].pc \notin {"new", "uploading", "losing"} =>
              post'[p].pc \notin {"new", "uploading", "losing"}
<1>0. post \in [Posts -> Submission]
  BY DEF TypeOK
<1>1. ASSUME NEW t \in Tokens, NEW X \in SUBSET Fields, PostBegin(p, t, X)
      PROVE  /\ \A q \in Posts \ {p} : post'[q] = post[q]
             /\ post[p].pc = "new" /\ post'[p].pc = "uploading"
  BY <1>0, <1>1 DEF PostBegin, NewSubmission
<1>2. ASSUME NEW f \in Fields, Upload(p, f)
      PROVE  /\ \A q \in Posts \ {p} : post'[q] = post[q]
             /\ post[p].pc = "uploading" /\ post'[p].pc = "uploading"
             /\ post'[p].token = post[p].token /\ post'[p].previous = post[p].previous
             /\ post'[p].replaced = post[p].replaced /\ post'[p].removed = post[p].removed
  BY <1>0, <1>2 DEF Upload, Submission
<1>3. ASSUME NEW pc, post' = [post EXCEPT ![p].pc = pc]
      PROVE  /\ \A q \in Posts \ {p} : post'[q] = post[q]
             /\ post'[p].pc = pc
             /\ post'[p].token = post[p].token /\ post'[p].previous = post[p].previous
             /\ post'[p].replaced = post[p].replaced /\ post'[p].removed = post[p].removed
  BY <1>0, <1>3 DEF Submission
<1>4. PostCommit(p) => post[p].pc = "uploading" /\ post' = [post EXCEPT ![p].pc = "committed"]
  BY DEF PostCommit, Apply, Uploaded
<1>5. PostLose(p) => post[p].pc = "uploading" /\ post' = [post EXCEPT ![p].pc = "losing"]
  BY DEF PostLose, Uploaded
<1>6. PostMark(p) => post[p].pc = "committed" /\ post' = [post EXCEPT ![p].pc = "marked"]
  BY DEF PostMark
<1>7. PostSupersede(p) => post[p].pc = "marked" /\ post' = [post EXCEPT ![p].pc = "done"]
  BY DEF PostSupersede
<1>8. PostCleanup(p) \/ PostError(p) \/ PostDies(p) =>
        /\ post[p].pc \in {"uploading", "losing", "committed", "marked"}
        /\ \E pc \in {"failed", "dead"} : post' = [post EXCEPT ![p].pc = pc]
  BY DEF PostCleanup, PostError, PostDies
<1> QED
  BY <1>1, <1>2, <1>3, <1>4, <1>5, <1>6, <1>7, <1>8 DEF OnePostStep, PostStep, Accepted

(* The outcome of an attempt is final.                                      *)
LEMMA SettledStays ==
  ASSUME TypeOK, Next, NEW a, Settled(a)
  PROVE  Settled(a)'
<1>1. ASSUME NEW p \in Posts, OnePostStep(p)
      PROVE  Settled(a)'
  BY <1>1, PostMoves DEF Settled
<1>2. ASSUME NEW r \in Staff, OneStaffStep(r)
      PROVE  Settled(a)'
  BY <1>2, StaffWrites DEF Settled
<1>3. CASE TakeBack \/ CloseUnsuccessful
  BY <1>3 DEF TakeBack, CloseUnsuccessful, Settled
<1> QED
  BY <1>1, <1>2, <1>3, Steps

LEMMA LinksKept ==
  ASSUME Types, Links, Next
  PROVE  Links'
<1>0. TypeOK /\ token \in [Tokens -> {"unissued", "active", "consumed"}]
      /\ post \in [Posts -> Submission]
  BY DEF Types, TypeOK
<1>1. OneActive'
  BY <1>0, OneActiveKept DEF Links
<1>2. CASE UNCHANGED post
  <2>1. \A p \in Posts : Opened(p)' /\ Used(p)'
    BY <1>0, <1>2, TokensAge DEF Links, Opened, Used, Accepted
  <2> QED
    BY <1>1, <1>2, <2>1 DEF Links, LinkWorksOnce, Accepted
<1>3. ASSUME NEW p \in Posts, OnePostStep(p)
      PROVE  Links'
  <2>1. ASSUME post[p].pc = "new"
        PROVE  post'[p].token \in Tokens /\ token'[post'[p].token] # "unissued"
    <3>1. PICK t \in Tokens, X \in SUBSET Fields : PostBegin(p, t, X)
      BY <1>0, <1>3, <2>1, PostMoves
    <3> QED
      BY <1>0, <3>1 DEF PostBegin, NewSubmission
  <2>2. \A q \in Posts : Opened(q)'
    BY <1>0, <1>3, <2>1, PostMoves, TokensAge DEF Links, Opened
  <2>3. Opened(p) /\ Used(p) /\ LinkWorksOnce
    BY DEF Links
  <2>4. PostCommit(p) => /\ post[p].pc = "uploading" /\ post[p].token \in Tokens
                         /\ token[post[p].token] = "active"
                         /\ token'[post[p].token] = "consumed"
    BY <1>0, <2>3 DEF PostCommit, Uploaded, Apply, Opened
  <2>5. Used(p)'
    BY <1>0, <1>3, <2>3, <2>4, PostMoves, TokensAge DEF Used, Opened, Accepted
  <2>6. ASSUME NEW q \in Posts \ {p}
        PROVE  Used(q)'
    BY <1>0, <1>3, PostMoves, TokensAge DEF Links, Used, Opened, Accepted
  <2>7. ASSUME NEW q \in Posts \ {p}, Accepted(q), Accepted(p)', post[q].token = post'[p].token
        PROVE  FALSE
    BY <1>0, <1>3, <2>3, <2>4, <2>7, PostMoves DEF Links, Used, LinkWorksOnce, Accepted
  <2>8. LinkWorksOnce'
    BY <1>0, <1>3, <2>3, <2>7, PostMoves DEF LinkWorksOnce, Accepted
  <2> QED
    BY <1>1, <2>2, <2>5, <2>6, <2>8 DEF Links
<1>4. ASSUME NEW r \in Staff, OneStaffStep(r)
      PROVE  UNCHANGED post
  BY <1>4, StaffWrites
<1>5. TakeBack \/ CloseUnsuccessful => UNCHANGED post
  BY DEF TakeBack, CloseUnsuccessful
<1> QED
  BY <1>2, <1>3, <1>4, <1>5, Steps

LEMMA AtMostOne ==
  ASSUME OneActive
  PROVE  OneLiveLink
<1>1. CASE Active = {}
  BY <1>1, FS_EmptySet DEF OneLiveLink
<1>2. CASE Active # {}
  <2>1. PICK t \in Active : TRUE
    BY <1>2
  <2>2. Active = {t}
    BY <2>1 DEF OneActive
  <2> QED
    BY <2>2, FS_Singleton DEF OneLiveLink
<1> QED
  BY <1>1, <1>2

LEMMA LinksInvariant == Spec => []Links
<1>1. Init => Links
  BY DEF Init, Links, OneActive, Active, LinkWorksOnce, Opened, Used, Accepted, NewSubmission
<1>2. Types /\ Links /\ [Next]_vars => Links'
  <2>1. Links /\ UNCHANGED vars => Links'
    BY DEF vars, Links, OneActive, Active, LinkWorksOnce, Opened, Used, Accepted
  <2> QED
    BY <2>1, LinksKept
<1> QED
  BY <1>1, <1>2, TypesInvariant, PTL DEF Spec

(* A case never has two usable links, and no link lets two resubmissions    *)
(* commit, although several forms are opened with one link and links are    *)
(* issued beside them (public-resubmission.routes.ts:527).                  *)
THEOREM OneLinkUsedOnce == Spec => []OneUseOfOneLink
<1>1. Links => OneUseOfOneLink
  BY AtMostOne DEF Links, OneUseOfOneLink
<1> QED
  BY <1>1, LinksInvariant, PTL

-----------------------------------------------------------------------------
(* The documents *)

(* A resubmission reads the files when its form is opened.                  *)
LEMMA Begun ==
  ASSUME TypeOK, Files, NEW p \in Posts, NEW t \in Tokens, NEW X \in SUBSET Fields,
         PostBegin(p, t, X)
  PROVE  Old(p)'
<1>0. post \in [Posts -> Submission]
  BY DEF TypeOK
<1>1. /\ post'[p].pc = "uploading" /\ post'[p].uploaded = {}
      /\ post'[p].previous = {<<file[f], f>> : f \in Rejected}
      /\ post'[p].replaced = Rejected \ X /\ post'[p].removed = X
      /\ X \subseteq Rejected /\ Rejected \subseteq Fields /\ file' = file
  BY <1>0 DEF PostBegin, NewSubmission, Rejected
<1>2. (Rejected \ X) \cup X = Rejected
  BY <1>1
<1>3. Before(p)' = {<<file[f], f>> : f \in Rejected}
  BY <1>1, <1>2 DEF Before
<1>4. ASSUME NEW f \in Rejected, NEW a, a = file[f]
      PROVE  Settled(a)'
  <2>1. Settled(a)
    BY <1>1, <1>4 DEF Files
  <2>2. a # p
    BY <2>1 DEF Settled, PostBegin
  <2>3. \A q \in Posts \ {p} : post'[q] = post[q]
    BY <1>0 DEF PostBegin
  <2> QED
    BY <2>1, <2>2, <2>3 DEF Settled
<1>5. \A o \in post'[p].previous : Settled(o[1])'
  BY <1>1, <1>4
<1> QED
  BY <1>1, <1>2, <1>3, <1>5 DEF Old

(* Who writes the files, and where.                                         *)
LEMMA FileWrites ==
  ASSUME TypeOK, NEW p \in Posts, OnePostStep(p)
  PROVE  \/ file' = file
         \/ /\ PostCommit(p)
            /\ \A f \in Fields : file'[f] \in {file[f], Gone, p}
            /\ \A f \in post[p].replaced \cup post[p].removed : file'[f] \in {Gone, p}
<1>1. PostCommit(p) \/ file' = file
  BY DEF OnePostStep, PostStep, PostBegin, Upload, PostLose, PostMark, PostSupersede, PostCleanup,
     PostError, PostDies
<1>2. post[p].replaced \cup post[p].removed \subseteq Fields
  BY DEF TypeOK, Submission
<1> QED
  BY <1>1, <1>2 DEF PostCommit, Apply

LEMMA StoreWrites ==
  ASSUME TypeOK, NEW p \in Posts, OnePostStep(p), NEW o \in Objects, o[1] # p
  PROVE  \/ store'[o] = store[o]
         \/ PostSupersede(p) /\ o \in post[p].previous /\ store'[o] = "superseded"
<1>0. store \in [Objects -> {"none", "provisioning", "current", "superseded", "deleted"}]
  BY DEF TypeOK
<1>1. ASSUME NEW f \in Fields, Upload(p, f)
      PROVE  store'[o] = store[o]
  BY <1>0, <1>1 DEF Upload
<1>2. PostMark(p) \/ PostCleanup(p) \/ PostError(p) => store'[o] = store[o]
  BY <1>0 DEF PostMark, PostCleanup, PostError, Cleaned
<1>3. PostSupersede(p) => \/ store'[o] = store[o]
                          \/ o \in post[p].previous /\ store'[o] = "superseded"
  BY <1>0 DEF PostSupersede
<1>4. PostCommit(p) \/ PostLose(p) \/ PostDies(p)
        \/ (\E t \in Tokens, X \in SUBSET Fields : PostBegin(p, t, X)) => store'[o] = store[o]
  BY DEF PostCommit, Apply, PostLose, PostDies, PostBegin
<1> QED
  BY <1>1, <1>2, <1>3, <1>4 DEF OnePostStep, PostStep

LEMMA ItsFiles ==
  ASSUME Types, Links, Files, NEW p \in Posts, OnePostStep(p)
  PROVE  Old(p)'
<1>0. TypeOK /\ Old(p) /\ post \in [Posts -> Submission] /\ post[p] \in Submission
  BY DEF Types, Files, TypeOK
<1>1. CASE post[p].pc = "new"
  BY <1>0, <1>1, PostMoves, Begun
<1>2. CASE post[p].pc # "new"
  <2>1. /\ post'[p].previous = post[p].previous
        /\ post'[p].replaced = post[p].replaced /\ post'[p].removed = post[p].removed
        /\ post'[p].token = post[p].token
    BY <1>0, <1>2, PostMoves
  <2>2. \A o \in post'[p].previous : Settled(o[1])'
    <3>1. Next
      BY DEF OnePostStep, Next, Faulty
    <3> QED
      BY <1>0, <2>1, <3>1, SettledStays DEF Old
  <2>3. ASSUME post'[p].pc = "committed", NEW o \in post[p].previous
        PROVE  file'[o[2]] # o[1]
    <3>1. PostCommit(p)
      BY <1>0, <2>3, PostMoves
    <3>2. post[p].pc = "uploading" /\ post[p].pc # "committed"
      BY <3>1 DEF PostCommit, Uploaded
    <3>3. o \in Objects /\ o[1] # p /\ o[2] \in post[p].replaced \cup post[p].removed
      BY <1>0, <3>2 DEF Old, Settled, Submission
    <3>4. file'[o[2]] \in {Gone, p}
      BY <3>1, <3>3 DEF PostCommit, Apply, Objects
    <3> QED
      BY <3>3, <3>4, ResubmissionAssumption DEF Objects, Attempts
  <2>4. ASSUME post'[p].pc = "marked", NEW o \in post[p].previous
        PROVE  file'[o[2]] # o[1]
    <3>1. PostMark(p)
      BY <1>0, <2>4, PostMoves
    <3> QED
      BY <1>0, <2>4, <3>1 DEF PostMark, Old
  <2>5. ASSUME post'[p].pc = "uploading"
        PROVE  /\ \A f \in post'[p].uploaded : store'[<<p, f>>] = "provisioning"
               /\ \A o \in post[p].previous : o[2] \in post[p].replaced \cup post[p].removed
               /\ token'[post[p].token] = "active" => post[p].previous = Before(p)'
    <3>1. PICK f \in Fields : Upload(p, f)
      BY <1>0, <1>2, <2>5, PostMoves
    <3>2. /\ post[p].pc = "uploading" /\ post'[p].uploaded = post[p].uploaded \cup {f}
          /\ file' = file /\ token' = token
      BY <1>0, <3>1 DEF Upload, Submission
    <3>3. Before(p)' = Before(p)
      BY <2>1, <3>2 DEF Before
    <3>4. \A g \in post'[p].uploaded : <<p, g>> \in Objects
      BY <1>0, <3>2 DEF Submission, Objects, Attempts
    <3>5. store \in [Objects -> {"none", "provisioning", "current", "superseded", "deleted"}]
      BY <1>0 DEF TypeOK
    <3>6. \A g \in post'[p].uploaded : store'[<<p, g>>] = "provisioning"
      BY <1>0, <3>1, <3>2, <3>4, <3>5 DEF Upload, Old
    <3> QED
      BY <1>0, <3>2, <3>3, <3>6 DEF Old
  <2> QED
    BY <2>1, <2>2, <2>3, <2>4, <2>5 DEF Old
<1> QED
  BY <1>1, <1>2

LEMMA OthersFiles ==
  ASSUME Types, Links, Files, NEW p \in Posts, OnePostStep(p), NEW q \in Posts, q # p
  PROVE  Old(q)'
<1>0. /\ TypeOK /\ Old(q) /\ Old(p) /\ Opened(q) /\ Next
      /\ post[q] \in Submission /\ post[p] \in Submission
  BY DEF Types, Files, Links, OnePostStep, Next, Faulty, TypeOK
<1>1. post'[q] = post[q]
  BY <1>0, PostMoves
<1>2. \A o \in post[q].previous : Settled(o[1])'
  BY <1>0, SettledStays DEF Old
<1>3. ASSUME post[q].pc \in {"committed", "marked"}, NEW o \in post[q].previous
      PROVE  file'[o[2]] # o[1]
  <2>1. o \in Objects /\ file[o[2]] # o[1] /\ Settled(o[1])
    BY <1>0, <1>3 DEF Old, Submission
  <2>2. CASE file' = file
    BY <2>1, <2>2
  <2>3. CASE PostCommit(p) /\ \A f \in Fields : file'[f] \in {file[f], Gone, p}
    <3>1. o[1] # p
      BY <2>1, <2>3 DEF Settled, PostCommit, Uploaded
    <3> QED
      BY <2>1, <2>3, <3>1, ResubmissionAssumption DEF Objects, Attempts
  <2> QED
    BY <1>0, <2>2, <2>3, FileWrites
<1>4. ASSUME post[q].pc = "uploading"
      PROVE  /\ \A f \in post[q].uploaded : store'[<<q, f>>] = "provisioning"
             /\ token'[post[q].token] = "active" => post[q].previous = Before(q)'
  <2>1. ASSUME NEW f \in post[q].uploaded
        PROVE  store'[<<q, f>>] = "provisioning"
    <3>1. <<q, f>> \in Objects /\ store[<<q, f>>] = "provisioning"
      BY <1>0, <1>4 DEF Old, Submission, Objects, Attempts
    <3>2. <<q, f>> \notin post[p].previous
      BY <1>0, <1>4 DEF Old, Settled
    <3> QED
      BY <1>0, <3>1, <3>2, StoreWrites
  <2>2. ASSUME token'[post[q].token] = "active"
        PROVE  post[q].previous = Before(q)'
    <3>1. post[q].token \in Tokens /\ token[post[q].token] = "active"
      BY <1>0, <1>4, <2>2, TokensAge DEF Opened
    <3>2. ~PostCommit(p)
      BY <2>2, <3>1 DEF PostCommit, Apply, Active
    <3>3. Before(q)' = Before(q)
      BY <1>0, <1>1, <3>2, FileWrites DEF Before
    <3> QED
      BY <1>0, <1>4, <3>1, <3>3 DEF Old
  <2> QED
    BY <2>1, <2>2
<1> QED
  BY <1>0, <1>1, <1>2, <1>3, <1>4 DEF Old

LEMMA OldOutside ==
  ASSUME Types, Links, Files, Next, UNCHANGED <<file, store, post>>
  PROVE  Files'
<1>1. ASSUME NEW p \in Posts
      PROVE  Old(p)'
  <2>1. Old(p) /\ Opened(p) /\ TypeOK
    BY DEF Files, Links, Types
  <2>2. \A o \in post[p].previous : Settled(o[1])'
    BY <2>1 DEF Old, Settled
  <2>3. post[p].pc = "uploading" /\ token'[post[p].token] = "active" =>
          token[post[p].token] = "active"
    BY <2>1, TokensAge DEF Opened
  <2> QED
    BY <2>1, <2>2, <2>3 DEF Old, Before
<1>2. \A f \in Fields : Settled(file[f])'
  BY DEF Files, Settled
<1> QED
  BY <1>1, <1>2 DEF Files

LEMMA FilesKept ==
  ASSUME Types, Links, Files, Next
  PROVE  Files'
<1>1. ASSUME NEW p \in Posts, OnePostStep(p)
      PROVE  Files'
  <2>1. \A q \in Posts : Old(q)'
    BY <1>1, ItsFiles, OthersFiles
  <2>2. ASSUME NEW f \in Fields, NEW a, a = file'[f]
        PROVE  Settled(a)'
    <3>1. CASE a = file[f]
      BY <3>1, SettledStays DEF Files, Types
    <3>2. CASE PostCommit(p) /\ a \in {Gone, p}
      <4>1. post'[p].pc = "committed"
        BY <3>2 DEF PostCommit, Apply, Types, TypeOK, Submission
      <4> QED
        BY <3>2, <4>1, ResubmissionAssumption DEF Settled
    <3> QED
      BY <1>1, <2>2, <3>1, <3>2, FileWrites DEF Types
  <2> QED
    BY <2>1, <2>2 DEF Files
<1>2. ASSUME NEW r \in Staff, OneStaffStep(r)
      PROVE  Files'
  BY <1>2, StaffWrites, OldOutside
<1>3. CASE TakeBack \/ CloseUnsuccessful
  BY <1>3, OldOutside DEF TakeBack, CloseUnsuccessful
<1> QED
  BY <1>1, <1>2, <1>3, Steps

LEMMA FilesInvariant == Spec => []Files
<1>1. Init => Files
  BY ResubmissionAssumption DEF Init, Files, Settled, Old, NewSubmission
<1>2. Types /\ Links /\ Files /\ [Next]_vars => Files'
  <2>1. Files /\ UNCHANGED vars => Files'
    BY DEF vars, Files, Settled, Old, Before
  <2> QED
    BY <2>1, FilesKept
<1> QED
  BY <1>1, <1>2, TypesInvariant, LinksInvariant, PTL DEF Spec

(* The files a resubmission will supersede are the ones its commit          *)
(* replaced: whoever commits between its reading and its commit takes its   *)
(* link (public-resubmission.routes.ts:527, :670).                          *)
THEOREM SupersedesOnlyTheReplaced == Spec => SupersedesWhatItReplaced
<1>1. Types /\ Links /\ Files /\ [Next]_vars =>
        [\A p \in Posts : post[p].pc = "uploading" /\ post'[p].pc = "committed" =>
           post[p].previous = {<<file[f], f>> : f \in post[p].replaced \cup post[p].removed}]_vars
  <2> SUFFICES ASSUME Types, Links, Files, Next, NEW p \in Posts,
                      post[p].pc = "uploading", post'[p].pc = "committed"
               PROVE  post[p].previous = Before(p)
    BY DEF Before
  <2>0. TypeOK /\ Old(p)
    BY DEF Types, Files
  <2>1. PostCommit(p)
    <3>1. ASSUME NEW q \in Posts, OnePostStep(q)
          PROVE  PostCommit(p)
      BY <2>0, <3>1, PostMoves
    <3>2. \A r \in Staff : OneStaffStep(r) => post' = post
      BY StaffWrites
    <3>3. TakeBack \/ CloseUnsuccessful => post' = post
      BY DEF TakeBack, CloseUnsuccessful
    <3> QED
      BY <3>1, <3>2, <3>3, Steps
  <2> QED
    BY <2>0, <2>1 DEF PostCommit, Old
<1> QED
  BY <1>1, TypesInvariant, LinksInvariant, FilesInvariant, PTL DEF Spec, SupersedesWhatItReplaced

(* The files on Drive and in the ledger: a current file is not superseded,  *)
(* and deleted only by the failed bookkeeping of its own resubmission.      *)
Safe(f) == file[f] # Gone =>
  /\ store[<<file[f], f>>] # "superseded"
  /\ store[<<file[f], f>>] = "deleted" => file[f] \in Posts /\ post[file[f]].pc = "failed"

LEMMA SafeKept ==
  ASSUME Types, Links, Files, NEW p \in Posts, OnePostStep(p), NEW f \in Fields, Safe(f)
  PROVE  Safe(f)'
<1>0. /\ TypeOK /\ Old(p) /\ Next /\ Settled(file[f])
      /\ post \in [Posts -> Submission] /\ post[p] \in Submission
      /\ store \in [Objects -> {"none", "provisioning", "current", "superseded", "deleted"}]
      /\ file[f] \in Attempts \cup {Gone}
  BY DEF Types, Files, OnePostStep, Next, Faulty, TypeOK
<1>1. CASE file'[f] = file[f] /\ file[f] # Gone /\ file[f] # p
  <2>1. <<file[f], f>> \in Objects
    BY <1>0, <1>1 DEF Objects
  <2>2. PostSupersede(p) => <<file[f], f>> \notin post[p].previous
    BY <1>0 DEF PostSupersede, Old
  <2>3. store'[<<file[f], f>>] = store[<<file[f], f>>]
    BY <1>0, <1>1, <2>1, <2>2, StoreWrites
  <2>4. file[f] \in Posts => post'[file[f]] = post[file[f]]
    BY <1>0, <1>1, PostMoves
  <2> QED
    BY <1>1, <2>3, <2>4 DEF Safe
<1>2. CASE file'[f] = p /\ file[f] = p
  <2>1. <<p, f>> \in Objects
    BY <1>0 DEF Objects, Attempts
  <2>2. post[p].pc \notin {"new", "uploading", "losing"}
    BY <1>0, <1>2 DEF Settled
  <2>3. CASE PostMark(p)
    BY <1>0, <1>2, <2>1, <2>3, ResubmissionAssumption DEF PostMark, Safe
  <2>4. CASE PostSupersede(p)
    BY <1>0, <1>2, <2>1, <2>4, ResubmissionAssumption DEF PostSupersede, Safe, Old
  <2>5. CASE PostError(p)
    BY <1>0, <1>2, <2>1, <2>5, ResubmissionAssumption DEF PostError, Cleaned, Safe
  <2>6. CASE PostDies(p)
    BY <1>0, <1>2, <2>1, <2>2, <2>6, ResubmissionAssumption DEF PostDies, Safe
  <2>7. PostMark(p) \/ PostSupersede(p) \/ PostError(p) \/ PostDies(p)
    BY <2>2 DEF OnePostStep, PostStep, PostBegin, Upload, PostCommit, Uploaded, PostLose, PostCleanup
  <2> QED
    BY <2>3, <2>4, <2>5, <2>6, <2>7
<1>3. CASE file'[f] = Gone
  BY <1>3 DEF Safe
<1>4. CASE PostCommit(p) /\ file'[f] # file[f] /\ file'[f] # Gone
  <2>1. f \in post[p].replaced /\ file'[f] = p
    BY <1>0, <1>4 DEF PostCommit, Apply
  <2>2. store'[<<p, f>>] = "provisioning"
    BY <1>0, <1>4, <2>1 DEF PostCommit, Uploaded, Apply, Old
  <2> QED
    BY <2>1, <2>2 DEF Safe
<1> QED
  BY <1>0, <1>1, <1>2, <1>3, <1>4, FileWrites

(* A document's current file is there, whatever happens to the attempts     *)
(* around it: neither the cleanup of one that lost nor the bookkeeping of   *)
(* another takes it (public-resubmission.routes.ts:670).                    *)
THEOREM CurrentFilesAreKept == Spec => []DocumentsKeepTheirFiles
<1> DEFINE AllSafe == \A f \in Fields : Safe(f)
<1>1. Init => AllSafe
  BY ResubmissionAssumption DEF Init, Safe, Objects, Attempts
<1>2. Types /\ Links /\ Files /\ AllSafe /\ [Next]_vars => AllSafe'
  <2> SUFFICES ASSUME Types, Links, Files, AllSafe, [Next]_vars, NEW f \in Fields
               PROVE  Safe(f)'
    OBVIOUS
  <2>1. ASSUME NEW p \in Posts, OnePostStep(p)
        PROVE  Safe(f)'
    BY <2>1, SafeKept
  <2>2. ASSUME UNCHANGED <<file, store, post>>
        PROVE  Safe(f)'
    BY <2>2 DEF Safe
  <2>3. \A r \in Staff : OneStaffStep(r) => UNCHANGED <<file, store, post>>
    BY StaffWrites
  <2>4. TakeBack \/ CloseUnsuccessful \/ UNCHANGED vars => UNCHANGED <<file, store, post>>
    BY DEF TakeBack, CloseUnsuccessful, vars
  <2> QED
    BY <2>1, <2>2, <2>3, <2>4, Steps
<1>3. AllSafe => DocumentsKeepTheirFiles
  BY DEF Safe, DocumentsKeepTheirFiles
<1> QED
  BY <1>1, <1>2, <1>3, TypesInvariant, LinksInvariant, FilesInvariant, PTL DEF Spec

-----------------------------------------------------------------------------
(* A case that waits for its merchant *)

(* Between the reservation and the link, and between taking the link back   *)
(* and the case, a send leaves a case with its merchant and without a link. *)
Underway(r) == req[r].op = "send" /\ req[r].pc \in {"reserved", "restoring"}
Awaiting ==
  status = "awaiting_merchant" /\ faults = 0 => Active # {} \/ \E r \in Staff : Underway(r)
ByApi == \A r \in Staff : req[r].op # "manual"

LEMMA ByApiKept ==
  ASSUME "manual" \notin Modes, TypeOK, ByApi, NEW r \in Staff, OneStaffStep(r)
  PROVE  ByApi'
<1>0. req \in [Staff -> Request]
  BY DEF TypeOK
<1>1. SUFFICES req'[r].op # "manual"
  BY <1>0, StaffWrites DEF ByApi
<1> USE DEF Finish, IdleRequest
<1>2. ASSUME \E F \in SUBSET Fields, v \in Verdicts : SaveBegin(r, F, v)
      PROVE  req'[r].op # "manual"
  BY <1>0, <1>2 DEF SaveBegin
<1>3. ASSUME SaveCommit(r) \/ SendRestore(r) \/ ManualReserve(r) \/ CloseCommit(r) \/ StaffDies(r)
      PROVE  req'[r].op # "manual"
  BY <1>0, <1>3 DEF SaveCommit, SendRestore, ManualReserve, CloseCommit, StaffDies
<1>4. ASSUME SendBegin(r) \/ RegenerateBegin(r) \/ PreviewBegin(r) \/ CloseBegin(r)
      PROVE  req'[r].op # "manual"
  BY <1>0, <1>4 DEF SendBegin, RegenerateBegin, PreviewBegin, CloseBegin
<1>5. ASSUME SendReserve(r) \/ SendConsume(r)
      PROVE  req'[r].op # "manual"
  BY <1>0, <1>5 DEF SendReserve, SendConsume, ByApi, Request
<1>6. ASSUME NEW t \in Tokens, SendIssue(r, t) \/ RegenerateIssue(r, t) \/ PreviewIssue(r, t)
      PROVE  req'[r].op # "manual"
  BY <1>0, <1>6 DEF SendIssue, RegenerateIssue, PreviewIssue, ByApi, Request
<1>7. \A t \in Tokens : ~ManualBegin(r, t)
  BY DEF ManualBegin
<1>8. ASSUME NEW sent \in BOOLEAN, NEW arrives \in BOOLEAN, SendEmail(r, sent, arrives)
      PROVE  req'[r].op # "manual"
  BY <1>0, <1>8 DEF SendEmail, ByApi, Request
<1> QED
  BY <1>2, <1>3, <1>4, <1>5, <1>6, <1>7, <1>8 DEF OneStaffStep, StaffStep

LEMMA AwaitingKept ==
  ASSUME "manual" \notin Modes, TypeOK, ByApi, Awaiting, NEW r \in Staff, OneStaffStep(r)
  PROVE  Awaiting'
<1>0. /\ req \in [Staff -> Request] /\ faults \in Nat
      /\ token \in [Tokens -> {"unissued", "active", "consumed"}]
  BY ResubmissionAssumption DEF TypeOK
<1>1. \A s \in Staff \ {r} : Underway(s) => Underway(s)'
  BY <1>0, StaffWrites DEF Underway
<1>2. ASSUME status' = status \/ status' # "awaiting_merchant", UNCHANGED <<token, faults>>,
             Underway(r) => Underway(r)'
      PROVE  Awaiting'
  BY <1>1, <1>2 DEF Awaiting, Active
<1>3. CASE \E F \in SUBSET Fields, v \in Verdicts : SaveBegin(r, F, v)
  BY <1>2, <1>3 DEF SaveBegin, Underway
<1>4. CASE SaveCommit(r) \/ CloseCommit(r)
  BY <1>2, <1>4 DEF SaveCommit, CloseCommit, Doing, Underway
<1>5. CASE SendBegin(r) \/ RegenerateBegin(r) \/ PreviewBegin(r) \/ CloseBegin(r)
  BY <1>2, <1>5 DEF SendBegin, RegenerateBegin, PreviewBegin, CloseBegin, Underway
<1>6. CASE SendReserve(r)
  <2>1. CASE status = "working"
    <3>1. Underway(r)'
      BY <1>0, <1>6, <2>1 DEF SendReserve, Doing, Underway, Request
    <3> QED
      BY <3>1 DEF Awaiting
  <2>2. CASE status # "working"
    BY <1>2, <1>6, <2>2 DEF SendReserve, Doing, Underway
  <2> QED
    BY <2>1, <2>2
<1>7. CASE \E t \in Tokens : SendIssue(r, t) \/ RegenerateIssue(r, t) \/ PreviewIssue(r, t)
  <2>1. Active' # {}
    BY <1>0, <1>7 DEF SendIssue, RegenerateIssue, PreviewIssue, Issue, Active
  <2> QED
    BY <2>1 DEF Awaiting
<1>8. CASE \E sent, arrives \in BOOLEAN : SendEmail(r, sent, arrives)
  BY <1>2, <1>8 DEF SendEmail, Doing, Underway
<1>9. CASE SendConsume(r)
  <2>1. Underway(r)'
    BY <1>0, <1>9 DEF SendConsume, Doing, Underway, Request
  <2> QED
    BY <2>1 DEF Awaiting
<1>10. CASE SendRestore(r)
  BY <1>10 DEF SendRestore, Awaiting
<1>11. CASE StaffDies(r)
  BY <1>0, <1>11 DEF StaffDies, Awaiting
<1>12. ~ManualReserve(r) /\ \A t \in Tokens : ~ManualBegin(r, t)
  BY DEF ManualReserve, ManualBegin, Doing, ByApi
<1> QED
  BY <1>3, <1>4, <1>5, <1>6, <1>7, <1>8, <1>9, <1>10, <1>11, <1>12 DEF OneStaffStep, StaffStep

(* A case the API sent to its merchant has a usable link, once the sends    *)
(* under way have ended and if none of them died. Emails that staff send by *)
(* hand are left out: a confirmation of one comes after the case was looked *)
(* at, and the link may be used or replaced in between                      *)
(* (case-communications.service.ts:219).                                    *)
THEOREM AwaitingCasesHaveALink ==
  ASSUME "manual" \notin Modes
  PROVE  Spec => []AwaitingHasLink
<1>1. Init => ByApi /\ Awaiting
  BY DEF Init, ByApi, Awaiting, IdleRequest
<1>2. Types /\ ByApi /\ Awaiting /\ [Next]_vars => ByApi' /\ Awaiting'
  <2> SUFFICES ASSUME Types, ByApi, Awaiting, [Next]_vars
               PROVE  ByApi' /\ Awaiting'
    OBVIOUS
  <2>0. TypeOK /\ faults \in Nat
    BY ResubmissionAssumption DEF Types, TypeOK
  <2>1. ASSUME NEW r \in Staff, OneStaffStep(r)
        PROVE  ByApi' /\ Awaiting'
    BY <2>0, <2>1, ByApiKept, AwaitingKept
  <2>2. ASSUME NEW p \in Posts, OnePostStep(p)
        PROVE  ByApi' /\ Awaiting'
    <3>1. /\ req' = req
          /\ \/ status' = "working"
             \/ UNCHANGED <<status, token>> /\ (faults' = faults \/ faults' = faults + 1)
      BY <2>2 DEF OnePostStep, PostStep, PostBegin, Upload, PostCommit, Apply, PostLose, PostMark,
         PostSupersede, PostCleanup, PostError, PostDies
    <3> QED
      BY <2>0, <3>1 DEF ByApi, Awaiting, Active, Underway
  <2>3. CASE TakeBack \/ CloseUnsuccessful
    BY <2>3 DEF TakeBack, CloseUnsuccessful, ByApi, Awaiting
  <2>4. CASE UNCHANGED vars
    BY <2>4 DEF vars, ByApi, Awaiting, Active, Underway
  <2> QED
    BY <2>1, <2>2, <2>3, <2>4, Steps
<1>3. Awaiting => AwaitingHasLink
  BY DEF Awaiting, AwaitingHasLink, Underway
<1> QED
  BY <1>1, <1>2, <1>3, TypesInvariant, PTL DEF Spec
=============================================================================
