-------------------------- MODULE Merchants_proofs --------------------------
(* Submissions, public folders and deletions, for every set of forms,       *)
(* documents and requests: one application is open for a business, open     *)
(* merchants have their files, and a deletion leaves nothing on Drive.      *)
EXTENDS Merchants, FiniteSetTheorems, TLAPS

Early == {"new", "looked", "rooted", "uploading", "checked"}

(* A submission that has not committed has no merchant, and one that gave   *)
(* up for another one's merchant never will.                                *)
Unborn(r) ==
  /\ sub[r].pc \in Early \cup {"replayed"} => merchant[r].status = "none"
  /\ sub[r].why = "replay" => merchant[r].status = "none"
  /\ sub[r].why # "none" => sub[r].pc \notin Early

(* What the second check found under the lock of the business stays true    *)
(* until the commit.                                                        *)
Alone(r) == sub[r].pc = "checked" =>
  /\ \A s \in Requests \ {r} : sub[s].pc = "checked" => form[s].business # form[r].business
  /\ \A m \in Requests : Open(m) => ~Matches(form[m], form[r])
  /\ \A d \in Docs : Recorded(<<r, d>>)

(* A row of the ledger belongs to nobody or to the merchant of its attempt. *)
Entered(o) ==
  /\ ledger[o].owner # NoOne => Recorded(o)
  /\ o[1] \in Requests => /\ ledger[o].owner \in {NoOne, o[1]}
                          /\ Recorded(o) => ledger[o].bound

(* A file that is recorded before the commit is on Drive, and the files of  *)
(* an open merchant stay there until its own submission cleans up.          *)
Stored(r) ==
  /\ sub[r].listed \subseteq Of(r)
  /\ sub[r].pc \in {"rooted", "uploading", "checked"} => <<r, Root>> \in drive
  /\ sub[r].pc \in Early => \A d \in Docs : Recorded(<<r, d>>) => <<r, d>> \in drive
  /\ Open(r) /\ sub[r].pc # "failed" => \A x \in Docs \cup {Root} : <<r, x>> \in drive

(* A claim holds its row for its merchant, and binds it when the folder is  *)
(* there.                                                                   *)
Claimed(p) ==
  /\ prov[p].pc = "new" => ledger[<<p, Root>>] = NoRow
  /\ prov[p].pc \in {"claimed", "created", "bound"} =>
       /\ prov[p].of \in Requests /\ merchant[prov[p].of].status # "none"
       /\ Exists(prov[p].of) => ledger[<<p, Root>>].owner = prov[p].of
  /\ prov[p].pc \in {"claimed", "created"} => ~ledger[<<p, Root>>].bound
  /\ prov[p].pc = "bound" /\ Exists(prov[p].of) => ledger[<<p, Root>>].bound
  /\ prov[p].pc \in {"created", "bound"} /\ Open(prov[p].of) => <<p, Root>> \in drive

PublicOf(m, p) == merchant[m].public = p =>
  /\ Exists(m) /\ prov[p].pc = "over"
  /\ ledger[<<p, Root>>].owner = m /\ ledger[<<p, Root>>].bound
  /\ Open(m) => <<p, Root>> \in drive

(* A deletion has listed all that its merchant names, and nothing of others.*)
Deleting ==
  /\ deletion.of = NoOne => deletion = NoDeletion
  /\ deletion.of # NoOne =>
       /\ merchant[deletion.of].status \in {"terminated", "hidden"}
       /\ deletion.linked = Linked(deletion.of)
       /\ deletion.linked \subseteq deletion.listed
  /\ \A o \in deletion.listed : ledger[o].owner = deletion.of /\ ledger[o].bound
  /\ deletion.swept => deletion.listed \cap drive = {}

(* The inductive invariant *)
Books ==
  /\ TypeOK
  /\ \A r \in Requests : Unborn(r) /\ Alone(r) /\ Stored(r)
  /\ \A o \in Objects : Entered(o)
  /\ \A p \in Provisioners : Claimed(p)
  /\ \A m \in Requests, p \in Provisioners : PublicOf(m, p)
  /\ Deleting

-----------------------------------------------------------------------------
(* Objects and records *)

SubSpace == [pc : SubPhases, why : Reasons, reply : Requests \cup {NoOne},
             listed : SUBSET Objects, broken : Docs \cup {Root}]
MerchantSpace == [status : Statuses, public : Provisioners \cup {NoOne}]
ProvSpace == [pc : ProvPhases, of : Requests \cup {NoOne}]
DeletionSpace == [of : Requests \cup {NoOne}, linked : SUBSET Objects, listed : SUBSET Objects,
                  swept : BOOLEAN]

Spaces ==
  /\ sub \in [Requests -> SubSpace]
  /\ merchant \in [Requests -> MerchantSpace]
  /\ ledger \in [Objects -> Row]
  /\ prov \in [Provisioners -> ProvSpace]
  /\ deletion \in DeletionSpace
  /\ drive \subseteq Objects

LEMMA SpacesAre ==
  ASSUME TypeOK
  PROVE  Spaces
  BY DEF TypeOK, Spaces, SubSpace, MerchantSpace, ProvSpace, DeletionSpace

LEMMA ObjectsAre ==
  /\ \A r \in Requests : <<r, Root>> \in Objects /\ \A d \in Docs : <<r, d>> \in Objects
  /\ \A p \in Provisioners : <<p, Root>> \in Objects
  /\ \A o \in Objects : o = <<o[1], o[2]>>
  /\ \A o \in Objects : \/ o[1] \in Requests /\ o[2] \in Docs \cup {Root}
                        \/ o[1] \in Provisioners /\ o = <<o[1], Root>>
  /\ \A m \in Requests, p \in Provisioners : m # p
<1>1. \A m \in Requests, p \in Provisioners : m # p
  BY MerchantsAssumption
<1>2. \A o \in Objects : \/ \E r \in Requests, x \in Docs \cup {Root} : o = <<r, x>>
                         \/ \E p \in Provisioners : o = <<p, Root>>
  BY DEF Objects
<1>3. \A o \in Objects : o = <<o[1], o[2]>>
  BY <1>2
<1>4. \A o \in Objects : \/ o[1] \in Requests /\ o[2] \in Docs \cup {Root}
                         \/ o[1] \in Provisioners /\ o = <<o[1], Root>>
  <2>2. ASSUME NEW p \in Provisioners
        PROVE  <<p, Root>>[1] \in Provisioners /\ <<p, Root>> = <<<<p, Root>>[1], Root>>
    OBVIOUS
  <2>3. TAKE o \in Objects
  <2>4. CASE \E r \in Requests, x \in Docs \cup {Root} : o = <<r, x>>
    <3>1. PICK r \in Requests, x \in Docs \cup {Root} : o = <<r, x>>
      BY <2>4
    <3>2. o[1] = r /\ o[2] = x
      BY <3>1
    <3> QED
      BY <3>1, <3>2
  <2>5. CASE \E p \in Provisioners : o = <<p, Root>>
    BY <2>2, <2>5
  <2> QED
    BY <1>2, <2>4, <2>5
<1>5. /\ \A r \in Requests : <<r, Root>> \in Objects /\ \A d \in Docs : <<r, d>> \in Objects
      /\ \A p \in Provisioners : <<p, Root>> \in Objects
  BY DEF Objects
<1> QED
  BY <1>1, <1>3, <1>4, <1>5

LEMMA LinkedAre ==
  ASSUME TypeOK, NEW m \in Requests
  PROVE  /\ Linked(m) \subseteq Objects
         /\ \A o \in Linked(m) : \/ o = <<m, Root>> \/ \E d \in Docs : o = <<m, d>>
                                 \/ merchant[m].public # NoOne /\ o = <<merchant[m].public, Root>>
<1>1. merchant[m].public \in Provisioners \cup {NoOne}
  BY DEF TypeOK
<1>2. \A o \in Linked(m) : \/ o = <<m, Root>> \/ \E d \in Docs : o = <<m, d>>
                           \/ merchant[m].public # NoOne /\ o = <<merchant[m].public, Root>>
  BY <1>1 DEF Linked, Folders
<1>3. \A o \in Linked(m) : o \in Objects
  <2>1. /\ <<m, Root>> \in Objects /\ \A d \in Docs : <<m, d>> \in Objects
        /\ merchant[m].public # NoOne => <<merchant[m].public, Root>> \in Objects
    BY <1>1, ObjectsAre
  <2> QED
    BY <1>2, <2>1
<1> QED
  BY <1>2, <1>3

-----------------------------------------------------------------------------
(* Types *)

(* What a step of a submission does to it.                                  *)
Moved(r) ==
  \/ UNCHANGED sub
  \/ \E pc \in SubPhases : sub' = [sub EXCEPT ![r].pc = pc]
  \/ \E pc \in SubPhases, why \in Reasons : sub' = [sub EXCEPT ![r].pc = pc, ![r].why = why]
  \/ \E d \in Docs : sub' = [sub EXCEPT ![r].pc = "cleaning", ![r].why = "error", ![r].broken = d]
  \/ \E pc \in SubPhases, x \in SUBSET Objects : sub' = [sub EXCEPT ![r].pc = pc, ![r].listed = x]
  \/ \E m \in Requests :
       sub' = [sub EXCEPT ![r].pc = "replayed", ![r].reply = m, ![r].listed = {}]

LEMMA SubMoves ==
  ASSUME NEW r \in Requests, SubmissionStep(r)
  PROVE  Moved(r)
<1> USE DEF Step, GiveUp, Replay, Moved, SubPhases, Reasons
<1>1. CASE Receive(r)
  <2>1. CASE \E m \in SameKey(r) : Replay(r, m)
    BY <2>1 DEF SameKey
  <2>2. CASE Step(r, "looked") \/ Step(r, "failed")
    BY <2>2
  <2> QED
    BY <1>1, <2>1, <2>2 DEF Receive
<1>2. CASE CreateRoot(r)
  BY <1>2 DEF CreateRoot
<1>3. CASE RecordRoot(r)
  BY <1>3 DEF RecordRoot
<1>4. CASE CheckAgain(r)
  BY <1>4 DEF CheckAgain
<1>5. CASE Commit(r)
  BY <1>5 DEF Commit
<1>6. CASE Attach(r)
  BY <1>6 DEF Attach
<1>7. CASE MarkCurrent(r)
  BY <1>7 DEF MarkCurrent
<1>8. CASE CleanUp(r)
  <2>1. Deletable(r) \in SUBSET Objects
    BY DEF Deletable, Of
  <2> QED
    BY <1>8, <2>1 DEF CleanUp
<1>9. CASE SubmissionFails(r)
  BY <1>9 DEF SubmissionFails
<1>10. CASE SubmissionDies(r)
  BY <1>10 DEF SubmissionDies
<1>11. ASSUME NEW d \in Docs, Upload(r, d) \/ RecordUpload(r, d) \/ UploadFails(r, d)
       PROVE  Moved(r)
  BY <1>11 DEF Upload, RecordUpload, UploadFails
<1>12. ASSUME NEW kept \in SUBSET Of(r), CleanedUp(r, kept)
       PROVE  Moved(r)
  <2>1. CASE \E m \in SameKey(r) : Replay(r, m)
    BY <2>1 DEF SameKey
  <2>2. CASE sub' = [sub EXCEPT ![r].pc = "failed", ![r].listed = {}]
    BY <2>2
  <2> QED
    BY <1>12, <2>1, <2>2 DEF CleanedUp
<1> QED
  BY <1>1, <1>2, <1>3, <1>4, <1>5, <1>6, <1>7, <1>8, <1>9, <1>10, <1>11, <1>12 DEF SubmissionStep

LEMMA SubTyped ==
  ASSUME Spaces, NEW r \in Requests, Moved(r)
  PROVE  sub' \in [Requests -> SubSpace]
<1>0. sub \in [Requests -> SubSpace] /\ sub[r] \in SubSpace
  BY DEF Spaces
<1>1. \A pc \in SubPhases : [sub[r] EXCEPT !.pc = pc] \in SubSpace
  BY <1>0 DEF SubSpace
<1>2. \A pc \in SubPhases, why \in Reasons : [sub[r] EXCEPT !.pc = pc, !.why = why] \in SubSpace
  BY <1>0 DEF SubSpace
<1>3. \A d \in Docs : [sub[r] EXCEPT !.pc = "cleaning", !.why = "error", !.broken = d] \in SubSpace
  BY <1>0 DEF SubSpace, SubPhases, Reasons
<1>4. \A pc \in SubPhases, x \in SUBSET Objects : [sub[r] EXCEPT !.pc = pc, !.listed = x] \in SubSpace
  BY <1>0 DEF SubSpace
<1>5. \A m \in Requests :
        [sub[r] EXCEPT !.pc = "replayed", !.reply = m, !.listed = {}] \in SubSpace
  BY <1>0 DEF SubSpace, SubPhases
<1>6. CASE UNCHANGED sub
  BY <1>0, <1>6
<1>7. ASSUME NEW pc \in SubPhases, sub' = [sub EXCEPT ![r].pc = pc]
      PROVE  sub' \in [Requests -> SubSpace]
  BY <1>0, <1>1, <1>7
<1>8. ASSUME NEW pc \in SubPhases, NEW why \in Reasons,
             sub' = [sub EXCEPT ![r].pc = pc, ![r].why = why]
      PROVE  sub' \in [Requests -> SubSpace]
  BY <1>0, <1>2, <1>8
<1>9. ASSUME NEW d \in Docs,
             sub' = [sub EXCEPT ![r].pc = "cleaning", ![r].why = "error", ![r].broken = d]
      PROVE  sub' \in [Requests -> SubSpace]
  BY <1>0, <1>3, <1>9
<1>10. ASSUME NEW pc \in SubPhases, NEW x \in SUBSET Objects,
              sub' = [sub EXCEPT ![r].pc = pc, ![r].listed = x]
       PROVE  sub' \in [Requests -> SubSpace]
  BY <1>0, <1>4, <1>10
<1>11. ASSUME NEW m \in Requests,
              sub' = [sub EXCEPT ![r].pc = "replayed", ![r].reply = m, ![r].listed = {}]
       PROVE  sub' \in [Requests -> SubSpace]
  BY <1>0, <1>5, <1>11
<1> QED
  BY <1>6, <1>7, <1>8, <1>9, <1>10, <1>11 DEF Moved

LEMMA SubmissionTyped ==
  ASSUME TypeOK, NEW r \in Requests, SubmissionStep(r)
  PROVE  TypeOK'
<1>0. /\ Spaces /\ sub[r] \in SubSpace /\ merchant[r] \in MerchantSpace
      /\ SameKey(r) \subseteq Requests /\ Of(r) \subseteq Objects
  BY SpacesAre DEF Spaces, SameKey, Of
<1> USE DEF Step, GiveUp, Replay
<1>2. /\ \A o \in Objects, owner \in Requests \cup {NoOne}, bound \in BOOLEAN :
           [ledger EXCEPT ![o] = [life |-> "provisioning", owner |-> owner, bound |-> bound]]
             \in [Objects -> Row]
      /\ \A o \in Objects : /\ [ledger[o] EXCEPT !.owner = r] \in Row
                            /\ [ledger[o] EXCEPT !.life = "current"] \in Row
                            /\ [ledger[o] EXCEPT !.life = "failed"] \in Row
  BY <1>0 DEF Spaces, Row
<1>3. /\ UNCHANGED <<form, prov, deletion>>
      /\ form \in [Requests -> Forms] /\ faults \in 0 .. MaxFaults /\ MaxFaults \in Nat
  BY MerchantsAssumption DEF SubmissionStep, Receive, CreateRoot, RecordRoot, CheckAgain, Commit,
     Attach, MarkCurrent, CleanUp, SubmissionFails, SubmissionDies, Upload, RecordUpload,
     UploadFails, CleanedUp, TypeOK
<1>4. sub' \in [Requests -> SubSpace]
  BY <1>0, SubMoves, SubTyped
<1>5. merchant' \in [Requests -> MerchantSpace]
  <2>1. CASE Commit(r)
    <3>1. [merchant[r] EXCEPT !.status = "open"] \in MerchantSpace
      BY <1>0 DEF MerchantSpace, Statuses
    <3> QED
      BY <1>0, <2>1, <3>1 DEF Commit, Spaces
  <2>2. CASE UNCHANGED merchant
    BY <1>0, <2>2 DEF Spaces
  <2>3. Commit(r) \/ UNCHANGED merchant
    BY DEF SubmissionStep, Receive, CreateRoot, RecordRoot, CheckAgain, Attach, MarkCurrent, CleanUp,
       SubmissionFails, SubmissionDies, Upload, RecordUpload, UploadFails, CleanedUp
  <2> QED
    BY <2>1, <2>2, <2>3
<1>6. ledger' \in [Objects -> Row]
  <2>1. CASE RecordRoot(r)
    BY <1>2, <2>1, ObjectsAre DEF RecordRoot, Enter
  <2>2. CASE Attach(r) \/ MarkCurrent(r) \/ CleanUp(r)
    <3>1. CASE Attach(r)
      BY <1>0, <1>2, <3>1 DEF Attach, Spaces
    <3>2. CASE MarkCurrent(r)
      BY <1>0, <1>2, <3>2 DEF MarkCurrent, Spaces
    <3>3. CASE CleanUp(r)
      BY <1>0, <1>2, <3>3 DEF CleanUp, MarkFailed, Spaces
    <3> QED
      BY <2>2, <3>1, <3>2, <3>3
  <2>3. ASSUME NEW d \in Docs, RecordUpload(r, d)
        PROVE  ledger' \in [Objects -> Row]
    BY <1>2, <2>3, ObjectsAre DEF RecordUpload, Enter
  <2>4. CASE UNCHANGED ledger
    BY <1>0, <2>4 DEF Spaces
  <2>5. \/ RecordRoot(r) \/ Attach(r) \/ MarkCurrent(r) \/ CleanUp(r) \/ UNCHANGED ledger
        \/ \E d \in Docs : RecordUpload(r, d)
    BY DEF SubmissionStep, Receive, CreateRoot, CheckAgain, Commit, SubmissionFails, SubmissionDies,
       Upload, UploadFails, CleanedUp
  <2> QED
    BY <2>1, <2>2, <2>3, <2>4, <2>5
<1>7. drive' \subseteq Objects
  <2>1. CreateRoot(r) \/ (\E d \in Docs : Upload(r, d)) => drive' \subseteq Objects
    <3>1. drive \subseteq Objects /\ <<r, Root>> \in Objects /\ \A d \in Docs : <<r, d>> \in Objects
      BY <1>0, ObjectsAre DEF Spaces
    <3>2. CASE CreateRoot(r)
      BY <3>1, <3>2 DEF CreateRoot
    <3>3. ASSUME NEW d \in Docs, Upload(r, d)
          PROVE  drive' \subseteq Objects
      <4>1. drive' = drive \cup {<<r, d>>} /\ <<r, d>> \in Objects
        BY <3>1, <3>3 DEF Upload
      <4> QED
        BY <3>1, <4>1
    <3> QED
      BY <3>2, <3>3
  <2>2. ASSUME NEW kept \in SUBSET Of(r), CleanedUp(r, kept)
        PROVE  drive' \subseteq Objects
    BY <1>0, <2>2 DEF CleanedUp, Spaces
  <2>3. \/ CreateRoot(r) \/ (\E d \in Docs : Upload(r, d)) \/ UNCHANGED drive
        \/ \E kept \in SUBSET Of(r) : CleanedUp(r, kept)
    BY DEF SubmissionStep, Receive, RecordRoot, CheckAgain, Commit, Attach, MarkCurrent, CleanUp,
       SubmissionFails, SubmissionDies, RecordUpload, UploadFails
  <2> QED
    BY <1>0, <2>1, <2>2, <2>3 DEF Spaces
<1>8. faults' \in 0 .. MaxFaults
  <2>1. Fault \/ UNCHANGED faults
    BY DEF SubmissionStep, Receive, CreateRoot, RecordRoot, CheckAgain, Commit,
       Attach, MarkCurrent, CleanUp, SubmissionFails, SubmissionDies, Upload, RecordUpload,
       UploadFails, CleanedUp
  <2> QED
    BY <1>3, <2>1 DEF Fault
<1> QED
  BY <1>0, <1>3, <1>4, <1>5, <1>6, <1>7, <1>8
     DEF TypeOK, Spaces, SubSpace, MerchantSpace, ProvSpace, DeletionSpace

LEMMA ProvisioningTyped ==
  ASSUME TypeOK, NEW p \in Provisioners, ProvisioningStep(p), Claimed(p)
  PROVE  TypeOK'
<1>0. Spaces /\ prov[p] \in ProvSpace /\ Of(p) \subseteq Objects /\ <<p, Root>> \in Objects
  BY SpacesAre, ObjectsAre DEF Spaces, Of
<1>1. /\ \A pc \in ProvPhases : [prov EXCEPT ![p].pc = pc] \in [Provisioners -> ProvSpace]
      /\ \A pc \in ProvPhases, m \in Requests \cup {NoOne} :
           [prov EXCEPT ![p] = [pc |-> pc, of |-> m]] \in [Provisioners -> ProvSpace]
  BY <1>0 DEF Spaces, ProvSpace
<1>2. /\ UNCHANGED <<form, sub, deletion>>
      /\ form \in [Requests -> Forms] /\ faults \in 0 .. MaxFaults /\ MaxFaults \in Nat
  BY MerchantsAssumption DEF ProvisioningStep, Claim, CreatePublic, Bind, SetPublic, CleanUpPublic,
     ProvisioningFails, ProvisioningDies, TypeOK
<1>3. prov' \in [Provisioners -> ProvSpace]
  <2>1. \/ \E pc \in ProvPhases : Go(p, pc)
        \/ Over(p)
        \/ \E m \in Requests : prov' = [prov EXCEPT ![p] = [pc |-> "claimed", of |-> m]]
    BY DEF ProvisioningStep, Claim, CreatePublic, Bind, SetPublic, CleanUpPublic,
       ProvisioningFails, ProvisioningDies, ProvPhases
  <2> QED
    BY <1>1, <2>1 DEF Go, Over, ProvPhases
<1>4. merchant' \in [Requests -> MerchantSpace]
  <2>1. CASE SetPublic(p)
    <3>1. prov[p].of \in Requests
      BY <2>1 DEF SetPublic, Claimed
    <3>2. [merchant[prov[p].of] EXCEPT !.public = p] \in MerchantSpace
      BY <1>0, <3>1 DEF Spaces, MerchantSpace
    <3> QED
      BY <1>0, <2>1, <3>1, <3>2 DEF SetPublic, Spaces
  <2>2. SetPublic(p) \/ UNCHANGED merchant
    BY DEF ProvisioningStep, Claim, CreatePublic, Bind, CleanUpPublic, ProvisioningFails,
       ProvisioningDies
  <2> QED
    BY <1>0, <2>1, <2>2 DEF Spaces
<1>5. ledger' \in [Objects -> Row]
  <2>1. ASSUME NEW m \in Requests, Claim(p, m)
        PROVE  ledger' \in [Objects -> Row]
    <3>1. [life |-> "provisioning", owner |-> m, bound |-> FALSE] \in Row
      BY DEF Row
    <3> QED
      BY <1>0, <2>1, <3>1 DEF Claim, Enter, Spaces
  <2>2. CASE Bind(p)
    <3>1. [[ledger[<<p, Root>>] EXCEPT !.bound = TRUE] EXCEPT !.life = "current"] \in Row
      BY <1>0 DEF Spaces, Row
    <3> QED
      BY <1>0, <2>2, <3>1 DEF Bind, Spaces
  <2>3. CASE CleanUpPublic(p)
    <3>1. \A o \in Objects : [ledger[o] EXCEPT !.life = "failed"] \in Row
      BY <1>0 DEF Spaces, Row
    <3> QED
      BY <1>0, <2>3, <3>1 DEF CleanUpPublic, MarkFailed, Spaces
  <2>4. (\E m \in Requests : Claim(p, m)) \/ Bind(p) \/ CleanUpPublic(p) \/ UNCHANGED ledger
    BY DEF ProvisioningStep, CreatePublic, SetPublic, ProvisioningFails, ProvisioningDies
  <2> QED
    BY <1>0, <2>1, <2>2, <2>3, <2>4 DEF Spaces
<1>6. drive' \subseteq Objects
  BY <1>0 DEF ProvisioningStep, Claim, CreatePublic, Bind, SetPublic, CleanUpPublic,
     ProvisioningFails, ProvisioningDies, Spaces
<1>7. faults' \in 0 .. MaxFaults
  <2>1. Fault \/ UNCHANGED faults
    BY DEF ProvisioningStep, Claim, CreatePublic, Bind, SetPublic, CleanUpPublic,
       ProvisioningFails, ProvisioningDies
  <2> QED
    BY <1>2, <2>1 DEF Fault
<1> QED
  BY <1>0, <1>2, <1>3, <1>4, <1>5, <1>6, <1>7
     DEF TypeOK, Spaces, SubSpace, MerchantSpace, ProvSpace, DeletionSpace

AdminStep ==
  \/ \E m \in Requests : Terminate(m) \/ SoftDelete(m) \/ DeleteBegin(m)
  \/ DeleteDrive \/ DeleteCommit \/ \E gone \in SUBSET Objects : DeleteFails(gone)

LEMMA AdminTyped ==
  ASSUME TypeOK, AdminStep
  PROVE  TypeOK'
<1>0. Spaces /\ MaxFaults \in Nat /\ faults \in 0 .. MaxFaults
  BY SpacesAre, MerchantsAssumption DEF TypeOK
<1>1. ASSUME NEW m \in Requests, Terminate(m) \/ SoftDelete(m)
      PROVE  TypeOK'
  <2>1. \A status \in Statuses : [merchant[m] EXCEPT !.status = status] \in MerchantSpace
    BY <1>0 DEF Spaces, MerchantSpace
  <2>2. merchant' \in [Requests -> MerchantSpace]
    BY <1>0, <1>1, <2>1 DEF Terminate, SoftDelete, Spaces, Statuses
  <2> QED
    BY <1>1, <2>2 DEF Terminate, SoftDelete, TypeOK, MerchantSpace
<1>2. ASSUME NEW m \in Requests, DeleteBegin(m)
      PROVE  TypeOK'
  <2>1. deletion' \in DeletionSpace
    BY <1>2, LinkedAre DEF DeleteBegin, DeletionSpace, Owned
  <2> QED
    BY <1>2, <2>1 DEF DeleteBegin, TypeOK, DeletionSpace
<1>3. CASE DeleteDrive
  <2>1. deletion' \in DeletionSpace
    BY <1>0, <1>3 DEF DeleteDrive, DeletionSpace, Spaces
  <2> QED
    BY <1>0, <1>3, <2>1 DEF DeleteDrive, TypeOK, DeletionSpace
<1>4. NoDeletion \in DeletionSpace /\ NoRow \in Row
      /\ [status |-> "removed", public |-> NoOne] \in MerchantSpace
  BY DEF NoDeletion, DeletionSpace, NoRow, Row, MerchantSpace, Statuses
<1>5. CASE DeleteCommit
  <2>1. merchant' \in [Requests -> MerchantSpace] /\ ledger' \in [Objects -> Row]
    BY <1>0, <1>4, <1>5 DEF DeleteCommit, Spaces
  <2> QED
    BY <1>4, <1>5, <2>1 DEF DeleteCommit, TypeOK, DeletionSpace, MerchantSpace
<1>6. ASSUME NEW gone \in SUBSET Objects, DeleteFails(gone)
      PROVE  TypeOK'
  BY <1>0, <1>4, <1>6 DEF DeleteFails, Fault, TypeOK, DeletionSpace
<1> QED
  BY <1>1, <1>2, <1>3, <1>5, <1>6 DEF AdminStep

-----------------------------------------------------------------------------
(* What one step does to a submission, a merchant, a row of the ledger, a   *)
(* folder and an object on Drive.                                           *)

To(r, pc) == sub'[r] = [sub[r] EXCEPT !.pc = pc]

Answered(r, m) ==
  /\ sub[r].pc # "new" => sub[r].pc = "deleting" /\ sub[r].why = "replay"
  /\ sub'[r] = [sub[r] EXCEPT !.pc = "replayed", !.reply = m, !.listed = {}]

Cleared(r) ==
  /\ BusinessFree(r) /\ Duplicates(r) = {} /\ \A d \in Docs : Recorded(<<r, d>>)
  /\ UNCHANGED <<merchant, ledger>>
  /\ \A s \in Requests \ {r} : sub'[s] = sub[s]

Went(r) ==
  \/ sub'[r] = sub[r]
  \/ sub[r].pc = "new" /\ (To(r, "looked") \/ To(r, "failed"))
  \/ \E m \in SameKey(r) : Answered(r, m)
  \/ sub[r].pc = "looked" /\ To(r, "rooted") /\ <<r, Root>> \in drive'
  \/ sub[r].pc = "rooted" /\ To(r, "uploading")
  \/ sub[r].pc = "uploading" /\ To(r, "checked") /\ Cleared(r)
  \/ sub[r].pc = "checked" /\ To(r, "committed")
  \/ sub[r].pc \in {"committed", "attached"} /\ (To(r, "attached") \/ To(r, "done"))
  \/ /\ sub[r].pc \in {"uploading", "checked"}
     /\ sub'[r] = [sub[r] EXCEPT !.pc = "cleaning", !.why = "replay"]
     /\ UNCHANGED merchant
  \/ /\ sub[r].pc # "failed"
     /\ \E why \in {"duplicate", "error"} : sub'[r] = [sub[r] EXCEPT !.pc = "cleaning", !.why = why]
  \/ /\ sub[r].pc # "failed"
     /\ \E d \in Docs : sub'[r] = [sub[r] EXCEPT !.pc = "cleaning", !.why = "error", !.broken = d]
  \/ sub[r].pc = "cleaning" /\ sub'[r] = [sub[r] EXCEPT !.pc = "deleting", !.listed = Deletable(r)]
  \/ sub[r].pc = "deleting" /\ sub'[r] = [sub[r] EXCEPT !.pc = "failed", !.listed = {}]
  \/ sub[r].pc \notin {"new", "replayed", "failed"} /\ To(r, "dead")

Published(m, p) ==
  /\ prov[p].pc = "bound" /\ prov[p].of = m /\ prov'[p].pc = "over"
  /\ Exists(m) /\ merchant[m].public = NoOne /\ deletion.of # m
  /\ merchant'[m] = [merchant[m] EXCEPT !.public = p]
  /\ UNCHANGED <<ledger, drive, deletion>>

Turned(m) ==
  \/ merchant'[m] = merchant[m]
  \/ /\ sub[m].pc = "checked" /\ SameKey(m) = {} /\ To(m, "committed")
     /\ merchant'[m] = [merchant[m] EXCEPT !.status = "open"]
     /\ \A n \in Requests \ {m} : merchant'[n] = merchant[n]
     /\ UNCHANGED <<drive, ledger>>
  \/ \E p \in Provisioners : Published(m, p)
  \/ Open(m) /\ merchant'[m] = [merchant[m] EXCEPT !.status = "terminated"]
  \/ /\ merchant[m].status = "terminated" /\ deletion.of # m
     /\ merchant'[m] = [merchant[m] EXCEPT !.status = "hidden"]
  \/ /\ DeleteCommit /\ deletion.of = m
     /\ merchant'[m] = [status |-> "removed", public |-> NoOne]

Written(o) ==
  \/ ledger'[o] = ledger[o]
  \/ /\ o[1] \in Requests
     /\ merchant[o[1]].status = "none" \/ sub[o[1]].pc = "rooted"
     /\ o[2] \in Docs => o \in drive
     /\ ledger'[o] = [life |-> "provisioning", owner |-> NoOne, bound |-> TRUE]
     /\ UNCHANGED drive
  \/ /\ o[1] \in Requests /\ Recorded(o) /\ deletion.of # o[1]
     /\ ledger'[o] = [ledger[o] EXCEPT !.owner = o[1]]
     /\ UNCHANGED drive
  \/ /\ Recorded(o) /\ \E life \in {"current", "failed"} : ledger'[o] = [ledger[o] EXCEPT !.life = life]
     /\ o[1] \in Provisioners => prov'[o[1]].pc = "over"
  \/ /\ o[1] \in Provisioners /\ prov[o[1]].pc = "new"
     /\ \E m \in Requests : /\ prov'[o[1]] = [pc |-> "claimed", of |-> m]
                            /\ ledger'[o] = [life |-> "provisioning", owner |-> m, bound |-> FALSE]
  \/ /\ o[1] \in Provisioners /\ prov[o[1]].pc = "created" /\ Recorded(o)
     /\ prov'[o[1]] = [prov[o[1]] EXCEPT !.pc = "bound"]
     /\ ledger'[o] = [ledger[o] EXCEPT !.bound = TRUE, !.life = "current"]
  \/ DeleteCommit /\ ledger[o].owner = deletion.of /\ ledger'[o] = NoRow

Progressed(p) ==
  \/ prov'[p] = prov[p]
  \/ \E m \in Requests :
       /\ prov[p].pc = "new" /\ Exists(m) /\ UNCHANGED merchant
       /\ prov'[p] = [pc |-> "claimed", of |-> m]
       /\ ledger'[<<p, Root>>] = [life |-> "provisioning", owner |-> m, bound |-> FALSE]
  \/ /\ prov[p].pc = "claimed" /\ prov'[p] = [prov[p] EXCEPT !.pc = "created"]
     /\ <<p, Root>> \in drive' /\ UNCHANGED <<ledger, merchant>>
  \/ /\ prov[p].pc = "created" /\ prov'[p] = [prov[p] EXCEPT !.pc = "bound"]
     /\ ledger'[<<p, Root>>] = [ledger[<<p, Root>>] EXCEPT !.bound = TRUE, !.life = "current"]
     /\ UNCHANGED <<merchant, drive>>
  \/ prov[p].pc # "over" /\ prov'[p] = [prov[p] EXCEPT !.pc = "cleaning"]
  \/ prov[p].pc # "over" /\ prov'[p] = [pc |-> "over", of |-> NoOne]

Added(o) ==
  \/ o \in drive
  \/ /\ o[1] \in Requests
     /\ merchant[o[1]].status = "none" \/ sub[o[1]].pc = "looked"
  \/ o[1] \in Provisioners /\ prov[o[1]].pc = "claimed"

Removed(o) ==
  /\ UNCHANGED merchant
  /\ \/ /\ o[1] \in Requests /\ sub[o[1]].pc = "deleting"
        /\ \/ sub'[o[1]].pc = "failed"
           \/ sub[o[1]].why = "replay" /\ sub'[o[1]].pc = "replayed"
     \/ o[1] \in Provisioners /\ prov[o[1]].pc = "cleaning"
     \/ deletion.of # NoOne /\ o \in deletion.listed

LEMMA SubmissionWent ==
  ASSUME Spaces, NEW r \in Requests, SubmissionStep(r)
  PROVE  Went(r) /\ \A s \in Requests \ {r} : sub'[s] = sub[s]
<1>0. /\ sub \in [Requests -> SubSpace] /\ sub[r] \in SubSpace
      /\ \A pc \in SubPhases : [sub EXCEPT ![r].pc = pc][r] = [sub[r] EXCEPT !.pc = pc]
  BY DEF Spaces
<1>1. \A s \in Requests \ {r} : sub'[s] = sub[s]
  <2>1. TAKE s \in Requests \ {r}
  <2>2. CASE UNCHANGED sub
    BY <2>2
  <2>3. CASE \E pc \in SubPhases : sub' = [sub EXCEPT ![r].pc = pc]
    BY <1>0, <2>3
  <2>4. CASE \E pc \in SubPhases, why \in Reasons :
               sub' = [sub EXCEPT ![r].pc = pc, ![r].why = why]
    BY <1>0, <2>4
  <2>5. CASE \E d \in Docs :
               sub' = [sub EXCEPT ![r].pc = "cleaning", ![r].why = "error", ![r].broken = d]
    BY <1>0, <2>5
  <2>6. CASE \E pc \in SubPhases, x \in SUBSET Objects :
               sub' = [sub EXCEPT ![r].pc = pc, ![r].listed = x]
    BY <1>0, <2>6
  <2>7. CASE \E m \in Requests :
               sub' = [sub EXCEPT ![r].pc = "replayed", ![r].reply = m, ![r].listed = {}]
    BY <1>0, <2>7
  <2> QED
    BY <2>2, <2>3, <2>4, <2>5, <2>6, <2>7, SubMoves DEF Moved
<1> USE DEF Step, GiveUp, Replay, To
<1>2. CASE Receive(r)
  <2>1. CASE \E m \in SameKey(r) : Replay(r, m)
    <3>1. PICK m \in SameKey(r) : Replay(r, m)
      BY <2>1
    <3>2. sub[r].pc = "new" /\ sub'[r] = [sub[r] EXCEPT !.pc = "replayed", !.reply = m, !.listed = {}]
      BY <1>0, <1>2, <3>1 DEF Receive
    <3>3. Answered(r, m)
      BY <3>2 DEF Answered
    <3> QED
      BY <1>1, <3>1, <3>3, Zenon DEF Went
  <2>2. CASE Step(r, "looked") \/ Step(r, "failed")
    BY <1>0, <1>2, <1>1, <2>2 DEF Receive, Went, SubPhases
  <2> QED
    BY <1>2, <2>1, <2>2 DEF Receive
<1>3. CASE CreateRoot(r) \/ RecordRoot(r)
  BY <1>0, <1>1, <1>3 DEF CreateRoot, RecordRoot, Went, SubPhases
<1>4. CASE CheckAgain(r)
  <2>1. CASE GiveUp(r, "replay") \/ GiveUp(r, "duplicate")
    BY <1>0, <1>1, <1>4, <2>1 DEF CheckAgain, Went
  <2>2. CASE Duplicates(r) = {} /\ Step(r, "checked")
    BY <1>0, <1>1, <1>4, <2>2 DEF CheckAgain, Went, Cleared, SubPhases
  <2> QED
    BY <1>4, <2>1, <2>2 DEF CheckAgain
<1>5. CASE Commit(r)
  BY <1>0, <1>1, <1>5 DEF Commit, Went, SubPhases
<1>6. CASE Attach(r) \/ MarkCurrent(r)
  BY <1>0, <1>1, <1>6 DEF Attach, MarkCurrent, Went, SubPhases
<1>7. CASE CleanUp(r)
  BY <1>0, <1>1, <1>7 DEF CleanUp, Went
<1>8. CASE SubmissionFails(r) \/ SubmissionDies(r)
  BY <1>0, <1>1, <1>8 DEF SubmissionFails, SubmissionDies, Went, SubPhases
<1>9. ASSUME NEW d \in Docs, Upload(r, d) \/ RecordUpload(r, d) \/ UploadFails(r, d)
      PROVE  Went(r)
  BY <1>0, <1>1, <1>9 DEF Upload, RecordUpload, UploadFails, Went
<1>10. ASSUME NEW kept \in SUBSET Of(r), CleanedUp(r, kept)
       PROVE  Went(r)
  <2>1. CASE sub[r].why = "replay" /\ \E m \in SameKey(r) : Replay(r, m)
    <3>1. PICK m \in SameKey(r) : Replay(r, m)
      BY <2>1
    <3>2. Answered(r, m)
      BY <1>0, <1>10, <2>1, <3>1 DEF CleanedUp, Answered
    <3> QED
      BY <3>1, <3>2, Zenon DEF Went
  <2>2. CASE sub' = [sub EXCEPT ![r].pc = "failed", ![r].listed = {}]
    BY <1>0, <1>10, <1>1, <2>2 DEF CleanedUp, Went
  <2> QED
    BY <1>10, <2>1, <2>2 DEF CleanedUp
<1> QED
  BY <1>1, <1>2, <1>3, <1>4, <1>5, <1>6, <1>7, <1>8, <1>9, <1>10 DEF SubmissionStep

LEMMA SubWent ==
  ASSUME Spaces, NEW s \in Requests, Next
  PROVE  Went(s)
<1>1. ASSUME NEW r \in Requests, SubmissionStep(r)
      PROVE  Went(s)
  <2>1. CASE s = r
    BY <1>1, <2>1, SubmissionWent
  <2>2. CASE s # r
    BY <1>1, <2>2, SubmissionWent DEF Went
  <2> QED
    BY <2>1, <2>2
<1>2. (\E r \in Requests : SubmissionStep(r)) \/ UNCHANGED sub
  BY DEF Next, ProvisioningStep, Claim, CreatePublic, Bind, SetPublic, CleanUpPublic,
     ProvisioningFails, ProvisioningDies, Terminate, SoftDelete, DeleteBegin, DeleteDrive,
     DeleteCommit, DeleteFails
<1> QED
  BY <1>1, <1>2 DEF Went

LEMMA MerchantTurned ==
  ASSUME Spaces, NEW m \in Requests, Next, \A p \in Provisioners : Claimed(p)
  PROVE  Turned(m)
<1>0. merchant \in [Requests -> MerchantSpace] /\ merchant[m] \in MerchantSpace
  BY DEF Spaces
<1>1. ASSUME NEW r \in Requests, Commit(r), SameKey(r) = {}
      PROVE  Turned(m)
  <2>1. sub \in [Requests -> SubSpace] /\ sub'[r] = [sub[r] EXCEPT !.pc = "committed"]
    BY <1>1 DEF Commit, Step, Spaces
  <2>2. CASE m = r
    BY <1>0, <1>1, <2>1, <2>2 DEF Commit, Turned, To
  <2>3. CASE m # r
    BY <1>0, <1>1, <2>3 DEF Commit, Turned
  <2> QED
    BY <2>2, <2>3
<1>2. ASSUME NEW p \in Provisioners, SetPublic(p), Exists(prov[p].of),
             merchant[prov[p].of].public = NoOne
      PROVE  Turned(m)
  <2>1. prov[p].of \in Requests /\ prov'[p].pc = "over"
    <3>1. Claimed(p) /\ prov[p].pc = "bound" /\ Over(p) /\ prov \in [Provisioners -> ProvSpace]
      BY <1>2 DEF SetPublic, Spaces
    <3> QED
      BY <3>1 DEF Claimed, Over
  <2>2. CASE m = prov[p].of
    <3>1. merchant'[m] = [merchant[m] EXCEPT !.public = p]
      BY <1>0, <1>2, <2>1, <2>2 DEF SetPublic
    <3> QED
      BY <1>2, <2>1, <2>2, <3>1 DEF SetPublic, Turned, Published, Unlocked
  <2>3. CASE m # prov[p].of
    BY <1>0, <1>2, <2>1, <2>3 DEF SetPublic, Turned
  <2> QED
    BY <2>2, <2>3
<1>3. ASSUME NEW n \in Requests, Terminate(n) \/ SoftDelete(n)
      PROVE  Turned(m)
  <2>1. CASE m = n
    BY <1>0, <1>3, <2>1 DEF Terminate, SoftDelete, Turned, Unlocked
  <2>2. CASE m # n
    BY <1>0, <1>3, <2>2 DEF Terminate, SoftDelete, Turned
  <2> QED
    BY <2>1, <2>2
<1>4. CASE DeleteCommit
  <2>1. merchant'[m] = IF m = deletion.of THEN [status |-> "removed", public |-> NoOne] ELSE merchant[m]
    BY <1>0, <1>4 DEF DeleteCommit
  <2> QED
    BY <1>4, <2>1 DEF Turned
<1>5. CASE UNCHANGED merchant
  BY <1>5 DEF Turned
<1>6. \/ \E r \in Requests : Commit(r) /\ SameKey(r) = {}
      \/ \E p \in Provisioners : SetPublic(p) /\ Exists(prov[p].of) /\ merchant[prov[p].of].public = NoOne
      \/ \E n \in Requests : Terminate(n) \/ SoftDelete(n)
      \/ DeleteCommit \/ UNCHANGED merchant
  <2>1. ASSUME NEW r \in Requests, SubmissionStep(r)
        PROVE  (Commit(r) /\ SameKey(r) = {}) \/ UNCHANGED merchant
    BY <2>1 DEF SubmissionStep, Receive, CreateRoot, RecordRoot, CheckAgain, Commit, Attach,
       MarkCurrent, CleanUp, SubmissionFails, SubmissionDies, Upload, RecordUpload, UploadFails,
       CleanedUp
  <2>2. ASSUME NEW p \in Provisioners, ProvisioningStep(p)
        PROVE  \/ SetPublic(p) /\ Exists(prov[p].of) /\ merchant[prov[p].of].public = NoOne
               \/ UNCHANGED merchant
    BY <2>2 DEF ProvisioningStep, Claim, CreatePublic, Bind, SetPublic, CleanUpPublic,
       ProvisioningFails, ProvisioningDies
  <2> QED
    BY <2>1, <2>2 DEF Next, DeleteBegin, DeleteDrive, DeleteFails
<1> QED
  BY <1>1, <1>2, <1>3, <1>4, <1>5, <1>6

LEMMA LedgerWritten ==
  ASSUME Spaces, NEW o \in Objects, Next
  PROVE  Written(o)
<1>0. ledger \in [Objects -> Row] /\ prov \in [Provisioners -> ProvSpace]
  BY DEF Spaces
<1>1. ASSUME NEW r \in Requests, RecordRoot(r)
      PROVE  Written(o)
  <2>1. <<r, Root>>[1] = r /\ <<r, Root>>[2] \notin Docs
    BY MerchantsAssumption
  <2>2. CASE o = <<r, Root>>
    BY <1>0, <1>1, <2>1, <2>2 DEF RecordRoot, Enter, Written
  <2>3. CASE o # <<r, Root>>
    BY <1>0, <1>1, <2>3 DEF RecordRoot, Enter, Written
  <2> QED
    BY <2>2, <2>3
<1>2. ASSUME NEW r \in Requests, NEW d \in Docs, RecordUpload(r, d)
      PROVE  Written(o)
  <2>1. CASE o = <<r, d>>
    BY <1>0, <1>2, <2>1 DEF RecordUpload, Uploading, Enter, Written
  <2>2. CASE o # <<r, d>>
    BY <1>0, <1>2, <2>2 DEF RecordUpload, Enter, Written
  <2> QED
    BY <2>1, <2>2
<1>3. ASSUME NEW r \in Requests, Attach(r)
      PROVE  Written(o)
  <2>1. CASE o \in Of(r) /\ Recorded(o)
    BY <1>0, <1>3, <2>1 DEF Attach, Of, Unlocked, Written
  <2>2. CASE ~(o \in Of(r) /\ Recorded(o))
    BY <1>0, <1>3, <2>2 DEF Attach, Written
  <2> QED
    BY <2>1, <2>2
<1>4. ASSUME NEW r \in Requests, MarkCurrent(r) \/ CleanUp(r)
      PROVE  Written(o)
  <2>1. o \in Of(r) => o[1] \notin Provisioners
    BY ObjectsAre DEF Of
  <2>2. \/ ledger'[o] = ledger[o]
        \/ /\ Recorded(o) /\ o \in Of(r)
           /\ \E life \in {"current", "failed"} : ledger'[o] = [ledger[o] EXCEPT !.life = life]
    BY <1>0, <1>4 DEF MarkCurrent, CleanUp, MarkFailed, Recorded
  <2> QED
    BY <2>1, <2>2 DEF Written
<1>5. ASSUME NEW p \in Provisioners, NEW m \in Requests, Claim(p, m)
      PROVE  Written(o)
  <2>1. CASE o = <<p, Root>> /\ Claims(m) = {}
    BY <1>0, <1>5, <2>1 DEF Claim, Enter, Written
  <2>2. CASE o # <<p, Root>> \/ Claims(m) # {}
    BY <1>0, <1>5, <2>2 DEF Claim, Enter, Written
  <2> QED
    BY <2>1, <2>2
<1>6. ASSUME NEW p \in Provisioners, Bind(p)
      PROVE  Written(o)
  <2>1. CASE o = <<p, Root>> /\ Recorded(o)
    BY <1>0, <1>6, <2>1 DEF Bind, Go, Written
  <2>2. CASE o # <<p, Root>> \/ ~Recorded(o)
    BY <1>0, <1>6, <2>2 DEF Bind, Written
  <2> QED
    BY <2>1, <2>2
<1>7. ASSUME NEW p \in Provisioners, CleanUpPublic(p)
      PROVE  Written(o)
  <2>1. prov'[p].pc = "over"
    BY <1>0, <1>7 DEF CleanUpPublic, Over
  <2>2. \/ ledger'[o] = ledger[o]
        \/ Recorded(o) /\ o[1] = p /\ ledger'[o] = [ledger[o] EXCEPT !.life = "failed"]
    BY <1>0, <1>7 DEF CleanUpPublic, MarkFailed, Recorded, Of
  <2> QED
    BY <2>1, <2>2 DEF Written
<1>8. CASE DeleteCommit
  BY <1>0, <1>8 DEF DeleteCommit, Owned, Written
<1>9. \/ \E r \in Requests : \/ RecordRoot(r) \/ Attach(r) \/ MarkCurrent(r) \/ CleanUp(r)
                             \/ \E d \in Docs : RecordUpload(r, d)
      \/ \E p \in Provisioners : \/ \E m \in Requests : Claim(p, m)
                                 \/ Bind(p) \/ CleanUpPublic(p)
      \/ DeleteCommit \/ UNCHANGED ledger
  BY DEF Next, SubmissionStep, Receive, CreateRoot, CheckAgain, Commit, SubmissionFails,
     SubmissionDies, Upload, UploadFails, CleanedUp, ProvisioningStep, CreatePublic, SetPublic,
     ProvisioningFails, ProvisioningDies, Terminate, SoftDelete, DeleteBegin, DeleteDrive,
     DeleteFails
<1>10. CASE UNCHANGED ledger
  BY <1>10 DEF Written
<1> QED
  BY <1>1, <1>2, <1>3, <1>4, <1>5, <1>6, <1>7, <1>8, <1>9, <1>10

LEMMA ProvisioningProgressed ==
  ASSUME Spaces, NEW p \in Provisioners, Next
  PROVE  Progressed(p)
<1>0. ledger \in [Objects -> Row] /\ prov \in [Provisioners -> ProvSpace] /\ <<p, Root>> \in Objects
  BY ObjectsAre DEF Spaces
<1>1. ASSUME NEW q \in Provisioners, ProvisioningStep(q), q # p
      PROVE  prov'[p] = prov[p]
  BY <1>0, <1>1 DEF ProvisioningStep, Claim, CreatePublic, Bind, SetPublic, CleanUpPublic,
     ProvisioningFails, ProvisioningDies, Go, Over
<1>2. CASE ProvisioningStep(p)
  <2>1. ASSUME NEW m \in Requests, Claim(p, m)
        PROVE  Progressed(p)
    BY <1>0, <2>1 DEF Claim, Enter, Over, Progressed
  <2>2. CASE CreatePublic(p)
    BY <1>0, <2>2 DEF CreatePublic, Go, Progressed
  <2>3. CASE Bind(p)
    BY <1>0, <2>3 DEF Bind, Go, Progressed
  <2>4. CASE SetPublic(p)
    BY <1>0, <2>4 DEF SetPublic, Go, Over, Progressed
  <2>5. CASE CleanUpPublic(p) \/ ProvisioningFails(p) \/ ProvisioningDies(p)
    BY <1>0, <2>5 DEF CleanUpPublic, ProvisioningFails, ProvisioningDies, Go, Over, Progressed
  <2> QED
    BY <1>2, <2>1, <2>2, <2>3, <2>4, <2>5 DEF ProvisioningStep
<1>3. (\E q \in Provisioners : ProvisioningStep(q)) \/ UNCHANGED prov
  BY DEF Next, SubmissionStep, Receive, CreateRoot, RecordRoot, CheckAgain, Commit, Attach,
     MarkCurrent, CleanUp, SubmissionFails, SubmissionDies, Upload, RecordUpload, UploadFails,
     CleanedUp, Terminate, SoftDelete, DeleteBegin, DeleteDrive, DeleteCommit, DeleteFails
<1> QED
  BY <1>1, <1>2, <1>3 DEF Progressed

LEMMA DriveAdded ==
  ASSUME Spaces, NEW o \in drive', Next
  PROVE  Added(o)
<1>1. ASSUME NEW r \in Requests, CreateRoot(r)
      PROVE  Added(o)
  BY <1>1 DEF CreateRoot, Added
<1>2. ASSUME NEW r \in Requests, NEW d \in Docs, Upload(r, d)
      PROVE  Added(o)
  BY <1>2 DEF Upload, Uploading, Added
<1>3. ASSUME NEW p \in Provisioners, CreatePublic(p)
      PROVE  Added(o)
  BY <1>3 DEF CreatePublic, Added
<1>4. \/ \E r \in Requests : CreateRoot(r) \/ \E d \in Docs : Upload(r, d)
      \/ \E p \in Provisioners : CreatePublic(p)
      \/ o \in drive
  BY DEF Next, SubmissionStep, Receive, RecordRoot, CheckAgain, Commit, Attach,
     MarkCurrent, CleanUp, SubmissionFails, SubmissionDies, RecordUpload, UploadFails, CleanedUp,
     ProvisioningStep, Claim, Bind, SetPublic, CleanUpPublic, ProvisioningFails, ProvisioningDies,
     Terminate, SoftDelete, DeleteBegin, DeleteDrive, DeleteCommit, DeleteFails
<1> QED
  BY <1>1, <1>2, <1>3, <1>4 DEF Added

LEMMA DriveRemoved ==
  ASSUME Spaces, NEW o \in drive \ drive', Next, \A r \in Requests : Stored(r)
  PROVE  Removed(o)
<1>1. ASSUME NEW r \in Requests, NEW kept \in SUBSET Of(r), CleanedUp(r, kept)
      PROVE  Removed(o)
  <2>1. o[1] = r /\ sub \in [Requests -> SubSpace]
    BY <1>1 DEF CleanedUp, Stored, Of, Spaces
  <2>2. CASE \E m \in SameKey(r) : sub[r].why = "replay" /\ Replay(r, m)
    <3>1. sub[r].why = "replay" /\ sub'[r].pc = "replayed"
      BY <2>1, <2>2 DEF Replay
    <3> QED
      BY <1>1, <2>1, <3>1 DEF CleanedUp, Removed
  <2>3. CASE sub' = [sub EXCEPT ![r].pc = "failed", ![r].listed = {}]
    BY <1>1, <2>1, <2>3 DEF CleanedUp, Removed
  <2> QED
    BY <1>1, <2>2, <2>3 DEF CleanedUp
<1>2. ASSUME NEW p \in Provisioners, CleanUpPublic(p)
      PROVE  Removed(o)
  BY <1>2 DEF CleanUpPublic, Deletable, Of, Removed
<1>3. CASE DeleteDrive \/ \E gone \in SUBSET Objects : DeleteFails(gone)
  BY <1>3 DEF DeleteDrive, DeleteFails, Removed
<1>4. \/ \E r \in Requests : \E kept \in SUBSET Of(r) : CleanedUp(r, kept)
      \/ \E p \in Provisioners : CleanUpPublic(p)
      \/ DeleteDrive \/ \E gone \in SUBSET Objects : DeleteFails(gone)
  BY DEF Next, SubmissionStep, Receive, CreateRoot, RecordRoot, CheckAgain, Commit, Attach,
     MarkCurrent, CleanUp, SubmissionFails, SubmissionDies, Upload, RecordUpload, UploadFails,
     ProvisioningStep, Claim, CreatePublic, Bind, SetPublic, ProvisioningFails, ProvisioningDies,
     Terminate, SoftDelete, DeleteBegin, DeleteCommit
<1> QED
  BY <1>1, <1>2, <1>3, <1>4

-----------------------------------------------------------------------------
(* The invariant is kept. *)

LEMMA FrameOf ==
  ASSUME Books, Next
  PROVE  /\ Spaces
         /\ \A r \in Requests : Went(r) /\ Turned(r)
         /\ \A o \in Objects : Written(o)
         /\ \A p \in Provisioners : Progressed(p)
         /\ \A o \in drive' : Added(o)
         /\ \A o \in drive \ drive' : Removed(o)
         /\ sub \in [Requests -> SubSpace] /\ merchant \in [Requests -> MerchantSpace]
BY SpacesAre, SubWent, MerchantTurned, LedgerWritten, ProvisioningProgressed, DriveAdded, DriveRemoved
   DEF Books, Spaces

(* The one way to become open, to be removed, and what stays. *)
LEMMA Lives ==
  ASSUME Books, Next, NEW m \in Requests
  PROVE  /\ \/ merchant'[m].status = merchant[m].status
            \/ /\ sub[m].pc = "checked" /\ To(m, "committed") /\ SameKey(m) = {}
               /\ merchant[m].status = "none" /\ merchant'[m].status = "open"
               /\ \A n \in Requests \ {m} : merchant'[n] = merchant[n]
               /\ UNCHANGED <<drive, ledger>>
            \/ Open(m) /\ merchant'[m].status = "terminated"
            \/ merchant[m].status = "terminated" /\ deletion.of # m /\ merchant'[m].status = "hidden"
            \/ /\ DeleteCommit /\ deletion.of = m /\ merchant'[m].public = NoOne
               /\ merchant[m].status \in {"terminated", "hidden"} /\ merchant'[m].status = "removed"
         /\ \/ merchant'[m].public = merchant[m].public
            \/ deletion.of # m /\ merchant'[m].status = merchant[m].status
            \/ DeleteCommit /\ deletion.of = m
<1>1. /\ Turned(m) /\ merchant[m] \in MerchantSpace /\ Unborn(m)
      /\ deletion.of = m => merchant[m].status \in {"terminated", "hidden"}
  BY FrameOf, MerchantsAssumption DEF Books, Deleting
<1>2. CASE merchant'[m] = merchant[m]
  BY <1>2
<1>3. CASE /\ sub[m].pc = "checked" /\ SameKey(m) = {} /\ To(m, "committed")
           /\ merchant'[m] = [merchant[m] EXCEPT !.status = "open"]
           /\ \A n \in Requests \ {m} : merchant'[n] = merchant[n]
           /\ UNCHANGED <<drive, ledger>>
  <2>1. merchant[m].status = "none"
    BY <1>1, <1>3 DEF Unborn, Early
  <2> QED
    BY <1>1, <1>3, <2>1 DEF MerchantSpace
<1>4. CASE deletion.of # m /\ \E p \in Provisioners : merchant'[m] = [merchant[m] EXCEPT !.public = p]
  BY <1>1, <1>4 DEF MerchantSpace
<1>5. CASE Open(m) /\ merchant'[m] = [merchant[m] EXCEPT !.status = "terminated"]
  BY <1>1, <1>5 DEF MerchantSpace
<1>6. CASE /\ merchant[m].status = "terminated" /\ deletion.of # m
           /\ merchant'[m] = [merchant[m] EXCEPT !.status = "hidden"]
  BY <1>1, <1>6 DEF MerchantSpace
<1>7. CASE /\ DeleteCommit /\ deletion.of = m
           /\ merchant'[m] = [status |-> "removed", public |-> NoOne]
  BY <1>1, <1>7
<1> QED
  BY <1>1, <1>2, <1>3, <1>4, <1>5, <1>6, <1>7 DEF Turned, Published

LEMMA UnbornKept ==
  ASSUME Books, Next, NEW r \in Requests
  PROVE  Unborn(r)'
<1>1. /\ Went(r) /\ Unborn(r) /\ sub[r] \in SubSpace
      /\ merchant'[r].status # merchant[r].status => merchant[r].status # "none" \/ To(r, "committed")
      /\ merchant[r].status # "none" => merchant'[r].status # "none"
      /\ merchant'[r].status # merchant[r].status /\ merchant[r].status = "none" =>
           sub[r].pc = "checked" /\ To(r, "committed")
  BY FrameOf, Lives DEF Books, Open
<1>2. sub'[r].pc \in Early \cup {"replayed"} => merchant'[r].status = "none"
  BY <1>1 DEF Went, Answered, Unborn, To, Early, SubSpace
<1>3. sub'[r].why = "replay" => merchant'[r].status = "none"
  BY <1>1 DEF Went, Answered, Unborn, To, Early, SubSpace
<1>4. sub'[r].why # "none" => sub'[r].pc \notin Early
  BY <1>1 DEF Went, Answered, Unborn, To, Early, SubSpace
<1> QED
  BY <1>2, <1>3, <1>4 DEF Unborn, Early

LEMMA EnteredKept ==
  ASSUME Books, Next, NEW o \in Objects
  PROVE  Entered(o)'
<1>1. Written(o) /\ Entered(o) /\ ledger[o] \in Row /\ (o[1] \in Requests => o[1] \notin Provisioners)
      /\ NoOne \notin Requests
  BY FrameOf, MerchantsAssumption DEF Books, Spaces
<1>2. CASE ledger'[o] = ledger[o]
  BY <1>1, <1>2 DEF Entered, Recorded
<1>3. CASE ledger'[o] = [life |-> "provisioning", owner |-> NoOne, bound |-> TRUE]
  BY <1>3 DEF Entered, Recorded
<1>4. CASE Recorded(o) /\ ledger'[o] = [ledger[o] EXCEPT !.owner = o[1]]
  BY <1>1, <1>4 DEF Entered, Recorded, Row
<1>5. CASE Recorded(o) /\ \E life \in {"current", "failed"} :
             ledger'[o] = [ledger[o] EXCEPT !.life = life]
  BY <1>1, <1>5 DEF Entered, Recorded, Row
<1>6. CASE ledger'[o] = NoRow
  BY <1>6 DEF Entered, Recorded, NoRow
<1>7. CASE o[1] \in Provisioners /\ ledger'[o] = [ledger[o] EXCEPT !.bound = TRUE, !.life = "current"]
  BY <1>1, <1>7 DEF Entered, Recorded, Row
<1>8. ASSUME o[1] \in Provisioners, NEW m \in Requests,
             ledger'[o] = [life |-> "provisioning", owner |-> m, bound |-> FALSE]
      PROVE  Entered(o)'
  <2>1. ledger'[o].life = "provisioning"
    BY <1>8
  <2> QED
    BY <1>1, <1>8, <2>1 DEF Entered, Recorded
<1> QED
  BY <1>1, <1>2, <1>3, <1>4, <1>5, <1>6, <1>7, <1>8 DEF Written

(* Who is being deleted.                                                    *)
LEMMA Condemned ==
  ASSUME Books
  PROVE  /\ deletion.swept => deletion.of # NoOne
         /\ deletion.of # NoOne => /\ deletion.of \in Requests
                                   /\ merchant[deletion.of].status \in {"terminated", "hidden"}
         /\ \A o \in Objects : o[1] \in Requests /\ ledger[o].owner # NoOne => ledger[o].owner = o[1]
BY DEF Books, TypeOK, Deleting, NoDeletion, Entered

LEMMA RecordedStays ==
  ASSUME Books, Next, NEW o \in Objects, Recorded(o), o[1] \in Requests,
         merchant[o[1]].status \notin {"terminated", "hidden"}
  PROVE  Recorded(o)'
<1>1. Written(o) /\ ledger[o] \in Row /\ o[1] \notin Provisioners
  BY FrameOf, MerchantsAssumption DEF Books, Spaces
<1>2. ~(DeleteCommit /\ ledger[o].owner = deletion.of)
  BY Condemned DEF DeleteCommit
<1> QED
  BY <1>1, <1>2 DEF Written, Recorded, Row

LEMMA OwnFilesStay ==
  ASSUME Books, Next, NEW r \in Requests, NEW x \in Docs \cup {Root}, <<r, x>> \in drive,
         merchant[r].status \notin {"terminated", "hidden"}
  PROVE  \/ <<r, x>> \in drive'
         \/ /\ sub[r].pc = "deleting" /\ UNCHANGED merchant
            /\ sub'[r].pc = "failed" \/ sub'[r].pc = "replayed"
            /\ sub'[r].pc = "replayed" => sub[r].why = "replay"
<1>1. <<r, x>> \in Objects /\ <<r, x>>[1] = r /\ r \notin Provisioners
  BY ObjectsAre
<1>2. <<r, x>> \notin deletion.listed \/ deletion.of = NoOne
  BY <1>1, Condemned DEF Books, Deleting
<1>3. <<r, x>> \in drive' \/ Removed(<<r, x>>)
  BY FrameOf
<1> QED
  BY <1>1, <1>2, <1>3 DEF Removed

LEMMA PublicFolderStays ==
  ASSUME Books, Next, NEW p \in Provisioners, <<p, Root>> \in drive, prov[p].pc # "cleaning",
         NEW m \in Requests, ledger[<<p, Root>>].owner = m,
         merchant[m].status \notin {"terminated", "hidden"}
  PROVE  <<p, Root>> \in drive'
<1>1. <<p, Root>>[1] = p /\ p \notin Requests
  BY ObjectsAre
<1>2. <<p, Root>> \notin deletion.listed \/ deletion.of = NoOne
  BY Condemned DEF Books, Deleting
<1>3. <<p, Root>> \in drive' \/ Removed(<<p, Root>>)
  BY FrameOf
<1> QED
  BY <1>1, <1>2, <1>3 DEF Removed

LEMMA AloneKept ==
  ASSUME Books, Next, NEW r \in Requests
  PROVE  Alone(r)'
<1>0. /\ UNCHANGED form /\ sub' \in [Requests -> SubSpace]
      /\ \A s \in Requests : Went(s) /\ sub[s] \in SubSpace
  <2>1. UNCHANGED form
    BY DEF Next, SubmissionStep, Receive, CreateRoot, RecordRoot, CheckAgain, Commit, Attach,
       MarkCurrent, CleanUp, SubmissionFails, SubmissionDies, Upload, RecordUpload, UploadFails,
       CleanedUp, ProvisioningStep, Claim, CreatePublic, Bind, SetPublic, CleanUpPublic,
       ProvisioningFails, ProvisioningDies, Terminate, SoftDelete, DeleteBegin, DeleteDrive,
       DeleteCommit, DeleteFails
  <2>2. sub' \in [Requests -> SubSpace]
    <3>1. ASSUME NEW s \in Requests, SubmissionStep(s)
          PROVE  sub' \in [Requests -> SubSpace]
      BY <3>1, FrameOf, SubMoves, SubTyped
    <3>2. (\E s \in Requests : SubmissionStep(s)) \/ UNCHANGED sub
      BY DEF Next, ProvisioningStep, Claim, CreatePublic, Bind, SetPublic, CleanUpPublic,
         ProvisioningFails, ProvisioningDies, Terminate, SoftDelete, DeleteBegin, DeleteDrive,
         DeleteCommit, DeleteFails
    <3> QED
      BY <3>1, <3>2, FrameOf
  <2> QED
    BY <2>1, <2>2, FrameOf
<1>1. ASSUME NEW s \in Requests, sub'[s].pc = "checked"
      PROVE  sub'[s] = sub[s] \/ Cleared(s)
  <2>1. sub[s] \in SubSpace /\ Went(s)
    BY <1>0
  <2>2. ASSUME NEW pc, To(s, pc)
        PROVE  pc = "checked"
    BY <1>1, <2>1, <2>2 DEF To, SubSpace
  <2>3. ASSUME NEW m, Answered(s, m)
        PROVE  FALSE
    BY <1>1, <2>1, <2>3 DEF Answered, SubSpace
  <2>4. ASSUME NEW why, sub'[s] = [sub[s] EXCEPT !.pc = "cleaning", !.why = why]
        PROVE  FALSE
    BY <1>1, <2>1, <2>4 DEF SubSpace
  <2>5. ASSUME NEW d, sub'[s] = [sub[s] EXCEPT !.pc = "cleaning", !.why = "error", !.broken = d]
        PROVE  FALSE
    BY <1>1, <2>1, <2>5 DEF SubSpace
  <2>6. ASSUME NEW pc \in {"deleting", "failed"}, NEW x, sub'[s] = [sub[s] EXCEPT !.pc = pc, !.listed = x]
        PROVE  FALSE
    BY <1>1, <2>1, <2>6 DEF SubSpace
  <2> QED
    BY <2>1, <2>2, <2>3, <2>4, <2>5, <2>6 DEF Went
<1> SUFFICES ASSUME sub'[r].pc = "checked"
             PROVE  /\ \A s \in Requests \ {r} :
                         sub'[s].pc = "checked" => form[s].business # form[r].business
                    /\ \A m \in Requests : Open(m)' => ~Matches(form[m], form[r])
                    /\ \A d \in Docs : Recorded(<<r, d>>)'
  BY <1>0 DEF Alone, Matches
<1>2. ASSUME sub'[r] = sub[r]
      PROVE  /\ \A s \in Requests \ {r} :
                  sub'[s].pc = "checked" => form[s].business # form[r].business
             /\ \A m \in Requests : Open(m)' => ~Matches(form[m], form[r])
             /\ \A d \in Docs : Recorded(<<r, d>>)'
  <2>1. Alone(r) /\ sub[r].pc = "checked" /\ merchant[r].status = "none"
    BY <1>2 DEF Books, Unborn, Early
  <2>2. ASSUME NEW s \in Requests \ {r}, sub'[s].pc = "checked"
        PROVE  form[s].business # form[r].business
    BY <1>1, <2>1, <2>2 DEF Alone, Cleared, BusinessFree
  <2>3. ASSUME NEW m \in Requests, Open(m)'
        PROVE  ~Matches(form[m], form[r])
    <3>1. \/ Open(m)
          \/ sub[m].pc = "checked" /\ To(m, "committed")
      BY <2>3, Lives DEF Open
    <3>2. sub[m] \in SubSpace /\ (To(m, "committed") => m # r)
      BY <1>0 DEF To, SubSpace
    <3> QED
      BY <2>1, <3>1, <3>2 DEF Alone, Matches
  <2>4. ASSUME NEW d \in Docs
        PROVE  Recorded(<<r, d>>)'
    <3>1. <<r, d>> \in Objects /\ <<r, d>>[1] = r /\ Recorded(<<r, d>>)
      BY <2>1, ObjectsAre DEF Alone
    <3> QED
      BY <2>1, <3>1, RecordedStays
  <2> QED
    BY <2>2, <2>3, <2>4
<1>3. ASSUME Cleared(r)
      PROVE  /\ \A s \in Requests \ {r} :
                  sub'[s].pc = "checked" => form[s].business # form[r].business
             /\ \A m \in Requests : Open(m)' => ~Matches(form[m], form[r])
             /\ \A d \in Docs : Recorded(<<r, d>>)'
  BY <1>3 DEF Cleared, BusinessFree, Duplicates, Open, Recorded
<1> QED
  BY <1>1, <1>2, <1>3

LEMMA StoredKept ==
  ASSUME Books, Next, NEW r \in Requests
  PROVE  Stored(r)'
<1>1. /\ Went(r) /\ Unborn(r) /\ Unborn(r)' /\ Stored(r) /\ Alone(r) /\ sub[r] \in SubSpace
      /\ \A x \in Docs \cup {Root} : <<r, x>> \in Objects /\ <<r, x>>[1] = r
      /\ r \notin Provisioners
  BY FrameOf, UnbornKept, ObjectsAre DEF Books
<1>2. sub'[r].listed \subseteq Of(r)
  <2>1. Deletable(r) \subseteq Of(r)
    BY DEF Deletable
  <2> QED
    BY <1>1, <2>1 DEF Went, Answered, To, Stored, SubSpace
<1>3. ASSUME NEW x \in Docs \cup {Root}, <<r, x>> \in drive, sub[r].pc \in Early
      PROVE  <<r, x>> \in drive'
  BY <1>1, <1>3, OwnFilesStay DEF Unborn, Early
<1>4. ASSUME sub'[r].pc \in {"rooted", "uploading", "checked"}
      PROVE  <<r, Root>> \in drive'
  <2>1. \/ sub[r].pc \in {"rooted", "uploading", "checked"}
        \/ <<r, Root>> \in drive'
    BY <1>1, <1>4 DEF Went, Answered, To, SubSpace
  <2> QED
    BY <1>1, <1>3, <2>1 DEF Stored, Early
<1>5. ASSUME sub'[r].pc \in Early, NEW d \in Docs, Recorded(<<r, d>>)'
      PROVE  <<r, d>> \in drive'
  <2>1. sub[r].pc \in Early
    BY <1>1, <1>5 DEF Went, Answered, To, SubSpace, Early
  <2>2. CASE Recorded(<<r, d>>)
    BY <1>1, <1>3, <2>1, <2>2 DEF Stored
  <2>3. CASE ~Recorded(<<r, d>>)
    <3>1. Written(<<r, d>>)
      BY <1>1, FrameOf
    <3>2. <<r, d>> \in drive /\ UNCHANGED drive
      BY <1>1, <1>5, <2>3, <3>1 DEF Written, Recorded, NoRow
    <3> QED
      BY <3>2
  <2> QED
    BY <2>2, <2>3
<1>6. ASSUME Open(r)', sub'[r].pc # "failed", NEW x \in Docs \cup {Root}
      PROVE  <<r, x>> \in drive'
  <2>1. CASE Open(r)
    <3>1. sub[r].pc # "failed"
      BY <1>1, <1>6 DEF Went, Answered, To, SubSpace
    <3> QED
      BY <1>1, <1>6, <2>1, <3>1, OwnFilesStay DEF Stored, Open, Unborn
  <2>2. CASE ~Open(r)
    <3>1. sub[r].pc = "checked" /\ UNCHANGED drive
      BY <1>6, <2>2, Lives DEF Open
    <3> QED
      BY <1>1, <3>1 DEF Stored, Alone, Early
  <2> QED
    BY <2>1, <2>2
<1> QED
  BY <1>2, <1>4, <1>5, <1>6 DEF Stored, Of, Open, Recorded

LEMMA OfTheDeleted ==
  ASSUME Books, Next, NEW o \in Objects, DeleteCommit, ledger[o].owner = deletion.of
  PROVE  merchant'[deletion.of] = [status |-> "removed", public |-> NoOne]
BY Condemned, FrameOf DEF DeleteCommit

LEMMA ClaimedKept ==
  ASSUME Books, Next, NEW p \in Provisioners
  PROVE  Claimed(p)'
<1>0. /\ Progressed(p) /\ Claimed(p) /\ prov[p] \in ProvSpace /\ <<p, Root>> \in Objects
      /\ <<p, Root>>[1] = p /\ Written(<<p, Root>>) /\ ledger[<<p, Root>>] \in Row
      /\ p \notin Requests
  BY FrameOf, ObjectsAre DEF Books, Spaces
<1>1. CASE prov'[p] = prov[p]
  <2>1. prov[p].pc = "new" => ledger'[<<p, Root>>] = NoRow
    <3>1. SUFFICES ASSUME prov[p].pc = "new"
                   PROVE  ledger'[<<p, Root>>] = NoRow
      OBVIOUS
    <3>2. ledger[<<p, Root>>] = NoRow /\ ~Recorded(<<p, Root>>)
      BY <1>0, <3>1 DEF Claimed, Recorded, NoRow
    <3>3. \A m \in Requests : prov'[p] # [pc |-> "claimed", of |-> m]
      BY <1>1, <3>1
    <3> QED
      BY <1>0, <3>1, <3>2, <3>3 DEF Written
  <2>2. ASSUME prov[p].pc \in {"claimed", "created", "bound"}
        PROVE  /\ prov[p].of \in Requests /\ merchant'[prov[p].of].status # "none"
               /\ Exists(prov[p].of)' => Exists(prov[p].of)
               /\ Open(prov[p].of)' => Open(prov[p].of)
               /\ ledger'[<<p, Root>>] = ledger[<<p, Root>>] \/ ~Exists(prov[p].of)'
               /\ prov[p].pc \in {"claimed", "created"} => ~ledger'[<<p, Root>>].bound
    <3>1. prov[p].of \in Requests /\ merchant[prov[p].of].status # "none"
      BY <1>0, <2>2 DEF Claimed
    <3>2. /\ merchant'[prov[p].of].status # "none"
          /\ Exists(prov[p].of)' => Exists(prov[p].of)
          /\ Open(prov[p].of)' => Open(prov[p].of)
      BY <1>1, <3>1, Lives DEF Exists, Open
    <3>3. \/ ledger'[<<p, Root>>] = ledger[<<p, Root>>]
          \/ /\ DeleteCommit /\ ledger[<<p, Root>>].owner = deletion.of
             /\ ledger'[<<p, Root>>] = NoRow
      BY <1>0, <1>1, <2>2 DEF Written, ProvSpace
    <3>4. ledger'[<<p, Root>>] = ledger[<<p, Root>>] \/ ~Exists(prov[p].of)'
      BY <1>0, <1>1, <2>2, <3>2, <3>3, OfTheDeleted DEF Claimed, Exists
    <3>5. prov[p].pc \in {"claimed", "created"} => ~ledger'[<<p, Root>>].bound
      BY <1>0, <3>3 DEF Claimed, NoRow
    <3> QED
      BY <3>1, <3>2, <3>4, <3>5
  <2>3. ASSUME prov[p].pc \in {"created", "bound"}, Open(prov[p].of)'
        PROVE  <<p, Root>> \in drive'
    <3>1. prov[p].of \in Requests /\ Open(prov[p].of)
      BY <2>2, <2>3
    <3>2. <<p, Root>> \in drive /\ ledger[<<p, Root>>].owner = prov[p].of
      BY <1>0, <2>3, <3>1 DEF Claimed, Exists, Open
    <3> QED
      BY <2>3, <3>1, <3>2, PublicFolderStays DEF Open
  <2> QED
    BY <1>0, <1>1, <2>1, <2>2, <2>3 DEF Claimed, Exists, Open
<1>2. ASSUME NEW m \in Requests,
             /\ prov[p].pc = "new" /\ Exists(m) /\ UNCHANGED merchant
             /\ prov'[p] = [pc |-> "claimed", of |-> m]
             /\ ledger'[<<p, Root>>] = [life |-> "provisioning", owner |-> m, bound |-> FALSE]
      PROVE  Claimed(p)'
  BY <1>2 DEF Claimed, Exists
<1>3. CASE /\ prov[p].pc = "claimed" /\ prov'[p] = [prov[p] EXCEPT !.pc = "created"]
           /\ <<p, Root>> \in drive' /\ UNCHANGED <<ledger, merchant>>
  BY <1>0, <1>3 DEF Claimed, Exists, ProvSpace
<1>4. CASE /\ prov[p].pc = "created" /\ prov'[p] = [prov[p] EXCEPT !.pc = "bound"]
           /\ ledger'[<<p, Root>>] = [ledger[<<p, Root>>] EXCEPT !.bound = TRUE, !.life = "current"]
           /\ UNCHANGED <<merchant, drive>>
  <2>1. /\ ledger'[<<p, Root>>].bound
        /\ ledger'[<<p, Root>>].owner = ledger[<<p, Root>>].owner
        /\ prov'[p].pc = "bound" /\ prov'[p].of = prov[p].of
    BY <1>0, <1>4 DEF Row, ProvSpace
  <2> QED
    BY <1>0, <1>4, <2>1 DEF Claimed, Exists, Open
<1>5. CASE prov'[p] = [prov[p] EXCEPT !.pc = "cleaning"] \/ prov'[p] = [pc |-> "over", of |-> NoOne]
  <2>1. prov'[p].pc \in {"cleaning", "over"}
    BY <1>0, <1>5 DEF ProvSpace
  <2> QED
    BY <2>1 DEF Claimed
<1> QED
  BY <1>0, <1>1, <1>2, <1>3, <1>4, <1>5 DEF Progressed

LEMMA PublicKept ==
  ASSUME Books, Next, NEW m \in Requests, NEW p \in Provisioners
  PROVE  PublicOf(m, p)'
<1>0. /\ Turned(m) /\ Progressed(p) /\ PublicOf(m, p) /\ <<p, Root>> \in Objects
      /\ <<p, Root>>[1] = p /\ Written(<<p, Root>>) /\ ledger[<<p, Root>>] \in Row
      /\ p \notin Requests /\ p # NoOne /\ m # NoOne /\ merchant[m] \in MerchantSpace
      /\ prov[p] \in ProvSpace /\ Claimed(p)
  BY FrameOf, ObjectsAre, MerchantsAssumption DEF Books, Spaces
<1> SUFFICES ASSUME merchant'[m].public = p
             PROVE  /\ Exists(m)' /\ prov'[p].pc = "over"
                    /\ ledger'[<<p, Root>>].owner = m /\ ledger'[<<p, Root>>].bound
                    /\ Open(m)' => <<p, Root>> \in drive'
  BY DEF PublicOf
<1>1. CASE merchant[m].public = p
  <2>1. /\ Exists(m) /\ prov[p].pc = "over" /\ ledger[<<p, Root>>].owner = m
        /\ ledger[<<p, Root>>].bound /\ (Open(m) => <<p, Root>> \in drive)
    BY <1>0, <1>1 DEF PublicOf
  <2>2. ~(DeleteCommit /\ deletion.of = m)
    BY <1>0, <2>1, OfTheDeleted
  <2>3. Exists(m)' /\ (Open(m)' => Open(m))
    BY <2>1, <2>2, Lives DEF Exists, Open
  <2>4. prov'[p] = prov[p]
    BY <1>0, <2>1 DEF Progressed
  <2>5. ledger'[<<p, Root>>].owner = m /\ ledger'[<<p, Root>>].bound
    BY <1>0, <2>1, <2>2, <2>4 DEF Written, Row
  <2>6. Open(m)' => <<p, Root>> \in drive'
    BY <2>1, <2>3, PublicFolderStays DEF Open
  <2> QED
    BY <2>1, <2>3, <2>4, <2>5, <2>6
<1>2. CASE merchant[m].public # p
  <2>1. /\ prov[p].pc = "bound" /\ prov[p].of = m /\ prov'[p].pc = "over" /\ Exists(m)
        /\ merchant'[m] = [merchant[m] EXCEPT !.public = p]
        /\ UNCHANGED <<ledger, drive>>
    <3>1. ASSUME NEW status, merchant'[m] = [merchant[m] EXCEPT !.status = status]
          PROVE  FALSE
      BY <1>0, <1>2, <3>1 DEF MerchantSpace
    <3>2. PICK q \in Provisioners : Published(m, q)
      BY <1>0, <1>2, <3>1 DEF Turned
    <3>3. q = p
      BY <1>0, <3>2 DEF Published, MerchantSpace
    <3> QED
      BY <3>2, <3>3 DEF Published
  <2>2. merchant'[m].status = merchant[m].status
    BY <1>0, <2>1 DEF MerchantSpace
  <2> QED
    BY <1>0, <2>1, <2>2 DEF Claimed, Exists, Open
<1> QED
  BY <1>1, <1>2

LEMMA DeletionMoves ==
  ASSUME Books, Next
  PROVE  \/ UNCHANGED deletion /\ (deletion.of # NoOne => ~DeleteCommit)
         \/ \E m \in Requests : DeleteBegin(m)
         \/ deletion' = NoDeletion
         \/ DeleteDrive
<1>1. \/ UNCHANGED deletion \/ deletion' = NoDeletion \/ DeleteDrive
      \/ \E m \in Requests : DeleteBegin(m)
  BY DEF Next, SubmissionStep, Receive, CreateRoot, RecordRoot, CheckAgain, Commit, Attach,
     MarkCurrent, CleanUp, SubmissionFails, SubmissionDies, Upload, RecordUpload, UploadFails,
     CleanedUp, ProvisioningStep, Claim, CreatePublic, Bind, SetPublic, CleanUpPublic,
     ProvisioningFails, ProvisioningDies, Terminate, SoftDelete, DeleteCommit, DeleteFails
<1>2. DeleteCommit => deletion' = NoDeletion
  BY DEF DeleteCommit
<1> QED
  BY <1>1, <1>2

LEMMA DeletingKept ==
  ASSUME Books, Next
  PROVE  Deleting'
<1>0. /\ Deleting /\ NoOne \notin Requests /\ deletion \in DeletionSpace
      /\ \A r \in Requests : Unborn(r)
      /\ \A p \in Provisioners : Claimed(p)
  BY FrameOf, MerchantsAssumption DEF Books, Spaces
<1>1. CASE deletion' = NoDeletion
  BY <1>1 DEF Deleting, NoDeletion
<1>2. ASSUME NEW m \in Requests, DeleteBegin(m)
      PROVE  Deleting'
  <2>1. \A o \in Linked(m) : o \in Objects /\ ledger[o].owner = m /\ ledger[o].bound
    <3>1. TAKE o \in Linked(m)
    <3>2. o \in Objects /\ ledger[o].owner = m
      BY <1>2, FrameOf, LinkedAre DEF DeleteBegin, OwnershipComplete, Owned, Books
    <3>3. CASE o[1] \in Requests
      BY <1>0, <3>2, <3>3 DEF Books, Entered
    <3>4. CASE merchant[m].public # NoOne /\ o = <<merchant[m].public, Root>>
      <4>1. merchant[m].public \in Provisioners
        BY <3>4, FrameOf DEF MerchantSpace
      <4> QED
        BY <3>2, <3>4, <4>1 DEF Books, PublicOf
    <3>5. o[1] \in Requests \/ (merchant[m].public # NoOne /\ o = <<merchant[m].public, Root>>)
      <4>1. \A d \in Docs \cup {Root} : <<m, d>>[1] \in Requests
        OBVIOUS
      <4> QED
        BY <4>1, LinkedAre DEF Books
    <3> QED
      BY <3>2, <3>3, <3>4, <3>5
  <2>2. UNCHANGED <<merchant, ledger>> /\ Linked(m)' = Linked(m)
    BY <1>2 DEF DeleteBegin, Linked, Folders
  <2>3. deletion' = [of |-> m, linked |-> Linked(m),
                     listed |-> {o \in Owned(m) : ledger[o].bound}, swept |-> FALSE]
    BY <1>2 DEF DeleteBegin
  <2>4. merchant[m].status \in {"terminated", "hidden"}
    BY <1>2 DEF DeleteBegin
  <2> QED
    BY <1>0, <2>1, <2>2, <2>3, <2>4 DEF Deleting, Owned
<1>3. CASE DeleteDrive
  <2>1. /\ deletion.of # NoOne /\ drive' = drive \ deletion.listed /\ UNCHANGED <<merchant, ledger>>
        /\ deletion' = [deletion EXCEPT !.swept = TRUE]
    BY <1>3 DEF DeleteDrive
  <2>2. /\ deletion'.of = deletion.of /\ deletion'.linked = deletion.linked
        /\ deletion'.listed = deletion.listed
    BY <1>0, <2>1 DEF DeletionSpace
  <2>3. \A m : Linked(m)' = Linked(m)
    BY <2>1 DEF Linked, Folders
  <2> QED
    BY <1>0, <2>1, <2>2, <2>3 DEF Deleting
<1>4. CASE UNCHANGED deletion /\ deletion.of = NoOne
  BY <1>0, <1>4 DEF Deleting, NoDeletion
<1>5. CASE UNCHANGED deletion /\ deletion.of # NoOne /\ ~DeleteCommit
  <2>1. /\ deletion.of \in Requests /\ merchant[deletion.of].status \in {"terminated", "hidden"}
        /\ deletion.linked = Linked(deletion.of) /\ deletion.linked \subseteq deletion.listed
    BY <1>0, <1>5, Condemned DEF Deleting
  <2>2. /\ merchant'[deletion.of].status \in {"terminated", "hidden"}
        /\ merchant'[deletion.of].public = merchant[deletion.of].public
    BY <1>5, <2>1, Lives DEF Open
  <2>3. Linked(deletion.of)' = Linked(deletion.of)
    BY <1>5, <2>2 DEF Linked, Folders
  <2>4. ASSUME NEW o \in deletion.listed
        PROVE  /\ ledger'[o].owner = deletion.of /\ ledger'[o].bound
               /\ deletion.swept => o \notin drive'
    <3>1. /\ o \in Objects /\ ledger[o].owner = deletion.of /\ ledger[o].bound
          /\ deletion.swept => o \notin drive
          /\ ledger[o] \in Row /\ Written(o)
      BY <1>0, FrameOf DEF Deleting, DeletionSpace, Spaces
    <3>2. o[1] \in Requests => /\ o[1] = deletion.of
                               /\ merchant[o[1]].status # "none" /\ sub[o[1]].pc \notin Early
      BY <1>0, <1>5, <2>1, <3>1, Condemned DEF Unborn
    <3>3. o[1] \in Provisioners => /\ o[1] \notin Requests
                                   /\ prov[o[1]].pc \notin {"new", "claimed"}
      BY <1>0, <1>5, <3>1, ObjectsAre DEF Claimed, NoRow
    <3>4. ledger'[o].owner = deletion.of /\ ledger'[o].bound
      BY <1>5, <3>1, <3>2, <3>3 DEF Written, Row, Early
    <3>5. deletion.swept => o \notin drive'
      BY <3>1, <3>2, <3>3, FrameOf DEF Added, Early
    <3> QED
      BY <3>4, <3>5
  <2> QED
    BY <1>0, <1>5, <2>1, <2>2, <2>3, <2>4 DEF Deleting
<1> QED
  BY <1>1, <1>2, <1>3, <1>4, <1>5, DeletionMoves

-----------------------------------------------------------------------------
LEMMA BooksInit == Init => Books
<1> SUFFICES ASSUME Init PROVE Books
  OBVIOUS
<1> USE DEF Init
<1>1. TypeOK
  <2>1. 0 \in 0 .. MaxFaults
    BY MerchantsAssumption
  <2>2. drive \subseteq Objects /\ NoDeletion \in DeletionSpace /\ NoRow \in Row
    BY DEF NoDeletion, DeletionSpace, NoRow, Row
  <2> QED
    BY <2>1, <2>2 DEF TypeOK, SubPhases, Reasons, Statuses, ProvPhases, DeletionSpace
<1>2. ASSUME NEW r \in Requests
      PROVE  Unborn(r) /\ Alone(r) /\ Stored(r)
  <2>1. \A d \in Docs : ~Recorded(<<r, d>>)
    BY ObjectsAre DEF Recorded, NoRow
  <2> QED
    BY <2>1 DEF Unborn, Alone, Stored, Open
<1>3. \A o \in Objects : Entered(o)
  BY DEF Entered, Recorded, NoRow
<1>4. \A p \in Provisioners : Claimed(p)
  BY ObjectsAre DEF Claimed
<1>5. \A m \in Requests, p \in Provisioners : PublicOf(m, p)
  BY MerchantsAssumption DEF PublicOf
<1>6. Deleting
  BY DEF Deleting, NoDeletion
<1> QED
  BY <1>1, <1>2, <1>3, <1>4, <1>5, <1>6 DEF Books

LEMMA BooksKept == Books /\ [Next]_vars => Books'
<1>1. ASSUME Books, Next
      PROVE  Books'
  <2>1. TypeOK'
    BY <1>1, SubmissionTyped, ProvisioningTyped, AdminTyped DEF Books, Next, AdminStep
  <2>3. \A r \in Requests : Unborn(r)' /\ Alone(r)' /\ Stored(r)'
    BY <1>1, UnbornKept, AloneKept, StoredKept
  <2>4. \A o \in Objects : Entered(o)'
    BY <1>1, EnteredKept
  <2>5. \A p \in Provisioners : Claimed(p)'
    BY <1>1, ClaimedKept
  <2>6. \A m \in Requests, p \in Provisioners : PublicOf(m, p)'
    BY <1>1, PublicKept
  <2>7. Deleting'
    BY <1>1, DeletingKept
  <2> QED
    BY <2>1, <2>3, <2>4, <2>5, <2>6, <2>7 DEF Books
<1>2. ASSUME Books, UNCHANGED vars
      PROVE  Books'
  <2>1. /\ form' = form /\ sub' = sub /\ merchant' = merchant /\ ledger' = ledger /\ drive' = drive
        /\ prov' = prov /\ deletion' = deletion /\ faults' = faults
    BY <1>2 DEF vars
  <2>2. Books = Books'
    BY <2>1 DEF Books, TypeOK, Unborn, Alone, Stored, Entered, Claimed, PublicOf, Deleting, Open, Exists,
       Recorded, Matches, Linked, Folders
  <2> QED
    BY <1>2, <2>2
<1> QED
  BY <1>1, <1>2

LEMMA BooksHold == Spec => []Books
BY BooksInit, BooksKept, PTL DEF Spec

(* Every variable stays in its range: form, sub, merchant, ledger, drive,   *)
(* prov and deletion keep the shape of the rows, folders and answers that   *)
(* they stand for (db/schema.ts, merchants.service.ts).                     *)
THEOREM MerchantsStayTyped == Spec => []TypeOK
BY BooksHold, PTL DEF Books

-----------------------------------------------------------------------------
(* One application *)

Singles == \A m, n \in Requests : m # n /\ Open(m) /\ Open(n) => ~Matches(form[m], form[n])
Keys    == \A r \in Requests : Exists(r) => SameKey(r) \subseteq {r}
Replies == \A r \in Requests : sub[r].pc = "replayed" => form[sub[r].reply].key = form[r].key

LEMMA FormsStay == Next => UNCHANGED form
BY DEF Next, SubmissionStep, Receive, CreateRoot, RecordRoot, CheckAgain, Commit, Attach,
   MarkCurrent, CleanUp, SubmissionFails, SubmissionDies, Upload, RecordUpload, UploadFails,
   CleanedUp, ProvisioningStep, Claim, CreatePublic, Bind, SetPublic, CleanUpPublic,
   ProvisioningFails, ProvisioningDies, Terminate, SoftDelete, DeleteBegin, DeleteDrive,
   DeleteCommit, DeleteFails

LEMMA SinglesKept ==
  ASSUME Books, Next, Singles
  PROVE  Singles'
<1>1. UNCHANGED form
  BY FormsStay
<1>2. ASSUME NEW m \in Requests, NEW n \in Requests, m # n, Open(m)', Open(n)'
      PROVE  ~Matches(form[m], form[n])
  <2>1. ASSUME NEW x \in Requests, Open(x)', ~Open(x)
        PROVE  sub[x].pc = "checked" /\ \A y \in Requests \ {x} : merchant'[y] = merchant[y]
    BY <2>1, Lives DEF Open
  <2>2. CASE Open(m) /\ Open(n)
    BY <1>2, <2>2 DEF Singles
  <2>3. CASE ~Open(m)
    <3>1. Alone(m) /\ sub[m].pc = "checked" /\ Open(n)
      BY <1>2, <2>1, <2>3 DEF Books, Open
    <3> QED
      BY <3>1 DEF Alone, Matches
  <2>4. CASE ~Open(n)
    <3>1. Alone(n) /\ sub[n].pc = "checked" /\ Open(m)
      BY <1>2, <2>1, <2>4 DEF Books, Open
    <3> QED
      BY <3>1 DEF Alone
  <2> QED
    BY <2>2, <2>3, <2>4
<1> QED
  BY <1>1, <1>2 DEF Singles, Matches

LEMMA KeysKept ==
  ASSUME Books, Next, Keys
  PROVE  Keys'
<1>1. UNCHANGED form
  BY FormsStay
<1>2. ASSUME NEW r \in Requests, NEW s \in Requests, r # s, Exists(r)', Exists(s)',
             form[r].key # NoKey, form[s].key = form[r].key
      PROVE  FALSE
  <2>1. ASSUME NEW x \in Requests, Exists(x)', ~Exists(x)
        PROVE  SameKey(x) = {} /\ \A y \in Requests \ {x} : merchant'[y] = merchant[y]
    BY <2>1, Lives DEF Exists, Open
  <2>2. CASE Exists(r) /\ Exists(s)
    BY <1>2, <2>2 DEF Keys, SameKey
  <2>3. CASE ~Exists(r)
    <3>1. SameKey(r) = {} /\ Exists(s)
      BY <1>2, <2>1, <2>3 DEF Exists
    <3> QED
      BY <1>2, <3>1 DEF SameKey
  <2>4. CASE ~Exists(s)
    <3>1. SameKey(s) = {} /\ Exists(r)
      BY <1>2, <2>1, <2>4 DEF Exists
    <3> QED
      BY <1>2, <3>1 DEF SameKey
  <2> QED
    BY <2>2, <2>3, <2>4
<1> QED
  BY <1>1, <1>2 DEF Keys, SameKey, Exists

LEMMA RepliesKept ==
  ASSUME Books, Next, Replies
  PROVE  Replies'
<1>1. UNCHANGED form
  BY FormsStay
<1>2. ASSUME NEW r \in Requests, sub'[r].pc = "replayed"
      PROVE  form[sub'[r].reply].key = form[r].key
  <2>1. Went(r) /\ sub[r] \in SubSpace
    BY FrameOf
  <2>2. CASE sub'[r] = sub[r]
    BY <1>2, <2>2 DEF Replies
  <2>3. ASSUME NEW m \in SameKey(r), Answered(r, m)
        PROVE  form[sub'[r].reply].key = form[r].key
    <3>1. sub'[r].reply = m
      BY <2>1, <2>3 DEF Answered, SubSpace
    <3> QED
      BY <3>1 DEF SameKey
  <2>4. ASSUME NEW pc, To(r, pc)
        PROVE  pc = "replayed"
    BY <1>2, <2>1, <2>4 DEF To, SubSpace
  <2>5. ASSUME NEW why, sub'[r] = [sub[r] EXCEPT !.pc = "cleaning", !.why = why]
        PROVE  FALSE
    BY <1>2, <2>1, <2>5 DEF SubSpace
  <2>6. ASSUME NEW d, sub'[r] = [sub[r] EXCEPT !.pc = "cleaning", !.why = "error", !.broken = d]
        PROVE  FALSE
    BY <1>2, <2>1, <2>6 DEF SubSpace
  <2>7. ASSUME NEW pc \in {"deleting", "failed"}, NEW x, sub'[r] = [sub[r] EXCEPT !.pc = pc, !.listed = x]
        PROVE  FALSE
    BY <1>2, <2>1, <2>7 DEF SubSpace
  <2> QED
    BY <2>1, <2>2, <2>3, <2>4, <2>5, <2>6, <2>7 DEF Went
<1> QED
  BY <1>1, <1>2 DEF Replies

(* However often and from how many pages a form is sent, one application is *)
(* open for a business, one merchant has a key, and a repeat is answered    *)
(* with the merchant of its key: the lock of the business and the unique    *)
(* index are enough for any number of submissions                           *)
(* (merchants.service.ts:363).                                              *)
THEOREM OneApplication == Spec => []SubmittedOnce
<1>1. Init => Singles /\ Keys /\ Replies
  BY DEF Init, Singles, Keys, Replies, Open, Exists
<1>2. Books /\ Singles /\ Keys /\ Replies /\ [Next]_vars => (Singles /\ Keys /\ Replies)'
  <2>1. ASSUME Books, Singles, Keys, Replies, UNCHANGED vars
        PROVE  (Singles /\ Keys /\ Replies)'
    BY <2>1 DEF vars, Singles, Keys, Replies, Open, Exists, SameKey
  <2> QED
    BY <2>1, SinglesKept, KeysKept, RepliesKept
<1>3. Singles /\ Keys /\ Replies => SubmittedOnce
  BY DEF Singles, Keys, Replies, SubmittedOnce
<1> QED
  BY <1>1, <1>2, <1>3, BooksHold, PTL DEF Spec

-----------------------------------------------------------------------------
(* Files *)

(* The folders and files of an open merchant are on Drive, whatever cleans  *)
(* up or is deleted beside it, but for what its own submission takes after  *)
(* its bookkeeping failed (merchants.service.ts:464,                        *)
(* merchant-drive-folders.ts:164).                                          *)
THEOREM OpenMerchantsKeepTheirFiles == Spec => []OpenMerchantsHaveTheirFiles
<1>1. ASSUME Books
      PROVE  OpenMerchantsHaveTheirFiles
  <2>1. ASSUME NEW m \in Requests, Open(m)
        PROVE  (IF m \in Botched THEN Folders(m) \ {<<m, Root>>} ELSE Linked(m)) \subseteq drive
    <3>1. merchant[m].public # NoOne => <<merchant[m].public, Root>> \in drive
      <4>1. merchant[m].public \in Provisioners \cup {NoOne}
        BY <1>1 DEF Books, TypeOK
      <4> QED
        BY <1>1, <2>1, <4>1 DEF Books, PublicOf
    <3>2. m \notin Botched => \A x \in Docs \cup {Root} : <<m, x>> \in drive
      BY <1>1, <2>1 DEF Books, Stored, Botched
    <3> QED
      BY <3>1, <3>2 DEF Linked, Folders
  <2> QED
    BY <2>1 DEF OpenMerchantsHaveTheirFiles
<1> QED
  BY <1>1, BooksHold, PTL

(* A merchant is removed only when everything it named at the time of the   *)
(* check is off Drive: nobody adds to what it names, and nobody puts back   *)
(* what was deleted, between the check and the commit                       *)
(* (merchants.service.ts:855).                                              *)
THEOREM DeletionsLeaveNothing == Spec => DeletionLeavesNothing
<1>1. Books /\ [Next]_vars =>
        [\A m \in Requests : Exists(m) /\ ~Exists(m)' =>
           /\ Linked(m) \subseteq deletion.linked
           /\ deletion.linked \cap drive' = {}]_vars
  <2>1. ASSUME Books, Next, NEW m \in Requests, Exists(m), ~Exists(m)'
        PROVE  /\ Linked(m) \subseteq deletion.linked
               /\ deletion.linked \cap drive' = {}
    <3>1. DeleteCommit /\ deletion.of = m
      BY <2>1, Lives DEF Exists, Open
    <3>2. m # NoOne /\ deletion.swept /\ UNCHANGED drive
      BY <3>1, MerchantsAssumption DEF DeleteCommit
    <3> QED
      BY <2>1, <3>1, <3>2 DEF Books, Deleting
  <2> QED
    BY <2>1
<1> QED
  BY <1>1, BooksHold, PTL DEF Spec, DeletionLeavesNothing
=============================================================================
