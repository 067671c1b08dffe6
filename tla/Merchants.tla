----------------------------- MODULE Merchants -----------------------------
(***************************************************************************)
(* Merchants and their files (merchants.service.ts, merchant-drive-         *)
(* folders.ts, lib/storage): forms are submitted and submitted again,       *)
(* requests of case owners provide the public folder of a merchant,         *)
(* administrators terminate merchants and delete them.                      *)
(*                                                                          *)
(* Two stores without a common transaction: the database and Drive. The     *)
(* table storage_objects is the ledger between them, every attempt cleans   *)
(* up what it has entered there.                                            *)
(***************************************************************************)
EXTENDS Naturals, FiniteSets

CONSTANTS
  Requests,      \* submissions; the merchant a submission makes has its name
  Forms,         \* what they may carry
  NoKey,
  Docs,          \* the documents of a form
  Provisioners,  \* requests that need the public folder of a merchant
  NoOne,
  Root,
  MaxFaults      \* bound: lost processes and failed calls

ASSUME MerchantsAssumption ==
  /\ IsFiniteSet(Docs) /\ Root \notin Docs
  /\ NoOne \notin Requests \cup Provisioners /\ Requests \cap Provisioners = {}
  /\ Forms \subseteq [business : STRING, contacts : SUBSET STRING, key : {NoKey} \cup STRING]
  /\ MaxFaults \in Nat

VARIABLES
  form,      \* the form of every submission
  sub,       \* how far every submission is
  merchant,  \* the row of every merchant
  ledger,    \* storage_objects
  drive,     \* what is on Drive
  prov,      \* how far every provisioning is
  deletion,  \* the transaction of a permanent deletion
  faults

vars == <<form, sub, merchant, ledger, drive, prov, deletion, faults>>

(* An object has the attempt that made it and what it is. *)
Objects == (Requests \X (Docs \cup {Root})) \cup (Provisioners \X {Root})
Of(attempt) == {o \in Objects : o[1] = attempt}

Statuses == {"none", "open", "terminated", "hidden", "removed"}
Reasons  == {"none", "replay", "duplicate", "error"}

Row == [life : {"none", "provisioning", "current", "failed"},
        owner : Requests \cup {NoOne}, bound : BOOLEAN]
NoRow == [life |-> "none", owner |-> NoOne, bound |-> FALSE]

SubPhases == {"new", "looked", "rooted", "uploading", "checked", "committed", "attached",
              "done", "cleaning", "deleting", "failed", "replayed", "dead"}
ProvPhases == {"new", "claimed", "created", "bound", "cleaning", "over"}

TypeOK ==
  /\ form \in [Requests -> Forms]
  /\ sub \in [Requests -> [pc : SubPhases, why : Reasons, reply : Requests \cup {NoOne},
                           listed : SUBSET Objects, broken : Docs \cup {Root}]]
  /\ merchant \in [Requests -> [status : Statuses, public : Provisioners \cup {NoOne}]]
  /\ ledger \in [Objects -> Row]
  /\ drive \subseteq Objects
  /\ prov \in [Provisioners -> [pc : ProvPhases, of : Requests \cup {NoOne}]]
  /\ deletion \in [of : Requests \cup {NoOne}, linked : SUBSET Objects, listed : SUBSET Objects,
                   swept : BOOLEAN]
  /\ faults \in 0 .. MaxFaults

NoDeletion == [of |-> NoOne, linked |-> {}, listed |-> {}, swept |-> FALSE]

Init ==
  /\ form \in [Requests -> Forms]
  /\ sub = [r \in Requests |-> [pc |-> "new", why |-> "none", reply |-> NoOne,
                                listed |-> {}, broken |-> Root]]
  /\ merchant = [m \in Requests |-> [status |-> "none", public |-> NoOne]]
  /\ ledger = [o \in Objects |-> NoRow]
  /\ drive = {}
  /\ prov = [p \in Provisioners |-> [pc |-> "new", of |-> NoOne]]
  /\ deletion = NoDeletion
  /\ faults = 0

---------------------------------------------------------------------------
(* What the database knows. *)

Exists(m) == merchant[m].status \notin {"none", "removed"}
Open(m)   == merchant[m].status = "open"

(* The same business, and a contact or an account in common. *)
Matches(f, g) == f.business = g.business /\ f.contacts \cap g.contacts # {}

Duplicates(r) == {m \in Requests : Open(m) /\ Matches(form[m], form[r])}
SameKey(r)    == {m \in Requests : Exists(m) /\ form[r].key # NoKey /\ form[m].key = form[r].key}

Recorded(o)  == ledger[o].life # "none"
Owned(m)     == {o \in Objects : ledger[o].owner = m}
Enter(o, owner, bound) ==
  ledger' = [ledger EXCEPT ![o] = [life |-> "provisioning", owner |-> owner, bound |-> bound]]

(* A merchant row that is locked for its deletion lets nobody change it or  *)
(* refer to it.                                                             *)
Unlocked(m) == deletion.of # m

Fault == faults < MaxFaults /\ faults' = faults + 1

Step(r, pc)     == sub' = [sub EXCEPT ![r].pc = pc]
GiveUp(r, why)  == sub' = [sub EXCEPT ![r].pc = "cleaning", ![r].why = why]
Replay(r, m)    == sub' = [sub EXCEPT ![r].pc = "replayed", ![r].reply = m, ![r].listed = {}]

---------------------------------------------------------------------------
(* A submission (createMerchantSubmission). *)

(* Answered before any upload: the key of an earlier request, a duplicate.  *)
Receive(r) ==
  /\ sub[r].pc = "new"
  /\ \/ \E m \in SameKey(r) : Replay(r, m)
     \/ SameKey(r) = {} /\ Step(r, IF Duplicates(r) = {} THEN "looked" ELSE "failed")
  /\ UNCHANGED <<form, merchant, ledger, drive, prov, deletion, faults>>

CreateRoot(r) ==
  /\ sub[r].pc = "looked"
  /\ drive' = drive \cup {<<r, Root>>}
  /\ Step(r, "rooted")
  /\ UNCHANGED <<form, merchant, ledger, prov, deletion, faults>>

RecordRoot(r) ==
  /\ sub[r].pc = "rooted"
  /\ Enter(<<r, Root>>, NoOne, TRUE)
  /\ Step(r, "uploading")
  /\ UNCHANGED <<form, merchant, drive, prov, deletion, faults>>

(* The documents are uploaded side by side: one that fails ends the         *)
(* attempt, and the others go on behind the cleanup.                        *)
Uploading(r, d) ==
  /\ Recorded(<<r, Root>>)
  /\ sub[r].pc \in {"uploading", "cleaning", "deleting", "failed"}
  /\ merchant[r].status = "none"
  /\ sub[r].broken # d /\ ~Recorded(<<r, d>>)

Upload(r, d) ==
  /\ Uploading(r, d) /\ <<r, d>> \notin drive
  /\ drive' = drive \cup {<<r, d>>}
  /\ UNCHANGED <<form, sub, merchant, ledger, prov, deletion, faults>>

RecordUpload(r, d) ==
  /\ Uploading(r, d) /\ <<r, d>> \in drive
  /\ Enter(<<r, d>>, NoOne, TRUE)
  /\ UNCHANGED <<form, sub, merchant, drive, prov, deletion, faults>>

UploadFails(r, d) ==
  /\ sub[r].pc = "uploading" /\ Uploading(r, d)
  /\ Fault
  /\ sub' = [sub EXCEPT ![r].pc = "cleaning", ![r].why = "error", ![r].broken = d]
  /\ UNCHANGED <<form, merchant, ledger, drive, prov, deletion>>

(* Mutant: the transaction takes no lock on the business. *)
BusinessFreeAlways(r) == TRUE

(* pg_advisory_xact_lock on the business name, which every duplicate shares *)
BusinessFree(r) ==
  \A s \in Requests : sub[s].pc = "checked" => form[s].business # form[r].business

CheckAgain(r) ==
  /\ sub[r].pc = "uploading" /\ \A d \in Docs : Recorded(<<r, d>>)
  /\ BusinessFree(r)
  /\ \/ SameKey(r) # {} /\ GiveUp(r, "replay")
     \/ SameKey(r) = {} /\ Duplicates(r) # {} /\ GiveUp(r, "duplicate")
     \/ SameKey(r) = {} /\ Duplicates(r) = {} /\ Step(r, "checked")
  /\ UNCHANGED <<form, merchant, ledger, drive, prov, deletion, faults>>

(* The insert with the unique index on the key, which waits for another     *)
(* transaction and fails if that has committed; the cases follow.           *)
Commit(r) ==
  /\ sub[r].pc = "checked"
  /\ IF SameKey(r) = {}
     THEN Step(r, "committed") /\ merchant' = [merchant EXCEPT ![r].status = "open"]
     ELSE GiveUp(r, "replay") /\ UNCHANGED merchant
  /\ UNCHANGED <<form, ledger, drive, prov, deletion, faults>>

(* The bookkeeping after the commit, inside the same try. *)
Attach(r) ==
  /\ sub[r].pc = "committed"
  /\ Unlocked(r)
  /\ ledger' = [o \in Objects |-> IF o \in Of(r) /\ Recorded(o)
                                  THEN [ledger[o] EXCEPT !.owner = r] ELSE ledger[o]]
  /\ Step(r, "attached")
  /\ UNCHANGED <<form, merchant, drive, prov, deletion, faults>>

MarkCurrent(r) ==
  /\ sub[r].pc = "attached"
  /\ ledger' = [o \in Objects |-> IF o \in Of(r) /\ Recorded(o)
                                  THEN [ledger[o] EXCEPT !.life = "current"] ELSE ledger[o]]
  /\ Step(r, "done")
  /\ UNCHANGED <<form, merchant, drive, prov, deletion, faults>>

(* A call of the database or of Drive fails, before or after the commit. *)
SubmissionFails(r) ==
  /\ sub[r].pc \in {"looked", "rooted", "checked", "committed", "attached"}
  /\ Fault
  /\ GiveUp(r, "error")
  /\ UNCHANGED <<form, merchant, ledger, drive, prov, deletion>>

(* cleanupFailedAttemptObjects: read the attempt's rows, mark them failed,  *)
(* delete what they name; a delete that fails is logged.                    *)
MarkFailed(attempt) ==
  ledger' = [o \in Objects |-> IF o \in Of(attempt) /\ ledger[o].life \in {"provisioning", "current"}
                               THEN [ledger[o] EXCEPT !.life = "failed"] ELSE ledger[o]]
Deletable(attempt) == {o \in Of(attempt) : Recorded(o) /\ ledger[o].bound}

CleanUp(r) ==
  /\ sub[r].pc = "cleaning"
  /\ MarkFailed(r)
  /\ sub' = [sub EXCEPT ![r].pc = "deleting", ![r].listed = Deletable(r)]
  /\ UNCHANGED <<form, merchant, drive, prov, deletion, faults>>

(* Then a request whose key another one used answers with its merchant. *)
CleanedUp(r, kept) ==
  /\ sub[r].pc = "deleting" /\ kept \subseteq sub[r].listed
  /\ IF kept = {} THEN UNCHANGED faults ELSE Fault
  /\ drive' = drive \ (sub[r].listed \ kept)
  /\ IF sub[r].why = "replay" /\ SameKey(r) # {}
     THEN \E m \in SameKey(r) : Replay(r, m)
     ELSE sub' = [sub EXCEPT ![r].pc = "failed", ![r].listed = {}]
  /\ UNCHANGED <<form, merchant, ledger, prov, deletion>>

SubmissionDies(r) ==
  /\ sub[r].pc \notin {"new", "done", "failed", "replayed", "dead"}
  /\ Fault
  /\ Step(r, "dead")
  /\ UNCHANGED <<form, merchant, ledger, drive, prov, deletion>>

---------------------------------------------------------------------------
(* The public folder of a merchant (ensureMerchantRootFolder). *)

Go(p, pc) == prov' = [prov EXCEPT ![p].pc = pc]
Over(p)   == prov' = [prov EXCEPT ![p] = [pc |-> "over", of |-> NoOne]]

(* The folder is looked for, then claimed in a transaction that looks again *)
(* under an advisory lock of the merchant's folder. Who finds a claim waits  *)
(* two seconds for its folder and answers with it or with a refusal.        *)
Claims(m) == {q \in Provisioners : /\ ledger[<<q, Root>>].owner = m
                                   /\ ledger[<<q, Root>>].life \in {"provisioning", "current"}}

Claim(p, m) ==
  /\ prov[p].pc = "new" /\ Exists(m)
  /\ merchant[m].public = NoOne /\ Unlocked(m)
  /\ IF Claims(m) = {}
     THEN Enter(<<p, Root>>, m, FALSE) /\ prov' = [prov EXCEPT ![p] = [pc |-> "claimed", of |-> m]]
     ELSE UNCHANGED ledger /\ Over(p)
  /\ UNCHANGED <<form, sub, merchant, drive, deletion, faults>>

CreatePublic(p) ==
  /\ prov[p].pc = "claimed"
  /\ drive' = drive \cup {<<p, Root>>}
  /\ Go(p, "created")
  /\ UNCHANGED <<form, sub, merchant, ledger, deletion, faults>>

(* finalizeRootClaim finds its row unless the merchant was removed. *)
Bind(p) ==
  /\ prov[p].pc = "created"
  /\ IF Recorded(<<p, Root>>)
     THEN /\ ledger' = [ledger EXCEPT ![<<p, Root>>].bound = TRUE, ![<<p, Root>>].life = "current"]
          /\ Go(p, "bound")
     ELSE Go(p, "cleaning") /\ UNCHANGED ledger
  /\ UNCHANGED <<form, sub, merchant, drive, deletion, faults>>

(* Mutant: the attempt is cleaned up in every case, as in a finally. *)
SetPublicFinally(p) ==
  LET m == prov[p].of IN
  /\ prov[p].pc = "bound"
  /\ Unlocked(m)
  /\ merchant' = IF Exists(m) /\ merchant[m].public = NoOne
                 THEN [merchant EXCEPT ![m].public = p] ELSE merchant
  /\ Go(p, "cleaning")
  /\ UNCHANGED <<form, sub, ledger, drive, deletion, faults>>

SetPublic(p) ==
  LET m == prov[p].of IN
  /\ prov[p].pc = "bound"
  /\ Unlocked(m)
  /\ IF Exists(m) /\ merchant[m].public = NoOne
     THEN Over(p) /\ merchant' = [merchant EXCEPT ![m].public = p]
     ELSE Go(p, "cleaning") /\ UNCHANGED merchant
  /\ UNCHANGED <<form, sub, ledger, drive, deletion, faults>>

ProvisioningFails(p) ==
  /\ prov[p].pc \in {"claimed", "created", "bound"}
  /\ Fault
  /\ Go(p, "cleaning")
  /\ UNCHANGED <<form, sub, merchant, ledger, drive, deletion>>

(* A folder whose claim has not been bound to it yet is not deleted. *)
CleanUpPublic(p) ==
  /\ prov[p].pc = "cleaning"
  /\ MarkFailed(p)
  /\ drive' = drive \ Deletable(p)
  /\ Over(p)
  /\ UNCHANGED <<form, sub, merchant, deletion, faults>>

ProvisioningDies(p) ==
  /\ prov[p].pc \in {"claimed", "created", "bound", "cleaning"}
  /\ Fault
  /\ Over(p)
  /\ UNCHANGED <<form, sub, merchant, ledger, drive, deletion>>

---------------------------------------------------------------------------
(* Administrators. *)

(* Mutant: an own status for what the schema calls terminated. *)
TerminateClosed(m) ==
  /\ Open(m)
  /\ merchant' = [merchant EXCEPT ![m].status = "closed"]
  /\ UNCHANGED <<form, sub, ledger, drive, prov, deletion, faults>>

Terminate(m) ==
  /\ Open(m)
  /\ merchant' = [merchant EXCEPT ![m].status = "terminated"]
  /\ UNCHANGED <<form, sub, ledger, drive, prov, deletion, faults>>

SoftDelete(m) ==
  /\ merchant[m].status = "terminated" /\ Unlocked(m)
  /\ merchant' = [merchant EXCEPT ![m].status = "hidden"]
  /\ UNCHANGED <<form, sub, ledger, drive, prov, deletion, faults>>

Folders(m) == {<<m, Root>>} \cup (IF merchant[m].public = NoOne
                                  THEN {} ELSE {<<merchant[m].public, Root>>})
Linked(m)  == Folders(m) \cup {<<m, d>> : d \in Docs}

(* Mutant: deletion goes by the ledger alone. *)
OwnershipAssumed(m) == TRUE

(* Every folder and file that the merchant names is the merchant's in the   *)
(* ledger: nothing on Drive is deleted, or left behind, by guess. Files of   *)
(* its cases are never entered there: a merchant that has one is refused for *)
(* good, and is none of those that are followed here.                       *)
OwnershipComplete(m) == Linked(m) \subseteq Owned(m)

DeleteBegin(m) ==
  /\ deletion = NoDeletion
  /\ merchant[m].status \in {"terminated", "hidden"}
  /\ OwnershipComplete(m)
  /\ deletion' = [of |-> m, linked |-> Linked(m),
                  listed |-> {o \in Owned(m) : ledger[o].bound}, swept |-> FALSE]
  /\ UNCHANGED <<form, sub, merchant, ledger, drive, prov, faults>>

DeleteDrive ==
  /\ deletion.of # NoOne /\ ~deletion.swept
  /\ drive' = drive \ deletion.listed
  /\ deletion' = [deletion EXCEPT !.swept = TRUE]
  /\ UNCHANGED <<form, sub, merchant, ledger, prov, faults>>

DeleteCommit ==
  /\ deletion.swept
  /\ merchant' = [merchant EXCEPT ![deletion.of] =
                    [status |-> "removed", public |-> NoOne]]
  /\ ledger' = [o \in Objects |-> IF o \in Owned(deletion.of) THEN NoRow ELSE ledger[o]]
  /\ deletion' = NoDeletion
  /\ UNCHANGED <<form, sub, drive, prov, faults>>

(* Some of the deletes on Drive are done when one fails. *)
DeleteFails(gone) ==
  /\ deletion.of # NoOne /\ gone \subseteq deletion.listed
  /\ Fault
  /\ drive' = drive \ gone
  /\ deletion' = NoDeletion
  /\ UNCHANGED <<form, sub, merchant, ledger, prov>>

SubmissionStep(r) ==
  \/ Receive(r) \/ CreateRoot(r) \/ RecordRoot(r) \/ CheckAgain(r) \/ Commit(r)
  \/ Attach(r) \/ MarkCurrent(r) \/ CleanUp(r) \/ SubmissionFails(r) \/ SubmissionDies(r)
  \/ \E d \in Docs : Upload(r, d) \/ RecordUpload(r, d) \/ UploadFails(r, d)
  \/ \E kept \in SUBSET Of(r) : CleanedUp(r, kept)

ProvisioningStep(p) ==
  \/ \E m \in Requests : Claim(p, m)
  \/ CreatePublic(p) \/ Bind(p) \/ SetPublic(p) \/ CleanUpPublic(p)
  \/ ProvisioningFails(p) \/ ProvisioningDies(p)

Next ==
  \/ \E r \in Requests : SubmissionStep(r)
  \/ \E p \in Provisioners : ProvisioningStep(p)
  \/ \E m \in Requests : Terminate(m) \/ SoftDelete(m) \/ DeleteBegin(m)
  \/ DeleteDrive \/ DeleteCommit
  \/ \E gone \in SUBSET Objects : DeleteFails(gone)

Spec == Init /\ [][Next]_vars

---------------------------------------------------------------------------
(* Properties *)

(* However often and from how many pages a form is sent, one application is *)
(* open: the check before the uploads is repeated under the lock of the     *)
(* business (merchants.service.ts:363), a key makes one merchant, and a     *)
(* repeat is answered with the merchant of its key.                         *)
SubmittedOnce ==
  /\ \A m, n \in Requests : m # n /\ Open(m) /\ Open(n) => ~Matches(form[m], form[n])
  /\ \A r \in Requests : Exists(r) => SameKey(r) \subseteq {r}
  /\ \A r \in Requests : sub[r].pc = "replayed" => form[sub[r].reply].key = form[r].key

(* The submissions whose bookkeeping failed after they had committed. *)
Botched == {m \in Requests : sub[m].pc \in {"cleaning", "deleting", "failed"}}

(* The folders and files of an open merchant are on Drive: of all cleanups  *)
(* that run beside it only the one of its own submission can take them, and *)
(* only when the bookkeeping failed after the commit                        *)
(* (merchants.service.ts:464, merchant-drive-folders.ts:164).               *)
OpenMerchantsHaveTheirFiles == \A m \in Requests : Open(m) =>
  (IF m \in Botched THEN Folders(m) \ {<<m, Root>>} ELSE Linked(m)) \subseteq drive

(* A merchant is removed for good only when everything it named at the time *)
(* of the check is off Drive, although submissions, provisioning and other  *)
(* deletions run beside it (merchants.service.ts:855).                      *)
DeletionLeavesNothing ==
  [][\A m \in Requests : Exists(m) /\ ~Exists(m)' =>
       /\ Linked(m) \subseteq deletion.linked
       /\ deletion.linked \cap drive' = {}]_vars
=============================================================================
