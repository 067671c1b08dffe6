------------------------------ MODULE CaseWork ------------------------------
(***************************************************************************)
(* What the owners do in the cases of one merchant before these may be      *)
(* closed (mid-case, testing-case, live-case, wordpress-case, sub-merchant- *)
(* form-case, portal-password-code and portal-api-credentials.service.ts):  *)
(* the MID case makes the merchant's portal account, the testing case sends *)
(* it, the dashboard applies its limits.                                    *)
(*                                                                          *)
(* A request looks at its case first and changes it in a later statement or *)
(* transaction; the close gate of advanceStage looks at what they left.     *)
(* Abstractions: the merchant has one case of a kind, which is there from   *)
(* the start; only WordPress cases are created, also after one that ended,  *)
(* and taken at once. Delivery is tracked (a webhook secret is set).        *)
(***************************************************************************)
EXTENDS Naturals, Sequences, FiniteSets

CONSTANTS
  Scenes,    \* bound: the kinds of cases a merchant has together
  Requests,
  Mids,      \* portal MIDs
  Subs,      \* sub-merchants
  None,
  MaxCodes   \* bound: password codes made

Kinds == {"document_review", "sub_merchant_form", "mid", "testing", "live", "wordpress"}

ASSUME CaseWorkAssumption ==
  /\ Scenes \subseteq SUBSET Kinds
  /\ None \notin Mids
  /\ MaxCodes \in Nat

VARIABLES
  status,    \* the status of every case, "none" without one
  code,      \* merchant_portal_password_codes in the order they were made
  saved,     \* the MID of the latest mid_creation_saved
  limits,    \* portal_mid_limit_applications
  api,       \* merchant_portal_api_credentials has a row
  cleared,   \* a WordPress case has ended, or the merchant was terminated
  mails,     \* codes of the messages the provider accepted or an owner sent
  arrived,   \* a message of the testing case is known to have arrived
  track,     \* delivery of the latest tracked message of the testing case
  behind,    \* requests whose message will not be the latest once accepted
  told,      \* the testing case has a credentials-sent entry
  marked,    \* the cases with a limits-applied entry
  selected,  \* sub-merchants of the document review
  site,      \* what the WordPress case has saved
  form,      \* sub_merchant_form_details and the proof
  req

keys   == <<api, cleared>>
mail   == <<mails, arrived, track, behind, told>>
portal == <<code, saved, limits, keys, mail>>
desk   == <<marked, selected, site, form>>
vars   == <<status, portal, desk, req>>

CodeIds  == 1 .. MaxCodes
Statuses == {"none", "working", "closed", "abandoned"}

Idle == [at |-> "idle", kind |-> "mid", code |-> 0, mid |-> None,
         codes |-> {}, subs |-> {}, old |-> {}]
NoSite == [saved |-> FALSE, logos |-> {}]
Phases == {"idle", "generating", "locked", "replacing", "detailing", "keying",
           "preparing", "previewing", "ready", "previewed", "mailed", "confirmed", "sent",
           "recorded", "marking", "selecting", "building", "picking", "filing", "proving", "closing"}

TypeOK ==
  /\ status \in [Kinds -> Statuses]
  /\ code \in UNION {[1 .. n -> {"active", "used", "replaced"}] : n \in 0 .. MaxCodes}
  /\ saved \in Mids \cup {None} /\ limits \subseteq Mids
  /\ api \in BOOLEAN /\ cleared \in BOOLEAN /\ told \in BOOLEAN
  /\ mails \subseteq CodeIds /\ arrived \in BOOLEAN /\ behind \subseteq Requests
  /\ track \in {"clear", "waiting", "delivered", "bounced"}
  /\ marked \subseteq {"testing", "live"} /\ selected \subseteq Subs
  /\ site \in [saved : BOOLEAN, logos : SUBSET Subs]
  /\ form \in [picked : BOOLEAN, final : BOOLEAN, proof : BOOLEAN, mail : {"not_sent", "sent"}]
  /\ req \in [Requests -> [at : Phases, kind : Kinds, code : {0} \cup CodeIds,
                           mid : Mids \cup {None}, codes : SUBSET CodeIds,
                           subs : SUBSET Subs, old : SUBSET Subs]]

Init ==
  /\ \E scene \in Scenes :
       status = [k \in Kinds |-> IF k \in scene THEN "working" ELSE "none"]
  /\ code = <<>> /\ saved = None /\ limits = {} /\ api = FALSE /\ cleared = FALSE
  /\ mails = {} /\ arrived = FALSE /\ track = "clear" /\ behind = {} /\ told = FALSE
  /\ marked = {} /\ selected = {} /\ site = NoSite
  /\ form = [picked |-> FALSE, final |-> FALSE, proof |-> FALSE, mail |-> "not_sent"]
  /\ req = [r \in Requests |-> Idle]

(* Only the owner of a working case may do any of this. *)
Working(k) == status[k] = "working"

Start(r, at)  == req[r] = Idle /\ req' = [req EXCEPT ![r].at = at]
Go(r, at)     == req' = [req EXCEPT ![r].at = at]
Finish(r)     == req' = [req EXCEPT ![r] = Idle]

---------------------------------------------------------------------------
(* The password code of the merchant. *)

Active       == {c \in DOMAIN code : code[c] = "active"}
Unreplaced   == {c \in DOMAIN code : code[c] # "replaced"}
LatestIsUsed == \E c \in Unreplaced : code[c] = "used" /\ \A d \in Unreplaced : d <= c

MerchantFree(r) == \A s \in Requests \ {r} : req[s].at \notin {"locked", "replacing"}

GenerateBegin(r) ==
  /\ Working("mid") \/ Working("testing")
  /\ Start(r, "generating")
  /\ UNCHANGED <<status, portal, desk>>

(* Mutant: generations of one merchant are not serialised. *)
GenerateLockFree(r) ==
  /\ req[r].at = "generating"
  /\ IF LatestIsUsed THEN Finish(r) ELSE Go(r, "locked")
  /\ UNCHANGED <<status, portal, desk>>

GenerateLock(r) ==
  /\ req[r].at = "generating" /\ MerchantFree(r)
  /\ IF LatestIsUsed THEN Finish(r) ELSE Go(r, "locked")
  /\ UNCHANGED <<status, portal, desk>>

(* The update locks the codes it replaces. *)
GenerateReplace(r) ==
  /\ req[r].at = "locked" /\ Len(code) < MaxCodes
  /\ req' = [req EXCEPT ![r].at = "replacing", ![r].codes = Active]
  /\ UNCHANGED <<status, portal, desk>>

(* The partial unique index refuses a second active code. *)
GenerateCommit(r) ==
  /\ req[r].at = "replacing"
  /\ code' = IF Active \subseteq req[r].codes
             THEN Append([c \in DOMAIN code |-> IF c \in req[r].codes THEN "replaced" ELSE code[c]],
                         "active")
             ELSE code
  /\ Finish(r)
  /\ UNCHANGED <<status, saved, limits, keys, mail, desk>>

---------------------------------------------------------------------------
(* The MID case: the account's details need a code, which was set on the    *)
(* portal; the API credentials replace earlier ones.                        *)

DetailsBegin(r, m) ==
  /\ Working("mid") /\ Unreplaced # {} /\ req[r] = Idle
  /\ req' = [req EXCEPT ![r].at = "detailing", ![r].mid = m]
  /\ UNCHANGED <<status, portal, desk>>

DetailsCommit(r) ==
  /\ req[r].at = "detailing"
  /\ saved' = req[r].mid
  /\ Finish(r)
  /\ UNCHANGED <<status, code, limits, keys, mail, desk>>

KeysBegin(r) ==
  /\ Working("mid") /\ Start(r, "keying")
  /\ UNCHANGED <<status, portal, desk>>

KeysCommit(r) ==
  /\ req[r].at = "keying" /\ MerchantFree(r)
  /\ api' = TRUE
  /\ Finish(r)
  /\ UNCHANGED <<status, code, saved, limits, cleared, mail, desk>>

(* The dashboard applies the limits of a MID once, saved or not. *)
ApplyLimits(m) ==
  /\ limits' = limits \cup {m}
  /\ UNCHANGED <<status, code, saved, keys, mail, desk, req>>

---------------------------------------------------------------------------
(* The testing case sends the account, by the API or by hand. *)

SendBegin(r, at) ==
  /\ Working("testing") /\ saved # None /\ req[r] = Idle
  /\ req' = [req EXCEPT ![r].at = at, ![r].mid = saved]
  /\ UNCHANGED <<status, portal, desk>>

(* sendEmail inserts the row of the message before it calls the provider.   *)
SendRead(r) ==
  /\ req[r].at \in {"preparing", "previewing"}
  /\ IF req[r].mid \in limits /\ Active # {}
     THEN \E c \in Active : req' =
            [req EXCEPT ![r].at = IF req[r].at = "preparing" THEN "ready" ELSE "previewed",
                        ![r].code = c, ![r].mid = None]
     ELSE Finish(r)
  /\ UNCHANGED <<status, portal, desk>>

Ready == {s \in Requests : req[s].at = "ready"}

(* The provider accepts the message, which may still bounce. The messages   *)
(* under way whose rows are older will not be the latest of the case.       *)
SendOut(r) ==
  /\ req[r].at = "ready" /\ Go(r, "sent")
  /\ mails' = mails \cup {req[r].code}
  /\ \/ r \in behind /\ UNCHANGED track /\ behind' = behind \ {r}
     \/ /\ r \notin behind /\ track' = "waiting"
        /\ \E older \in SUBSET (Ready \ {r}) : behind' = behind \cup older
  /\ UNCHANGED <<status, code, saved, limits, keys, arrived, told, desk>>

(* Mutant: the entry of a failed message passes for one that was sent. *)
SendFailedCounted(r) ==
  /\ req[r].at = "ready" /\ Finish(r)
  /\ mails' \in {mails, mails \cup {req[r].code}}
  /\ told' = TRUE
  /\ behind' = behind \ {r}
  /\ UNCHANGED <<status, code, saved, limits, keys, arrived, track, desk>>

(* A call that failed may have sent the message, see EmailDelivery. *)
SendFailed(r) ==
  /\ req[r].at = "ready" /\ Finish(r)
  /\ mails' \in {mails, mails \cup {req[r].code}}
  /\ behind' = behind \ {r}
  /\ UNCHANGED <<status, code, saved, limits, keys, arrived, track, told, desk>>

(* Events and status checks of the latest message, see EmailDelivery: a     *)
(* bounce or a complaint may follow the delivery.                           *)
Delivered ==
  /\ track = "waiting"
  /\ track' = "delivered"
  /\ arrived' = TRUE
  /\ UNCHANGED <<status, code, saved, limits, keys, mails, behind, told, desk, req>>

Undelivered ==
  /\ track \in {"waiting", "delivered"}
  /\ track' = "bounced"
  /\ UNCHANGED <<status, code, saved, limits, keys, mails, arrived, behind, told, desk, req>>

(* The owner of the testing case vouches for the address, when only a copy  *)
(* may have bounced.                                                        *)
ConfirmDelivery ==
  /\ Working("testing") /\ track = "bounced"
  /\ track' = "clear"
  /\ arrived' = TRUE
  /\ UNCHANGED <<status, code, saved, limits, keys, mails, behind, told, desk, req>>

(* By hand: the owner sends the text of the preview and confirms with a     *)
(* screenshot, which is taken only for the code that is still active.       *)
MailByHand(r) ==
  /\ req[r].at = "previewed" /\ Go(r, "mailed")
  /\ mails' = mails \cup {req[r].code}
  /\ UNCHANGED <<status, code, saved, limits, keys, arrived, track, behind, told, desk>>

Confirm(r) ==
  /\ req[r].at = "mailed"
  /\ IF Working("testing") /\ saved \in limits /\ req[r].code \in Active
     THEN Go(r, "confirmed")
     ELSE Finish(r)
  /\ UNCHANGED <<status, portal, desk>>

(* The entry of a manual send is newer than the row of every message so far. *)
ConfirmRecord(r) ==
  /\ req[r].at = "confirmed" /\ Go(r, "recorded")
  /\ told' = TRUE
  /\ arrived' = TRUE
  /\ track' = "clear" /\ behind' = behind \cup Ready
  /\ UNCHANGED <<status, code, saved, limits, keys, mails, desk>>

SendRecord(r) ==
  /\ req[r].at = "sent" /\ Go(r, "recorded")
  /\ told' = TRUE
  /\ UNCHANGED <<status, code, saved, limits, keys, mails, arrived, track, behind, desk>>

(* Spends the code unless it was replaced meanwhile. *)
Consume(r) ==
  /\ req[r].at = "recorded"
  /\ \A s \in Requests : req[s].at = "replacing" => req[r].code \notin req[s].codes
  /\ code' = [code EXCEPT ![req[r].code] = IF @ = "active" THEN "used" ELSE @]
  /\ Finish(r)
  /\ UNCHANGED <<status, saved, limits, keys, mail, desk>>

---------------------------------------------------------------------------
(* The other cases. *)

MarkBegin(r, k) ==
  /\ k \in {"testing", "live"} /\ Working(k) /\ k \notin marked /\ req[r] = Idle
  /\ req' = [req EXCEPT ![r].at = "marking", ![r].kind = k]
  /\ UNCHANGED <<status, portal, desk>>

MarkCommit(r) ==
  /\ req[r].at = "marking"
  /\ marked' = marked \cup {req[r].kind}
  /\ Finish(r)
  /\ UNCHANGED <<status, portal, selected, site, form>>

(* Two selections at once delete what they both saw, and add up. *)
SelectBegin(r, subs) ==
  /\ Working("document_review") /\ subs # {} /\ req[r] = Idle
  /\ req' = [req EXCEPT ![r].at = "selecting", ![r].subs = subs, ![r].old = selected]
  /\ UNCHANGED <<status, portal, desk>>

SelectCommit(r) ==
  /\ req[r].at = "selecting"
  /\ selected' \in {req[r].subs, req[r].subs \cup (selected \ req[r].old)}
  /\ Finish(r)
  /\ UNCHANGED <<status, portal, marked, site, form>>

(* One save brings a page, a checkout and a logo of every selected           *)
(* sub-merchant; it drops the logos it found of others.                     *)
SiteBegin(r) ==
  /\ Working("wordpress") /\ selected # {} /\ req[r] = Idle
  /\ req' = [req EXCEPT ![r].at = "building", ![r].subs = selected, ![r].old = site.logos]
  /\ UNCHANGED <<status, portal, desk>>

SiteCommit(r) ==
  /\ req[r].at = "building"
  /\ site' = [saved |-> TRUE,
              logos |-> req[r].subs \cup (site.logos \ req[r].old)]
  /\ Finish(r)
  /\ UNCHANGED <<status, portal, marked, selected, form>>

(* The form takes its sub-merchant from the review, or has it picked. *)
Inherit ==
  /\ Working("sub_merchant_form") /\ selected # {}
  /\ form' = [form EXCEPT !.picked = TRUE]
  /\ UNCHANGED <<status, portal, marked, selected, site, req>>

FormBegin(r, at) ==
  /\ Working("sub_merchant_form")
  /\ at \in {"filing", "proving"} => form.picked
  /\ at = "proving" => form.final
  /\ Start(r, at)
  /\ UNCHANGED <<status, portal, desk>>

FormCommit(r) ==
  /\ req[r].at \in {"picking", "filing"}
  /\ form' = [form EXCEPT !.picked = TRUE, !.mail = "not_sent",
                          !.final = @ \/ req[r].at = "filing"]
  /\ Finish(r)
  /\ UNCHANGED <<status, portal, marked, selected, site>>

ProofCommit(r) ==
  /\ req[r].at = "proving"
  /\ form' = [form EXCEPT !.proof = TRUE, !.mail = "sent"]
  /\ Finish(r)
  /\ UNCHANGED <<status, portal, marked, selected, site>>

---------------------------------------------------------------------------
(* Closing: the gate is read before the transaction that closes. *)

Gate(k) ==
  CASE k = "document_review"   -> selected # {}
    [] k = "sub_merchant_form" -> form.final /\ form.mail = "sent" /\ form.proof
    [] k = "mid"               -> saved # None /\ api
    [] k = "testing"           -> told
    [] k = "live"              -> "live" \in marked
    [] k = "wordpress"         -> site.saved /\ selected # {} /\ selected \subseteq site.logos

CloseBegin(r, k) ==
  /\ Working(k) /\ Gate(k) /\ req[r] = Idle
  /\ req' = [req EXCEPT ![r].at = "closing", ![r].kind = k]
  /\ UNCHANGED <<status, portal, desk>>

(* The API credentials go with the WordPress case, however it closes. *)
Ends(k, how) ==
  /\ status' = [status EXCEPT ![k] = how]
  /\ api' = (api /\ k # "wordpress")
  /\ cleared' = (cleared \/ k = "wordpress")

(* The transaction finds the case still working and its latest message      *)
(* delivered, vouched for, or replaced by one sent by hand.                 *)
CloseCommit(r) ==
  /\ req[r].at = "closing"
  /\ IF /\ Working(req[r].kind)
        /\ req[r].kind = "testing" => track \in {"clear", "delivered"}
     THEN Ends(req[r].kind, "closed")
     ELSE UNCHANGED <<status, keys>>
  /\ Finish(r)
  /\ UNCHANGED <<code, saved, limits, mail, desk>>

(* Mutant: the outcome is written where the status belongs. *)
AbandonUnsuccessful(k) ==
  /\ Working(k)
  /\ Ends(k, "unsuccessful")
  /\ UNCHANGED <<code, saved, limits, mail, desk, req>>

Abandon(k) ==
  /\ Working(k)
  /\ Ends(k, "abandoned")
  /\ UNCHANGED <<code, saved, limits, mail, desk, req>>

Terminate ==
  /\ status' = [k \in Kinds |-> IF Working(k) THEN "abandoned" ELSE status[k]]
  /\ api' = FALSE /\ cleared' = TRUE
  /\ UNCHANGED <<code, saved, limits, mail, desk, req>>

(* Another case, also of a terminated merchant. The late requests of an     *)
(* ended WordPress case change nothing of the next one.                     *)
CreateWordpress ==
  /\ ~Working("wordpress")
  /\ \E scene \in Scenes :
       "wordpress" \in scene /\ \A k \in Kinds \ scene : status[k] = "none"
  /\ \A r \in Requests : /\ req[r].at # "building"
                        /\ req[r].at = "closing" => req[r].kind # "wordpress"
  /\ status' = [status EXCEPT !["wordpress"] = "working"]
  /\ site' = NoSite
  /\ UNCHANGED <<portal, marked, selected, form, req>>

RequestDies(r) ==
  /\ req[r] # Idle /\ Finish(r)
  /\ behind' = behind \ {r}
  /\ UNCHANGED <<status, code, saved, limits, keys, mails, arrived, track, told, desk>>

CodeStep(r) ==
  GenerateBegin(r) \/ GenerateLock(r) \/ GenerateReplace(r) \/ GenerateCommit(r)

MidStep(r) ==
  DetailsCommit(r) \/ KeysBegin(r) \/ KeysCommit(r) \/ \E m \in Mids : DetailsBegin(r, m)

SendStep(r) ==
  \/ SendBegin(r, "preparing") \/ SendBegin(r, "previewing") \/ SendRead(r)
  \/ SendOut(r) \/ SendFailed(r) \/ MailByHand(r) \/ Confirm(r)
  \/ ConfirmRecord(r) \/ SendRecord(r) \/ Consume(r)

DeskStep(r) ==
  \/ MarkCommit(r) \/ SelectCommit(r) \/ SiteBegin(r) \/ SiteCommit(r)
  \/ FormCommit(r) \/ ProofCommit(r)
  \/ \E k \in Kinds : MarkBegin(r, k)
  \/ \E subs \in SUBSET Subs : SelectBegin(r, subs)
  \/ \E at \in {"picking", "filing", "proving"} : FormBegin(r, at)

CloseStep(r) == CloseCommit(r) \/ \E k \in Kinds : CloseBegin(r, k)

Next ==
  \/ \E r \in Requests : CodeStep(r) \/ MidStep(r) \/ SendStep(r) \/ DeskStep(r)
                           \/ CloseStep(r) \/ RequestDies(r)
  \/ \E m \in Mids : ApplyLimits(m)
  \/ Delivered \/ Undelivered \/ ConfirmDelivery
  \/ Inherit \/ Terminate \/ CreateWordpress \/ \E k \in Kinds : Abandon(k)

Spec == Init /\ [][Next]_vars

---------------------------------------------------------------------------
(* Properties *)

(* Generating never meets the index ("the partial unique index never sees    *)
(* two active codes", portal-password-code.service.ts:129), and a code is    *)
(* spent only by a message that carried it and went out, accepted by the     *)
(* provider or sent by hand, although codes are replaced meanwhile. It stays *)
(* spent when the message bounces (mid-case.service.ts:308).                 *)
OneCode ==
  /\ Cardinality(Active) <= 1
  /\ \A r \in Requests : req[r].at = "replacing" => Active \subseteq req[r].codes
  /\ \A c \in DOMAIN code : code[c] = "used" => c \in mails

Closed(k) == status[k] = "closed"

(* What a close gate asked for is still there once the case is closed,       *)
(* although the gate was read before it: the account is known to have        *)
(* arrived, by the provider's event or the owner's word, whatever bounced or *)
(* overtook it; and the API credentials stay until a WordPress case ends or  *)
(* the merchant is terminated (case-stage.service.ts:227, :341, :379;        *)
(* case-transition.service.ts:254, :336).                                    *)
ClosedWithItsWork ==
  /\ Closed("document_review")   => selected # {}
  /\ Closed("sub_merchant_form") => form.picked /\ form.final /\ form.proof
  /\ Closed("mid")               => saved # None /\ code # <<>> /\ (api \/ cleared)
  /\ Closed("testing")           => arrived /\ limits # {}
  /\ Closed("live")              => "live" \in marked
  /\ Closed("wordpress")         => site.saved
=============================================================================
