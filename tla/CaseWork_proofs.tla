-------------------------- MODULE CaseWork_proofs --------------------------
(* The work of the owners keeps what it promises, for every merchant, every *)
(* set of cases, requests, MIDs and sub-merchants: one password code is     *)
(* usable, and a closed case still has what its gate asked for.             *)
EXTENDS CaseWork, FiniteSetTheorems, TLAPS

Making(r) == req[r].at \in {"locked", "replacing"}

(* Generations are serialised, so a replacement still finds what it counted *)
(* and what it locked: no active code but those, and room for its own.      *)
OneMaker   == \A r, s \in Requests : Making(r) /\ Making(s) => r = s
Replaces(r) == req[r].at = "replacing" => Len(code) < MaxCodes /\ Active \subseteq req[r].codes
Codes      == OneMaker /\ \A r \in Requests : Replaces(r)

OneActive == \A c, d \in Active : c = d

(* A message carries a code once limits were applied, and only a code whose *)
(* message went out is spent.                                               *)
Carries(r) ==
  /\ req[r].at \in {"ready", "previewed", "mailed", "confirmed", "sent", "recorded"} =>
       req[r].code \in CodeIds /\ limits # {}
  /\ req[r].at \in {"mailed", "confirmed", "sent", "recorded"} => req[r].code \in mails
SpentBy   == \A c \in DOMAIN code : code[c] = "used" => c \in mails

(* As long as nothing is known to have arrived, the latest message of a case *)
(* that has sent one blocks the close.                                      *)
Sent == told \/ behind # {} \/ \E r \in Requests : req[r].at = "sent"
Heard == /\ arrived \/ track # "clear" \/ behind # {} => limits # {}
         /\ Sent /\ track \in {"clear", "delivered"} => arrived

(* The part of a gate that nothing takes back.                              *)
Earned(k) ==
  /\ k = "document_review"   => selected # {}
  /\ k = "sub_merchant_form" => form.final /\ form.proof
  /\ k = "mid"               => saved # None /\ (api \/ cleared)
  /\ k = "testing"           => told
  /\ k = "live"              => "live" \in marked
  /\ k = "wordpress"         => site.saved

(* What a request found before it changes anything still holds then.        *)
Found(r) ==
  /\ req[r].at = "selecting" => req[r].subs # {}
  /\ req[r].at = "detailing" => code # <<>> /\ req[r].mid # None
  /\ req[r].at = "closing"   => Earned(req[r].kind)
Lasting == /\ saved # None => code # <<>>
           /\ form.final => form.picked
           /\ \A k \in Kinds : Closed(k) => Earned(k)
           /\ Closed("testing") => arrived
Work    == Lasting /\ \A r \in Requests : Found(r)

Marks(r) == req[r].at = "marking" => req[r].kind \in {"testing", "live"}

Types == TypeOK /\ Codes /\ \A r \in Requests : Carries(r) /\ Marks(r)

-----------------------------------------------------------------------------
(* Facts about the state *)

LEMMA CodeIs ==
  ASSUME TypeOK
  PROVE  /\ code \in Seq({"active", "used", "replaced"})
         /\ Len(code) \in 0 .. MaxCodes /\ DOMAIN code = 1 .. Len(code)
         /\ DOMAIN code \subseteq CodeIds /\ Active \subseteq CodeIds
<1>1. PICK n \in 0 .. MaxCodes : code \in [1 .. n -> {"active", "used", "replaced"}]
  BY DEF TypeOK
<1>2. n \in Nat /\ MaxCodes \in Nat
  BY CaseWorkAssumption
<1>3. code \in Seq({"active", "used", "replaced"}) /\ Len(code) = n
  BY <1>1, <1>2
<1> QED
  BY <1>1, <1>2, <1>3 DEF Active, CodeIds

(* A sequence of statuses within the bound has the type of the codes.       *)
LEMMA CodesWithin ==
  ASSUME NEW c \in Seq({"active", "used", "replaced"}), Len(c) <= MaxCodes
  PROVE  c \in UNION {[1 .. n -> {"active", "used", "replaced"}] : n \in 0 .. MaxCodes}
<1>1. Len(c) \in 0 .. MaxCodes /\ c \in [1 .. Len(c) -> {"active", "used", "replaced"}]
  BY CaseWorkAssumption
<1> QED
  BY <1>1

(* Every step is one request's, or leaves the requests alone.               *)
RequestStep(r) ==
  CodeStep(r) \/ MidStep(r) \/ SendStep(r) \/ DeskStep(r) \/ CloseStep(r) \/ RequestDies(r)
OtherStep ==
  \/ \E m \in Mids : ApplyLimits(m)
  \/ Delivered \/ Undelivered \/ ConfirmDelivery
  \/ Inherit \/ Terminate \/ CreateWordpress \/ \E k \in Kinds : Abandon(k)

LEMMA ReqKept ==
  ASSUME TypeOK
  PROVE  /\ \A r \in Requests : RequestStep(r) =>
              \E new : req' = [req EXCEPT ![r] = new]
         /\ OtherStep => req' = req
<1>1. ASSUME NEW r \in Requests
      PROVE  CodeStep(r) \/ MidStep(r) => \E new : req' = [req EXCEPT ![r] = new]
  BY <1>1 DEF CodeStep, MidStep, GenerateBegin, GenerateLock, GenerateReplace, GenerateCommit,
     DetailsBegin, DetailsCommit, KeysBegin, KeysCommit, Start, Go, Finish
<1>2. ASSUME NEW r \in Requests
      PROVE  SendStep(r) => \E new : req' = [req EXCEPT ![r] = new]
  BY <1>2 DEF SendStep, SendBegin, SendRead, SendOut, SendFailed, MailByHand, Confirm,
     ConfirmRecord, SendRecord, Consume, Start, Go, Finish
<1>3. ASSUME NEW r \in Requests
      PROVE  DeskStep(r) \/ CloseStep(r) \/ RequestDies(r) =>
               \E new : req' = [req EXCEPT ![r] = new]
  BY <1>3 DEF DeskStep, CloseStep, RequestDies, MarkBegin, MarkCommit, SelectBegin, SelectCommit,
     SiteBegin, SiteCommit, FormBegin, FormCommit, ProofCommit, CloseBegin, CloseCommit,
     Start, Go, Finish
<1>4. OtherStep => req' = req
  BY DEF OtherStep, ApplyLimits, Inherit, Terminate, Abandon, Delivered, Undelivered,
     ConfirmDelivery, CreateWordpress
<1> QED
  BY <1>1, <1>2, <1>3, <1>4 DEF RequestStep

-----------------------------------------------------------------------------
(* Types *)

RequestSpace == [at : Phases, kind : Kinds, code : {0} \cup CodeIds, mid : Mids \cup {None},
                 codes : SUBSET CodeIds, subs : SUBSET Subs, old : SUBSET Subs]

(* What the steps do to a request.                                          *)
LEMMA Moves ==
  ASSUME TypeOK, NEW r \in Requests
  PROVE  /\ req \in [Requests -> RequestSpace] /\ req[r] \in RequestSpace
         /\ [req EXCEPT ![r] = Idle] \in [Requests -> RequestSpace]
         /\ \A at \in Phases : [req EXCEPT ![r].at = at] \in [Requests -> RequestSpace]
<1>1. req \in [Requests -> RequestSpace]
  BY DEF TypeOK, RequestSpace
<1>2. Idle \in RequestSpace
  BY DEF Idle, RequestSpace, Phases, Kinds
<1>3. \A at \in Phases : [req[r] EXCEPT !.at = at] \in RequestSpace
  BY <1>1 DEF RequestSpace
<1> QED
  BY <1>1, <1>2, <1>3

LEMMA ReqTyped ==
  ASSUME Types, NEW r \in Requests, RequestStep(r)
  PROVE  req' \in [Requests -> RequestSpace]
<1>0. TypeOK
  BY DEF Types
<1>1. /\ req \in [Requests -> RequestSpace] /\ req[r] \in RequestSpace
      /\ [req EXCEPT ![r] = Idle] \in [Requests -> RequestSpace]
      /\ \A at \in Phases : [req EXCEPT ![r].at = at] \in [Requests -> RequestSpace]
  BY <1>0, Moves
<1>2. /\ Active \subseteq CodeIds /\ saved \in Mids \cup {None}
      /\ selected \subseteq Subs /\ site.logos \subseteq Subs
  BY <1>0, CodeIs DEF TypeOK
<1> USE DEF Go, Finish, Start
<1>3. CASE CodeStep(r)
  <2>1. CASE GenerateBegin(r) \/ GenerateLock(r)
    <3>1. \E at \in {"generating", "locked", "idle"} :
            req' = [req EXCEPT ![r].at = at] \/ req' = [req EXCEPT ![r] = Idle]
      BY <2>1 DEF GenerateBegin, GenerateLock
    <3> QED
      BY <1>1, <3>1 DEF Phases
  <2>2. CASE GenerateReplace(r)
    BY <1>1, <1>2, <2>2 DEF GenerateReplace, RequestSpace, Phases
  <2>3. CASE GenerateCommit(r)
    BY <1>1, <2>3 DEF GenerateCommit
  <2> QED
    BY <1>3, <2>1, <2>2, <2>3 DEF CodeStep
<1>4. CASE MidStep(r)
  <2>1. ASSUME NEW m \in Mids, DetailsBegin(r, m)
        PROVE  req' \in [Requests -> RequestSpace]
    BY <1>1, <2>1 DEF DetailsBegin, RequestSpace, Phases
  <2>2. CASE DetailsCommit(r) \/ KeysBegin(r) \/ KeysCommit(r)
    BY <1>1, <2>2 DEF DetailsCommit, KeysBegin, KeysCommit, Phases
  <2> QED
    BY <1>4, <2>1, <2>2 DEF MidStep
<1>5. CASE SendStep(r)
  <2>1. ASSUME NEW at \in {"preparing", "previewing"}, SendBegin(r, at)
        PROVE  req' \in [Requests -> RequestSpace]
    BY <1>1, <1>2, <2>1 DEF SendBegin, RequestSpace, Phases
  <2>2. CASE SendRead(r)
    <3>1. CASE req[r].mid \in limits /\ Active # {}
      <4>1. PICK c \in Active, at \in {"ready", "previewed"} :
              req' = [req EXCEPT ![r].at = at, ![r].code = c, ![r].mid = None]
        BY <2>2, <3>1 DEF SendRead
      <4> DEFINE new == [req[r] EXCEPT !.at = at, !.code = c, !.mid = None]
      <4>2. new \in RequestSpace
        BY <1>1, <1>2, <4>1 DEF RequestSpace, Phases
      <4>3. req' = [req EXCEPT ![r] = new]
        BY <1>1, <4>1
      <4> HIDE DEF new
      <4> QED
        BY <1>1, <4>2, <4>3
    <3> QED
      BY <1>1, <2>2, <3>1 DEF SendRead
  <2>3. CASE SendOut(r) \/ SendFailed(r) \/ MailByHand(r)
    BY <1>1, <2>3 DEF SendOut, SendFailed, MailByHand, Phases
  <2>4. CASE Confirm(r) \/ ConfirmRecord(r) \/ SendRecord(r) \/ Consume(r)
    BY <1>1, <2>4 DEF Confirm, ConfirmRecord, SendRecord, Consume, Phases
  <2> QED
    BY <1>5, <2>1, <2>2, <2>3, <2>4 DEF SendStep
<1>6. CASE DeskStep(r) \/ CloseStep(r) \/ RequestDies(r)
  <2>1. ASSUME NEW k \in Kinds, MarkBegin(r, k) \/ CloseBegin(r, k)
        PROVE  req' \in [Requests -> RequestSpace]
    <3>1. PICK at \in {"marking", "closing"} : req' = [req EXCEPT ![r].at = at, ![r].kind = k]
      BY <2>1 DEF MarkBegin, CloseBegin
    <3> QED
      BY <1>1, <3>1 DEF RequestSpace, Phases
  <2>2. ASSUME NEW subs \in SUBSET Subs, SelectBegin(r, subs)
        PROVE  req' \in [Requests -> RequestSpace]
    BY <1>1, <1>2, <2>2 DEF SelectBegin, RequestSpace, Phases
  <2>3. CASE SiteBegin(r)
    BY <1>1, <1>2, <2>3 DEF SiteBegin, RequestSpace, Phases
  <2>4. ASSUME NEW at \in {"picking", "filing", "proving"}, FormBegin(r, at)
        PROVE  req' \in [Requests -> RequestSpace]
    BY <1>1, <2>4 DEF FormBegin, Phases
  <2>5. CASE MarkCommit(r) \/ SelectCommit(r) \/ SiteCommit(r) \/ FormCommit(r)
             \/ ProofCommit(r) \/ CloseCommit(r) \/ RequestDies(r)
    BY <1>1, <2>5 DEF MarkCommit, SelectCommit, SiteCommit, FormCommit, ProofCommit, CloseCommit,
       RequestDies
  <2> QED
    BY <1>6, <2>1, <2>2, <2>3, <2>4, <2>5 DEF DeskStep, CloseStep
<1> QED
  BY <1>3, <1>4, <1>5, <1>6, RequestStep(r) DEF RequestStep

-----------------------------------------------------------------------------
(* Who writes which table *)

CodesTyped == code \in UNION {[1 .. n -> {"active", "used", "replaced"}] : n \in 0 .. MaxCodes}
DeskTyped ==
  /\ marked \subseteq {"testing", "live"} /\ selected \subseteq Subs
  /\ site \in [saved : BOOLEAN, logos : SUBSET Subs]
  /\ form \in [picked : BOOLEAN, final : BOOLEAN, proof : BOOLEAN, mail : {"not_sent", "sent"}]
RestTyped ==
  /\ status \in [Kinds -> Statuses]
  /\ saved \in Mids \cup {None} /\ limits \subseteq Mids
  /\ api \in BOOLEAN /\ cleared \in BOOLEAN /\ told \in BOOLEAN
  /\ mails \subseteq CodeIds /\ arrived \in BOOLEAN /\ behind \subseteq Requests
  /\ track \in {"clear", "waiting", "delivered", "bounced"}

LEMMA CodeWriters ==
  ASSUME NEW r \in Requests, RequestStep(r)
  PROVE  GenerateCommit(r) \/ Consume(r) \/ UNCHANGED code
<1>1. CodeStep(r) \/ MidStep(r) => GenerateCommit(r) \/ UNCHANGED code
  BY DEF CodeStep, MidStep, GenerateBegin, GenerateLock, GenerateReplace, DetailsBegin,
     DetailsCommit, KeysBegin, KeysCommit, portal, keys, mail
<1>2. SendStep(r) => Consume(r) \/ UNCHANGED code
  BY DEF SendStep, SendBegin, SendRead, SendOut, SendFailed, MailByHand, Confirm, ConfirmRecord,
     SendRecord, portal, keys, mail
<1>3. DeskStep(r) \/ CloseStep(r) \/ RequestDies(r) => UNCHANGED code
  BY DEF DeskStep, CloseStep, RequestDies, MarkBegin, MarkCommit, SelectBegin, SelectCommit,
     SiteBegin, SiteCommit, FormBegin, FormCommit, ProofCommit, CloseBegin, CloseCommit, portal, keys, mail
<1> QED
  BY <1>1, <1>2, <1>3 DEF RequestStep

LEMMA DeskWriters ==
  ASSUME NEW r \in Requests, RequestStep(r)
  PROVE  \/ MarkCommit(r) \/ SelectCommit(r) \/ SiteCommit(r) \/ FormCommit(r) \/ ProofCommit(r)
         \/ UNCHANGED desk
<1>1. CodeStep(r) \/ MidStep(r) => UNCHANGED desk
  BY DEF CodeStep, MidStep, GenerateBegin, GenerateLock, GenerateReplace, GenerateCommit,
     DetailsBegin, DetailsCommit, KeysBegin, KeysCommit
<1>2. SendStep(r) => UNCHANGED desk
  BY DEF SendStep, SendBegin, SendRead, SendOut, SendFailed, MailByHand, Confirm, ConfirmRecord,
     SendRecord, Consume
<1>3. DeskStep(r) => \/ MarkCommit(r) \/ SelectCommit(r) \/ SiteCommit(r) \/ FormCommit(r)
                     \/ ProofCommit(r) \/ UNCHANGED desk
  BY DEF DeskStep, MarkBegin, SelectBegin, SiteBegin, FormBegin
<1>4. CloseStep(r) \/ RequestDies(r) => UNCHANGED desk
  BY DEF CloseStep, RequestDies, CloseBegin, CloseCommit
<1> QED
  BY <1>1, <1>2, <1>3, <1>4 DEF RequestStep

LEMMA RestWriters ==
  ASSUME NEW r \in Requests, RequestStep(r)
  PROVE  \/ DetailsCommit(r) \/ KeysCommit(r) \/ SendOut(r) \/ SendFailed(r) \/ MailByHand(r)
         \/ ConfirmRecord(r) \/ SendRecord(r) \/ CloseCommit(r) \/ RequestDies(r)
         \/ UNCHANGED <<status, saved, limits, keys, mail>>
<1>1. CodeStep(r) => UNCHANGED <<status, saved, limits, keys, mail>>
  BY DEF CodeStep, GenerateBegin, GenerateLock, GenerateReplace, GenerateCommit, portal, keys, mail
<1>2. MidStep(r) => DetailsCommit(r) \/ KeysCommit(r)
                    \/ UNCHANGED <<status, saved, limits, keys, mail>>
  BY DEF MidStep, DetailsBegin, KeysBegin, portal, keys, mail
<1>3. SendStep(r) => SendOut(r) \/ SendFailed(r) \/ MailByHand(r) \/ ConfirmRecord(r)
                     \/ SendRecord(r) \/ UNCHANGED <<status, saved, limits, keys, mail>>
  BY DEF SendStep, SendBegin, SendRead, Confirm, Consume, portal, keys, mail
<1>4. DeskStep(r) => UNCHANGED <<status, saved, limits, keys, mail>>
  BY DEF DeskStep, MarkBegin, MarkCommit, SelectBegin, SelectCommit, SiteBegin, SiteCommit,
     FormBegin, FormCommit, ProofCommit, portal, keys, mail
<1>5. CloseStep(r) => CloseCommit(r)
                      \/ UNCHANGED <<status, saved, limits, keys, mail>>
  BY DEF CloseStep, CloseBegin, portal, keys, mail
<1> QED
  BY <1>1, <1>2, <1>3, <1>4, <1>5 DEF RequestStep

LEMMA TypesKept ==
  ASSUME Types, NEW r \in Requests, RequestStep(r)
  PROVE  TypeOK'
<1>0. TypeOK /\ Carries(r) /\ Marks(r) /\ req[r] \in RequestSpace
  BY Moves DEF Types
<1>1. CodesTyped'
  <2>1. CASE GenerateCommit(r)
    <3>1. code \in Seq({"active", "used", "replaced"}) /\ Len(code) + 1 <= MaxCodes
      BY <2>1, CodeIs, CaseWorkAssumption DEF GenerateCommit, Types, Codes, Replaces
    <3> DEFINE old == [c \in DOMAIN code |-> IF c \in req[r].codes THEN "replaced" ELSE code[c]]
    <3>2. old \in Seq({"active", "used", "replaced"}) /\ Len(old) = Len(code)
      BY <3>1, CodeIs DEF Types
    <3>3. Append(old, "active") \in Seq({"active", "used", "replaced"})
          /\ Len(Append(old, "active")) <= MaxCodes
      BY <3>1, <3>2
    <3>4. Append(old, "active") \in
            UNION {[1 .. n -> {"active", "used", "replaced"}] : n \in 0 .. MaxCodes}
      BY <3>3, CodesWithin
    <3>5. code' \in {Append(old, "active"), code}
      BY <2>1 DEF GenerateCommit
    <3> QED
      BY <1>0, <3>4, <3>5 DEF TypeOK, CodesTyped
  <2>2. CASE Consume(r)
    <3>1. PICK n \in 0 .. MaxCodes : code \in [1 .. n -> {"active", "used", "replaced"}]
      BY <1>0 DEF TypeOK
    <3>2. code' \in [1 .. n -> {"active", "used", "replaced"}]
      BY <2>2, <3>1 DEF Consume
    <3> QED
      BY <3>2 DEF CodesTyped
  <2>3. CASE UNCHANGED code
    BY <1>0, <2>3 DEF TypeOK, CodesTyped
  <2> QED
    BY <2>1, <2>2, <2>3, CodeWriters
<1>2. DeskTyped'
  <2>1. DeskTyped
    BY <1>0 DEF TypeOK, DeskTyped
  <2>2. CASE MarkCommit(r)
    BY <1>0, <2>1, <2>2 DEF MarkCommit, Marks, DeskTyped
  <2>3. CASE SelectCommit(r)
    BY <1>0, <2>1, <2>3 DEF SelectCommit, DeskTyped, RequestSpace
  <2>4. CASE SiteCommit(r)
    BY <1>0, <2>1, <2>4 DEF SiteCommit, DeskTyped, RequestSpace
  <2>5. CASE FormCommit(r)
    <3>1. form' = [form EXCEPT !.picked = TRUE, !.mail = "not_sent", !.final = TRUE]
          \/ form' = [form EXCEPT !.picked = TRUE, !.mail = "not_sent", !.final = form.final]
      BY <2>5, <2>1 DEF FormCommit, DeskTyped
    <3> QED
      BY <2>1, <2>5, <3>1 DEF FormCommit, DeskTyped
  <2>6. CASE ProofCommit(r)
    BY <2>1, <2>6 DEF ProofCommit, DeskTyped
  <2>7. CASE UNCHANGED desk
    BY <2>1, <2>7 DEF DeskTyped, desk
  <2> QED
    BY <2>2, <2>3, <2>4, <2>5, <2>6, <2>7, DeskWriters
<1>3. RestTyped'
  <2>1. RestTyped
    BY <1>0 DEF TypeOK, RestTyped
  <2>2. CASE DetailsCommit(r) \/ KeysCommit(r) \/ ConfirmRecord(r) \/ SendRecord(r)
    BY <1>0, <2>1, <2>2 DEF DetailsCommit, KeysCommit, ConfirmRecord, SendRecord, RestTyped,
       RequestSpace, Ready, keys, mail
  <2>3. CASE SendOut(r) \/ SendFailed(r) \/ MailByHand(r)
    <3>1. mails' \subseteq CodeIds /\ behind' \subseteq Requests
      BY <1>0, <2>1, <2>3 DEF SendOut, SendFailed, MailByHand, Carries, RestTyped, Ready
    <3> QED
      BY <2>1, <2>3, <3>1 DEF SendOut, SendFailed, MailByHand, RestTyped, keys
  <2>4. CASE CloseCommit(r)
    <3>1. req[r].kind \in Kinds
      BY <1>0 DEF RequestSpace
    <3>2. CASE Ends(req[r].kind, "closed")
      BY <2>1, <2>4, <3>1, <3>2 DEF CloseCommit, Ends, RestTyped, Statuses, mail
    <3>3. CASE UNCHANGED <<status, keys>>
      BY <2>1, <2>4, <3>3 DEF CloseCommit, RestTyped, keys, mail
    <3> QED
      BY <2>4, <3>2, <3>3 DEF CloseCommit
  <2>5. CASE RequestDies(r)
    BY <2>1, <2>5 DEF RequestDies, RestTyped, keys
  <2>6. CASE UNCHANGED <<status, saved, limits, keys, mail>>
    BY <2>1, <2>6 DEF RestTyped, keys, mail
  <2> QED
    BY <2>2, <2>3, <2>4, <2>5, <2>6, RestWriters
<1> QED
  BY <1>1, <1>2, <1>3, ReqTyped DEF TypeOK, CodesTyped, DeskTyped, RestTyped, RequestSpace

LEMMA OtherTypes ==
  ASSUME TypeOK, OtherStep
  PROVE  TypeOK'
<1> USE DEF TypeOK, desk, portal, keys, mail, Statuses
<1>1. ASSUME NEW m \in Mids, ApplyLimits(m)
      PROVE  TypeOK'
  BY <1>1 DEF ApplyLimits
<1>2. CASE Inherit
  BY <1>2 DEF Inherit
<1>3. CASE Terminate
  BY <1>3 DEF Terminate
<1>4. ASSUME NEW k \in Kinds, Abandon(k)
      PROVE  TypeOK'
  BY <1>4 DEF Abandon, Ends
<1>5. CASE Delivered \/ Undelivered \/ ConfirmDelivery
  BY <1>5 DEF Delivered, Undelivered, ConfirmDelivery
<1>6. CASE CreateWordpress
  BY <1>6 DEF CreateWordpress, NoSite
<1> QED
  BY <1>1, <1>2, <1>3, <1>4, <1>5, <1>6 DEF OtherStep

-----------------------------------------------------------------------------
(* The codes *)

(* A step of a request leaves the others as they are.                       *)
LEMMA OthersKept ==
  ASSUME TypeOK, NEW r \in Requests, RequestStep(r)
  PROVE  /\ req' = [req EXCEPT ![r] = req'[r]]
         /\ \A s \in Requests \ {r} : req'[s] = req[s]
<1>1. PICK new : req' = [req EXCEPT ![r] = new]
  BY ReqKept
<1>2. req \in [Requests -> RequestSpace]
  BY Moves
<1> QED
  BY <1>1, <1>2

(* How a request gets to where it is.                                       *)
Arrivals(r) ==
  /\ req'[r].at = "locked"    => GenerateLock(r)
  /\ req'[r].at = "replacing" => GenerateReplace(r)
  /\ req'[r].at = "detailing" => \E m \in Mids : DetailsBegin(r, m)
  /\ req'[r].at \in {"ready", "previewed"} => SendRead(r)
  /\ req'[r].at = "mailed"    => MailByHand(r)
  /\ req'[r].at = "confirmed" => Confirm(r)
  /\ req'[r].at = "sent"      => SendOut(r)
  /\ req'[r].at = "recorded"  => ConfirmRecord(r) \/ SendRecord(r)
  /\ req'[r].at = "marking"   => \E k \in Kinds : MarkBegin(r, k)
  /\ req'[r].at = "selecting" => \E subs \in SUBSET Subs : SelectBegin(r, subs)
  /\ req'[r].at = "closing"   => \E k \in Kinds : CloseBegin(r, k)

(* A send that goes on has its code; the MID is not needed any more.        *)
LEMMA Reading ==
  ASSUME TypeOK, NEW r \in Requests, SendRead(r)
  PROVE  \/ req' = [req EXCEPT ![r] = Idle]
         \/ /\ req'[r].at \in {"ready", "previewed"}
            /\ req'[r].code \in Active /\ limits # {}
<1>1. req \in [Requests -> RequestSpace]
  BY Moves
<1>2. CASE req[r].mid \in limits /\ Active # {}
  <2>1. PICK c \in Active, at \in {"ready", "previewed"} :
          req' = [req EXCEPT ![r].at = at, ![r].code = c, ![r].mid = None]
    BY <1>2, SendRead(r) DEF SendRead
  <2>2. req'[r] = [req[r] EXCEPT !.at = at, !.code = c, !.mid = None]
    BY <1>1, <2>1
  <2>3. req'[r].at = at /\ req'[r].code = c
    BY <1>1, <2>2 DEF RequestSpace
  <2> QED
    BY <1>2, <2>1, <2>3
<1> QED
  BY <1>2, SendRead(r) DEF SendRead, Finish

LEMMA Arriving ==
  ASSUME TypeOK, NEW r \in Requests, RequestStep(r)
  PROVE  Arrivals(r)
<1>0. req \in [Requests -> RequestSpace]
  BY Moves
<1>1. \A at : Go(r, at) \/ Start(r, at) => req'[r].at = at
  BY <1>0 DEF Go, Start, RequestSpace
<1>2. Finish(r) => req'[r].at = "idle"
  BY <1>0 DEF Finish, Idle
<1>3. CASE CodeStep(r)
  <2>1. CASE GenerateReplace(r)
    BY <1>0, <2>1 DEF GenerateReplace, Arrivals, RequestSpace
  <2> QED
    BY <1>1, <1>2, <1>3, <2>1 DEF CodeStep, GenerateBegin, GenerateLock, GenerateCommit, Arrivals
<1>4. CASE MidStep(r)
  <2>1. ASSUME NEW m \in Mids, DetailsBegin(r, m)
        PROVE  Arrivals(r)
    BY <1>0, <2>1 DEF DetailsBegin, Arrivals, RequestSpace
  <2> QED
    BY <1>1, <1>2, <1>4, <2>1 DEF MidStep, DetailsCommit, KeysBegin, KeysCommit, Arrivals
<1>5. CASE SendStep(r)
  <2>1. ASSUME NEW at \in {"preparing", "previewing"}, SendBegin(r, at)
        PROVE  Arrivals(r)
    BY <1>0, <2>1 DEF SendBegin, Arrivals, RequestSpace
  <2>2. CASE SendRead(r)
    <3>1. req'[r].at \in {"ready", "previewed", "idle"}
      BY <1>2, <2>2, Reading DEF Finish
    <3> QED
      BY <2>2, <3>1 DEF Arrivals
  <2> QED
    BY <1>1, <1>2, <1>5, <2>1, <2>2 DEF SendStep, SendOut, SendFailed, MailByHand, Confirm,
       ConfirmRecord, SendRecord, Consume, Arrivals
<1>6. CASE DeskStep(r)
  <2>1. ASSUME NEW k \in Kinds, MarkBegin(r, k)
        PROVE  Arrivals(r)
    BY <1>0, <2>1 DEF MarkBegin, Arrivals, RequestSpace
  <2>2. ASSUME NEW subs \in SUBSET Subs, SelectBegin(r, subs)
        PROVE  Arrivals(r)
    BY <1>0, <2>2 DEF SelectBegin, Arrivals, RequestSpace
  <2>3. CASE SiteBegin(r)
    BY <1>0, <2>3 DEF SiteBegin, Arrivals, RequestSpace
  <2>4. ASSUME NEW at \in {"picking", "filing", "proving"}, FormBegin(r, at)
        PROVE  Arrivals(r)
    BY <1>1, <2>4 DEF FormBegin, Arrivals
  <2> QED
    BY <1>2, <1>6, <2>1, <2>2, <2>3, <2>4 DEF DeskStep, MarkCommit, SelectCommit, SiteCommit,
       FormCommit, ProofCommit, Arrivals
<1>7. CASE CloseStep(r) \/ RequestDies(r)
  <2>1. ASSUME NEW k \in Kinds, CloseBegin(r, k)
        PROVE  Arrivals(r)
    BY <1>0, <2>1 DEF CloseBegin, Arrivals, RequestSpace
  <2> QED
    BY <1>2, <1>7, <2>1 DEF CloseStep, CloseCommit, RequestDies, Arrivals
<1> QED
  BY <1>3, <1>4, <1>5, <1>6, <1>7 DEF RequestStep

LEMMA OneMakerKept ==
  ASSUME TypeOK, OneMaker, NEW r \in Requests, RequestStep(r)
  PROVE  OneMaker'
<1>1. Making(r)' => Making(r) \/ \A s \in Requests \ {r} : ~Making(s)
  BY Arriving DEF Arrivals, GenerateLock, GenerateReplace, MerchantFree, Making
<1>2. \A s \in Requests \ {r} : Making(s)' <=> Making(s)
  BY OthersKept DEF Making
<1> QED
  BY <1>1, <1>2 DEF OneMaker

(* The codes after a replacement that met no surprise.                      *)
LEMMA Replaced ==
  ASSUME Types, NEW r \in Requests, GenerateCommit(r)
  PROVE  /\ DOMAIN code \subseteq DOMAIN code' /\ DOMAIN code' = 1 .. Len(code) + 1
         /\ Active' = {Len(code) + 1}
         /\ \A c \in DOMAIN code' : code'[c] = "used" => c \in DOMAIN code /\ code[c] = "used"
<1>1. /\ code \in Seq({"active", "used", "replaced"}) /\ Len(code) \in Nat
      /\ DOMAIN code = 1 .. Len(code) /\ Active \subseteq req[r].codes
  BY CodeIs DEF Types, Codes, Replaces, GenerateCommit
<1> DEFINE old == [c \in DOMAIN code |-> IF c \in req[r].codes THEN "replaced" ELSE code[c]]
<1>2. old \in Seq({"active", "used", "replaced"}) /\ Len(old) = Len(code)
      /\ \A c \in DOMAIN code : old[c] # "active" /\ (old[c] = "used" => code[c] = "used")
  BY <1>1 DEF Active
<1>3. code' = Append(old, "active")
  BY <1>1 DEF GenerateCommit
<1> HIDE DEF old
<1>4. /\ DOMAIN code' = 1 .. Len(code) + 1 /\ code'[Len(code) + 1] = "active"
      /\ \A c \in 1 .. Len(code) : code'[c] = old[c]
  BY <1>1, <1>2, <1>3
<1> QED
  BY <1>1, <1>2, <1>4 DEF Active

LEMMA Consumed ==
  ASSUME TypeOK, NEW r \in Requests, Consume(r)
  PROVE  /\ DOMAIN code' = DOMAIN code /\ Len(code') = Len(code) /\ Active' \subseteq Active
         /\ \A c \in DOMAIN code : code'[c] = "used" => code[c] = "used" \/ c = req[r].code
<1>1. code \in Seq({"active", "used", "replaced"}) /\ DOMAIN code = 1 .. Len(code)
  BY CodeIs
<1> QED
  BY <1>1 DEF Consume, Active

LEMMA ReplacesKept ==
  ASSUME Types, NEW r \in Requests, RequestStep(r), NEW s \in Requests
  PROVE  Replaces(s)'
<1>0. TypeOK /\ Codes /\ Replaces(s) /\ Len(code) \in 0 .. MaxCodes
  BY CodeIs DEF Types, Codes
<1>1. CASE s = r
  <2>1. SUFFICES ASSUME req'[r].at = "replacing"
                 PROVE  Len(code') < MaxCodes /\ Active' \subseteq req'[r].codes
    BY <1>1 DEF Replaces
  <2>2. GenerateReplace(r)
    BY <1>0, <2>1, Arriving DEF Arrivals
  <2>3. req \in [Requests -> RequestSpace]
    BY <1>0, Moves
  <2>4. code' = code /\ req'[r].codes = Active /\ Len(code) < MaxCodes
    BY <2>2, <2>3 DEF GenerateReplace, portal, keys, mail, RequestSpace
  <2> QED
    BY <2>4 DEF Active
<1>2. CASE s # r
  <2>1. req'[s] = req[s]
    BY <1>0, <1>2, OthersKept
  <2>2. CASE GenerateCommit(r)
    BY <1>0, <1>2, <2>1, <2>2 DEF GenerateCommit, Replaces, Codes, OneMaker, Making
  <2>3. CASE Consume(r)
    BY <1>0, <2>1, <2>3, Consumed DEF Replaces
  <2>4. CASE UNCHANGED code
    BY <1>0, <2>1, <2>4 DEF Replaces, Active
  <2> QED
    BY <2>2, <2>3, <2>4, CodeWriters
<1> QED
  BY <1>1, <1>2

LEMMA Sending ==
  ASSUME NEW r \in Requests, RequestStep(r)
  PROVE  limits' = limits /\ mails \subseteq mails'
  BY RestWriters DEF DetailsCommit, KeysCommit, SendOut, SendFailed, MailByHand,
     ConfirmRecord, SendRecord, CloseCommit, RequestDies, keys, mail

LEMMA CarriesKept ==
  ASSUME Types, NEW r \in Requests, RequestStep(r), NEW s \in Requests
  PROVE  Carries(s)'
<1>0. TypeOK /\ Carries(s) /\ Arrivals(r) /\ Active \subseteq CodeIds /\ req \in [Requests -> RequestSpace]
  BY Arriving, CodeIs, Moves DEF Types
<1>1. limits' = limits /\ mails \subseteq mails'
  BY Sending
<1>2. CASE s # r
  BY <1>0, <1>1, <1>2, OthersKept DEF Carries
<1>3. CASE s = r
  <2>1. CASE req'[r].at \in {"ready", "previewed"}
    <3>1. req'[r].code \in Active /\ limits # {}
      BY <1>0, <2>1, Reading DEF Arrivals, Idle
    <3> QED
      BY <1>0, <1>1, <1>3, <2>1, <3>1 DEF Carries
  <2>2. CASE req'[r].at \in {"mailed", "confirmed", "sent", "recorded"}
    <3>1. MailByHand(r) \/ SendOut(r) \/ Confirm(r) \/ ConfirmRecord(r) \/ SendRecord(r)
      BY <1>0, <2>2 DEF Arrivals
    <3>2. req'[r].code = req[r].code
      BY <1>0, <2>2, <3>1 DEF MailByHand, SendOut, Confirm, ConfirmRecord, SendRecord, Go, Finish,
         Idle, RequestSpace
    <3>3. req[r].at \in {"ready", "previewed", "mailed", "confirmed", "sent", "recorded"}
      BY <3>1 DEF MailByHand, SendOut, Confirm, ConfirmRecord, SendRecord
    <3>4. req[r].code \in mails'
      BY <1>0, <1>1, <1>3, <3>1 DEF MailByHand, SendOut, Confirm, ConfirmRecord, SendRecord, Carries
    <3> QED
      BY <1>0, <1>1, <1>3, <3>2, <3>3, <3>4 DEF Carries
  <2> QED
    BY <1>3, <2>1, <2>2 DEF Carries
<1> QED
  BY <1>2, <1>3

LEMMA MarksKept ==
  ASSUME TypeOK, NEW r \in Requests, RequestStep(r), NEW s \in Requests, Marks(s)
  PROVE  Marks(s)'
<1>1. CASE s # r
  BY <1>1, OthersKept DEF Marks
<1>2. CASE s = r
  <2>1. SUFFICES ASSUME req'[r].at = "marking"
                 PROVE  req'[r].kind \in {"testing", "live"}
    BY <1>2 DEF Marks
  <2>2. req \in [Requests -> RequestSpace]
    BY Moves
  <2> QED
    <3>1. PICK k \in Kinds : MarkBegin(r, k)
      BY <2>1, Arriving DEF Arrivals
    <3> QED
      BY <2>2, <3>1 DEF MarkBegin, RequestSpace
<1> QED
  BY <1>1, <1>2

LEMMA OtherKept ==
  ASSUME Types, OtherStep
  PROVE  Types'
<1>1. TypeOK'
  BY OtherTypes DEF Types
<1>2. req' = req /\ code' = code /\ limits \subseteq limits' /\ mails' = mails
  BY DEF OtherStep, ApplyLimits, Inherit, Terminate, Abandon, Delivered, Undelivered,
     ConfirmDelivery, CreateWordpress, portal, mail
<1> QED
  BY <1>1, <1>2 DEF Types, Codes, OneMaker, Making, Replaces, Active, Carries, Marks

LEMMA TypesInvariant == Spec => []Types
<1>1. Init => Types
  <2> SUFFICES ASSUME Init
               PROVE  Types
    OBVIOUS
  <2>0. MaxCodes \in Nat
    BY CaseWorkAssumption
  <2>1. code \in [1 .. 0 -> {"active", "used", "replaced"}] /\ 0 \in 0 .. MaxCodes
    BY <2>0 DEF Init
  <2>2. status \in [Kinds -> Statuses]
    BY DEF Init, Statuses
  <2>3. Idle \in RequestSpace
    BY DEF Idle, RequestSpace, Phases, Kinds
  <2>4. CodesTyped
    BY <2>1 DEF CodesTyped
  <2>5. TypeOK
    <3>1. RestTyped
      BY <2>2 DEF Init, RestTyped
    <3>2. DeskTyped
      BY DEF Init, DeskTyped, NoSite
    <3>3. req \in [Requests -> RequestSpace]
      BY <2>3 DEF Init
    <3> QED
      BY <2>4, <3>1, <3>2, <3>3 DEF TypeOK, CodesTyped, DeskTyped, RestTyped, RequestSpace
  <2> QED
    BY <2>5 DEF Init, Types, Codes, OneMaker, Making, Replaces, Carries, Marks, Idle
<1>2. Types /\ [Next]_vars => Types'
  <2> SUFFICES ASSUME Types, [Next]_vars
               PROVE  Types'
    OBVIOUS
  <2>1. ASSUME NEW r \in Requests, RequestStep(r)
        PROVE  Types'
    <3>1. OneMaker'
      BY <2>1, OneMakerKept DEF Types, Codes
    <3> QED
      BY <2>1, <3>1, TypesKept, ReplacesKept, CarriesKept, MarksKept DEF Types, Codes
  <2>2. CASE OtherStep
    BY <2>2, OtherKept
  <2>3. CASE UNCHANGED vars
    BY <2>3 DEF vars, portal, keys, mail, desk, Types, TypeOK, Codes, OneMaker, Making, Replaces, Active,
       Carries, Marks
  <2> QED
    BY <2>1, <2>2, <2>3 DEF Next, RequestStep, OtherStep
<1> QED
  BY <1>1, <1>2, PTL DEF Spec

(* Every variable stays in its range; in particular no generation is begun  *)
(* that would exceed the bound on codes.                                    *)
THEOREM WorkStaysTyped == Spec => []TypeOK
<1>1. Types => TypeOK
  BY DEF Types
<1> QED
  BY <1>1, TypesInvariant, PTL

-----------------------------------------------------------------------------
(* One usable code, spent by a message that went out *)

Messages == Types /\ OneActive /\ SpentBy

LEMMA MessagesKept ==
  ASSUME Messages, NEW r \in Requests, RequestStep(r)
  PROVE  OneActive' /\ SpentBy'
<1>0. Types /\ OneActive /\ SpentBy /\ TypeOK /\ Carries(r)
  BY DEF Messages, Types
<1>1. mails \subseteq mails'
  BY Sending
<1>2. CASE GenerateCommit(r)
  <2>1. /\ Active' = {Len(code) + 1}
        /\ \A c \in DOMAIN code' : code'[c] = "used" => c \in DOMAIN code /\ code[c] = "used"
    BY <1>0, <1>2, Replaced
  <2>2. OneActive'
    BY <2>1 DEF OneActive
  <2>3. SpentBy'
    BY <1>0, <1>1, <2>1 DEF SpentBy
  <2> QED
    BY <2>2, <2>3
<1>3. CASE Consume(r)
  <2>1. /\ DOMAIN code' = DOMAIN code /\ Active' \subseteq Active
        /\ \A c \in DOMAIN code : code'[c] = "used" => code[c] = "used" \/ c = req[r].code
    BY <1>0, <1>3, Consumed
  <2>2. req[r].code \in mails
    BY <1>0, <1>3 DEF Consume, Carries
  <2>3. OneActive'
    BY <1>0, <2>1 DEF OneActive
  <2>4. SpentBy'
    BY <1>0, <1>1, <2>1, <2>2 DEF SpentBy
  <2> QED
    BY <2>3, <2>4
<1>4. CASE UNCHANGED code
  <2>1. Active' = Active
    BY <1>4 DEF Active
  <2> QED
    BY <1>0, <1>1, <1>4, <2>1 DEF OneActive, SpentBy
<1> QED
  BY <1>2, <1>3, <1>4, CodeWriters

LEMMA AtMostOne ==
  ASSUME OneActive
  PROVE  Cardinality(Active) <= 1
<1>1. CASE Active = {}
  BY <1>1, FS_EmptySet
<1>2. CASE Active # {}
  <2>1. PICK c \in Active : TRUE
    BY <1>2
  <2>2. Active = {c}
    BY <2>1 DEF OneActive
  <2> QED
    BY <2>2, FS_Singleton
<1> QED
  BY <1>1, <1>2

(* However generations, replacements and messages under way interleave, no  *)
(* replacement meets the unique index, one code at most is usable, and a    *)
(* code is spent only by a message that carried it and that the provider    *)
(* accepted or an owner sent by hand; not that it arrived                   *)
(* (portal-password-code.service.ts:129, mid-case.service.ts:308).          *)
THEOREM OneCodeOfTheMerchant == Spec => []OneCode
<1>1. Init /\ Types => Messages
  BY DEF Init, Messages, OneActive, SpentBy, Active
<1>2. Messages /\ Types' /\ [Next]_vars => Messages'
  <2> SUFFICES ASSUME Messages, [Next]_vars
               PROVE  OneActive' /\ SpentBy'
    BY DEF Messages
  <2>1. ASSUME NEW r \in Requests, RequestStep(r)
        PROVE  OneActive' /\ SpentBy'
    BY <2>1, MessagesKept
  <2>2. ASSUME UNCHANGED <<code, mails>>
        PROVE  OneActive' /\ SpentBy'
    BY <2>2 DEF Messages, OneActive, SpentBy, Active
  <2>3. OtherStep \/ UNCHANGED vars => UNCHANGED <<code, mails>>
    BY DEF OtherStep, ApplyLimits, Inherit, Terminate, Abandon, Delivered, Undelivered,
       ConfirmDelivery, CreateWordpress, vars, portal, mail
  <2> QED
    BY <2>1, <2>2, <2>3 DEF Next, RequestStep, OtherStep
<1>3. Messages => OneCode
  BY AtMostOne DEF Messages, OneCode, Types, Codes, Replaces, SpentBy
<1> QED
  BY <1>1, <1>2, <1>3, TypesInvariant, PTL DEF Spec

-----------------------------------------------------------------------------
(* What the gates asked for *)

Kept == Types /\ Heard /\ Work

(* What one step may do to the statuses and to the API credentials.         *)
LEMMA Endings ==
  ASSUME TypeOK, Next, NEW k \in Kinds
  PROVE  /\ Closed(k)' =>
              \/ Closed(k)
              \/ \E r \in Requests : /\ CloseCommit(r) /\ req[r].kind = k
                                     /\ k = "testing" => track \in {"clear", "delivered"}
         /\ api \/ cleared => api' \/ cleared'
<1>0. status \in [Kinds -> Statuses] /\ "wordpress" \in Kinds
  BY DEF TypeOK, Kinds
<1> USE DEF Working, Closed, Ends
<1>1. ASSUME NEW r \in Requests, CloseCommit(r)
      PROVE  /\ status'[k] = "closed" =>
                  \/ status[k] = "closed"
                  \/ req[r].kind = k /\ (k = "testing" => track \in {"clear", "delivered"})
             /\ api \/ cleared => api' \/ cleared'
  BY <1>0, <1>1 DEF CloseCommit, keys
<1>2. ASSUME NEW r \in Requests, RequestStep(r), ~CloseCommit(r)
      PROVE  status' = status /\ (api \/ cleared => api' \/ cleared')
  BY <1>2, RestWriters DEF DetailsCommit, KeysCommit, SendOut, SendFailed, MailByHand,
     ConfirmRecord, SendRecord, RequestDies, keys
<1>3. ASSUME NEW x \in Kinds, Abandon(x)
      PROVE  /\ status'[k] = "closed" => status[k] = "closed"
             /\ api \/ cleared => api' \/ cleared'
  BY <1>0, <1>3 DEF Abandon
<1>4. CASE Terminate
  BY <1>0, <1>4 DEF Terminate
<1>5. CASE CreateWordpress
  BY <1>0, <1>5 DEF CreateWordpress, portal, keys
<1>6. CASE Inherit \/ Delivered \/ Undelivered \/ ConfirmDelivery \/ \E m \in Mids : ApplyLimits(m)
  BY <1>6 DEF Inherit, Delivered, Undelivered, ConfirmDelivery, ApplyLimits, portal, keys
<1> QED
  BY <1>1, <1>2, <1>3, <1>4, <1>5, <1>6 DEF Next, RequestStep

(* No step takes back what a gate may ask for, but another WordPress case   *)
(* starts anew.                                                             *)
NothingLost ==
  /\ selected # {} => selected' # {}
  /\ form.picked => form'.picked
  /\ form.final => form'.final
  /\ form'.final => form'.picked \/ form.final
  /\ form.proof => form'.proof
  /\ saved # None => saved' # None
  /\ code # <<>> => code' # <<>>
  /\ told => told'
  /\ arrived => arrived'
  /\ marked \subseteq marked'
  /\ site.saved => site'.saved \/ CreateWordpress

LEMMA DeskKeeps ==
  ASSUME Kept, NEW r \in Requests, RequestStep(r)
  PROVE  /\ selected # {} => selected' # {}
         /\ form.picked => form'.picked
         /\ form.final => form'.final
         /\ form'.final => form'.picked \/ form.final
         /\ form.proof => form'.proof
         /\ marked \subseteq marked' /\ (site.saved => site'.saved)
<1>0. Found(r) /\ DeskTyped
  BY DEF Kept, Work, Types, TypeOK, DeskTyped
<1>1. CASE MarkCommit(r) \/ SiteCommit(r)
  BY <1>0, <1>1 DEF MarkCommit, SiteCommit, DeskTyped
<1>2. CASE SelectCommit(r)
  BY <1>0, <1>2 DEF SelectCommit, Found
<1>3. CASE FormCommit(r)
  <2>1. PICK b \in BOOLEAN : /\ form.final => b
                             /\ form' = [form EXCEPT !.picked = TRUE, !.mail = "not_sent",
                                                     !.final = b]
    BY <1>0, <1>3 DEF FormCommit, DeskTyped
  <2> QED
    BY <1>0, <1>3, <2>1 DEF FormCommit, DeskTyped
<1>4. CASE ProofCommit(r)
  BY <1>0, <1>4 DEF ProofCommit, DeskTyped
<1>5. CASE UNCHANGED desk
  BY <1>5 DEF desk
<1> QED
  BY <1>1, <1>2, <1>3, <1>4, <1>5, DeskWriters

LEMMA CodesRemain ==
  ASSUME Types, NEW r \in Requests, RequestStep(r), code # <<>>
  PROVE  code' # <<>>
<1>1. code \in Seq({"active", "used", "replaced"}) /\ DOMAIN code = 1 .. Len(code)
  BY CodeIs DEF Types
<1>2. DOMAIN code \subseteq DOMAIN code'
  BY Replaced, Consumed, CodeWriters DEF Types
<1> QED
  BY <1>1, <1>2

LEMMA NoneLost ==
  ASSUME Kept, Next
  PROVE  NothingLost
<1>1. ASSUME NEW r \in Requests, RequestStep(r)
      PROVE  NothingLost
  <2>1. Types /\ Found(r)
    BY DEF Kept, Work
  <2>2. (saved # None => saved' # None) /\ (told => told') /\ (arrived => arrived')
    BY <1>1, <2>1, RestWriters DEF DetailsCommit, KeysCommit, SendOut, SendFailed, MailByHand,
       ConfirmRecord, SendRecord, CloseCommit, RequestDies, mail, Found
  <2> QED
    BY <1>1, <2>1, <2>2, DeskKeeps, CodesRemain DEF NothingLost
<1>2. CASE Inherit
  BY <1>2 DEF Inherit, NothingLost, Kept, Types, TypeOK, portal, mail
<1>3. CASE Terminate \/ (\E k \in Kinds : Abandon(k)) \/ (\E m \in Mids : ApplyLimits(m))
  BY <1>3 DEF Terminate, Abandon, ApplyLimits, desk, mail, NothingLost, Kept, Work, Lasting
<1>4. CASE Delivered \/ Undelivered \/ ConfirmDelivery
  BY <1>4 DEF Delivered, Undelivered, ConfirmDelivery, desk, NothingLost, Kept, Work, Lasting
<1>5. CASE CreateWordpress
  <2>1. UNCHANGED <<portal, marked, selected, form>>
    BY <1>5 DEF CreateWordpress
  <2> QED
    BY <1>5, <2>1 DEF portal, mail, NothingLost, Kept, Work, Lasting
<1> QED
  BY <1>1, <1>2, <1>3, <1>4, <1>5 DEF Next, RequestStep

LEMMA EarnedStays ==
  ASSUME Kept, Next, NEW k \in Kinds, Earned(k), k = "wordpress" => (site.saved => site'.saved)
  PROVE  Earned(k)'
<1>1. api \/ cleared => api' \/ cleared'
  BY Endings DEF Kept, Types, Kinds
<1> QED
  BY <1>1, NoneLost DEF NothingLost, Earned

LEMMA FoundKept ==
  ASSUME Kept, Next, NEW r \in Requests, RequestStep(r), NEW s \in Requests
  PROVE  Found(s)'
<1>0. /\ TypeOK /\ Found(s) /\ NothingLost /\ req \in [Requests -> RequestSpace] /\ Arrivals(r)
      /\ site.saved => site'.saved
  BY NoneLost, Moves, Arriving, DeskKeeps DEF Kept, Work, Types
<1>1. CASE s # r
  <2>1. req'[s] = req[s] /\ req[s].kind \in Kinds
    BY <1>0, <1>1, OthersKept DEF RequestSpace
  <2> QED
    BY <1>0, <2>1, EarnedStays DEF Found, NothingLost
<1>2. CASE s = r
  <2>1. CASE req'[r].at = "selecting"
    <3>1. PICK subs \in SUBSET Subs : SelectBegin(r, subs)
      BY <1>0, <2>1 DEF Arrivals
    <3> QED
      BY <1>0, <1>2, <2>1, <3>1 DEF SelectBegin, Found, RequestSpace
  <2>2. CASE req'[r].at = "detailing"
    <3>1. PICK m \in Mids : DetailsBegin(r, m)
      BY <1>0, <2>2 DEF Arrivals
    <3>2. req'[r].mid = m /\ m # None /\ code # <<>>
      BY <1>0, <3>1, CaseWorkAssumption DEF DetailsBegin, RequestSpace, Unreplaced
    <3> QED
      BY <1>0, <1>2, <2>2, <3>2 DEF Found, NothingLost
  <2>3. CASE req'[r].at = "closing"
    <3>1. PICK k \in Kinds : CloseBegin(r, k)
      BY <1>0, <2>3 DEF Arrivals
    <3>2. Earned(k)
      BY <3>1 DEF CloseBegin, Gate, Earned, Kinds
    <3>3. Earned(k)' /\ req'[r].kind = k
      BY <1>0, <3>1, <3>2, EarnedStays DEF CloseBegin, RequestSpace
    <3> QED
      BY <1>2, <2>3, <3>3 DEF Found
  <2> QED
    BY <1>2, <2>1, <2>2, <2>3 DEF Found
<1> QED
  BY <1>1, <1>2

(* Another WordPress case begins when none is closing, and is not closed.   *)
LEMMA Anew ==
  ASSUME Kept, Next, CreateWordpress
  PROVE  /\ ~Closed("wordpress")'
         /\ \A s \in Requests : Found(s)'
<1>0. /\ status \in [Kinds -> Statuses] /\ "wordpress" \in Kinds
      /\ req' = req /\ NothingLost
  BY NoneLost DEF Kept, Types, TypeOK, Kinds, CreateWordpress
<1>1. ~Closed("wordpress")'
  BY <1>0 DEF CreateWordpress, Closed
<1>2. ASSUME NEW s \in Requests
      PROVE  Found(s)'
  <2>1. /\ Found(s) /\ req'[s] = req[s] /\ req[s].kind \in Kinds
        /\ req[s].at = "closing" => req[s].kind # "wordpress"
    BY <1>0 DEF Kept, Work, Types, TypeOK, CreateWordpress
  <2> QED
    BY <1>0, <2>1, EarnedStays DEF Found, NothingLost
<1> QED
  BY <1>1, <1>2

LEMMA LastingKept ==
  ASSUME Kept, Next
  PROVE  Lasting'
<1>0. TypeOK /\ Types /\ NothingLost /\ Lasting /\ Heard
  BY NoneLost DEF Kept, Work, Types
<1>1. saved' # None => code' # <<>>
  <2>1. CASE \E r \in Requests : DetailsCommit(r)
    BY <1>0, <2>1 DEF DetailsCommit, Kept, Work, Found
  <2>2. ASSUME NEW r \in Requests, RequestStep(r), ~DetailsCommit(r)
        PROVE  saved' = saved
    BY <2>2, RestWriters DEF KeysCommit, SendOut, SendFailed, MailByHand, ConfirmRecord,
       SendRecord, CloseCommit, RequestDies
  <2>3. CASE OtherStep
    BY <1>0, <2>3 DEF OtherStep, ApplyLimits, Inherit, Terminate, Abandon, Delivered, Undelivered,
       ConfirmDelivery, CreateWordpress, portal, Lasting
  <2> QED
    BY <1>0, <2>1, <2>2, <2>3 DEF Next, RequestStep, OtherStep, Lasting, NothingLost
<1>2. form'.final => form'.picked
  BY <1>0 DEF NothingLost, Lasting
<1>3. ASSUME NEW k \in Kinds, Closed(k)'
      PROVE  Earned(k)'
  <2>1. Earned(k)
    BY <1>0, <1>3, Endings DEF Lasting, Kept, Work, Found, CloseCommit
  <2>2. k = "wordpress" => (site.saved => site'.saved)
    BY <1>0, <1>3, Anew DEF NothingLost
  <2> QED
    BY <2>1, <2>2, EarnedStays
<1>4. Closed("testing")' => arrived'
  <2>1. SUFFICES ASSUME Closed("testing")', ~Closed("testing")
                 PROVE  arrived
    BY <1>0 DEF NothingLost, Lasting
  <2>2. PICK r \in Requests : /\ CloseCommit(r) /\ req[r].kind = "testing"
                              /\ track \in {"clear", "delivered"}
    BY <1>0, <2>1, Endings DEF Kinds
  <2>3. told
    BY <2>2 DEF CloseCommit, Kept, Work, Found, Earned
  <2> QED
    BY <1>0, <2>2, <2>3 DEF Heard, Sent
<1> QED
  BY <1>1, <1>2, <1>3, <1>4 DEF Lasting

(* The sends and their events keep what is known of the latest message.     *)
LEMMA HeardKept ==
  ASSUME Kept, NEW r \in Requests, RequestStep(r)
  PROVE  Heard'
<1>0. /\ Heard /\ TypeOK /\ Arrivals(r) /\ limits' = limits /\ Carries(r)
      /\ \A s \in Requests \ {r} : req'[s] = req[s]
      /\ \A s \in Requests : Carries(s)
  BY Arriving, Sending, OthersKept DEF Kept, Types
<1>1. ASSUME told' => told, behind' \subseteq behind, UNCHANGED <<track, arrived>>, ~SendOut(r)
      PROVE  Heard'
  <2>1. \A s \in Requests : req'[s].at = "sent" => req[s].at = "sent"
    BY <1>0, <1>1 DEF Arrivals
  <2>2. Sent' => Sent
    BY <1>1, <2>1 DEF Sent
  <2>3. behind' # {} => behind # {}
    BY <1>1
  <2> QED
    BY <1>0, <1>1, <2>2, <2>3 DEF Heard
<1>2. CASE SendOut(r)
  <2>0. limits # {}
    BY <1>0, <1>2 DEF SendOut, Carries
  <2>1. CASE r \in behind
    <3>1. UNCHANGED <<track, arrived>>
      BY <1>2, <2>1 DEF SendOut
    <3> QED
      BY <1>0, <2>0, <2>1, <3>1 DEF Heard, Sent
  <2>2. CASE r \notin behind
    <3>1. track' = "waiting"
      BY <1>2, <2>2 DEF SendOut
    <3> QED
      BY <1>0, <2>0, <3>1 DEF Heard
  <2> QED
    BY <2>1, <2>2
<1>3. CASE SendRecord(r)
  <2>1. req[r].at = "sent" /\ UNCHANGED <<track, arrived, behind>>
    BY <1>3 DEF SendRecord
  <2> QED
    BY <1>0, <2>1 DEF Heard, Sent
<1>4. CASE ConfirmRecord(r)
  <2>1. limits # {} /\ arrived'
    BY <1>0, <1>4 DEF ConfirmRecord, Carries
  <2> QED
    BY <1>0, <2>1 DEF Heard
<1>5. CASE SendFailed(r) \/ MailByHand(r) \/ RequestDies(r)
  <2>1. (told' => told) /\ behind' \subseteq behind /\ UNCHANGED <<track, arrived>>
    BY <1>5 DEF SendFailed, MailByHand, RequestDies
  <2> QED
    BY <1>1, <1>2, <2>1
<1>6. CASE DetailsCommit(r) \/ KeysCommit(r) \/ CloseCommit(r)
           \/ UNCHANGED <<status, saved, limits, keys, mail>>
  <2>1. UNCHANGED mail
    BY <1>6 DEF DetailsCommit, KeysCommit, CloseCommit
  <2> QED
    BY <1>1, <1>2, <2>1 DEF mail
<1> QED
  BY <1>2, <1>3, <1>4, <1>5, <1>6, RestWriters

LEMMA EventsKept ==
  ASSUME Kept, OtherStep
  PROVE  Heard'
<1>0. Heard /\ req' = req /\ limits \subseteq limits' /\ TypeOK
  BY DEF Kept, Types, OtherStep, ApplyLimits, Inherit, Terminate, Abandon, Delivered, Undelivered,
     ConfirmDelivery, CreateWordpress, portal
<1>1. CASE Delivered \/ ConfirmDelivery
  <2>1. limits # {} /\ arrived' /\ limits' = limits
    BY <1>0, <1>1 DEF Delivered, ConfirmDelivery, Heard
  <2> QED
    BY <2>1 DEF Heard
<1>2. CASE Undelivered
  <2>1. track # "clear" /\ track' = "bounced" /\ limits' = limits
    BY <1>2 DEF Undelivered
  <2> QED
    BY <1>0, <2>1 DEF Heard
<1>3. CASE UNCHANGED mail
  <2>1. UNCHANGED <<track, arrived, behind, told>>
    BY <1>3 DEF mail
  <2> QED
    BY <1>0, <2>1 DEF Heard, Sent
<1>4. Inherit \/ Terminate \/ CreateWordpress \/ (\E k \in Kinds : Abandon(k))
      \/ (\E m \in Mids : ApplyLimits(m)) => UNCHANGED mail
  BY DEF Inherit, Terminate, CreateWordpress, Abandon, ApplyLimits, portal
<1> QED
  BY <1>1, <1>2, <1>3, <1>4 DEF OtherStep

(* What a close gate asked for is still there once the case is closed: the  *)
(* account is known to have arrived, whatever bounced or overtook it, the   *)
(* API credentials stay until a WordPress case ends or the merchant is      *)
(* terminated, and nothing of the desk is taken back between the gate and   *)
(* the close (case-stage.service.ts:227, case-transition.service.ts:254).   *)
THEOREM ClosedCasesKeepTheirWork == Spec => []ClosedWithItsWork
<1>1. Init /\ Types => Kept
  <2> SUFFICES ASSUME Init, Types
               PROVE  Heard /\ Work
    BY DEF Kept
  <2>1. Heard
    BY DEF Init, Heard, Sent, Idle
  <2>2. \A k \in Kinds : ~Closed(k)
    BY DEF Init, Closed
  <2>3. ~Closed("testing")
    BY <2>2 DEF Kinds
  <2>4. saved = None /\ ~form.final
    BY DEF Init
  <2>5. \A r \in Requests : req[r].at = "idle"
    BY DEF Init, Idle
  <2>6. \A r \in Requests : Found(r)
    BY <2>5 DEF Found
  <2> QED
    BY <2>1, <2>2, <2>3, <2>4, <2>6 DEF Work, Lasting
<1>2. Kept /\ Types' /\ [Next]_vars => Kept'
  <2> SUFFICES ASSUME Kept, Types', [Next]_vars
               PROVE  Heard' /\ Lasting' /\ \A s \in Requests : Found(s)'
    BY DEF Kept, Work
  <2>1. ASSUME NEW r \in Requests, RequestStep(r), Next
        PROVE  Heard' /\ Lasting' /\ \A s \in Requests : Found(s)'
    BY <2>1, HeardKept, LastingKept, FoundKept
  <2>2. CASE OtherStep /\ Next
    <3>1. \A s \in Requests : Found(s)'
      <4>1. CASE CreateWordpress
        BY <2>2, <4>1, Anew
      <4>2. CASE ~CreateWordpress
        <5> SUFFICES ASSUME NEW s \in Requests
                     PROVE  Found(s)'
          OBVIOUS
        <5>1. req[s].kind \in Kinds /\ Found(s) /\ NothingLost
          BY <2>2, NoneLost DEF Kept, Work, Types, TypeOK
        <5>2. req'[s] = req[s]
          BY <2>2, ReqKept DEF Kept, Types
        <5> QED
          BY <2>2, <4>2, <5>1, <5>2, EarnedStays DEF Found, NothingLost
      <4> QED
        BY <4>1, <4>2
    <3> QED
      BY <2>2, <3>1, LastingKept, EventsKept
  <2>3. CASE UNCHANGED vars
    BY <2>3 DEF vars, portal, keys, mail, desk, Kept, Heard, Sent, Work, Lasting, Found, Earned, Closed
  <2> QED
    BY <2>1, <2>2, <2>3 DEF Next, RequestStep, OtherStep
<1>3. Kept => ClosedWithItsWork
  BY DEF Kept, Heard, Work, Lasting, Earned, ClosedWithItsWork, Kinds
<1> QED
  BY <1>1, <1>2, <1>3, TypesInvariant, PTL DEF Spec
=============================================================================
