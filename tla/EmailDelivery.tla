--------------------------- MODULE EmailDelivery ---------------------------
(***************************************************************************)
(* The emails of one case and what the provider tells about them           *)
(* (src/modules/email, src/modules/cases/case-email-delivery.ts): a send   *)
(* call, webhook events and status checks write the same email_log row in  *)
(* any order, and the row decides whether the case may close.              *)
(*                                                                         *)
(* Webhooks are configured, so every email is tracked, and events carry    *)
(* the email_log id.  An event whose row is not found is answered with 503 *)
(* and comes again: it is no step here.                                    *)
(***************************************************************************)
EXTENDS Naturals, FiniteSets

CONSTANTS
  Senders,    \* requests that are about to send an email
  Handlers,   \* webhook requests and status checks in flight
  MaxEmails,  \* bound: emails sent
  MaxFaults,  \* bound: processes and database calls that fail
  Reports,    \* bound: what the provider may report of each email
  TimesOut    \* whether the send call may fail although the email was accepted

ASSUME EmailDeliveryAssumption ==
  MaxEmails \in Nat /\ MaxFaults \in Nat /\ TimesOut \in BOOLEAN

Emails == 1..MaxEmails              \* in the order of email_log.created_at

InFlight    == {"queued", "sent", "delivery_delayed"}
Undelivered == {"bounced", "complained", "suppressed", "failed"}
Statuses    == InFlight \cup Undelivered \cup {"delivered"}

(* Statuses Resend reports for the whole email although one address failed. *)
RecipientFailures == {"bounced", "complained", "suppressed"}

VARIABLES
  case,       \* cases.status
  checked,    \* senders that saw the case working
  inserted,   \* email_log rows
  log,        \* email_log: status, whether resend_id is set, whether it has a CC
  send,       \* what the sendEmail call of each row is doing
  provider,   \* Resend's last_event
  pending,    \* events Resend repeats until the webhook answers with 200
  handler,    \* what each handler is doing
  recorded,   \* email_undelivered entries of the case history
  confirmed,  \* email_delivery_confirmed entries
  manual,     \* rows older than the last manual send
  faults

vars == <<case, checked, inserted, log, send, provider, pending, handler,
          recorded, confirmed, manual, faults>>

Row   == [status : Statuses, id : BOOLEAN, cc : BOOLEAN]
Event == Emails \X Statuses

Handler ==
  [pc : {"idle", "asked", "recording"}, email : Emails \cup {0}, status : Statuses,
   hook : BOOLEAN]

IdleHandler == [pc |-> "idle", email |-> 0, status |-> "queued", hook |-> FALSE]

TypeOK ==
  /\ case \in {"working", "closed"}
  /\ checked \subseteq Senders
  /\ inserted \in 0..MaxEmails
  /\ log \in [Emails -> Row]
  /\ send \in [Emails -> {"none", "calling", "accepted", "threw", "sent", "failed", "dead"}]
  /\ provider \in [Emails -> Statuses \cup {"none"}]
  /\ pending \subseteq Event
  /\ handler \in [Handlers -> Handler]
  /\ recorded \in [Event -> Nat]
  /\ confirmed \subseteq Emails
  /\ manual \in 0..MaxEmails
  /\ faults \in 0..MaxFaults

Init ==
  /\ case = "working"
  /\ checked = {} /\ inserted = 0
  /\ log = [e \in Emails |-> [status |-> "queued", id |-> FALSE, cc |-> FALSE]]
  /\ send = [e \in Emails |-> "none"]
  /\ provider = [e \in Emails |-> "none"]
  /\ pending = {}
  /\ handler = [h \in Handlers |-> IdleHandler]
  /\ recorded = [x \in Event |-> 0]
  /\ confirmed = {} /\ manual = 0 /\ faults = 0

caseVars == <<case, confirmed, manual>>
hookVars == <<handler, recorded>>

-----------------------------------------------------------------------------
(* Sending: the callers check the case, then call sendEmail or record that  *)
(* the owner sent the message himself.                                      *)

BeginSend(s) ==
  /\ case = "working"
  /\ s \notin checked
  /\ checked' = checked \cup {s}
  /\ UNCHANGED <<caseVars, inserted, log, send, provider, pending, hookVars, faults>>

InsertRow(s, cc) ==
  /\ s \in checked
  /\ inserted < MaxEmails
  /\ checked' = checked \ {s}
  /\ inserted' = inserted + 1
  /\ log' = [log EXCEPT ![inserted + 1].cc = cc]
  /\ send' = [send EXCEPT ![inserted + 1] = "calling"]
  /\ UNCHANGED <<caseVars, provider, pending, hookVars, faults>>

(* A Gmail or WhatsApp message, recorded in the case history. *)
SendManually(s) ==
  /\ s \in checked
  /\ checked' = checked \ {s}
  /\ manual' = inserted
  /\ UNCHANGED <<case, confirmed, inserted, log, send, provider, pending, hookVars, faults>>

(* Mutant: the provider's word for the error is taken for a status. *)
RejectVerbatim(e) ==
  /\ send[e] = "calling"
  /\ log' = [log EXCEPT ![e].status = "validation_error"]
  /\ send' = [send EXCEPT ![e] = "failed"]
  /\ UNCHANGED <<caseVars, checked, inserted, provider, pending, hookVars, faults>>

(* Resend refuses the email, or it cannot be rendered: markFailed. *)
Reject(e) ==
  /\ send[e] = "calling"
  /\ log' = [log EXCEPT ![e].status = "failed"]
  /\ send' = [send EXCEPT ![e] = "failed"]
  /\ UNCHANGED <<caseVars, checked, inserted, provider, pending, hookVars, faults>>

(* Resend accepts the email; the caller may see a timeout all the same. *)
Accept(e, heard) ==
  /\ send[e] = "calling"
  /\ heard \/ TimesOut
  /\ provider' = [provider EXCEPT ![e] = "sent"]
  /\ pending' = pending \cup {<<e, "sent">>}
  /\ send' = [send EXCEPT ![e] = IF heard THEN "accepted" ELSE "threw"]
  /\ UNCHANGED <<caseVars, checked, inserted, log, hookVars, faults>>

(* Mutant: the answer of the send call is the newest status. *)
StoreSent(e) ==
  /\ send[e] = "accepted"
  /\ log' = [log EXCEPT ![e].id = TRUE, ![e].status = "sent"]
  /\ send' = [send EXCEPT ![e] = "sent"]
  /\ UNCHANGED <<caseVars, checked, inserted, provider, pending, hookVars, faults>>

(* Only a row that is still queued becomes sent. *)
Store(e) ==
  /\ send[e] = "accepted"
  /\ log' = [log EXCEPT ![e].id = TRUE,
                        ![e].status = IF @ = "queued" THEN "sent" ELSE @]
  /\ send' = [send EXCEPT ![e] = "sent"]
  /\ UNCHANGED <<caseVars, checked, inserted, provider, pending, hookVars, faults>>

(* markFailed after an exception looks at nothing. *)
MarkFailed(e) ==
  /\ send[e] = "threw"
  /\ log' = [log EXCEPT ![e].status = "failed"]
  /\ send' = [send EXCEPT ![e] = "failed"]
  /\ UNCHANGED <<caseVars, checked, inserted, provider, pending, hookVars, faults>>

SenderDies(e) ==
  /\ send[e] \in {"calling", "accepted", "threw"}
  /\ faults < MaxFaults
  /\ faults' = faults + 1
  /\ send' = [send EXCEPT ![e] = "dead"]
  /\ UNCHANGED <<caseVars, checked, inserted, log, provider, pending, hookVars>>

-----------------------------------------------------------------------------
(* The provider *)

After ==
  [s \in Statuses |->
     CASE s = "sent" -> {"delivery_delayed", "delivered", "bounced", "suppressed", "failed"}
       [] s = "delivery_delayed" -> {"delivered", "bounced", "failed"}
       [] s = "delivered" -> {"bounced", "complained"}
       [] OTHER -> {}]

Provide(e, s) ==
  /\ provider[e] # "none" /\ s \in After[provider[e]] \cap Reports[e]
  /\ provider' = [provider EXCEPT ![e] = s]
  /\ pending' = pending \cup {<<e, s>>}
  /\ UNCHANGED <<caseVars, checked, inserted, log, send, hookVars, faults>>

-----------------------------------------------------------------------------
(* Status updates: applyEmailDeliveryStatus *)

(* Mutant: an asynchronous bounce comes too late. *)
ReplacesInFlight(s) ==
  CASE s = "queued" -> {}
    [] s = "sent" -> {"queued"}
    [] s = "delivery_delayed" -> {"queued", "sent"}
    [] s \in {"delivered", "failed", "suppressed", "bounced"} -> InFlight
    [] s = "complained" -> Statuses \ {"complained"}

Replaces(s) ==
  CASE s = "queued" -> {}
    [] s = "sent" -> {"queued"}
    [] s = "delivery_delayed" -> {"queued", "sent"}
    [] s \in {"delivered", "failed", "suppressed"} -> InFlight
    [] s = "bounced" -> InFlight \cup {"delivered"}
    [] s = "complained" -> Statuses \ {"complained"}

(* An update that changes the row ends in the case history if the email did *)
(* not get through; a webhook is acknowledged when all of it is done.       *)
Apply(h, e, s, hook) ==
  LET updates == log[e].status \in Replaces(s)
      records == updates /\ s \in Undelivered
  IN /\ log' = IF updates THEN [log EXCEPT ![e].status = s, ![e].id = TRUE] ELSE log
     /\ handler' = [handler EXCEPT ![h] =
          IF records THEN [pc |-> "recording", email |-> e, status |-> s, hook |-> hook]
          ELSE IdleHandler]
     /\ pending' = IF hook /\ ~records THEN pending \ {<<e, s>>} ELSE pending
     /\ UNCHANGED <<caseVars, checked, inserted, send, provider, recorded, faults>>

(* handleResendWebhookEvent: events come in any order, and again until they *)
(* are acknowledged.                                                        *)
Webhook(h, e, s) ==
  /\ handler[h].pc = "idle"
  /\ <<e, s>> \in pending
  /\ Apply(h, e, s, TRUE)

(* recordUndeliveredCaseEmail *)
Record(h) ==
  LET x == <<handler[h].email, handler[h].status>>
  IN /\ handler[h].pc = "recording"
     /\ recorded' = [recorded EXCEPT ![x] = @ + 1]
     /\ handler' = [handler EXCEPT ![h] = IdleHandler]
     /\ pending' = IF handler[h].hook THEN pending \ {x} ELSE pending
     /\ UNCHANGED <<caseVars, checked, inserted, log, send, provider, faults>>

(* The history cannot be written, or the process dies: 500. *)
RecordFails(h) ==
  /\ handler[h].pc = "recording"
  /\ faults < MaxFaults
  /\ faults' = faults + 1
  /\ handler' = [handler EXCEPT ![h] = IdleHandler]
  /\ UNCHANGED <<caseVars, checked, inserted, log, send, provider, pending, recorded>>

-----------------------------------------------------------------------------
(* The latest email the provider knows, 0 if there is none. *)
Known  == {e \in Emails : e <= inserted /\ log[e].id}
Latest == IF Known = {} THEN 0 ELSE CHOOSE e \in Known : \A d \in Known : d <= e

(* refreshStaleCaseEmailDelivery: no webhook came, so Resend is asked. *)
Ask(h) ==
  /\ handler[h].pc = "idle"
  /\ Latest # 0
  /\ log[Latest].status \in InFlight
  /\ provider[Latest] # log[Latest].status
  /\ handler' = [handler EXCEPT ![h] =
       [pc |-> "asked", email |-> Latest, status |-> provider[Latest], hook |-> FALSE]]
  /\ UNCHANGED <<caseVars, checked, inserted, log, send, provider, pending,
                 recorded, faults>>

Answer(h) ==
  /\ handler[h].pc = "asked"
  /\ Apply(h, handler[h].email, handler[h].status, FALSE)

-----------------------------------------------------------------------------
(* The case *)

SupersededByManual(e) == manual >= e

(* confirmCaseEmailDelivered *)
Confirm(e) ==
  /\ case = "working"
  /\ Latest = e /\ e \notin confirmed
  /\ ~SupersededByManual(e)
  /\ log[e].status \in RecipientFailures /\ log[e].cc
  /\ confirmed' = confirmed \cup {e}
  /\ UNCHANGED <<case, manual, checked, inserted, log, send, provider, pending, hookVars, faults>>

(* assertCaseEmailDelivered *)
Delivered ==
  Latest # 0 =>
    \/ SupersededByManual(Latest)
    \/ Latest \in confirmed
    \/ log[Latest].status = "delivered"

CloseSuccessfully ==
  /\ case = "working"
  /\ Delivered
  /\ case' = "closed"
  /\ UNCHANGED <<confirmed, manual, checked, inserted, log, send, provider, pending, hookVars, faults>>

-----------------------------------------------------------------------------
Next ==
  \/ \E s \in Senders : \/ BeginSend(s) \/ SendManually(s)
                        \/ \E cc \in BOOLEAN : InsertRow(s, cc)
  \/ \E e \in Emails : \/ Reject(e) \/ Store(e) \/ MarkFailed(e) \/ SenderDies(e)
                       \/ \E heard \in BOOLEAN : Accept(e, heard)
                       \/ \E s \in Statuses : Provide(e, s)
                       \/ Confirm(e)
  \/ \E h \in Handlers : \/ \E e \in Emails, s \in Statuses : Webhook(h, e, s)
                         \/ Record(h) \/ RecordFails(h) \/ Ask(h) \/ Answer(h)
  \/ CloseSuccessfully

Spec == Init /\ [][Next]_vars

-----------------------------------------------------------------------------
(* Properties *)

Acknowledged(e) == \A s \in Statuses : <<e, s>> \notin pending

(* Once every event of an email is acknowledged its row says what Resend    *)
(* says, in whatever order the events, repeats, late status checks and the  *)
(* answer of the send call arrived; only a send call that failed for its    *)
(* caller may leave "failed" behind.                                        *)
SettledStatus ==
  \A e \in Emails :
    send[e] \in {"sent", "dead", "failed"} /\ provider[e] # "none" /\ Acknowledged(e) =>
      \/ log[e].status = provider[e]
      \/ send[e] = "failed" /\ log[e].status = "failed"

(* Calls that failed for their caller although Resend has the email. *)
Misjudged == {e \in Emails : send[e] = "failed" /\ provider[e] # "none"}

(* However often an event is repeated, the case history tells of it once.   *)
RecordedOnce == \A x \in Event : x[1] \notin Misjudged => recorded[x] <= 1

(* The owner's confirmation is about an email that some address did not     *)
(* get: no later update makes it an ordinary delivered or failed email.     *)
ConfirmedStaysFailed ==
  \A e \in confirmed \ Misjudged : log[e].status \in RecipientFailures

(* An email that lets the case close keeps letting it close until a newer   *)
(* email is known, or this one bounces or is complained about: neither a    *)
(* late event nor the late answer of a send call takes it back.             *)
DeliveryStaysProven ==
  [][Delivered /\ ~Delivered' =>
       \/ Latest' # Latest
       \/ log'[Latest].status \in {"bounced", "complained"}
       \/ Latest \in Misjudged']_vars

(* What the application says of an email is what became of it: its status,  *)
(* the history of its case and what an owner confirmed about it.            *)
EmailsSettle == SettledStatus /\ RecordedOnce /\ ConfirmedStaysFailed
=============================================================================
