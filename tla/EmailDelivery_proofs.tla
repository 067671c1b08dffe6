------------------------ MODULE EmailDelivery_proofs ------------------------
(* What the application says of an email is what became of it, for any      *)
(* number of emails, senders, webhooks and status checks, whatever the      *)
(* provider reports.                                                        *)
EXTENDS EmailDelivery, WellFoundedInduction, TLAPS

(* What the provider has reported of an email whose last event is s.        *)
Past ==
  [s \in Statuses |->
     CASE s = "queued" -> {}
       [] s = "sent" -> {"sent"}
       [] s = "delivery_delayed" -> {"sent", "delivery_delayed"}
       [] s = "suppressed" -> {"sent", "suppressed"}
       [] s \in {"delivered", "failed"} -> {"sent", "delivery_delayed", s}
       [] s \in {"bounced", "complained"} -> {"sent", "delivery_delayed", "delivered", s}]

Told(e, s) == provider[e] # "none" /\ s \in Past[provider[e]]

(* The send call failed for its caller and left that on the row.            *)
Refused(e) == send[e] = "failed" /\ log[e].status = "failed"

(* The provider knows an email from its acceptance on, the row from the     *)
(* answer or from the first event on.                                       *)
Sent(e) ==
  /\ send[e] \in {"none", "calling"} => provider[e] = "none"
  /\ send[e] \in {"accepted", "sent", "threw"} => provider[e] # "none"
  /\ e > inserted => send[e] = "none"
  /\ log[e].id => provider[e] # "none"
  /\ provider[e] # "queued"

(* A row never knows more than the provider, and no less once the last      *)
(* event is acknowledged.                                                   *)
Heard(e) ==
  /\ \A s \in Statuses : <<e, s>> \in pending => Told(e, s)
  /\ log[e].status = "queued" \/ Told(e, log[e].status) \/ Refused(e)
  /\ provider[e] # "none" /\ <<e, provider[e]>> \notin pending =>
       log[e].status = provider[e] \/ Refused(e)

(* A handler has been told what it applies, and records the last of it.     *)
Records(h, e) == handler[h].pc = "recording" /\ handler[h].email = e

Handled(h) ==
  /\ handler[h].pc # "idle" =>
       handler[h].email \in Emails /\ Told(handler[h].email, handler[h].status)
  /\ \A e \in Emails : Records(h, e) =>
       /\ handler[h].status \in Undelivered /\ handler[h].status = provider[e]
       /\ log[e].status = handler[h].status \/ Refused(e)

(* What is in the history, or about to be, is what the row says, and only   *)
(* one handler is about to write it.                                        *)
Wrote(e) == e \notin Misjudged =>
  /\ \A s \in Statuses : recorded[<<e, s>>] # 0 =>
       /\ recorded[<<e, s>>] = 1 /\ s \in Undelivered /\ provider[e] = s /\ log[e].status = s
       /\ \A h \in Handlers : ~Records(h, e)
  /\ \A g, h \in Handlers : Records(g, e) /\ Records(h, e) => g = h
  /\ e \in confirmed => log[e].status \in RecipientFailures

(* The inductive invariant *)
Truthful ==
  /\ TypeOK
  /\ manual <= inserted
  /\ \A e \in Emails : Sent(e) /\ Heard(e) /\ Wrote(e)
  /\ \A h \in Handlers : Handled(h)

-----------------------------------------------------------------------------
(* The order of the statuses *)

LEMMA OrderOfEvents ==
  ASSUME NEW p \in Statuses
  PROVE  /\ "queued" \notin Past[p]
         /\ Past[p] \subseteq Statuses
         /\ p # "queued" => p \in Past[p] /\ "sent" \in Past[p]
         /\ \A s \in After[p] : s \in Statuses \ {"queued"} /\ Past[p] \subseteq Past[s]
BY DEF Past, After, Statuses, InFlight, Undelivered

(* Nothing that the provider reported before its last event replaces that,  *)
(* and its last event replaces everything before.                           *)
LEMMA OrderOfReplacing ==
  ASSUME NEW p \in Statuses, NEW s \in Past[p]
  PROVE  /\ p \notin Replaces(s)
         /\ s \notin Replaces(p) => s = p
         /\ p # "queued" => "queued" \in Replaces(p)
BY DEF Past, Replaces, Statuses, InFlight, Undelivered

LEMMA OrderOfFailures ==
  ASSUME NEW p \in Statuses, NEW s \in Past[p]
  PROVE  /\ s \in Undelivered => s = p /\ After[p] = {}
         /\ "failed" \in Replaces(s) => s = p
         /\ RecipientFailures \subseteq Undelivered
BY DEF Past, Replaces, After, Statuses, InFlight, Undelivered, RecipientFailures

LEMMA ReplacesDelivered ==
  ASSUME NEW s \in Statuses, "delivered" \in Replaces(s)
  PROVE  s \in {"bounced", "complained"}
BY DEF Replaces, Statuses, InFlight, Undelivered

-----------------------------------------------------------------------------
(* The latest email *)

(* A set of numbers up to a bound has a greatest one: the least distance    *)
(* from the bound.                                                          *)
LEMMA Greatest ==
  ASSUME NEW N \in Nat, NEW S \in SUBSET (1 .. N), S # {}
  PROVE  \E e \in S : \A d \in S : d <= e
<1> DEFINE Less == {x \in Nat \X Nat : x[1] < x[2]}
           Dist == {n \in Nat : \E e \in S : n = N - e}
<1>1. IsWellFoundedOn(Less, Nat)
  BY NatLessThanWellFounded DEF OpToRel
<1>2. Dist \subseteq Nat /\ Dist # {}
  <2>1. PICK e \in S : TRUE
    OBVIOUS
  <2>2. N - e \in Dist
    BY <2>1
  <2> QED
    BY <2>2
<1>3. PICK n \in Dist : \A k \in Dist : ~(<<k, n>> \in Less)
  <2> HIDE DEF Less, Dist
  <2> QED
    BY <1>1, <1>2, WFMin
<1>4. PICK e \in S : n = N - e
  BY <1>3
<1>5. \A d \in S : d <= e
  <2>1. TAKE d \in S
  <2>2. N - d \in Dist /\ n \in Nat /\ N - d \in Nat
    BY <1>4
  <2>3. ~(N - d < n)
    BY <1>3, <2>2
  <2> QED
    BY <1>4, <2>3
<1> QED
  BY <1>5

LEMMA LatestIs ==
  /\ Known = {} => Latest = 0
  /\ Known # {} => Latest \in Known /\ \A d \in Known : d <= Latest
<1>1. Known \in SUBSET (1 .. MaxEmails) /\ MaxEmails \in Nat
  BY EmailDeliveryAssumption DEF Known, Emails
<1>2. Known # {} => \E e \in Known : \A d \in Known : d <= e
  BY <1>1, Greatest
<1> QED
  BY <1>2 DEF Latest

LEMMA LatestKnown ==
  ASSUME Latest # 0
  PROVE  Latest \in Emails /\ Latest <= inserted /\ log[Latest].id
BY LatestIs DEF Known

-----------------------------------------------------------------------------
(* What a step leaves alone *)

Same(d) ==
  /\ log'[d] = log[d] /\ send'[d] = send[d] /\ provider'[d] = provider[d]
  /\ \A s \in Statuses : <<d, s>> \in pending' <=> <<d, s>> \in pending

SameHistory(d) ==
  /\ \A s \in Statuses : recorded'[<<d, s>>] = recorded[<<d, s>>]
  /\ \A h \in Handlers : Records(h, d)' => Records(h, d)
  /\ d \in confirmed' => d \in confirmed

LEMMA SameEmail ==
  ASSUME NEW d \in Emails, Same(d), Sent(d), Heard(d), provider[d] \in Statuses \cup {"none"},
         d > inserted' => d > inserted
  PROVE  Sent(d)' /\ Heard(d)'
<1>1. \A s : Told(d, s)' <=> Told(d, s)
  BY DEF Same, Told
<1>2. Refused(d)' <=> Refused(d)
  BY DEF Same, Refused
<1>3. Sent(d)'
  BY DEF Same, Sent
<1>4. Heard(d)'
  BY <1>1, <1>2 DEF Same, Heard
<1> QED
  BY <1>3, <1>4

LEMMA SameWritten ==
  ASSUME NEW d \in Emails, Wrote(d), SameHistory(d),
         log'[d].status = log[d].status, send'[d] = send[d], provider'[d] = provider[d]
  PROVE  Wrote(d)'
<1>1. d \notin Misjudged' => d \notin Misjudged
  BY DEF Misjudged
<1> SUFFICES ASSUME d \notin Misjudged'
             PROVE  Wrote(d)'
  BY DEF Wrote
<1>2. \A s \in Statuses : recorded'[<<d, s>>] # 0 =>
        /\ recorded'[<<d, s>>] = 1 /\ s \in Undelivered /\ provider'[d] = s /\ log'[d].status = s
        /\ \A h \in Handlers : ~Records(h, d)'
  BY <1>1 DEF Wrote, SameHistory
<1>3. \A g, h \in Handlers : Records(g, d)' /\ Records(h, d)' => g = h
  BY <1>1 DEF Wrote, SameHistory
<1>4. d \in confirmed' => log'[d].status \in RecipientFailures
  BY <1>1 DEF Wrote, SameHistory
<1> QED
  BY <1>2, <1>3, <1>4 DEF Wrote

LEMMA SameHandled ==
  ASSUME NEW h \in Handlers, Handled(h), handler'[h] = handler[h],
         \A e \in Emails : Told(e, handler[h].status) =>
           provider'[e] # "none" /\ handler[h].status \in Past[provider'[e]],
         \A e \in Emails : Records(h, e) /\ handler[h].status \in Undelivered
                           /\ handler[h].status = provider[e] =>
           /\ provider'[e] = provider[e]
           /\ log[e].status = handler[h].status \/ Refused(e) =>
                log'[e].status = handler[h].status \/ Refused(e)'
  PROVE  Handled(h)'
<1>1. handler[h].pc # "idle" =>
        /\ handler[h].email \in Emails
        /\ provider'[handler[h].email] # "none" /\ handler[h].status \in Past[provider'[handler[h].email]]
  BY DEF Handled
<1>2. ASSUME NEW e \in Emails, Records(h, e)'
      PROVE  /\ handler'[h].status \in Undelivered /\ handler'[h].status = provider'[e]
             /\ log'[e].status = handler'[h].status \/ Refused(e)'
  BY <1>2 DEF Handled, Records
<1> QED
  BY <1>1, <1>2 DEF Handled, Told

(* A step of one email, between whose rows and handlers nothing else moves. *)
LEMMA OthersSame ==
  ASSUME Truthful, NEW e \in Emails, UNCHANGED <<handler, recorded>>,
         confirmed' \subseteq confirmed,
         inserted' >= inserted, inserted' \in Nat,
         \A d \in Emails \ {e} : Same(d)
  PROVE  \A d \in Emails \ {e} : Sent(d)' /\ Heard(d)' /\ Wrote(d)'
<1>1. TAKE d \in Emails \ {e}
<1>2. SameHistory(d)
  BY DEF SameHistory, Records
<1>3. provider[d] \in Statuses \cup {"none"} /\ (d > inserted' => d > inserted)
  BY EmailDeliveryAssumption DEF Truthful, TypeOK, Emails
<1>4. Sent(d)' /\ Heard(d)'
  BY <1>3, SameEmail DEF Truthful
<1>5. Wrote(d)'
  BY <1>2, SameWritten DEF Truthful, Same
<1> QED
  BY <1>4, <1>5

(* A step that keeps the provider's last event and what is true of the row. *)
LEMMA HandlersSame ==
  ASSUME Truthful, UNCHANGED handler, NEW e \in Emails,
         \A d \in Emails \ {e} : Same(d),
         \A s \in Statuses : Told(e, s) => Told(e, s)',
         \A s \in Undelivered : provider[e] = s =>
           /\ provider'[e] = s
           /\ log[e].status = s \/ Refused(e) => log'[e].status = s \/ Refused(e)'
  PROVE  \A h \in Handlers : Handled(h)'
<1>1. TAKE h \in Handlers
<1>2. Handled(h) /\ handler'[h] = handler[h] /\ handler[h].status \in Statuses
  BY DEF Truthful, TypeOK, Handler
<1>3. \A d \in Emails : Told(d, handler[h].status) =>
        provider'[d] # "none" /\ handler[h].status \in Past[provider'[d]]
  BY <1>2 DEF Same, Told
<1>4. \A d \in Emails : Records(h, d) /\ handler[h].status \in Undelivered
                        /\ handler[h].status = provider[d] =>
        /\ provider'[d] = provider[d]
        /\ log[d].status = handler[h].status \/ Refused(d) =>
             log'[d].status = handler[h].status \/ Refused(d)'
  BY <1>2 DEF Same, Refused
<1> QED
  BY <1>2, <1>3, <1>4, SameHandled

-----------------------------------------------------------------------------
(* Sending *)

LEMMA CallsKept ==
  ASSUME Truthful, UNCHANGED <<log, send, provider, pending, handler, recorded>>,
         confirmed' \subseteq confirmed, inserted' = inserted
  PROVE  /\ \A e \in Emails : Sent(e)' /\ Heard(e)' /\ Wrote(e)'
         /\ \A h \in Handlers : Handled(h)'
<1>1. ASSUME NEW e \in Emails
      PROVE  Sent(e)' /\ Heard(e)' /\ Wrote(e)'
  <2>1. Same(e) /\ SameHistory(e) /\ provider[e] \in Statuses \cup {"none"}
    BY DEF Same, SameHistory, Records, Truthful, TypeOK
  <2> QED
    BY <2>1, SameEmail, SameWritten DEF Truthful
<1>2. ASSUME NEW h \in Handlers
      PROVE  Handled(h)'
  <2>1. Handled(h)
    BY DEF Truthful
  <2> QED
    BY <2>1, SameHandled DEF Told, Refused
<1> QED
  BY <1>1, <1>2

LEMMA InsertKept ==
  ASSUME Truthful, NEW s \in Senders, NEW cc \in BOOLEAN, InsertRow(s, cc)
  PROVE  /\ \A e \in Emails : Sent(e)' /\ Heard(e)' /\ Wrote(e)'
         /\ \A h \in Handlers : Handled(h)'
<1> PICK e \in Emails : e = inserted + 1
  BY EmailDeliveryAssumption DEF InsertRow, Truthful, TypeOK, Emails
<1>0. /\ inserted \in 0 .. MaxEmails /\ MaxEmails \in Nat /\ e \in Emails /\ inserted' = e
      /\ log \in [Emails -> Row] /\ send \in [Emails -> {"none", "calling", "accepted", "threw", "sent", "failed", "dead"}]
      /\ Sent(e) /\ Heard(e) /\ Wrote(e) /\ provider[e] \in Statuses \cup {"none"}
  BY EmailDeliveryAssumption DEF InsertRow, Truthful, TypeOK, Emails
<1>1. /\ UNCHANGED <<provider, pending, handler, recorded, confirmed>>
      /\ log' = [log EXCEPT ![e].cc = cc] /\ send' = [send EXCEPT ![e] = "calling"]
  BY DEF InsertRow, caseVars, hookVars
<1>2. send[e] = "none" /\ provider[e] = "none"
  BY <1>0 DEF Sent
<1>3. /\ \A d \in Emails \ {e} : Same(d)
      /\ log'[e].status = log[e].status /\ log'[e].id = log[e].id /\ send'[e] = "calling"
  BY <1>0, <1>1 DEF Same, Row
<1>4. \A d \in Emails \ {e} : Sent(d)' /\ Heard(d)' /\ Wrote(d)'
  <2>1. inserted' >= inserted /\ inserted' \in Nat
    BY <1>0
  <2> QED
    BY <1>0, <1>1, <1>3, <2>1, OthersSame
<1>5. Sent(e)' /\ Heard(e)'
  BY <1>0, <1>1, <1>2, <1>3 DEF Sent, Heard, Told, Refused
<1>6. Wrote(e)'
  <2>1. e \notin Misjudged
    BY <1>2 DEF Misjudged
  <2> QED
    BY <1>0, <1>1, <1>3, <2>1 DEF Wrote, Records
<1>7. \A h \in Handlers : Handled(h)'
  <2>1. \A x \in Statuses : Told(e, x) => Told(e, x)'
    BY <1>1 DEF Told
  <2>2. \A x \in Undelivered : provider[e] # x
    BY <1>2 DEF Undelivered
  <2> QED
    BY <1>0, <1>1, <1>3, <2>1, <2>2, HandlersSame
<1> QED
  BY <1>4, <1>5, <1>6, <1>7

(* What the send call of an email does to it.                               *)
LEMMA CallKept ==
  ASSUME Truthful, NEW e \in Emails,
         Reject(e) \/ Store(e) \/ MarkFailed(e) \/ SenderDies(e) \/ Accept(e, TRUE) \/ Accept(e, FALSE)
  PROVE  /\ \A d \in Emails : Sent(d)' /\ Heard(d)' /\ Wrote(d)'
         /\ \A h \in Handlers : Handled(h)'
<1>0. /\ inserted \in Nat /\ Sent(e) /\ Heard(e) /\ Wrote(e) /\ provider[e] \in Statuses \cup {"none"}
      /\ log \in [Emails -> Row] /\ provider \in [Emails -> Statuses \cup {"none"}]
      /\ send \in [Emails -> {"none", "calling", "accepted", "threw", "sent", "failed", "dead"}]
      /\ log[e] \in Row /\ log[e].status \in Statuses
  BY EmailDeliveryAssumption DEF Truthful, TypeOK, Emails, Row
<1>1. UNCHANGED <<handler, recorded, confirmed, inserted>>
  BY DEF Reject, Store, MarkFailed, SenderDies, Accept, caseVars, hookVars
<1>2. \A d \in Emails \ {e} : Same(d)
  BY <1>0 DEF Reject, Store, MarkFailed, SenderDies, Accept, caseVars, hookVars, Same
<1>3. \A d \in Emails \ {e} : Sent(d)' /\ Heard(d)' /\ Wrote(d)'
  BY <1>0, <1>1, <1>2, OthersSame
<1> SUFFICES /\ Sent(e)' /\ Heard(e)' /\ Wrote(e)'
             /\ \A s \in Statuses : Told(e, s) => Told(e, s)'
             /\ \A s \in Undelivered : provider[e] = s =>
                  /\ provider'[e] = s
                  /\ log[e].status = s \/ Refused(e) => log'[e].status = s \/ Refused(e)'
  BY <1>1, <1>2, <1>3, HandlersSame
<1>4. CASE Reject(e)
  <2>1. /\ send[e] = "calling" /\ send'[e] = "failed" /\ log'[e].status = "failed"
        /\ log'[e].id = log[e].id /\ UNCHANGED <<provider, pending>>
    BY <1>0, <1>4 DEF Reject, Row
  <2>2. provider[e] = "none"
    BY <1>0, <2>1 DEF Sent
  <2>3. Sent(e)' /\ Heard(e)' /\ \A s \in Statuses : ~Told(e, s)
    BY <1>0, <1>1, <2>1, <2>2 DEF Sent, Heard, Told, Refused
  <2>4. Wrote(e)'
    <3>1. e \notin Misjudged /\ "none" \notin Undelivered
      BY <2>1 DEF Misjudged, Undelivered
    <3>2. /\ \A s \in Statuses : recorded[<<e, s>>] = 0
          /\ \A g, h \in Handlers : Records(g, e) /\ Records(h, e) => g = h
          /\ e \notin confirmed
      <4>1. log[e].status \notin RecipientFailures
        BY <1>0, <2>1, <2>2 DEF Heard, Told, Refused, RecipientFailures
      <4> QED
        BY <1>0, <2>2, <3>1, <4>1 DEF Wrote
    <3> QED
      BY <1>1, <3>2 DEF Wrote, Records
  <2>5. \A s \in Undelivered : provider[e] # s
    BY <2>2 DEF Undelivered
  <2> QED
    BY <2>3, <2>4, <2>5
<1>5. CASE Store(e)
  <2>1. /\ send[e] = "accepted" /\ send'[e] = "sent" /\ log'[e].id /\ UNCHANGED <<provider, pending>>
        /\ log'[e].status = IF log[e].status = "queued" THEN "sent" ELSE log[e].status
    BY <1>0, <1>5 DEF Store, Row
  <2>2. provider[e] \in Statuses \ {"queued"} /\ provider[e] # "none"
    BY <1>0, <2>1 DEF Sent
  <2>3. Sent(e)' /\ \A s \in Statuses : Told(e, s)' <=> Told(e, s)
    BY <1>0, <1>1, <2>1, <2>2 DEF Sent, Told
  <2>4. Heard(e)' /\ ~Refused(e)
    <3>1. ~Refused(e) /\ ~Refused(e)' /\ Told(e, "sent")
      BY <2>1, <2>2, OrderOfEvents DEF Refused, Told
    <3>2. \A s : Told(e, s)' <=> Told(e, s)
      BY <2>1 DEF Told
    <3> QED
      BY <1>0, <2>1, <2>2, <3>1, <3>2 DEF Heard
  <2>5. log[e].status \in Undelivered => log'[e].status = log[e].status
    BY <2>1 DEF Undelivered
  <2>6. Wrote(e)'
    BY <1>0, <1>1, <2>1, <2>5 DEF Wrote, Records, Misjudged, RecipientFailures, Undelivered
  <2> QED
    BY <2>1, <2>3, <2>4, <2>5, <2>6
<1>6. CASE MarkFailed(e)
  <2>1. /\ send[e] = "threw" /\ send'[e] = "failed" /\ log'[e].status = "failed"
        /\ log'[e].id = log[e].id /\ UNCHANGED <<provider, pending>>
    BY <1>0, <1>6 DEF MarkFailed, Row
  <2>2. provider[e] # "none" /\ Refused(e)' /\ \A s : Told(e, s)' <=> Told(e, s)
    BY <1>0, <2>1 DEF Sent, Refused, Told
  <2>3. Sent(e)' /\ Heard(e)'
    BY <1>0, <1>1, <2>1, <2>2 DEF Sent, Heard
  <2>4. e \in Misjudged'
    BY <2>1, <2>2 DEF Misjudged
  <2> QED
    BY <2>1, <2>2, <2>3, <2>4 DEF Wrote
<1>7. CASE SenderDies(e)
  <2>1. /\ send[e] \in {"calling", "accepted", "threw"} /\ send'[e] = "dead"
        /\ UNCHANGED <<log, provider, pending>>
    BY <1>0, <1>7 DEF SenderDies
  <2>2. Sent(e)' /\ Heard(e)' /\ ~Refused(e) /\ \A s : Told(e, s)' <=> Told(e, s)
    BY <1>0, <1>1, <2>1 DEF Sent, Heard, Refused, Told
  <2>3. Wrote(e)'
    BY <1>0, <1>1, <2>1 DEF Wrote, Records, Misjudged
  <2> QED
    BY <2>1, <2>2, <2>3
<1>8. CASE Accept(e, TRUE) \/ Accept(e, FALSE)
  <2>1. /\ send[e] = "calling" /\ send'[e] \in {"accepted", "threw"} /\ provider'[e] = "sent"
        /\ pending' = pending \cup {<<e, "sent">>} /\ UNCHANGED log
    BY <1>0, <1>8 DEF Accept
  <2>2. provider[e] = "none" /\ log[e].status = "queued"
    BY <1>0, <2>1 DEF Sent, Heard, Told, Refused
  <2>3. Past["sent"] = {"sent"}
    BY DEF Past, Statuses, InFlight
  <2>4. Sent(e)'
    BY <1>0, <1>1, <2>1, <2>2 DEF Sent
  <2>5. Heard(e)'
    BY <1>0, <2>1, <2>2, <2>3 DEF Heard, Told, Refused
  <2>6. Wrote(e)'
    <3>1. e \notin Misjudged /\ "queued" \notin Undelivered
      BY <2>1 DEF Misjudged, Undelivered
    <3>2. /\ \A s \in Statuses : recorded[<<e, s>>] = 0
          /\ \A g, h \in Handlers : Records(g, e) /\ Records(h, e) => g = h
          /\ e \notin confirmed
      BY <1>0, <2>2, <3>1 DEF Wrote, RecipientFailures
    <3> QED
      BY <1>1, <3>2 DEF Wrote, Records
  <2>7. (\A s \in Statuses : ~Told(e, s)) /\ \A s \in Undelivered : provider[e] # s
    BY <2>2 DEF Told, Undelivered
  <2> QED
    BY <2>4, <2>5, <2>6, <2>7
<1> QED
  BY <1>4, <1>5, <1>6, <1>7, <1>8

-----------------------------------------------------------------------------
(* Events, status checks and what they leave *)

LEMMA ProvideKept ==
  ASSUME Truthful, NEW e \in Emails, NEW s \in Statuses, Provide(e, s)
  PROVE  /\ \A d \in Emails : Sent(d)' /\ Heard(d)' /\ Wrote(d)'
         /\ \A h \in Handlers : Handled(h)'
<1>0. /\ inserted \in Nat /\ Sent(e) /\ Heard(e) /\ Wrote(e)
      /\ provider \in [Emails -> Statuses \cup {"none"}]
  BY EmailDeliveryAssumption DEF Truthful, TypeOK, Emails
<1>1. /\ UNCHANGED <<handler, recorded, confirmed, inserted, log, send>>
      /\ provider' = [provider EXCEPT ![e] = s] /\ pending' = pending \cup {<<e, s>>}
      /\ provider[e] \in Statuses /\ provider[e] # "none" /\ s \in After[provider[e]]
  BY <1>0 DEF Provide, caseVars, hookVars
<1>2. \A d \in Emails \ {e} : Same(d)
  BY <1>0, <1>1 DEF Same
<1>3. \A d \in Emails \ {e} : Sent(d)' /\ Heard(d)' /\ Wrote(d)'
  BY <1>0, <1>1, <1>2, OthersSame
<1>4. provider'[e] = s /\ s # "queued" /\ s # "none" /\ s \in Past[s] /\ Past[provider[e]] \subseteq Past[s]
      /\ provider[e] \notin Undelivered
  <2>1. s # "none"
    BY DEF Statuses, InFlight, Undelivered
  <2>2. provider[e] \in Undelivered => After[provider[e]] = {}
    BY <1>0, <1>1, OrderOfEvents, OrderOfFailures DEF Sent
  <2> QED
    BY <1>0, <1>1, <2>1, <2>2, OrderOfEvents
<1>5. \A t : Told(e, t) => Told(e, t)'
  BY <1>1, <1>4 DEF Told
<1>6. Sent(e)'
  BY <1>0, <1>1, <1>4 DEF Sent
<1>7. Heard(e)'
  BY <1>0, <1>1, <1>4, <1>5 DEF Heard, Refused, Told
<1>8. Wrote(e)'
  BY <1>0, <1>1, <1>4 DEF Wrote, Misjudged, Records
<1>9. \A h \in Handlers : Handled(h)'
  BY <1>1, <1>2, <1>4, <1>5, HandlersSame
<1> QED
  BY <1>3, <1>6, <1>7, <1>8, <1>9

(* Of the emails and handlers that a handler's step is not about.           *)
LEMMA AsideKept ==
  ASSUME Truthful, NEW h \in Handlers, NEW e \in Emails, inserted' = inserted,
         UNCHANGED <<send, provider, confirmed>>,
         \A d \in Emails \ {e} : log'[d] = log[d],
         \A d \in Emails \ {e}, s \in Statuses : /\ <<d, s>> \in pending' <=> <<d, s>> \in pending
                                                 /\ recorded'[<<d, s>>] = recorded[<<d, s>>],
         \A g \in Handlers \ {h} : handler'[g] = handler[g],
         handler'[h].pc = "recording" => handler'[h].email = e
  PROVE  /\ \A d \in Emails \ {e} : Sent(d)' /\ Heard(d)' /\ Wrote(d)'
         /\ \A g \in Handlers \ {h} :
              ~Records(g, e) \/ log'[e].status = log[e].status => Handled(g)'
<1>1. ASSUME NEW d \in Emails \ {e}
      PROVE  Sent(d)' /\ Heard(d)' /\ Wrote(d)'
  <2>1. Same(d) /\ SameHistory(d) /\ provider[d] \in Statuses \cup {"none"}
    BY DEF Same, SameHistory, Records, Truthful, TypeOK
  <2>2. Sent(d)' /\ Heard(d)'
    BY <2>1, SameEmail DEF Truthful
  <2>3. Wrote(d)'
    BY <2>1, SameWritten DEF Truthful
  <2> QED
    BY <2>2, <2>3
<1>2. ASSUME NEW g \in Handlers \ {h}, ~Records(g, e) \/ log'[e].status = log[e].status
      PROVE  Handled(g)'
  <2>1. Handled(g) /\ handler'[g] = handler[g]
    BY DEF Truthful
  <2>2. \A d \in Emails : Told(d, handler[g].status) =>
          provider'[d] # "none" /\ handler[g].status \in Past[provider'[d]]
    BY DEF Told
  <2>3. \A d \in Emails : Records(g, d) => log'[d].status = log[d].status
    BY <1>2
  <2>4. \A d \in Emails : Records(g, d) /\ handler[g].status \in Undelivered
                          /\ handler[g].status = provider[d] =>
          /\ provider'[d] = provider[d]
          /\ log[d].status = handler[g].status \/ Refused(d) =>
               log'[d].status = handler[g].status \/ Refused(d)'
    BY <2>3 DEF Refused
  <2> QED
    BY <2>1, <2>2, <2>4, SameHandled
<1> QED
  BY <1>1, <1>2

LEMMA ApplyKept ==
  ASSUME Truthful, NEW h \in Handlers, NEW e \in Emails, NEW s \in Statuses, NEW hook \in BOOLEAN,
         Apply(h, e, s, hook), Told(e, s), handler[h].pc # "recording"
  PROVE  /\ \A d \in Emails : Sent(d)' /\ Heard(d)' /\ Wrote(d)'
         /\ \A g \in Handlers : Handled(g)'
<1>0. /\ log \in [Emails -> Row] /\ log[e] \in Row /\ handler \in [Handlers -> Handler]
      /\ provider[e] \in Statuses /\ Sent(e) /\ Heard(e) /\ Wrote(e)
      /\ s \in Past[provider[e]] /\ provider[e] # "none" /\ provider[e] # "queued"
  BY DEF Truthful, TypeOK, Told, Sent
<1>1. /\ UNCHANGED <<send, provider, confirmed, recorded, inserted>>
      /\ \A d \in Emails \ {e} : log'[d] = log[d]
      /\ \A g \in Handlers \ {h} : handler'[g] = handler[g]
      /\ pending' = pending \/ pending' = pending \ {<<e, s>>}
      /\ handler'[h] = IdleHandler
         \/ handler'[h] = [pc |-> "recording", email |-> e, status |-> s, hook |-> hook]
  BY <1>0 DEF Apply, caseVars
<1>2. /\ \A d \in Emails \ {e} : Sent(d)' /\ Heard(d)' /\ Wrote(d)'
      /\ \A g \in Handlers \ {h} : ~Records(g, e) \/ log'[e].status = log[e].status => Handled(g)'
  <2>1. handler'[h].pc = "recording" => handler'[h].email = e
    BY <1>1 DEF IdleHandler
  <2>2. \A d \in Emails \ {e}, t \in Statuses :
          /\ <<d, t>> \in pending' <=> <<d, t>> \in pending
          /\ recorded'[<<d, t>>] = recorded[<<d, t>>]
    BY <1>1
  <2> QED
    BY <1>1, <2>1, <2>2, AsideKept
<1>3. CASE log[e].status \in Replaces(s)
  <2>1. log'[e].status = s /\ log'[e].id
    BY <1>0, <1>3 DEF Apply, Row
  <2>2. ~Refused(e) => log[e].status # provider[e]
    BY <1>0, <1>3, OrderOfReplacing
  <2>3. Refused(e) => s = provider[e]
    BY <1>0, <1>3, OrderOfFailures DEF Refused
  <2>4. \A t : Told(e, t)' <=> Told(e, t)
    BY <1>1 DEF Told
  <2>5. Sent(e)'
    BY <1>0, <1>1, <2>1 DEF Sent
  <2>6. Heard(e)'
    <3>1. \A t \in Statuses : <<e, t>> \in pending' => Told(e, t)'
      BY <1>0, <1>1, <2>4 DEF Heard
    <3>2. <<e, provider[e]>> \notin pending' => s = provider[e]
      BY <1>0, <1>1, <2>2, <2>3 DEF Heard
    <3> QED
      BY <1>1, <2>1, <2>4, <3>1, <3>2 DEF Heard
  <2>7. Handled(h)'
    <3>1. handler'[h].pc # "idle" =>
            /\ handler'[h].email = e /\ handler'[h].status = s /\ s \in Undelivered
      BY <1>0, <1>3 DEF Apply, IdleHandler
    <3>2. s \in Undelivered => s = provider[e]
      BY <1>0, OrderOfFailures
    <3> QED
      BY <1>0, <1>1, <2>1, <3>1, <3>2 DEF Handled, Records, Told
  <2>8. \A g \in Handlers \ {h} : Handled(g)'
    <3>1. TAKE g \in Handlers \ {h}
    <3>2. CASE Records(g, e)
      <4>1. handler[g].status = provider[e] /\ Handled(g)
        BY <3>2 DEF Truthful, Handled
      <4>2. s = provider[e]
        BY <2>2, <2>3, <3>2, <4>1 DEF Handled
      <4> QED
        BY <1>0, <1>1, <2>1, <3>2, <4>1, <4>2 DEF Handled, Records, Told
    <3> QED
      BY <1>2, <3>2
  <2>9. Wrote(e)'
    <3>1. SUFFICES ASSUME e \notin Misjudged'
                   PROVE  Wrote(e)'
      BY DEF Wrote
    <3>2. e \notin Misjudged /\ ~Refused(e) /\ log[e].status # provider[e]
      BY <1>0, <1>1, <2>2, <3>1 DEF Misjudged, Refused
    <3>3. \A t \in Statuses : recorded[<<e, t>>] = 0
      BY <1>0, <3>2 DEF Wrote
    <3>4. \A g \in Handlers : ~Records(g, e)
      BY <3>2 DEF Truthful, Handled
    <3>5. e \notin confirmed
      <4>1. log[e].status \in RecipientFailures => log[e].status = provider[e]
        BY <1>0, <3>2, OrderOfFailures DEF Heard, Told, RecipientFailures
      <4> QED
        BY <1>0, <3>2, <4>1 DEF Wrote
    <3>6. \A f, g \in Handlers : Records(f, e)' /\ Records(g, e)' => f = g
      BY <1>1, <3>4 DEF Records
    <3> QED
      BY <1>1, <3>3, <3>5, <3>6 DEF Wrote
  <2> QED
    BY <1>2, <2>5, <2>6, <2>7, <2>8, <2>9
<1>4. CASE log[e].status \notin Replaces(s)
  <2>1. UNCHANGED log /\ handler'[h] = IdleHandler
    BY <1>0, <1>4 DEF Apply
  <2>2. \A t : Told(e, t)' <=> Told(e, t)
    BY <1>1 DEF Told
  <2>3. Sent(e)'
    BY <1>0, <1>1, <2>1 DEF Sent
  <2>4. Heard(e)'
    <3>1. s = provider[e] => log[e].status = provider[e] \/ Refused(e)
      BY <1>0, <1>4, OrderOfReplacing DEF Heard, Told
    <3> QED
      BY <1>0, <1>1, <2>1, <2>2, <3>1 DEF Heard, Refused
  <2>5. Wrote(e)'
    <3>1. SameHistory(e)
      BY <1>1, <2>1 DEF SameHistory, Records, IdleHandler
    <3> QED
      BY <1>0, <1>1, <2>1, <3>1, SameWritten
  <2>6. Handled(h)'
    BY <2>1 DEF Handled, Records, IdleHandler
  <2> QED
    BY <1>2, <2>1, <2>3, <2>4, <2>5, <2>6
<1> QED
  BY <1>3, <1>4

LEMMA RecordKept ==
  ASSUME Truthful, NEW h \in Handlers, Record(h) \/ RecordFails(h)
  PROVE  /\ \A d \in Emails : Sent(d)' /\ Heard(d)' /\ Wrote(d)'
         /\ \A g \in Handlers : Handled(g)'
<1>0. Handled(h) /\ handler[h].pc = "recording" /\ handler[h] \in Handler
  BY DEF Record, RecordFails, Truthful, TypeOK
<1> PICK e \in Emails : e = handler[h].email
  BY <1>0 DEF Handled
<1> PICK s \in Statuses : s = handler[h].status
  BY <1>0 DEF Handler
<1>1. /\ Told(e, s) /\ s \in Undelivered /\ s = provider[e] /\ provider[e] # "none"
      /\ log[e].status = s \/ Refused(e)
      /\ Sent(e) /\ Heard(e) /\ Wrote(e) /\ Records(h, e)
  BY <1>0 DEF Handled, Records, Told, Truthful
<1>2. /\ UNCHANGED <<log, send, provider, confirmed, inserted>> /\ handler'[h] = IdleHandler
      /\ \A g \in Handlers \ {h} : handler'[g] = handler[g]
      /\ pending' = pending \/ pending' = pending \ {<<e, s>>}
      /\ \A t \in Statuses : \/ recorded'[<<e, t>>] = recorded[<<e, t>>]
                             \/ t = s /\ recorded'[<<e, t>>] = recorded[<<e, t>>] + 1
      /\ \A d \in Emails \ {e}, t \in Statuses : recorded'[<<d, t>>] = recorded[<<d, t>>]
  BY <1>0 DEF Record, RecordFails, caseVars, Truthful, TypeOK, Event
<1>3. /\ \A d \in Emails \ {e} : Sent(d)' /\ Heard(d)' /\ Wrote(d)'
      /\ \A g \in Handlers \ {h} : Handled(g)'
  <2>1. \A d \in Emails \ {e}, t \in Statuses :
          /\ <<d, t>> \in pending' <=> <<d, t>> \in pending
          /\ recorded'[<<d, t>>] = recorded[<<d, t>>]
    BY <1>2
  <2>2. handler'[h].pc # "recording"
    BY <1>2 DEF IdleHandler
  <2> QED
    BY <1>2, <2>1, <2>2, AsideKept
<1>4. \A t : Told(e, t)' <=> Told(e, t)
  BY <1>2 DEF Told
<1>5. Sent(e)' /\ Heard(e)'
  BY <1>1, <1>2, <1>4 DEF Sent, Heard, Refused
<1>6. Handled(h)'
  BY <1>2 DEF Handled, Records, IdleHandler
<1>7. Wrote(e)'
  <2>1. SUFFICES ASSUME e \notin Misjudged'
                 PROVE  Wrote(e)'
    BY DEF Wrote
  <2>2. e \notin Misjudged /\ log[e].status = s
    BY <1>1, <1>2, <2>1 DEF Misjudged, Refused
  <2>3. \A t \in Statuses : recorded[<<e, t>>] = 0
    BY <1>1, <2>2 DEF Wrote
  <2>4. \A g \in Handlers : ~Records(g, e)'
    BY <1>1, <1>2, <2>2 DEF Wrote, Records, IdleHandler
  <2>5. \A t \in Statuses : recorded'[<<e, t>>] # 0 => t = s /\ recorded'[<<e, t>>] = 1
    BY <1>2, <2>3
  <2> QED
    BY <1>1, <1>2, <2>2, <2>4, <2>5 DEF Wrote
<1> QED
  BY <1>3, <1>5, <1>6, <1>7

LEMMA AskKept ==
  ASSUME Truthful, NEW h \in Handlers, Ask(h)
  PROVE  /\ \A d \in Emails : Sent(d)' /\ Heard(d)' /\ Wrote(d)'
         /\ \A g \in Handlers : Handled(g)'
<1>0. /\ Latest \in Emails /\ log[Latest].id /\ handler \in [Handlers -> Handler]
      /\ UNCHANGED <<log, send, provider, pending, confirmed, recorded, inserted>>
      /\ handler' = [handler EXCEPT ![h] =
           [pc |-> "asked", email |-> Latest, status |-> provider[Latest], hook |-> FALSE]]
  BY LatestKnown DEF Ask, caseVars, Truthful, TypeOK
<1> PICK e \in Emails : e = Latest
  BY <1>0
<1>1. provider[e] \in Statuses /\ Told(e, provider[e])
  <2>1. provider[e] \in Statuses /\ provider[e] # "none" /\ provider[e] # "queued"
    BY <1>0 DEF Truthful, TypeOK, Sent
  <2> QED
    BY <2>1, OrderOfEvents DEF Told
<1>2. /\ handler'[h] = [pc |-> "asked", email |-> e, status |-> provider[e], hook |-> FALSE]
      /\ \A g \in Handlers \ {h} : handler'[g] = handler[g]
  BY <1>0
<1>3. /\ \A d \in Emails \ {e} : Sent(d)' /\ Heard(d)' /\ Wrote(d)'
      /\ \A g \in Handlers \ {h} : Handled(g)'
  BY <1>0, <1>2, AsideKept
<1>4. Sent(e)' /\ Heard(e)' /\ Wrote(e)'
  <2>1. Same(e) /\ SameHistory(e) /\ provider[e] \in Statuses \cup {"none"}
    BY <1>0, <1>1, <1>2 DEF Same, SameHistory, Records
  <2> QED
    BY <1>0, <2>1, SameEmail, SameWritten DEF Truthful, Same
<1>5. Handled(h)'
  BY <1>0, <1>1, <1>2 DEF Handled, Records, Told
<1> QED
  BY <1>3, <1>4, <1>5

LEMMA ConfirmKept ==
  ASSUME Truthful, NEW e \in Emails, Confirm(e)
  PROVE  /\ \A d \in Emails : Sent(d)' /\ Heard(d)' /\ Wrote(d)'
         /\ \A h \in Handlers : Handled(h)'
<1>1. /\ UNCHANGED <<log, send, provider, pending, handler, recorded, inserted>>
      /\ confirmed' = confirmed \cup {e} /\ log[e].status \in RecipientFailures
  BY DEF Confirm, hookVars
<1>2. ASSUME NEW d \in Emails
      PROVE  Sent(d)' /\ Heard(d)'
  <2>1. Same(d) /\ provider[d] \in Statuses \cup {"none"}
    BY <1>1 DEF Same, Truthful, TypeOK
  <2> QED
    BY <1>1, <2>1, SameEmail DEF Truthful
<1>3. ASSUME NEW d \in Emails
      PROVE  Wrote(d)'
  BY <1>1 DEF Truthful, Wrote, Misjudged, Records
<1>4. ASSUME NEW h \in Handlers
      PROVE  Handled(h)'
  BY <1>1 DEF Truthful, Handled, Records, Told, Refused
<1> QED
  BY <1>2, <1>3, <1>4

-----------------------------------------------------------------------------
(* Types *)

LEMMA TypesKept ==
  ASSUME Truthful, Next
  PROVE  TypeOK' /\ manual' <= inserted'
<1>0. /\ TypeOK /\ manual <= inserted /\ MaxEmails \in Nat /\ MaxFaults \in Nat
      /\ inserted \in 0 .. MaxEmails /\ manual \in 0 .. MaxEmails
  BY EmailDeliveryAssumption DEF Truthful, TypeOK
<1>1. ASSUME NEW s \in Senders, BeginSend(s) \/ SendManually(s)
      PROVE  TypeOK' /\ manual' <= inserted'
  BY <1>0, <1>1 DEF BeginSend, SendManually, caseVars, hookVars, TypeOK
<1>2. ASSUME NEW s \in Senders, NEW cc \in BOOLEAN, InsertRow(s, cc)
      PROVE  TypeOK' /\ manual' <= inserted'
  <2>1. inserted + 1 \in Emails /\ inserted' = inserted + 1 /\ manual' = manual
    BY <1>0, <1>2 DEF InsertRow, Emails, caseVars
  <2>2. log' \in [Emails -> Row]
    <3>1. [log[inserted + 1] EXCEPT !.cc = cc] \in Row
      BY <1>0, <2>1 DEF TypeOK, Row
    <3> QED
      BY <1>0, <1>2, <3>1 DEF InsertRow, TypeOK
  <2> QED
    BY <1>0, <1>2, <2>1, <2>2 DEF InsertRow, caseVars, hookVars, TypeOK
<1>3. ASSUME NEW e \in Emails, Reject(e) \/ Store(e) \/ MarkFailed(e) \/ SenderDies(e)
      PROVE  TypeOK' /\ manual' <= inserted'
  <2>1. log' \in [Emails -> Row]
    <3>1. /\ log[e] \in Row
          /\ "failed" \in Statuses /\ "sent" \in Statuses
      BY <1>0 DEF TypeOK, Statuses, InFlight, Undelivered
    <3>2. \A st \in Statuses : /\ [log[e] EXCEPT !.status = st] \in Row
                               /\ [log[e] EXCEPT !.id = TRUE, !.status = st] \in Row
      BY <3>1 DEF Row
    <3>3. log[e].status \in Statuses
      BY <3>1 DEF Row
    <3>4. (IF log[e].status = "queued" THEN "sent" ELSE log[e].status) \in Statuses
      BY <3>1, <3>3
    <3>5. CASE Reject(e) \/ MarkFailed(e)
      BY <1>0, <3>1, <3>2, <3>5 DEF Reject, MarkFailed, TypeOK
    <3>6. CASE Store(e)
      <4>1. log' = [log EXCEPT ![e] = [log[e] EXCEPT !.id = TRUE,
                      !.status = IF log[e].status = "queued" THEN "sent" ELSE log[e].status]]
        BY <1>0, <3>6 DEF Store, TypeOK
      <4> QED
        BY <1>0, <3>2, <3>4, <4>1 DEF TypeOK
    <3>7. CASE SenderDies(e)
      BY <1>0, <3>7 DEF SenderDies, TypeOK
    <3> QED
      BY <1>3, <3>5, <3>6, <3>7
  <2> QED
    BY <1>0, <1>3, <2>1 DEF Reject, Store, MarkFailed, SenderDies, caseVars, hookVars, TypeOK
<1>4. ASSUME NEW e \in Emails, NEW heard \in BOOLEAN, Accept(e, heard)
      PROVE  TypeOK' /\ manual' <= inserted'
  <2>1. "sent" \in Statuses
    BY DEF Statuses, InFlight
  <2> QED
    BY <1>0, <1>4, <2>1 DEF Accept, caseVars, hookVars, TypeOK, Event
<1>5. ASSUME NEW e \in Emails, NEW s \in Statuses, Provide(e, s)
      PROVE  TypeOK' /\ manual' <= inserted'
  BY <1>0, <1>5 DEF Provide, caseVars, hookVars, TypeOK, Event
<1>6. ASSUME NEW h \in Handlers, NEW e \in Emails, NEW s \in Statuses, NEW hook \in BOOLEAN,
             Apply(h, e, s, hook)
      PROVE  TypeOK' /\ manual' <= inserted'
  <2>1. log' \in [Emails -> Row]
    <3>1. [log[e] EXCEPT !.status = s, !.id = TRUE] \in Row
      BY <1>0 DEF TypeOK, Row
    <3> QED
      BY <1>0, <1>6, <3>1 DEF Apply, TypeOK
  <2>2. handler' \in [Handlers -> Handler]
    <3>1. IdleHandler \in Handler /\ [pc |-> "recording", email |-> e, status |-> s, hook |-> hook] \in Handler
      BY DEF IdleHandler, Handler, Statuses, InFlight
    <3> QED
      BY <1>0, <1>6, <3>1 DEF Apply, TypeOK
  <2>3. pending' \subseteq Event
    BY <1>0, <1>6 DEF Apply, TypeOK
  <2>4. UNCHANGED <<caseVars, checked, inserted, send, provider, recorded, faults>>
    BY <1>6 DEF Apply
  <2> QED
    BY <1>0, <2>1, <2>2, <2>3, <2>4 DEF caseVars, TypeOK
<1>7. ASSUME NEW h \in Handlers, Record(h) \/ RecordFails(h)
      PROVE  TypeOK' /\ manual' <= inserted'
  <2>1. IdleHandler \in Handler
    BY DEF IdleHandler, Handler, Statuses, InFlight
  <2>2. <<handler[h].email, handler[h].status>> \in Event
    BY <1>7 DEF Record, RecordFails, Truthful, Handled, TypeOK, Handler, Event
  <2>3. recorded' \in [Event -> Nat]
    BY <1>0, <1>7, <2>2 DEF Record, RecordFails, TypeOK
  <2> QED
    BY <1>0, <1>7, <2>1, <2>3 DEF Record, RecordFails, caseVars, TypeOK
<1>8. ASSUME NEW h \in Handlers, Ask(h)
      PROVE  TypeOK' /\ manual' <= inserted'
  <2>1. Latest \in Emails /\ provider[Latest] \in Statuses
    BY <1>8, LatestKnown DEF Ask, Truthful, TypeOK, Sent
  <2>2. [pc |-> "asked", email |-> Latest, status |-> provider[Latest], hook |-> FALSE] \in Handler
    BY <2>1 DEF Handler
  <2> QED
    BY <1>0, <1>8, <2>2 DEF Ask, caseVars, TypeOK
<1>9. ASSUME NEW e \in Emails, Confirm(e)
      PROVE  TypeOK' /\ manual' <= inserted'
  BY <1>0, <1>9 DEF Confirm, hookVars, TypeOK
<1>10. CASE CloseSuccessfully
  BY <1>0, <1>10 DEF CloseSuccessfully, hookVars, TypeOK
<1>11. ASSUME NEW h \in Handlers, NEW e \in Emails, NEW s \in Statuses, Webhook(h, e, s)
       PROVE  TypeOK' /\ manual' <= inserted'
  BY <1>6, <1>11 DEF Webhook
<1>12. ASSUME NEW h \in Handlers, Answer(h)
       PROVE  TypeOK' /\ manual' <= inserted'
  <2>1. handler[h].email \in Emails /\ handler[h].status \in Statuses
    BY <1>12 DEF Answer, Truthful, Handled, TypeOK, Handler
  <2> QED
    BY <1>6, <1>12, <2>1 DEF Answer
<1> QED
  BY <1>1, <1>2, <1>3, <1>4, <1>5, <1>7, <1>8, <1>9, <1>10, <1>11, <1>12 DEF Next

-----------------------------------------------------------------------------
LEMMA TruthfulInit == Init => Truthful
<1> SUFFICES ASSUME Init PROVE Truthful
  OBVIOUS
<1> USE DEF Init
<1>1. TypeOK /\ manual <= inserted
  <2>1. 0 \in 0 .. MaxEmails /\ 0 \in 0 .. MaxFaults /\ "queued" \in Statuses
        /\ IdleHandler \in Handler
    BY EmailDeliveryAssumption DEF Statuses, InFlight, IdleHandler, Handler
  <2> QED
    BY <2>1 DEF TypeOK, Row
<1>2. \A e \in Emails : Sent(e) /\ Heard(e)
  BY DEF Sent, Heard
<1>3. \A e \in Emails : Wrote(e)
  BY DEF Wrote, Records, IdleHandler, Event
<1>4. \A h \in Handlers : Handled(h)
  BY DEF Handled, Records, IdleHandler
<1> QED
  BY <1>1, <1>2, <1>3, <1>4 DEF Truthful

LEMMA TruthfulKept == Truthful /\ [Next]_vars => Truthful'
<1>1. ASSUME Truthful, Next
      PROVE  Truthful'
  <2> DEFINE Kept == /\ \A d \in Emails : Sent(d)' /\ Heard(d)' /\ Wrote(d)'
                     /\ \A g \in Handlers : Handled(g)'
  <2>1. ASSUME NEW s \in Senders, BeginSend(s) \/ SendManually(s)
        PROVE  Kept
    BY <1>1, <2>1, CallsKept DEF BeginSend, SendManually, caseVars, hookVars
  <2>2. ASSUME NEW s \in Senders, NEW cc \in BOOLEAN, InsertRow(s, cc)
        PROVE  Kept
    BY <1>1, <2>2, InsertKept
  <2>3. ASSUME NEW e \in Emails, Reject(e) \/ Store(e) \/ MarkFailed(e) \/ SenderDies(e)
        PROVE  Kept
    BY <1>1, <2>3, CallKept
  <2>4. ASSUME NEW e \in Emails, NEW heard \in BOOLEAN, Accept(e, heard)
        PROVE  Kept
    <3>1. Accept(e, TRUE) \/ Accept(e, FALSE)
      BY <2>4
    <3> QED
      BY <1>1, <3>1, CallKept
  <2>5. ASSUME NEW e \in Emails, NEW s \in Statuses, Provide(e, s)
        PROVE  Kept
    BY <1>1, <2>5, ProvideKept
  <2>6. ASSUME NEW h \in Handlers, NEW e \in Emails, NEW s \in Statuses, Webhook(h, e, s)
        PROVE  Kept
    <3>1. Apply(h, e, s, TRUE) /\ Told(e, s) /\ handler[h].pc # "recording"
      BY <1>1, <2>6 DEF Webhook, Truthful, Heard
    <3> QED
      BY <1>1, <3>1, ApplyKept
  <2>7. ASSUME NEW h \in Handlers, Answer(h)
        PROVE  Kept
    <3>1. /\ handler[h].email \in Emails /\ handler[h].status \in Statuses
          /\ Told(handler[h].email, handler[h].status) /\ handler[h].pc # "recording"
          /\ Apply(h, handler[h].email, handler[h].status, FALSE)
      BY <1>1, <2>7 DEF Answer, Truthful, Handled, TypeOK, Handler
    <3>2. ASSUME NEW e \in Emails, NEW s \in Statuses, e = handler[h].email, s = handler[h].status
          PROVE  Kept
      BY <1>1, <3>1, <3>2, ApplyKept
    <3> QED
      BY <3>1, <3>2
  <2>8. ASSUME NEW h \in Handlers, Record(h) \/ RecordFails(h)
        PROVE  Kept
    BY <1>1, <2>8, RecordKept
  <2>9. ASSUME NEW h \in Handlers, Ask(h)
        PROVE  Kept
    BY <1>1, <2>9, AskKept
  <2>10. ASSUME NEW e \in Emails, Confirm(e)
         PROVE  Kept
    BY <1>1, <2>10, ConfirmKept
  <2>11. ASSUME CloseSuccessfully
         PROVE  Kept
    BY <1>1, <2>11, CallsKept DEF CloseSuccessfully, hookVars
  <2>12. Kept
    BY <1>1, <2>1, <2>2, <2>3, <2>4, <2>5, <2>6, <2>7, <2>8, <2>9, <2>10, <2>11 DEF Next
  <2> QED
    BY <1>1, <2>12, TypesKept DEF Truthful
<1>2. ASSUME Truthful, UNCHANGED vars
      PROVE  Truthful'
  <2>1. TypeOK' /\ manual' <= inserted'
    BY <1>2 DEF Truthful, TypeOK, vars
  <2>2. /\ \A d \in Emails : Sent(d)' /\ Heard(d)' /\ Wrote(d)'
        /\ \A g \in Handlers : Handled(g)'
    BY <1>2, CallsKept DEF vars
  <2> QED
    BY <2>1, <2>2 DEF Truthful
<1> QED
  BY <1>1, <1>2

LEMMA TruthfulHolds == Spec => []Truthful
BY TruthfulInit, TruthfulKept, PTL DEF Spec

(* Every variable stays in its range: the rows, the handlers and the        *)
(* history keep the statuses of the schema (db/schema.ts), and only emails  *)
(* that were sent are asked about or recorded.                              *)
THEOREM DeliveryStaysTyped == Spec => []TypeOK
BY TruthfulHolds, PTL DEF Truthful

(* The row of an email, the history of its case and the owner's             *)
(* confirmation agree with what became of it, for every order of events,    *)
(* repeats, status checks and answers                                       *)
(* (modules/email/email-delivery-status.ts).                                *)
THEOREM EmailsAreSettled == Spec => []EmailsSettle
<1>1. ASSUME Truthful
      PROVE  EmailsSettle
  <2>1. SettledStatus
    <3>1. ASSUME NEW e \in Emails, provider[e] # "none", Acknowledged(e)
          PROVE  log[e].status = provider[e] \/ Refused(e)
      <4>1. provider[e] \in Statuses
        BY <1>1, <3>1 DEF Truthful, TypeOK
      <4> QED
        BY <1>1, <3>1, <4>1 DEF Truthful, Heard, Acknowledged
    <3> QED
      BY <3>1 DEF SettledStatus, Refused
  <2>2. RecordedOnce
    <3>1. \A x \in Event : x[1] \in Emails /\ x[2] \in Statuses /\ x = <<x[1], x[2]>>
          /\ recorded[x] \in Nat
      BY <1>1 DEF Event, Truthful, TypeOK
    <3>2. ASSUME NEW e \in Emails, NEW s \in Statuses, e \notin Misjudged
          PROVE  recorded[<<e, s>>] \in {0, 1}
      BY <1>1, <3>2 DEF Truthful, Wrote
    <3> QED
      BY <3>1, <3>2 DEF RecordedOnce
  <2>3. ConfirmedStaysFailed
    BY <1>1 DEF Truthful, TypeOK, Wrote, ConfirmedStaysFailed
  <2> QED
    BY <2>1, <2>2, <2>3 DEF EmailsSettle
<1> QED
  BY <1>1, TruthfulHolds, PTL

(* The one way in which a delivered email is not delivered any more.        *)
LEMMA DeliveredStays ==
  ASSUME Truthful, [Next]_vars, NEW e \in Emails, log[e].status = "delivered"
  PROVE  \/ log'[e].status \in {"delivered", "bounced", "complained"}
         \/ e \in Misjudged'
<1>0. /\ log \in [Emails -> Row] /\ log[e] \in Row /\ Sent(e) /\ Heard(e)
      /\ inserted \in 0 .. MaxEmails /\ MaxEmails \in Nat
      /\ send \in [Emails -> {"none", "calling", "accepted", "threw", "sent", "failed", "dead"}]
      /\ provider[e] # "none" /\ send[e] # "calling"
  <2>1. provider[e] # "none"
    BY DEF Truthful, Heard, Told, Refused
  <2> QED
    BY <2>1, EmailDeliveryAssumption DEF Truthful, TypeOK, Sent
<1>1. CASE log'[e] = log[e]
  BY <1>1
<1>2. ASSUME NEW s \in Senders, NEW cc \in BOOLEAN, InsertRow(s, cc)
      PROVE  log'[e].status = "delivered"
  BY <1>0, <1>2 DEF InsertRow, Row
<1>3. ASSUME NEW d \in Emails, Reject(d) \/ Store(d) \/ MarkFailed(d)
      PROVE  log'[e].status = "delivered" \/ e \in Misjudged'
  <2>1. CASE d # e
    BY <1>0, <1>3, <2>1 DEF Reject, Store, MarkFailed
  <2>2. CASE Store(e)
    BY <1>0, <2>2 DEF Store, Row
  <2>3. CASE MarkFailed(e)
    BY <1>0, <2>3 DEF MarkFailed, Misjudged
  <2> QED
    BY <1>0, <1>3, <2>1, <2>2, <2>3 DEF Reject
<1>4. ASSUME NEW h \in Handlers, NEW d \in Emails, NEW s \in Statuses, NEW hook \in BOOLEAN,
             Apply(h, d, s, hook)
      PROVE  log'[e].status \in {"delivered", "bounced", "complained"}
  <2>1. CASE d = e /\ log[e].status \in Replaces(s)
    <3>1. log'[e].status = s /\ s \in {"bounced", "complained"}
      BY <1>0, <1>4, <2>1, ReplacesDelivered DEF Apply, Row
    <3> QED
      BY <3>1
  <2>2. CASE d # e \/ log[d].status \notin Replaces(s)
    BY <1>0, <1>4, <2>2 DEF Apply
  <2> QED
    BY <2>1, <2>2
<1>5. \/ UNCHANGED log
      \/ \E s \in Senders, cc \in BOOLEAN : InsertRow(s, cc)
      \/ \E d \in Emails : Reject(d) \/ Store(d) \/ MarkFailed(d)
      \/ \E h \in Handlers : Answer(h) \/ \E d \in Emails, s \in Statuses : Webhook(h, d, s)
  BY DEF Next, vars, BeginSend, SendManually, SenderDies, Accept, Provide, Record, RecordFails, Ask,
     Confirm, CloseSuccessfully
<1>6. ASSUME NEW h \in Handlers, Answer(h)
      PROVE  log'[e].status \in {"delivered", "bounced", "complained"}
  <2>1. handler[h].email \in Emails /\ handler[h].status \in Statuses
    BY <1>6 DEF Answer, Truthful, Handled, TypeOK, Handler
  <2> QED
    BY <1>4, <1>6, <2>1 DEF Answer
<1>7. ASSUME NEW h \in Handlers, NEW d \in Emails, NEW s \in Statuses, Webhook(h, d, s)
      PROVE  log'[e].status \in {"delivered", "bounced", "complained"}
  BY <1>4, <1>7 DEF Webhook
<1> QED
  BY <1>1, <1>2, <1>3, <1>5, <1>6, <1>7

(* An email that lets the case close keeps doing so until a newer one is    *)
(* known, or it bounces or is complained about                              *)
(* (modules/cases/case-email-delivery.ts).                                  *)
THEOREM ProofOfDeliveryStays == Spec => DeliveryStaysProven
<1>1. Truthful /\ [Next]_vars =>
        [Delivered /\ ~Delivered' =>
           \/ Latest' # Latest
           \/ log'[Latest].status \in {"bounced", "complained"}
           \/ Latest \in Misjudged']_vars
  <2>1. SUFFICES ASSUME Truthful, [Next]_vars, Delivered, ~Delivered', Latest' = Latest
                 PROVE  \/ log'[Latest].status \in {"bounced", "complained"}
                        \/ Latest \in Misjudged'
    OBVIOUS
  <2>2. Latest # 0
    BY <2>1 DEF Delivered
  <2>3. PICK e \in Emails : e = Latest /\ e <= inserted
    BY <2>2, LatestKnown
  <2>4. /\ confirmed \subseteq confirmed'
        /\ manual' = manual \/ manual' = inserted
        /\ manual \in Nat /\ inserted \in Nat /\ manual <= inserted /\ e \in Nat
    <3>1. confirmed \subseteq confirmed' /\ (manual' = manual \/ manual' = inserted)
      BY <2>1 DEF Next, vars, caseVars, BeginSend, SendManually, InsertRow, Reject, Store, MarkFailed,
         SenderDies, Accept, Provide, Webhook, Answer, Apply, Record, RecordFails, Ask, Confirm,
         CloseSuccessfully
    <3> QED
      BY <2>1, <3>1, EmailDeliveryAssumption DEF Truthful, TypeOK, Emails
  <2>5. ~SupersededByManual(e)' /\ e \notin confirmed' /\ log'[e].status # "delivered"
    BY <2>1, <2>3 DEF Delivered, SupersededByManual
  <2>6. ~SupersededByManual(e) /\ e \notin confirmed
    BY <2>3, <2>4, <2>5 DEF SupersededByManual
  <2>7. log[e].status = "delivered"
    BY <2>1, <2>2, <2>3, <2>6 DEF Delivered
  <2> QED
    BY <2>1, <2>3, <2>5, <2>7, DeliveredStays
<1> QED
  BY <1>1, TruthfulHolds, PTL DEF Spec, DeliveryStaysProven
=============================================================================
