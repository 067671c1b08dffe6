SPECIFICATION Spec
CONSTANTS
  s1 = s1
  s2 = s2
  h1 = h1
  h2 = h2
  Senders = {s1}
  Handlers = {h1, h2}
  MaxEmails = 2
  MaxFaults = 1
  TimesOut = TRUE
  Reports <- FirstInFull
SYMMETRY Requests
INVARIANTS TypeOK EmailsSettle
PROPERTIES DeliveryStaysProven
CHECK_DEADLOCK FALSE
