SPECIFICATION Spec
CONSTANTS
  f1 = f1
  f2 = f2
  a1 = a1
  a2 = a2
  p1 = p1
  p2 = p2
  Form = Form
  Gone = Gone
  Fields = {f1}
  OptionalFields = {f1}
  Staff = {a1, a2}
  Modes = {"auto"}
  Posts = {p1, p2}
  MaxTokens = 2
  MaxFaults = 1
SYMMETRY Requests
INVARIANTS TypeOK OneUseOfOneLink AwaitingHasLink DocumentsKeepTheirFiles
CHECK_DEADLOCK FALSE
