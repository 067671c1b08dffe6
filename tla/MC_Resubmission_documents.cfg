SPECIFICATION Spec
CONSTANTS
  f1 = f1
  f2 = f2
  a1 = a1
  a2 = a2
  p1 = p1
  p2 = p2
  Form = Form
  Gone = Gone
  Fields = {f1, f2}
  OptionalFields = {f2}
  Staff = {a1}
  Modes = {"manual"}
  Posts = {p1, p2}
  MaxTokens = 2
  MaxFaults = 0
SYMMETRY Requests
PROPERTIES SupersedesWhatItReplaced
CHECK_DEADLOCK FALSE
