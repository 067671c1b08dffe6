SPECIFICATION Spec
CONSTANTS
  a = a
  b = b
  c = c
  e1 = e1
  e2 = e2
  d1 = d1
  m1 = m1
  Queues = {a, b, c}
  Staged = {a, b, c}
  Editors = {e1, e2}
  Admins = {d1}
  Merchants = {m1}
  Drafts <- SomeFlows
  Baseline <- First
  MaxVersions = 3
  MaxRevision = 2
SYMMETRY Alike
INVARIANTS TypeOK ChecksAreExact
PROPERTIES FlowsStaySound PinnedToActive
CHECK_DEADLOCK FALSE
