SPECIFICATION Spec
CONSTANTS
  r1 = r1
  r2 = r2
  agent = agent
  admin = admin
  NoRole = NoRole
  Requests = {r1, r2}
  Roles = {agent, admin}
  MaxIssued = 3
  MaxVersion = 2
SYMMETRY Alike
INVARIANTS TypeOK OneLiveEnd AccessIsCurrent LinksWork
CHECK_DEADLOCK FALSE
