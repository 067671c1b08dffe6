SPECIFICATION Spec
CONSTANTS
  u1 = u1
  u2 = u2
  r1 = r1
  r2 = r2
  NoOne = NoOne
  Agents = {u1, u2}
  Requests = {r1, r2}
  MaxFailed = 1
SYMMETRY Alike
INVARIANTS TypeOK OwnedUnlessNew
PROPERTIES NoLostAssignment ClosedIsFrozen
CHECK_DEADLOCK FALSE
