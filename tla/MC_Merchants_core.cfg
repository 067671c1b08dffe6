SPECIFICATION Spec
CONSTANTS
  r1 = r1
  r2 = r2
  d1 = d1
  d2 = d2
  p1 = p1
  p2 = p2
  NoKey = NoKey
  NoOne = NoOne
  Root = Root
  Requests = {r1, r2}
  Forms <- SomeForms
  Docs = {d1, d2}
  Provisioners = {p1, p2}
  MaxFaults = 1
SYMMETRY Alike
INVARIANTS TypeOK SubmittedOnce OpenMerchantsHaveTheirFiles
PROPERTIES DeletionLeavesNothing
CHECK_DEADLOCK FALSE
