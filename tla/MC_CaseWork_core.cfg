SPECIFICATION Spec
CONSTANTS
  r1 = r1
  r2 = r2
  m1 = m1
  m2 = m2
  s1 = s1
  s2 = s2
  None = None
  Scenes <- Together
  Requests = {r1, r2}
  Mids = {m1, m2}
  Subs = {s1, s2}
  MaxCodes = 2
SYMMETRY Alike
INVARIANTS TypeOK OneCode ClosedWithItsWork
CHECK_DEADLOCK FALSE
