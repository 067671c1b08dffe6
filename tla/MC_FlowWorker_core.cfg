SPECIFICATION LoopSpec
CONSTANTS
  j1 = j1
  j2 = j2
  None = None
  Completed = Completed
  Jobs = {j1, j2}
  Poll = 1
  IdlePoll = 5
  Batch = 2
  RetryDelays = {2, 7}
SYMMETRY AnyJob
INVARIANTS LoopTypeOK OneCycleOrTimer KeepsUp
CHECK_DEADLOCK FALSE
