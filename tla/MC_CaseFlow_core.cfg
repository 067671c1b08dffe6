SPECIFICATION Spec
CONSTANTS
  review = review
  agreement = agreement
  target = target
  w1 = w1
  w2 = w2
  r1 = r1
  r2 = r2
  s1 = s1
  s2 = s2
  NoQueue = NoQueue
  NoSub = NoSub
  Queues = {review, agreement, target}
  StartQueues = {review, agreement}
  StartCase <- ReviewLast
  CloseTriggers <- Triggers
  CloseBlockers <- Blockers
  CreationRequirements <- Requirements
  ReviewQueues = {}
  AgreementQueues = {}
  SubFormQueues = {}
  LiveQueues = {target}
  ManualQueues = {}
  SubMerchants = {s1}
  Workers = {w1, w2}
  Requests = {r1, r2}
  MaxCases = 4
  MaxFaults = 1
SYMMETRY Staff
INVARIANTS TypeOK OnceOnly TombstoneIsProof CloseIsOwed
PROPERTIES ClosedOnlyWhenUnblocked DoneJobsStayDone
CHECK_DEADLOCK FALSE
