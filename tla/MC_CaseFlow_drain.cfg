SPECIFICATION FairSpec
CONSTANTS
  review = review
  agreement = agreement
  target = target
  w1 = w1
  w2 = w2
  r1 = r1
  r2 = r2
  s1 = s1
  s2 = s2
  NoQueue = NoQueue
  NoSub = NoSub
  Queues = {review, agreement, target}
  StartQueues = {review, agreement}
  StartCase <- ReviewLast
  CloseTriggers <- Triggers
  CloseBlockers <- NoRules
  CreationRequirements <- ReviewRequired
  ReviewQueues = {}
  AgreementQueues = {agreement}
  SubFormQueues = {}
  LiveQueues = {target}
  ManualQueues = {target}
  SubMerchants = {s1}
  Workers = {w1, w2}
  Requests = {r1}
  MaxCases = 4
  MaxFaults = 1
INVARIANTS DeadlocksNeedTwoTargets
PROPERTIES JobsDrain
CHECK_DEADLOCK FALSE
