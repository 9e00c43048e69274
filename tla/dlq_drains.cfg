CONSTANTS
  s1 = s1
  s2 = s2
  w1 = w1
  w2 = w2
  Compensators = {s1, s2}
  Workers = {w1, w2}
  LegCount = 1
  MaxRetries = 2
  Faults = {"refusal", "lostReply"}
SPECIFICATION FairSpec
INVARIANT NothingForgotten
PROPERTY QueueDrains
PROPERTY KeepsRefundPromise
CHECK_DEADLOCK FALSE
