CONSTANTS
  s1 = s1
  s2 = s2
  w1 = w1
  w2 = w2
  Compensators = {s1}
  Workers = {w1, w2}
  LegCount = 2
  MaxRetries = 2
  Faults = {"refusal", "lostReply", "redis", "crash"}
SPECIFICATION Spec
SYMMETRY Symmetry
INVARIANT RefundedAtMostOnce
PROPERTY NoReversalAfterTombstone
CHECK_DEADLOCK FALSE
