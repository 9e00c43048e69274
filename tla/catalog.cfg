CONSTANTS
  s1 = s1
  s2 = s2
  w1 = w1
  w2 = w2
  Skus = {s1, s2}
  Fixtures = {s1}
  Writers = {w1, w2}
  MaxWrites = 4
  MaxFaults = 1
  MaxRestarts = 1
SPECIFICATION FairSpec
INVARIANT QuietStoreAgrees
PROPERTY Converges
CHECK_DEADLOCK FALSE
