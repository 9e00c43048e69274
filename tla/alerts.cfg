SPECIFICATION AlertsFairSpec
CONSTANTS
  a1 = a1
  a2 = a2
  Alerts = {a1, a2}
  Target <- MCTarget
  Expiry <- MCExpiry
  Prices = {1, 2}
  MaxEvents = 2
  MaxTime = 2
  Faults = {"store", "watch", "crash"}
INVARIANT AlertStands
INVARIANT CancelSticks
PROPERTY HeardWhenDue
CHECK_DEADLOCK FALSE
