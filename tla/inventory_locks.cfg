CONSTANTS
  p1 = p1
  p2 = p2
  p3 = p3
  k1 = k1
  k2 = k2
  Purchases = {p1, p2, p3}
  Skus = {k1}
  SkuOf <- ScarceSku
  Quantity <- ScarceQuantity
  Listing <- ScarceListing
  Units <- SumOfQuantities
  Ttl = 2
  TicksPerSecond = 2
  Delay = 1
  MaxTime = 4
  MaxPublications = 1
  MaxRestarts = 1
  Faults = {"lostReply", "redis"}
SPECIFICATION Spec
INVARIANT UnitsAccountedFor
INVARIANT LiveLockIsBacked
PROPERTY RefusalIsHonest
CHECK_DEADLOCK FALSE
