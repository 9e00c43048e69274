CONSTANTS
  d1 = d1
  d2 = d2
  i1 = i1
  i2 = i2
  k1 = k1
  k2 = k2
  Delegations = {d1, d2}
  Items = {i1, i2}
  Calls = {k1, k2}
  Price <- Prices
  Budget <- Budgets
  Custodial = {d1}
  MaxRemembered = 1
  MaxCarts = 2
  MaxExecutions = 2
  Faults = {"lostReply", "redis"}
SPECIFICATION Spec
INVARIANT SessionCeilingHeld
INVARIANT ReplayIsOriginal
INVARIANT DelegationUsedOnce
INVARIANT NoUnwittingRepeat
INVARIANT KeyDiesWithPurchase
CONSTRAINT OneHazard
SYMMETRY SameCalls
CHECK_DEADLOCK FALSE
