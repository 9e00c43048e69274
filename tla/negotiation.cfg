SPECIFICATION FairSpec
CONSTANTS
  k1 = k1
  k2 = k2
  b1 = b1
  Calls <- MCCalls
  Buyers = {b1}
  Request <- MCRequest
  Policies <- MCPolicies
  ListPrice = 17
  minConcessionPaise = 2
  concessionRateBps = 3000
  maxNegotiationTurns = 3
  microFeePerTurnPaise = 1
  initialEscrowPoolPaise = 3
  MaxEdits = 2
  MaxFaults = 2
INVARIANT CeilingHeld
INVARIANT EscrowConserved
INVARIANT HoldsReleased
INVARIANT DeclinedFirstTurnIsFree
PROPERTY CallsConclude
CHECK_DEADLOCK FALSE
