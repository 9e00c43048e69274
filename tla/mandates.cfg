CONSTANTS
  user = user
  agent = agent
  stranger = stranger
  merchant = merchant
  food = food
  tools = tools
  Unclassified = Unclassified
  Uncategorized = Uncategorized
  n1 = n1
  n2 = n2
  n3 = n3
  n4 = n4
  n5 = n5
  r1 = r1
  r2 = r2
  r3 = r3
  r4 = r4
  r5 = r5
  r6 = r6
  r7 = r7
  Requests = {r1, r2, r3, r4, r5, r6, r7}
  Bundle <- Presented
  Shifts <- Clocks
  MinDrift = 1
  MaxDrift = 2
  NonceTtl = 5
  MinSpendTtl = 1
  Total <- SumOfAmounts
  MaxTime = 5
SPECIFICATION Spec
INVARIANT AcceptedIsAuthorized
INVARIANT ExpiryBinds
INVARIANT NonceOutlivesMandate
INVARIANT BudgetHeldUntilExpiry
CHECK_DEADLOCK FALSE
SYMMETRY Retries
