CONSTANTS
  a1 = a1
  a2 = a2
  a3 = a3
  a4 = a4
  c1 = c1
  c2 = c2
  c3 = c3
  m1 = m1
  n1 = n1
  n2 = n2
  n3 = n3
  n4 = n4
  Attempts = {a1, a2, a3, a4}
  Carts = {c1, c2, c3}
  Mandates = {m1}
  Nonces = {n1, n2, n3, n4}
  CartOf <- RaceCart
  MandateOf <- OneMandate
  NonceOf <- RaceNonce
  Amount <- RaceAmount
  MaxBudget <- RaceBudget
  LegCount <- RaceLegs
  Overdraft = {}
  Total <- SumOfAmounts
  Faults = {"refusal", "lostReply"}
SPECIFICATION Spec
INVARIANT OneSettlementPerCart
INVARIANT BudgetNeverExceeded
INVARIANT CounterIsExact
PROPERTY CaptureIsAuthorized
PROPERTY KeepsPromise
CHECK_DEADLOCK FALSE
