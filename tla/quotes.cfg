SPECIFICATION Spec
CONSTANTS
  b1 = b1
  b2 = b2
  Buyers <- MCBuyers
  Requests <- MCRequests
  Listings <- MCListings
  Bargains = {1500}
  quoteValiditySeconds = 1
  quoteExpiryGraceSeconds = 1
  agreedPriceValiditySeconds = 2
  MaxTime = 3
  MaxEdits = 1
  MaxBargains = 1
  MaxQuotes = 1
  MaxIssued = 2
  MaxCarts = 1
SYMMETRY Symmetry
INVARIANT LiveQuoteHonoured
INVARIANT PayableIsLockable
INVARIANT DiscountIsBargained
INVARIANT SaleHonoured
INVARIANT PaidAsQuoted
CHECK_DEADLOCK FALSE
