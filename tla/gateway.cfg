SPECIFICATION Spec
CONSTANTS
  p1 = p1
  p2 = p2
  p3 = p3
  i1 = i1
  i2 = i2
  Payments = {p1, p2, p3}
  Items = {i1}
  ItemDeposit <- OneItem
  RentalTotal = 1
  Method = "sslcommerz"
  LateFees <- Fees
  MaxCharges = 1
  CodAmounts <- OneCollected
  Callers = {1, 2}
  Handlers = {1, 2}
  RetryInSession = FALSE
SYMMETRY AnyPayment
INVARIANT LedgerExact
PROPERTIES ImplementsOpenBooks
CHECK_DEADLOCK FALSE
