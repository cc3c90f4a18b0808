SPECIFICATION Spec
CONSTANTS
  p1 = p1
  p2 = p2
  p3 = p3
  i1 = i1
  i2 = i2
  Payments = {p1, p2}
  Items = {i1, i2}
  ItemDeposit <- TwoItems
  RentalTotal = 1
  Method = "bkash"
  LateFees <- None
  MaxCharges = 1
  CodAmounts <- None
  Callers = {}
  Handlers = {}
  RetryInSession = FALSE
SYMMETRY AnyPayment
INVARIANT DepositsCollectedOnce
CHECK_DEADLOCK FALSE
