SPECIFICATION Spec
CONSTANTS
  p1 = p1
  p2 = p2
  p3 = p3
  i1 = i1
  i2 = i2
  Payments = {p1, p2, p3}
  Items = {i1, i2}
  ItemDeposit <- TwoItems
  RentalTotal = 1
  Method = "bkash"
  LateFees <- Fees
  MaxCharges = 2
  CodAmounts <- None
  Callers = {}
  Handlers = {}
  RetryInSession = FALSE
SYMMETRY AnyPayment
INVARIANTS PaymentStatusCurrent DepositStatusCurrent
PROPERTIES NeverOvercollected SettlementFinal
CHECK_DEADLOCK FALSE
