SPECIFICATION Spec
CONSTANTS
  p1 = p1
  p2 = p2
  p3 = p3
  i1 = i1
  i2 = i2
  Payments = {p1, p2}
  Items = {i1}
  ItemDeposit <- OneItem
  RentalTotal = 1
  Method = "cod"
  LateFees <- None
  MaxCharges = 0
  CodAmounts <- Collections
  Callers = {}
  Handlers = {}
  RetryInSession = FALSE
SYMMETRY AnyPayment
CHECK_DEADLOCK FALSE
\* Each of these fails in this instance; TLC shows the first one it meets.
PROPERTY NeverOvercollected
\* INVARIANT DepositStatusCurrent
