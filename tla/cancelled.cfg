SPECIFICATION MCSpec
CONSTANTS
  p1 = p1
  p2 = p2
  k1 = k1
  k2 = k2
  Loads = {"any"}
  Parcels = {p1}
  Keys = {k1}
  Callers = {1}
  Handlers = {1}
  Courier = "pathao"
  Ends <- Delivered
  CodAmounts <- Collect
  ByHand <- Cancelled
  MaxByHand = 1
CHECK_DEADLOCK FALSE
INVARIANT CancelledIsNotCarried
