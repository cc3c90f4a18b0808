SPECIFICATION MCSpec
CONSTANTS
  p1 = p1
  p2 = p2
  k1 = k1
  k2 = k2
  Loads = {"any"}
  Parcels = {p1, p2}
  Keys = {k1, k2}
  Callers = {1, 2}
  Handlers = {1}
  Courier = "pathao"
  Ends <- Delivered
  CodAmounts <- Collect
  ByHand <- None
  MaxByHand = 0
CHECK_DEADLOCK FALSE
INVARIANT OneParcel
