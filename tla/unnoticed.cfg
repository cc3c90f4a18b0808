SPECIFICATION MCFairSpec
CONSTANTS
  p1 = p1
  p2 = p2
  k1 = k1
  k2 = k2
  Loads = {"updates"}
  Parcels = {p1, p2}
  Keys = {k1}
  Callers = {1}
\* With Handlers = {1} and Ends <- Returned it fails too: Steadfast's answer
\* about a return is not understood.
  Handlers = {1, 2}
  Courier = "steadfast"
  Ends <- Delivered
  CodAmounts <- Collect
  ByHand <- None
  MaxByHand = 0
CHECK_DEADLOCK FALSE
PROPERTY EndIsNoticed
