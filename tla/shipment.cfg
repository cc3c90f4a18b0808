SPECIFICATION MCFairSpec
CONSTANTS
  p1 = p1
  p2 = p2
  k1 = k1
  k2 = k2
  Loads = {"dispatches", "updates"}
  Parcels = {p1, p2}
  Keys = {k1, k2}
  Callers = {1, 2}
  Handlers = {1, 2}
  Courier = "pathao"
  Ends <- BothEnds
  CodAmounts <- Collect
  ByHand <- Delivered
  MaxByHand = 1
INVARIANTS CashRecordedOnce SucceededIsTracked
PROPERTIES DispatchOncePerKey DispatchRecovers EndIsRecorded
CHECK_DEADLOCK FALSE
