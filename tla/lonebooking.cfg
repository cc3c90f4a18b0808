SPECIFICATION Spec
CONSTANTS
  b1 = b1
  b2 = b2
  r1 = r1
  r2 = r2
  u1 = u1
  u2 = u2
  u3 = u3
  suit = suit
  gown = gown
  Bookings = {b1}
  Reqs = {r1}
  Units = {u1}
  Skus = {suit}
  BookingOf <- LoneBookingOf
  Quantity <- LoneQuantity
  WantedSku <- LoneWanted
  SkuOf <- OneSuitUnit
  MaxDay = 1
  MaxRenewals = 0
  MaxDrafts = 1
  StaffTargets = {"AVAILABLE", "PREPARING", "READY"}
  DispositionTargets = {}
  Decisions = {"AVAILABLE"}
CHECK_DEADLOCK FALSE
\* Each of these fails in this instance; TLC shows the first one it meets.
INVARIANT InspectedMeansInspected
\* INVARIANT ClosedBookingsHoldNoUnit
\* INVARIANT CompletionAttributesRevenue
\* PROPERTY CancelledFromPendingOrConfirmed
