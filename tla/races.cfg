SPECIFICATION FairSpec
CONSTANTS
  b1 = b1
  b2 = b2
  r1 = r1
  r2 = r2
  r3 = r3
  Bookings = {b1, b2}
  Reqs = {r1, r2, r3}
  BookingOf <- PairAndSingle
  MaxRenewals = 1
  MaxCancels = 2
CHECK_DEADLOCK FALSE
PROPERTIES LapsedRequestsEnd ImplementsAtomicHolds
