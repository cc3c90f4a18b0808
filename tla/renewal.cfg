SPECIFICATION Spec
CONSTANTS
  b1 = b1
  b2 = b2
  r1 = r1
  r2 = r2
  u1 = u1
  u2 = u2
  u3 = u3
  suit = suit
  gown = gown
  Bookings = {b1, b2}
  Reqs = {r1, r2}
  Units = {u1}
  Skus = {suit}
  BookingOf <- RivalsBookingOf
  Quantity <- OneEach
  WantedSku <- AllSuit
  SkuOf <- OneSuitUnit
  MaxDay = 1
  MaxRenewals = 1
  MaxDrafts = 0
  StaffTargets = {}
  DispositionTargets = {}
  Decisions = {}
CHECK_DEADLOCK FALSE
INVARIANT NoOverbooking
