SPECIFICATION Spec
CONSTANTS
  b1 = b1
  b2 = b2
  r1 = r1
  r2 = r2
  u1 = u1
  u2 = u2
  u3 = u3
  suit = suit
  gown = gown
  Bookings = {b1}
  Reqs = {r1, r2}
  Units = {u1, u2, u3}
  Skus = {suit, gown}
  BookingOf <- SetBookingOf
  Quantity <- OneAndTwo
  WantedSku <- SuitAndGown
  SkuOf <- SuitAndTwoGowns
  MaxDay = 2
  MaxRenewals = 0
  MaxDrafts = 0
  StaffTargets = {"PREPARING", "READY"}
  DispositionTargets = {}
  Decisions = {}
CHECK_DEADLOCK FALSE
INVARIANTS
  AssignedQuantityExact
  AssignmentsMatchSku
  PreparedStaysPacked
  StatusMatchesItems
PROPERTY
  HandOutComplete
