SPECIFICATION Spec
CONSTANTS
  b1 = b1
  b2 = b2
  r1 = r1
  r2 = r2
  u1 = u1
  u2 = u2
  u3 = u3
  suit = suit
  gown = gown
  Bookings = {b1}
  Reqs = {r1}
  Units = {u1}
  Skus = {suit}
  BookingOf <- LoneBookingOf
  Quantity <- LoneQuantity
  WantedSku <- LoneWanted
  SkuOf <- OneSuitUnit
  MaxDay = 2
  MaxRenewals = 2
  MaxDrafts = 1
  StaffTargets = {"AVAILABLE", "PREPARING", "READY", "OUT_FOR_RENTAL", "AWAITING_INSPECTION", "CLEANING", "REPAIRING"}
  DispositionTargets = {"ACTIVE", "QUARANTINED", "LOST", "RETIRED"}
  Decisions = {"AVAILABLE", "CLEANING", "REPAIR", "QUARANTINE", "LOST", "RETIRE"}
CHECK_DEADLOCK FALSE
INVARIANT
  LossNeverForgotten
