SPECIFICATION Spec
CONSTANTS
  b1 = b1
  b2 = b2
  r1 = r1
  r2 = r2
  r3 = r3
  Bookings = {b1}
  Reqs = {r1}
  BookingOf <- Single
  MaxRenewals = 1
  MaxCancels = 1
CHECK_DEADLOCK FALSE
\* Each of these fails in this instance; TLC shows the first one it meets.
INVARIANT ConfirmedIsLive
\* PROPERTY ExpiresOnlyLapsed
\* PROPERTY NoCancelOverHandedOut
