----------------------------- MODULE AtomicHolds -----------------------------
(***************************************************************************)
(* What the hold sweep, approvals and cancellations promise, as if each     *)
(* were one step: a booking and all of its reservations are decided         *)
(* together, a pending one is confirmed or expires whole, and only a         *)
(* pending one does.                                                        *)
(***************************************************************************)
CONSTANTS Bookings, Reqs, BookingOf

VARIABLES status, resv

holdVars == <<status, resv>>

Init ==
  /\ status = [b \in Bookings |-> "pending"]
  /\ resv = [r \in Reqs |-> "PENDING"]

(* The bookings bs and all of their reservations, from one of from.          *)
Decide(bs, from, to, with) ==
  /\ \A b \in bs : status[b] \in from
  /\ status' = [b \in Bookings |-> IF b \in bs THEN to ELSE status[b]]
  /\ resv' = [r \in Reqs |-> IF BookingOf[r] \in bs THEN with ELSE resv[r]]

Confirm(b) == Decide({b}, {"pending"}, "confirmed", "CONFIRMED")
GiveUp(b) == Decide({b}, {"pending", "confirmed"}, "cancelled", "CANCELLED")
Expire(bs) == Decide(bs, {"pending"}, "cancelled", "EXPIRED")

Next ==
  \/ \E b \in Bookings : Confirm(b) \/ GiveUp(b)
  \/ \E bs \in SUBSET Bookings : Expire(bs)

Spec == Init /\ [][Next]_holdVars
=============================================================================
