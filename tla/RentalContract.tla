--------------------------- MODULE RentalContract ---------------------------
(***************************************************************************)
(* What the rental core promises, without reservations, counters, units'   *)
(* states, holds or sweeps: a unit is promised to one requirement at a     *)
(* time on a day, leaves the shop only under a committed booking it is     *)
(* promised to, and a booking is never closed while a customer still has   *)
(* one of its units.                                                       *)
(***************************************************************************)
EXTENDS Integers

CONSTANTS Bookings, Reqs, Units, BookingOf, Days

VARIABLES
  phase,      \* booking -> "open", "committed" or "closed"
  calendar,   \* promises [req, unit, from, to]
  away        \* <<requirement, unit>> pairs a customer has

contractVars == <<phase, calendar, away>>

Promises == [req : Reqs, unit : Units, from : Days, to : Days]
PromisedTo(b) == {p \in calendar : BookingOf[p.req] = b}
IsAway(p) == <<p.req, p.unit>> \in away
NobodyAway(b) == ~\E r \in Reqs, u \in Units : BookingOf[r] = b /\ <<r, u>> \in away

Init ==
  /\ phase = [b \in Bookings |-> "open"]
  /\ calendar = {}
  /\ away = {}

Promise(r, us, f, t) ==
  /\ phase[BookingOf[r]] # "closed"
  /\ \A p \in calendar : p.unit \in us => p.to < f \/ t < p.from
  /\ calendar' = calendar \cup {[req |-> r, unit |-> u, from |-> f, to |-> t] : u \in us}
  /\ UNCHANGED <<phase, away>>

Withdraw(p) ==
  /\ ~IsAway(p)
  /\ calendar' = calendar \ {p}
  /\ UNCHANGED <<phase, away>>

Commit(b) ==
  /\ phase[b] = "open"
  /\ phase' = [phase EXCEPT ![b] = "committed"]
  /\ UNCHANGED <<calendar, away>>

HandOver(r, us) ==
  /\ phase[BookingOf[r]] = "committed"
  /\ \A u \in us : \E p \in calendar : p.req = r /\ p.unit = u
  /\ away' = away \cup {<<r, u>> : u \in us}
  /\ UNCHANGED <<phase, calendar>>

TakeBack(r, us) ==
  /\ \A u \in us : <<r, u>> \in away
  /\ away' = away \ {<<r, u>> : u \in us}
  /\ calendar' = {p \in calendar : p.req # r \/ p.unit \notin us}
  /\ UNCHANGED phase

(* Bookings end together when one sweep ends them; what they were promised  *)
(* may be withdrawn with them or later.                                     *)
Close(bs) ==
  /\ \A b \in bs : NobodyAway(b)
  /\ phase' = [b \in Bookings |-> IF b \in bs THEN "closed" ELSE phase[b]]
  /\ \/ calendar' = calendar
     \/ calendar' = {p \in calendar : BookingOf[p.req] \notin bs}
  /\ UNCHANGED away

Next ==
  \/ \E r \in Reqs, us \in SUBSET Units :
       \/ \E f, t \in Days : Promise(r, us, f, t)
       \/ HandOver(r, us)
       \/ TakeBack(r, us)
  \/ \E p \in calendar : Withdraw(p)
  \/ \E b \in Bookings : Commit(b)
  \/ \E bs \in SUBSET Bookings : Close(bs)

Spec == Init /\ [][Next]_contractVars
=============================================================================
