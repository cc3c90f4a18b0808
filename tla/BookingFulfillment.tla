------------------------- MODULE BookingFulfillment -------------------------
(***************************************************************************)
(* The rental core: bookings, the inventory reservations and fulfillment    *)
(* requirements they are made of, the exact stock units assigned to them,   *)
(* and the hand-out, return and loss of those units.                        *)
(*                                                                          *)
(* One action is one committed database transaction.  The one operation     *)
(* that decides on a read made before its transaction (cancelBooking) is    *)
(* split in two.  A requirement has one reservation, created with it, so    *)
(* both are indexed by the requirement.                                     *)
(***************************************************************************)
EXTENDS Integers, FiniteSets, Functions, StockUnitLifecycle

CONSTANTS
  Bookings, Reqs, Units, Skus,
  BookingOf,            \* requirement -> its booking
  Quantity,             \* requirement -> number of units it needs
  WantedSku,            \* requirement -> the SKU it is created with
  SkuOf,                \* unit -> its SKU
  MaxDay,               \* bound: the calendar is the days 1..MaxDay
  MaxRenewals,          \* bound: hold renewals per booking
  MaxDrafts,            \* bound: return inspections open at once
  StaffTargets,         \* bound: operational states staff ask for
  DispositionTargets,   \* bound: dispositions managers ask for
  Decisions             \* bound: inspection decisions taken

ASSUME IndexAssumption ==
  /\ BookingOf \in [Reqs -> Bookings]
  /\ WantedSku \in [Reqs -> Skus]
  /\ SkuOf \in [Units -> Skus]
ASSUME QuantityAssumption == Quantity \in [Reqs -> Nat \ {0}]
ASSUME FiniteAssumption ==
  IsFiniteSet(Bookings) /\ IsFiniteSet(Reqs) /\ IsFiniteSet(Units)
ASSUME BoundAssumption ==
  /\ MaxDay \in Nat \ {0} /\ MaxRenewals \in Nat /\ MaxDrafts \in Nat
  /\ StaffTargets \subseteq OperationalStates
  /\ DispositionTargets \subseteq Dispositions
  /\ Decisions \subseteq InspectionDecisions

Days == 1..MaxDay

BookingStatuses ==
  {"NONE", "pending", "confirmed", "delivered", "overdue", "returned",
   "inspected", "completed", "cancelled"}
ReservationStatuses ==
  {"NONE", "PENDING", "CONFIRMED", "CANCELLED", "EXPIRED", "RELEASED"}
RequirementStatuses ==
  {"NONE", "RESERVED", "PARTIALLY_ASSIGNED", "ASSIGNED",
   "PARTIALLY_HANDED_OUT", "HANDED_OUT", "PARTIALLY_RETURNED", "RETURNED",
   "LOST", "OVERDUE", "CANCELLED"}

VARIABLES
  status,      \* booking -> Booking.status
  lapsed,      \* booking -> its holds' expiresAt is in the past
  renewals,    \* booking -> renewHold calls so far
  resv,        \* requirement -> its InventoryReservation
  req,         \* requirement -> status, preparation and counters
  asg,         \* the StockUnitAssignments with releasedAt = null
  out,         \* requirement -> units handed out and not yet resolved
  unchecked,   \* released assignments without a completed RETURN inspection
  drafts,      \* assignments with an open RETURN inspection
  unit,        \* unit -> disposition and operational state
  lossIssues,  \* open availability-blocking LOSS issues
  revenue,     \* RENTAL_REVENUE rows of the revenue ledger
  cancelling   \* cancelBooking calls that have passed the status check

vars == <<status, lapsed, renewals, resv, req, asg, out, unchecked, drafts,
          unit, lossIssues, revenue, cancelling>>

Assignments ==
  [req : Reqs, unit : Units, from : Days, to : Days, checked : BOOLEAN]

NoReservation(r) == [status |-> "NONE", sku |-> WantedSku[r], from |-> 1, to |-> 1]
NoRequirement ==
  [status |-> "NONE", prep |-> "OPEN", assigned |-> 0, handedOut |-> 0,
   returned |-> 0, lost |-> 0]

Init ==
  /\ status = [b \in Bookings |-> "NONE"]
  /\ lapsed = [b \in Bookings |-> FALSE]
  /\ renewals = [b \in Bookings |-> 0]
  /\ resv = [r \in Reqs |-> NoReservation(r)]
  /\ req = [r \in Reqs |-> NoRequirement]
  /\ asg = {}
  /\ out = [r \in Reqs |-> {}]
  /\ unchecked = {}
  /\ drafts = {}
  /\ unit = [u \in Units |-> Rentable]
  /\ lossIssues = {}
  /\ revenue = {}
  /\ cancelling = {}

-----------------------------------------------------------------------------
(* Reading the state.                                                       *)

ReqsOf(b) == {r \in Reqs : BookingOf[r] = b}

LiveReqs(b) == {r \in ReqsOf(b) : req[r].status \notin {"NONE", "CANCELLED"}}

ACTIVE_REQUIREMENT_STATUSES == {"RESERVED", "PARTIALLY_ASSIGNED", "ASSIGNED"}
ActiveReqs(b) == {r \in ReqsOf(b) : req[r].status \in ACTIVE_REQUIREMENT_STATUSES}

LiveResv(r) == resv[r].status \in {"PENDING", "CONFIRMED"}

(* A reservation the availability query counts: a lapsed hold is free.      *)
Counted(r) ==
  \/ resv[r].status = "CONFIRMED"
  \/ resv[r].status = "PENDING" /\ ~lapsed[BookingOf[r]]

AssignmentsOf(r) == {a \in asg : a.req = r}
AssignmentsOfBooking(b) == {a \in asg : BookingOf[a.req] = b}
Held(r) == {a.unit : a \in AssignmentsOf(r)}
Pairs(as) == {<<a.req, a.unit>> : a \in as}

Outstanding(r) == req[r].handedOut > req[r].returned + req[r].lost
(* Mutant: one item back is enough.                                         *)
ResolvedByOne(r) == req[r].returned + req[r].lost > 0
Resolved(r) == req[r].returned + req[r].lost = Quantity[r]

Overlap(f1, t1, f2, t2) == f1 <= t2 /\ f2 <= t1

(* Mutant: open blocking issues are not looked at.                          *)
NoLossOpen(u) == FALSE
LossOpen(u) == \E r \in Reqs : <<r, u>> \in lossIssues
DraftOpen(u) == \E r \in Reqs : <<r, u>> \in drafts

(* A unit that counts as capacity and that assign accepts: rentable, no     *)
(* blocking issue, not under the block of an open return inspection.        *)
Eligible(u) == unit[u] = Rentable /\ ~LossOpen(u) /\ ~DraftOpen(u)

Capacity(sku) == Cardinality({u \in Units : SkuOf[u] = sku /\ Eligible(u)})

TotalQuantity(S) == SumFunctionOnSet(Quantity, S)

ReservedQuantity(sku, f, t, excluded) ==
  TotalQuantity({r \in Reqs \ excluded :
                   /\ resv[r].sku = sku
                   /\ Counted(r)
                   /\ Overlap(resv[r].from, resv[r].to, f, t)})

(* Mutant: room is asked for none instead of quantity units.                *)
AvailableForNone(sku, f, t, quantity, excluded) ==
  ReservedQuantity(sku, f, t, excluded) <= Capacity(sku)

(* inventory-availability check: does sku have room for quantity units?     *)
Available(sku, f, t, quantity, excluded) ==
  quantity + ReservedQuantity(sku, f, t, excluded) <= Capacity(sku)

(* Does an assignment, the given requirements' aside, hold u today or later? *)
HeldElsewhere(u, today, given) ==
  \E a \in asg : a.unit = u /\ a.req \notin given /\ a.to >= today

(* The lifecycle service called for u; the call names the given assignment. *)
CanMove(u, to, inspected, today, given) ==
  TransitionAllowed(unit[u], to, inspected, HeldElsewhere(u, today, given), LossOpen(u))

Today == 1..(MaxDay + 1)

MaxZero(n) == IF n < 0 THEN 0 ELSE n

-----------------------------------------------------------------------------
(* Requests and holds.                                                      *)

(* createBooking: every requirement gets a 24-hour PENDING reservation, or  *)
(* the whole booking fails; the requirements of one booking compete.        *)
CreateBooking(b, f, t) ==
  /\ status[b] = "NONE"
  /\ ReqsOf(b) # {}
  /\ \A s \in Skus :
       LET wanted == {r \in ReqsOf(b) : WantedSku[r] = s}
       IN  wanted # {} => Available(s, f, t, TotalQuantity(wanted), {})
  /\ status' = [status EXCEPT ![b] = "pending"]
  /\ resv' = [r \in Reqs |->
                IF r \in ReqsOf(b)
                THEN [status |-> "PENDING", sku |-> WantedSku[r], from |-> f, to |-> t]
                ELSE resv[r]]
  /\ req' = [r \in Reqs |->
               IF r \in ReqsOf(b) THEN [req[r] EXCEPT !.status = "RESERVED"] ELSE req[r]]
  /\ UNCHANGED <<lapsed, renewals, asg, out, unchecked, drafts, unit,
                 lossIssues, revenue, cancelling>>

(* Time passes the expiresAt of the booking's holds.                        *)
HoldLapses(b) ==
  /\ ~lapsed[b]
  /\ \E r \in ReqsOf(b) : resv[r].status = "PENDING"
  /\ lapsed' = [lapsed EXCEPT ![b] = TRUE]
  /\ UNCHANGED <<status, renewals, resv, req, asg, out, unchecked, drafts,
                 unit, lossIssues, revenue, cancelling>>

(* renewHold: a new expiry for every PENDING hold, also for a lapsed one;   *)
(* capacity is not looked at again.                                         *)
RenewHold(b) ==
  /\ status[b] = "pending"
  /\ renewals[b] < MaxRenewals
  /\ \E r \in ReqsOf(b) : resv[r].status = "PENDING"
  /\ lapsed' = [lapsed EXCEPT ![b] = FALSE]
  /\ renewals' = [renewals EXCEPT ![b] = @ + 1]
  /\ UNCHANGED <<status, resv, req, asg, out, unchecked, drafts, unit,
                 lossIssues, revenue, cancelling>>

LapsedHolds == {r \in Reqs : resv[r].status = "PENDING" /\ lapsed[BookingOf[r]]}

(* The pending bookings a sweep leaves without a live hold.                 *)
Emptied(swept) ==
  {b \in Bookings : /\ status[b] = "pending"
                    /\ \E r \in swept : BookingOf[r] = b
                    /\ \A r \in ReqsOf(b) : LiveResv(r) => r \in swept}

(* expirePending, run by the ten-minute cron: the lapsed holds of every     *)
(* booking expire, their requirements are cancelled, and a pending booking  *)
(* left without a live hold is cancelled.  Assignments are left alone.      *)
ExpirePending ==
  LET swept == LapsedHolds
      emptied == Emptied(swept)
  IN
  /\ swept # {}
  /\ resv' = [r \in Reqs |-> IF r \in swept THEN [resv[r] EXCEPT !.status = "EXPIRED"] ELSE resv[r]]
  /\ req' = [r \in Reqs |-> IF r \in swept THEN [req[r] EXCEPT !.status = "CANCELLED"] ELSE req[r]]
  /\ status' = [b \in Bookings |-> IF b \in emptied THEN "cancelled" ELSE status[b]]
  /\ UNCHANGED <<lapsed, renewals, asg, out, unchecked, drafts, unit,
                 lossIssues, revenue, cancelling>>

-----------------------------------------------------------------------------
(* Exact assignment.                                                        *)

(* Mutant: only the first day is compared with the other assignments.       *)
FreeOnFirstDay(u, f, t) == \A a \in asg : a.unit = u => ~Overlap(a.from, a.to, f, f)

(* No active assignment holds u on a day from f to t.                       *)
Free(u, f, t) == \A a \in asg : a.unit = u => ~Overlap(a.from, a.to, f, t)

(* Mutant: what is assigned already is forgotten.                           *)
OnlyNewAssigned(r, us) == Cardinality(us)
AssignedTotal(r, us) == Cardinality(AssignmentsOf(r)) + Cardinality(us)

(* Mutant: prepared inventory is not locked.                                *)
NeverLocked(r) == FALSE
PreparationLocked(r) == req[r].prep = "READY"

(* assign: any number of eligible units of the reserved SKU, free on every  *)
(* day of the reservation.                                                  *)
Assign(r, us) ==
  LET total == AssignedTotal(r, us)
      added == {[req |-> r, unit |-> u, from |-> resv[r].from, to |-> resv[r].to,
                 checked |-> FALSE] : u \in us}
  IN
  /\ us # {}
  /\ LiveResv(r)
  /\ ~PreparationLocked(r)
  /\ total <= Quantity[r]
  /\ \A u \in us : /\ SkuOf[u] = resv[r].sku /\ Eligible(u)
                   /\ Free(u, resv[r].from, resv[r].to)
  /\ asg' = asg \cup added
  /\ req' = [req EXCEPT ![r].assigned = total,
                        ![r].status = IF total = Quantity[r] THEN "ASSIGNED"
                                      ELSE "PARTIALLY_ASSIGNED"]
  /\ UNCHANGED <<status, lapsed, renewals, resv, out, unchecked, drafts, unit,
                 lossIssues, revenue, cancelling>>

Released(as) == Pairs({a \in as : ~a.checked})

(* release: only before hand-out and while preparation is open.             *)
ReleaseAssignment(a) ==
  LET r == a.req
      left == MaxZero(req[r].assigned - 1)
  IN
  /\ req[r].handedOut = 0
  /\ ~PreparationLocked(r)
  /\ asg' = asg \ {a}
  /\ unchecked' = unchecked \cup Released({a})
  /\ req' = [req EXCEPT ![r].assigned = left,
                        ![r].status = IF left > 0 THEN "PARTIALLY_ASSIGNED" ELSE "RESERVED"]
  /\ UNCHANGED <<status, lapsed, renewals, resv, out, drafts, unit, lossIssues,
                 revenue, cancelling>>

(* Mutant: units that are still assigned do not prevent a substitution.     *)
SubstitutableAssigned(r) ==
  req[r].status \in {"RESERVED", "PARTIALLY_ASSIGNED", "ASSIGNED", "OVERDUE"}

Substitutable(r) ==
  /\ req[r].status \in {"RESERVED", "PARTIALLY_ASSIGNED", "ASSIGNED", "OVERDUE"}
  /\ AssignmentsOf(r) = {}

(* substitute: another SKU for a requirement nothing is assigned to.        *)
Substitute(r, sku) ==
  /\ Substitutable(r)
  /\ sku # resv[r].sku
  /\ Available(sku, resv[r].from, resv[r].to, Quantity[r], {r})
  /\ resv' = [resv EXCEPT ![r].sku = sku]
  /\ req' = [req EXCEPT ![r].status = "RESERVED", ![r].prep = "OPEN"]
  /\ UNCHANGED <<status, lapsed, renewals, asg, out, unchecked, drafts, unit,
                 lossIssues, revenue, cancelling>>

-----------------------------------------------------------------------------
(* Review: approval and rejection of a request.                             *)

ReviewBlocked(b) ==
  \/ ActiveReqs(b) = {}
  \/ \E r \in ActiveReqs(b) :
       \/ ~Counted(r)
       \/ Cardinality(AssignmentsOf(r)) # Quantity[r]
       \/ \E u \in Held(r) : unit[u] # Rentable \/ LossOpen(u)

ApproveAndReserve(b) ==
  /\ status[b] = "pending"
  /\ ~ReviewBlocked(b)
  /\ status' = [status EXCEPT ![b] = "confirmed"]
  /\ resv' = [r \in Reqs |->
                IF r \in ReqsOf(b) /\ resv[r].status = "PENDING"
                THEN [resv[r] EXCEPT !.status = "CONFIRMED"] ELSE resv[r]]
  /\ UNCHANGED <<lapsed, renewals, req, asg, out, unchecked, drafts, unit,
                 lossIssues, revenue, cancelling>>

(* Mutants: a confirmed reservation is left behind; a reservation that was  *)
(* given up before is written again.                                        *)
ClosePendingOnly(b, reservationStatus) ==
  /\ asg' = asg \ AssignmentsOfBooking(b)
  /\ unchecked' = unchecked \cup Released(AssignmentsOfBooking(b))
  /\ resv' = [r \in Reqs |->
                IF r \in ReqsOf(b) /\ resv[r].status = "PENDING"
                THEN [resv[r] EXCEPT !.status = reservationStatus] ELSE resv[r]]
CloseEveryReservation(b, reservationStatus) ==
  /\ asg' = asg \ AssignmentsOfBooking(b)
  /\ unchecked' = unchecked \cup Released(AssignmentsOfBooking(b))
  /\ resv' = [r \in Reqs |->
                IF r \in ReqsOf(b)
                THEN [resv[r] EXCEPT !.status = reservationStatus] ELSE resv[r]]

(* What rejection, cancellation and completion do to the booking's          *)
(* assignments and live reservations.                                       *)
CloseInventory(b, reservationStatus) ==
  /\ asg' = asg \ AssignmentsOfBooking(b)
  /\ unchecked' = unchecked \cup Released(AssignmentsOfBooking(b))
  /\ resv' = [r \in Reqs |->
                IF r \in ReqsOf(b) /\ LiveResv(r)
                THEN [resv[r] EXCEPT !.status = reservationStatus] ELSE resv[r]]

CancelRequirements(S) ==
  req' = [r \in Reqs |-> IF r \in S THEN [req[r] EXCEPT !.status = "CANCELLED"] ELSE req[r]]

RejectRequest(b) ==
  /\ status[b] = "pending"
  /\ CloseInventory(b, "CANCELLED")
  /\ CancelRequirements(ActiveReqs(b))
  /\ status' = [status EXCEPT ![b] = "cancelled"]
  /\ UNCHANGED <<lapsed, renewals, out, drafts, unit, lossIssues, revenue, cancelling>>

(* cancelBooking, first half: the status check, on a read outside the       *)
(* transaction.  At most one call per booking is in flight (bound).         *)
CancelRequest(b) ==
  /\ b \notin cancelling
  /\ status[b] \in {"pending", "confirmed"}
  /\ cancelling' = cancelling \cup {b}
  /\ UNCHANGED <<status, lapsed, renewals, resv, req, asg, out, unchecked,
                 drafts, unit, lossIssues, revenue>>

(* Mutant: items that are out do not prevent a cancellation.                *)
RefusedOnlyIfEmpty(b) == LiveReqs(b) = {}
CancelRefused(b) == LiveReqs(b) = {} \/ \E r \in LiveReqs(b) : Outstanding(r)

(* cancelBooking, second half: the transaction, which does not look at the  *)
(* booking's status again.                                                  *)
CancelCommit(b) ==
  /\ b \in cancelling
  /\ ~CancelRefused(b)
  /\ status' = [status EXCEPT ![b] = "cancelled"]
  /\ CancelRequirements(LiveReqs(b))
  /\ CloseInventory(b, "CANCELLED")
  /\ cancelling' = cancelling \ {b}
  /\ UNCHANGED <<lapsed, renewals, out, drafts, unit, lossIssues, revenue>>

CancelFail(b) ==
  /\ b \in cancelling
  /\ CancelRefused(b)
  /\ cancelling' = cancelling \ {b}
  /\ UNCHANGED <<status, lapsed, renewals, resv, req, asg, out, unchecked,
                 drafts, unit, lossIssues, revenue>>

-----------------------------------------------------------------------------
(* Changing the dates.                                                      *)

(* extendBookingRequirements: a later end for every requirement still in    *)
(* play, each checked on its own against the unextended others.  The        *)
(* reservations move; the assignments keep the days they were made for.     *)
Extend(b, end) ==
  LET open == {r \in LiveReqs(b) : req[r].status \notin {"RETURNED", "LOST"}}
      NextStatus(r) ==
        IF req[r].status # "OVERDUE" THEN req[r].status
        ELSE IF req[r].handedOut = Quantity[r] THEN "HANDED_OUT" ELSE "RESERVED"
  IN
  /\ status[b] \in {"pending", "confirmed", "delivered", "overdue"}
  /\ open # {}
  /\ \A r \in open :
       /\ end > resv[r].to
       /\ Available(resv[r].sku, resv[r].from, end, Quantity[r], {r})
  /\ resv' = [r \in Reqs |-> IF r \in open THEN [resv[r] EXCEPT !.to = end] ELSE resv[r]]
  /\ req' = [r \in Reqs |-> IF r \in open THEN [req[r] EXCEPT !.status = NextStatus(r)] ELSE req[r]]
  /\ UNCHANGED <<status, lapsed, renewals, asg, out, unchecked, drafts, unit,
                 lossIssues, revenue, cancelling>>

-----------------------------------------------------------------------------
(* Preparation, hand-out, return and loss.                                  *)

(* Mutant: READY without every unit assigned.                               *)
PrepareUnassigned(r, prep) ==
  /\ status[BookingOf[r]] = "confirmed"
  /\ req[r].handedOut = 0
  /\ req[r].prep # prep
  /\ req' = [req EXCEPT ![r].prep = prep]
  /\ UNCHANGED <<status, lapsed, renewals, resv, asg, out, unchecked, drafts,
                 unit, lossIssues, revenue, cancelling>>

(* prepareRequirement: "OPEN" stands for NOT_STARTED and IN_PROGRESS, which *)
(* no guard tells apart.                                                    *)
Prepare(r, prep) ==
  /\ status[BookingOf[r]] = "confirmed"
  /\ req[r].handedOut = 0
  /\ prep = "READY" => req[r].assigned = Quantity[r]
  /\ req[r].prep # prep
  /\ req' = [req EXCEPT ![r].prep = prep]
  /\ UNCHANGED <<status, lapsed, renewals, resv, asg, out, unchecked, drafts,
                 unit, lossIssues, revenue, cancelling>>

(* recordEvent HANDED_OUT for the active assignments of r that hold us.     *)
HandOut(r, us, today) ==
  LET gone == [u \in Units |-> [unit[u] EXCEPT !.op = "OUT_FOR_RENTAL"]]
      total == req[r].handedOut + Cardinality(us)
  IN
  /\ status[BookingOf[r]] = "confirmed"
  /\ req[r].prep = "READY"
  /\ us # {} /\ us \subseteq Held(r) \ out[r]
  /\ total <= Quantity[r]
  /\ \A u \in us : CanMove(u, gone[u], FALSE, today, {r})
  /\ unit' = [u \in Units |-> IF u \in us THEN gone[u] ELSE unit[u]]
  /\ out' = [out EXCEPT ![r] = @ \cup us]
  /\ req' = [req EXCEPT ![r].handedOut = total,
                        ![r].status = IF total = Quantity[r] THEN "HANDED_OUT"
                                      ELSE "PARTIALLY_HANDED_OUT"]
  /\ UNCHANGED <<status, lapsed, renewals, resv, asg, unchecked, drafts,
                 lossIssues, revenue, cancelling>>

(* The part RETURNED and MARKED_LOST share: the units come off the          *)
(* requirement, which counts them as returned or lost.                      *)
TakeBack(r, us, returned, lost) ==
  LET done == {a \in AssignmentsOf(r) : a.unit \in us} IN
  /\ status[BookingOf[r]] \in {"delivered", "overdue"}
  /\ us # {} /\ us \subseteq out[r] /\ us \subseteq Held(r)
  /\ Cardinality(us) <= req[r].handedOut - req[r].returned - req[r].lost
  /\ asg' = asg \ done
  /\ unchecked' = unchecked \cup Released(done)
  /\ out' = [out EXCEPT ![r] = @ \ us]
  /\ req' = [req EXCEPT ![r].returned = returned,
                        ![r].lost = lost,
                        ![r].assigned = MaxZero(@ - Cardinality(us)),
                        ![r].status = IF returned + lost # Quantity[r] THEN "PARTIALLY_RETURNED"
                                      ELSE IF lost > 0 THEN "LOST" ELSE "RETURNED"]
  /\ UNCHANGED <<status, lapsed, renewals, resv, drafts, revenue, cancelling>>

(* Mutant: the returned counter moves the wrong way.                        *)
ReturnItemsBackwards(r, us, today) ==
  LET back == [u \in Units |-> [unit[u] EXCEPT !.op = "AWAITING_INSPECTION"]] IN
  /\ TakeBack(r, us, req[r].returned - Cardinality(us), req[r].lost)
  /\ \A u \in us : CanMove(u, back[u], FALSE, today, {r})
  /\ unit' = [u \in Units |-> IF u \in us THEN back[u] ELSE unit[u]]
  /\ UNCHANGED lossIssues

(* recordEvent RETURNED.                                                    *)
ReturnItems(r, us, today) ==
  LET back == [u \in Units |-> [unit[u] EXCEPT !.op = "AWAITING_INSPECTION"]] IN
  /\ TakeBack(r, us, req[r].returned + Cardinality(us), req[r].lost)
  /\ \A u \in us : CanMove(u, back[u], FALSE, today, {r})
  /\ unit' = [u \in Units |-> IF u \in us THEN back[u] ELSE unit[u]]
  /\ UNCHANGED lossIssues

(* recordEvent MARKED_LOST.                                                 *)
MarkLost(r, us, today) ==
  LET gone == [u \in Units |-> [unit[u] EXCEPT !.disp = "LOST"]] IN
  /\ TakeBack(r, us, req[r].returned, req[r].lost + Cardinality(us))
  /\ \A u \in us : CanMove(u, gone[u], FALSE, today, {r})
  /\ unit' = [u \in Units |-> IF u \in us THEN gone[u] ELSE unit[u]]
  /\ lossIssues' = lossIssues \cup {<<r, u>> : u \in us}

-----------------------------------------------------------------------------
(* updateStatus: the booking's own status after confirmation.               *)

VALID_TRANSITIONS ==
  [NONE      |-> {},
   pending   |-> {"confirmed", "cancelled"},
   confirmed |-> {"delivered", "cancelled"},
   delivered |-> {"returned", "overdue"},
   overdue   |-> {"returned"},
   returned  |-> {"inspected"},
   inspected |-> {"completed"},
   completed |-> {},
   cancelled |-> {}]

(* assertAndTransitionBooking: the conditions on the booking's live         *)
(* requirements.                                                            *)
StatusAllowed(b, new) ==
  /\ new \in VALID_TRANSITIONS[status[b]]
  /\ LiveReqs(b) # {}
  /\ new = "delivered" => \A r \in LiveReqs(b) : req[r].handedOut = Quantity[r]
  /\ new \in {"returned", "inspected", "completed"} => \A r \in LiveReqs(b) : Resolved(r)
  /\ new \in {"inspected", "completed"} =>
       ~\E p \in unchecked : BookingOf[p[1]] = b /\ unit[p[2]].op = "AWAITING_INSPECTION"
  /\ new = "completed" => ~\E p \in lossIssues : BookingOf[p[1]] = b

UpdateStatus(b, new) ==
  /\ new \in {"delivered", "returned", "inspected"}
  /\ StatusAllowed(b, new)
  /\ status' = [status EXCEPT ![b] = new]
  /\ UNCHANGED <<lapsed, renewals, resv, req, asg, out, unchecked, drafts,
                 unit, lossIssues, revenue, cancelling>>

(* delivered -> overdue, from the daily job or by hand.                     *)
MarkOverdue(b) ==
  /\ StatusAllowed(b, "overdue")
  /\ status' = [status EXCEPT ![b] = "overdue"]
  /\ req' = [r \in Reqs |-> IF r \in LiveReqs(b) /\ Outstanding(r)
                            THEN [req[r] EXCEPT !.status = "OVERDUE"] ELSE req[r]]
  /\ UNCHANGED <<lapsed, renewals, resv, asg, out, unchecked, drafts, unit,
                 lossIssues, revenue, cancelling>>

(* inspected -> completed: revenue is attributed to the assignments that    *)
(* are still active, then everything left is released.                      *)
Complete(b) ==
  /\ StatusAllowed(b, "completed")
  /\ status' = [status EXCEPT ![b] = "completed"]
  /\ revenue' = revenue \cup Pairs({a \in AssignmentsOfBooking(b) : a.req \in LiveReqs(b)})
  /\ CloseInventory(b, "RELEASED")
  /\ UNCHANGED <<lapsed, renewals, req, out, drafts, unit, lossIssues, cancelling>>

-----------------------------------------------------------------------------
(* What staff do to a unit directly, and inspections.                       *)

SetUnit(u, to) ==
  /\ unit' = [unit EXCEPT ![u] = to]
  /\ UNCHANGED <<status, lapsed, renewals, resv, req, out, lossIssues, revenue, cancelling>>

(* POST stock-units/:id/transitions, which may name an assignment, and      *)
(* /disposition, which names none.                                          *)
StaffTransition(u, to, today, given) ==
  /\ to # unit[u]
  /\ CanMove(u, to, FALSE, today, given)
  /\ SetUnit(u, to)
  /\ UNCHANGED <<asg, unchecked, drafts>>

(* create, inspectionType RETURN: any assignment of the unit will do, active *)
(* or released; a unit still out for rental is moved in from the rental.    *)
StartReturnInspection(p) ==
  LET u == p[2] IN
  /\ Cardinality(drafts) < MaxDrafts
  /\ p \in Pairs(asg) \cup unchecked
  /\ p \notin drafts
  /\ unit[u].disp # "RETIRED"
  /\ drafts' = drafts \cup {p}
  /\ SetUnit(u, IF unit[u].op = "OUT_FOR_RENTAL"
                THEN [unit[u] EXCEPT !.op = "AWAITING_INSPECTION"] ELSE unit[u])
  /\ UNCHANGED <<asg, unchecked>>

(* complete, for a RETURN inspection: its assignment counts as inspected    *)
(* and the unit goes where the decision says.                               *)
CompleteReturnInspection(p, decision, today) ==
  LET u == p[2] IN
  /\ p \in drafts
  /\ CanMove(u, LifecycleTarget[decision], TRUE, today, {p[1]})
  /\ drafts' = drafts \ {p}
  /\ unchecked' = unchecked \ {p}
  /\ asg' = {IF <<a.req, a.unit>> = p THEN [a EXCEPT !.checked = TRUE] ELSE a : a \in asg}
  /\ SetUnit(u, LifecycleTarget[decision])

(* complete, for an inspection of any other type.                           *)
CompleteOtherInspection(u, decision, today) ==
  /\ CanMove(u, LifecycleTarget[decision], TRUE, today, {})
  /\ SetUnit(u, LifecycleTarget[decision])
  /\ LifecycleTarget[decision] # unit[u]
  /\ UNCHANGED <<asg, unchecked, drafts>>

(* resolveIssue.                                                            *)
ResolveIssue(p) ==
  /\ lossIssues' = lossIssues \ {p}
  /\ UNCHANGED <<status, lapsed, renewals, resv, req, asg, out, unchecked,
                 drafts, unit, revenue, cancelling>>

-----------------------------------------------------------------------------
RequestStep(b) ==
  \/ \E f, t \in Days : f <= t /\ CreateBooking(b, f, t)
  \/ HoldLapses(b)
  \/ RenewHold(b)
  \/ ApproveAndReserve(b)
  \/ RejectRequest(b)
  \/ CancelRequest(b)
  \/ CancelCommit(b)
  \/ CancelFail(b)
  \/ \E end \in Days : Extend(b, end)
  \/ \E new \in {"delivered", "returned", "inspected"} : UpdateStatus(b, new)
  \/ MarkOverdue(b)
  \/ Complete(b)

RequirementStep(r) ==
  \/ \E us \in SUBSET Units : Assign(r, us)
  \/ \E sku \in Skus : Substitute(r, sku)
  \/ \E prep \in {"OPEN", "READY"} : Prepare(r, prep)
  \/ \E us \in SUBSET Units, today \in Today :
       HandOut(r, us, today) \/ ReturnItems(r, us, today) \/ MarkLost(r, us, today)

UnitStep(u) ==
  \E today \in Today :
    \/ \E op \in StaffTargets, r \in Reqs :
         StaffTransition(u, [unit[u] EXCEPT !.op = op], today, {r})
    \/ \E disp \in DispositionTargets :
         StaffTransition(u, [unit[u] EXCEPT !.disp = disp], today, {})
    \/ \E decision \in Decisions :
         \/ CompleteOtherInspection(u, decision, today)
         \/ \E r \in Reqs : CompleteReturnInspection(<<r, u>>, decision, today)

Next ==
  \/ \E b \in Bookings : RequestStep(b)
  \/ \E r \in Reqs : RequirementStep(r)
  \/ \E u \in Units : UnitStep(u)
  \/ \E a \in asg : ReleaseAssignment(a)
  \/ \E p \in Reqs \X Units : StartReturnInspection(p)
  \/ \E p \in lossIssues : ResolveIssue(p)
  \/ ExpirePending

Spec == Init /\ [][Next]_vars

-----------------------------------------------------------------------------
(* Properties.                                                              *)

RequirementRecords ==
  [status : RequirementStatuses, prep : {"OPEN", "READY"}, assigned : Nat,
   handedOut : Nat, returned : Nat, lost : Nat]

(* The shape of the state: what the database columns and enums can hold.    *)
TypeOK ==
  /\ status \in [Bookings -> BookingStatuses]
  /\ lapsed \in [Bookings -> BOOLEAN]
  /\ renewals \in [Bookings -> Nat]
  /\ resv \in [Reqs -> [status : ReservationStatuses, sku : Skus, from : Days, to : Days]]
  /\ req \in [Reqs -> RequirementRecords]
  /\ asg \subseteq Assignments
  /\ out \in [Reqs -> SUBSET Units]
  /\ unchecked \subseteq Reqs \X Units
  /\ drafts \subseteq Reqs \X Units
  /\ unit \in [Units -> UnitStates]
  /\ lossIssues \subseteq Reqs \X Units
  /\ revenue \subseteq Reqs \X Units
  /\ cancelling \subseteq Bookings

(* Two active assignments never hold the same unit on the same day, in      *)
(* whatever order bookings are assigned, extended, substituted and swept.   *)
NoDoubleAssignment ==
  \A a, c \in asg :
    a # c /\ a.unit = c.unit => ~Overlap(a.from, a.to, c.from, c.to)

(* The units a customer has are accounted for: each still has its active    *)
(* assignment, they are exactly as many as the requirement's counters say,  *)
(* and their booking is confirmed, delivered or overdue - no cancellation,  *)
(* sweep or status change ever closes a booking over them.                  *)
OutItemsAccountedFor ==
  \A r \in Reqs :
    /\ out[r] \subseteq Held(r)
    /\ Cardinality(out[r]) + req[r].returned + req[r].lost = req[r].handedOut
    /\ out[r] # {} => /\ status[BookingOf[r]] \in {"confirmed", "delivered", "overdue"}
                      /\ req[r].status # "CANCELLED"

(* assignedQuantity, which preparation trusts, is the number of active      *)
(* assignments, although four operations update it incrementally and three  *)
(* others release assignments without touching it.                          *)
AssignedQuantityExact ==
  \A r \in Reqs : req[r].status \notin {"NONE", "CANCELLED"} =>
    req[r].assigned = Cardinality(AssignmentsOf(r))

(* What was marked ready to hand over stays complete: no unit of a prepared *)
(* requirement disappears other than by coming back or being lost.          *)
PreparedStaysPacked ==
  \A r \in Reqs : req[r].prep = "READY" /\ req[r].status # "CANCELLED" =>
    Cardinality(AssignmentsOf(r)) + req[r].returned + req[r].lost = Quantity[r]

(* A rental that is running was handed out in full, and one that is over    *)
(* holds no unit any more.                                                  *)
StatusMatchesItems ==
  \A b \in Bookings :
    /\ status[b] \in {"delivered", "overdue"} =>
         \A r \in LiveReqs(b) : req[r].handedOut = Quantity[r]
    /\ status[b] \in {"returned", "inspected", "completed"} =>
         AssignmentsOfBooking(b) = {}

(* A booking's reservations are where its status says: a request's are      *)
(* holds, a committed booking's are all confirmed, and a closed booking     *)
(* keeps no capacity from anybody.                                          *)
ReservationsFollowBooking ==
  \A r \in Reqs :
    LET s == status[BookingOf[r]] IN
    /\ s = "pending" => resv[r].status = "PENDING"
    /\ s \in {"confirmed", "delivered", "overdue", "returned", "inspected"} =>
         resv[r].status = "CONFIRMED"
    /\ s \in {"completed", "cancelled"} => ~LiveResv(r)

(* The units assigned to a requirement are of the SKU it reserves: a        *)
(* substitution never leaves a unit of the old SKU behind.                  *)
AssignmentsMatchSku ==
  \A a \in asg : SkuOf[a.unit] = resv[a.req].sku

(* A loss is settled before anything goes on: the lost unit cannot become   *)
(* rentable, nor its booking complete, while the loss is open.              *)
LossNeverForgotten ==
  \A p \in lossIssues :
    unit[p[2]] # Rentable /\ status[BookingOf[p[1]]] # "completed"

(* On no day do the counted reservations of a SKU exceed the units it has.  *)
NoOverbooking ==
  \A d \in Days, s \in Skus :
    ReservedQuantity(s, d, d, {}) <= Cardinality({u \in Units : SkuOf[u] = s})

(* A reservation that was given up is never taken back into use, and a      *)
(* confirmed one is only ever given up by cancelling or completing.         *)
ReservationStep(r) ==
  /\ resv[r].status \in {"CANCELLED", "EXPIRED", "RELEASED"} =>
       resv'[r].status = resv[r].status
  /\ resv[r].status = "CONFIRMED" =>
       resv'[r].status \in {"CONFIRMED", "CANCELLED", "RELEASED"}
ReservationsOnlyMoveOn == [][\A r \in Reqs : ReservationStep(r)]_vars

(* Units go to a customer only under a booking approved with that very      *)
(* unit count: whatever leaves the shop leaves from a confirmed booking     *)
(* whose requirement holds every unit it needs.                             *)
HandOutComplete ==
  [][\A r \in Reqs : out'[r] # {} /\ ~(out'[r] \subseteq out[r]) =>
       /\ status[BookingOf[r]] = "confirmed" /\ resv[r].status = "CONFIRMED"
       /\ Cardinality(AssignmentsOf(r)) = Quantity[r]]_vars

-----------------------------------------------------------------------------
(* The core seen as the contract it implements.                             *)

Phase(b) ==
  IF status[b] \in {"NONE", "pending"} THEN "open"
  ELSE IF status[b] \in {"completed", "cancelled"} THEN "closed" ELSE "committed"

Phases == [b \in Bookings |-> Phase(b)]
Calendar == {[req |-> a.req, unit |-> a.unit, from |-> a.from, to |-> a.to] : a \in asg}
Away == {p \in Reqs \X Units : p[2] \in out[p[1]]}

Contract == INSTANCE RentalContract WITH phase <- Phases, calendar <- Calendar, away <- Away

(* Every transaction of the core is a step the contract allows: promises    *)
(* never clash, units leave under a committed booking they are promised to, *)
(* and no booking closes over a unit that is away.                          *)
ImplementsContract == Contract!Spec

-----------------------------------------------------------------------------
(* Statements of the documentation that the code does not keep.             *)

(* "One active custody owner per physical unit."                            *)
SingleCustody ==
  \A r, s \in Reqs : r # s => out[r] \cap out[s] = {}

(* "Booking completion creates deterministic RENTAL_REVENUE rows per        *)
(* assignment."                                                             *)
CompletionAttributesRevenue ==
  \A b \in Bookings : status[b] = "completed" =>
    \A r \in LiveReqs(b) : req[r].returned > 0 => \E p \in revenue : p[1] = r

(* "Cancellation and completion release the appropriate reservations and    *)
(* assignments", also when the hold sweep cancels.                          *)
ClosedBookingsHoldNoUnit ==
  \A b \in Bookings : status[b] \in {"completed", "cancelled"} =>
    AssignmentsOfBooking(b) = {}

(* "No overlapping committed exact-unit reservations": two reservations     *)
(* that hold the same unit do not cover the same day.                       *)
CommittedDaysDisjoint ==
  \A a, c \in asg :
    a.req # c.req /\ a.unit = c.unit /\ resv[a.req].status = "CONFIRMED"
                  /\ resv[c.req].status = "CONFIRMED" =>
      ~Overlap(resv[a.req].from, resv[a.req].to, resv[c.req].from, resv[c.req].to)

(* Capacity "subtracts quantity demand ... exactly once": a day with fewer  *)
(* reserved units than units in service, a customer's included, has room.   *)
InService(u) ==
  Eligible(u) \/ \E r \in Reqs : u \in out[r] /\ unit[u].disp = "ACTIVE"
DemandCountedOnce ==
  \A d \in Days, s \in Skus :
    ReservedQuantity(s, d, d, {}) < Cardinality({u \in Units : SkuOf[u] = s /\ InService(u)})
      => Available(s, d, d, 1, {})

(* "Cancellation is only allowed for pending or confirmed bookings."        *)
CancelledFromPendingOrConfirmed ==
  [][\A b \in Bookings : status'[b] = "cancelled" =>
       status[b] \in {"pending", "confirmed", "cancelled"}]_vars

(* "booking inspect/complete guards require every returned physical item    *)
(* inspection"                                                              *)
InspectedMeansInspected ==
  \A p \in unchecked : status[BookingOf[p[1]]] \in {"inspected", "completed"} =>
    req[p[1]].returned = 0
=============================================================================
