--------------------------- MODULE StatementRaces ---------------------------
(***************************************************************************)
(* The two commands of the rental core that run at READ COMMITTED - the     *)
(* hold sweep (expirePending) and cancelBooking - statement by statement,   *)
(* against the serializable commands that lock the rows they decide on      *)
(* (renewHold, approveAndReserve, rejectRequest, recordEvent HANDED_OUT).   *)
(*                                                                          *)
(* A statement of a READ COMMITTED transaction sees what is committed when  *)
(* it starts plus its own writes, waits for the rows it writes, and keeps   *)
(* them locked until its transaction ends.  A serializable command is one   *)
(* step: it waits for the rows it locks, and if one was changed since its   *)
(* snapshot the database makes it start again.                              *)
(***************************************************************************)
EXTENDS FiniteSets, Naturals

CONSTANTS
  Bookings, Reqs,
  BookingOf,     \* requirement -> its booking
  MaxRenewals,   \* bound: hold renewals per booking
  MaxCancels     \* bound: cancelBooking calls per booking

ASSUME RacesAssumption ==
  BookingOf \in [Reqs -> Bookings] /\ MaxRenewals \in Nat /\ MaxCancels \in Nat

VARIABLES
  status,     \* booking -> committed Booking.status
  resv,       \* requirement -> committed InventoryReservation.status
  lapsed,     \* booking -> its holds' expiresAt is in the past
  renewals,   \* booking -> renewHold calls so far
  calls,      \* booking -> cancelBooking calls so far
  req,        \* requirement -> committed FulfillmentRequirement.status
  held,       \* requirements whose unit assignment is active
  sweep,      \* the sweep transaction: next statement, rows read and written
  cancel      \* booking -> its cancelBooking call: next statement, rows read

vars == <<status, resv, lapsed, renewals, calls, req, held, sweep, cancel>>

Idle == [at |-> "idle", read |-> {}, expired |-> {}, closed |-> {}]
NoCancel == [at |-> "idle", read |-> {}]

(* Requests that were placed, each unit assigned already.                   *)
Init ==
  /\ status = [b \in Bookings |-> "pending"]
  /\ resv = [r \in Reqs |-> "PENDING"]
  /\ lapsed = [b \in Bookings |-> FALSE]
  /\ renewals = [b \in Bookings |-> 0]
  /\ calls = [b \in Bookings |-> 0]
  /\ req = [r \in Reqs |-> "ASSIGNED"]
  /\ held = Reqs
  /\ sweep = Idle
  /\ cancel = [b \in Bookings |-> NoCancel]

ReqsOf(b) == {r \in Reqs : BookingOf[r] = b}
Live(s) == s \in {"PENDING", "CONFIRMED"}

-----------------------------------------------------------------------------
(* Row locks.                                                               *)

SweepLocksResv(r) == r \in sweep.expired
SweepLocksReq(r) == r \in sweep.read /\ sweep.at \in {"close", "commit"}
SweepLocksBooking(b) == b \in sweep.closed

CancelLocksBooking(b) == cancel[b].at \in {"read", "requirements", "inventory", "commit"}
CancelLocksReq(r) ==
  LET c == cancel[BookingOf[r]] IN r \in c.read /\ c.at \in {"inventory", "commit"}
CancelLocksResv(r) ==
  cancel[BookingOf[r]].at = "commit" /\ Live(resv[r])

(* The rows a review command locks, none of them locked by another.         *)
ReviewRowsFree(b) ==
  /\ ~SweepLocksBooking(b) /\ ~CancelLocksBooking(b)
  /\ \A r \in ReqsOf(b) : /\ ~SweepLocksReq(r) /\ ~CancelLocksReq(r)
                          /\ ~SweepLocksResv(r) /\ ~CancelLocksResv(r)

-----------------------------------------------------------------------------
(* Time and the serializable commands.                                      *)

HoldLapses(b) ==
  /\ ~lapsed[b]
  /\ \E r \in ReqsOf(b) : resv[r] = "PENDING"
  /\ lapsed' = [lapsed EXCEPT ![b] = TRUE]
  /\ UNCHANGED <<status, resv, renewals, calls, req, held, sweep, cancel>>

RenewHold(b) ==
  /\ ReviewRowsFree(b)
  /\ status[b] = "pending"
  /\ renewals[b] < MaxRenewals
  /\ \E r \in ReqsOf(b) : resv[r] = "PENDING"
  /\ lapsed' = [lapsed EXCEPT ![b] = FALSE]
  /\ renewals' = [renewals EXCEPT ![b] = @ + 1]
  /\ UNCHANGED <<status, resv, calls, req, held, sweep, cancel>>

ActiveReqs(b) == {r \in ReqsOf(b) : req[r] = "ASSIGNED"}

ApproveAndReserve(b) ==
  /\ ReviewRowsFree(b)
  /\ status[b] = "pending"
  /\ ActiveReqs(b) # {}
  /\ \A r \in ActiveReqs(b) :
       /\ r \in held
       /\ resv[r] = "PENDING" => ~lapsed[b]
       /\ Live(resv[r])
  /\ status' = [status EXCEPT ![b] = "confirmed"]
  /\ resv' = [r \in Reqs |->
                IF r \in ReqsOf(b) /\ resv[r] = "PENDING" THEN "CONFIRMED" ELSE resv[r]]
  /\ UNCHANGED <<lapsed, renewals, calls, req, held, sweep, cancel>>

(* What transitionForBooking writes to the reservations it gives up.        *)
GivenUpStatus == "CANCELLED"

RejectRequest(b) ==
  /\ ReviewRowsFree(b)
  /\ status[b] = "pending"
  /\ status' = [status EXCEPT ![b] = "cancelled"]
  /\ held' = held \ ReqsOf(b)
  /\ resv' = [r \in Reqs |->
                IF r \in ReqsOf(b) /\ Live(resv[r]) THEN GivenUpStatus ELSE resv[r]]
  /\ req' = [r \in Reqs |-> IF r \in ActiveReqs(b) THEN "CANCELLED" ELSE req[r]]
  /\ UNCHANGED <<lapsed, renewals, calls, sweep, cancel>>

(* recordEvent HANDED_OUT locks the requirement only; it reads the booking's *)
(* committed status.                                                        *)
HandOut(r) ==
  /\ ~SweepLocksReq(r) /\ ~CancelLocksReq(r)
  /\ status[BookingOf[r]] = "confirmed"
  /\ r \in held
  /\ req[r] # "HANDED_OUT"
  /\ req' = [req EXCEPT ![r] = "HANDED_OUT"]
  /\ UNCHANGED <<status, resv, lapsed, renewals, calls, held, sweep, cancel>>

-----------------------------------------------------------------------------
(* The sweep.                                                               *)

(* findMany: the lapsed PENDING holds.                                      *)
SweepRead ==
  LET found == {r \in Reqs : resv[r] = "PENDING" /\ lapsed[BookingOf[r]]} IN
  /\ sweep.at = "idle"
  /\ found # {}
  /\ sweep' = [Idle EXCEPT !.at = "expire", !.read = found]
  /\ UNCHANGED <<status, resv, lapsed, renewals, calls, req, held, cancel>>

(* updateMany ... status: 'PENDING': the status is looked at again, the     *)
(* expiry is not.                                                           *)
StillPending(read) == {r \in read : resv[r] = "PENDING"}

SweepExpire ==
  /\ sweep.at = "expire"
  /\ \A r \in sweep.read : ~CancelLocksResv(r)
  /\ sweep' = [sweep EXCEPT !.at = "requirements", !.expired = StillPending(sweep.read)]
  /\ UNCHANGED <<status, resv, lapsed, renewals, calls, req, held, cancel>>

(* updateMany of the requirements, by id alone.                             *)
SweepRequirements ==
  /\ sweep.at = "requirements"
  /\ \A r \in sweep.read : ~CancelLocksReq(r)
  /\ sweep' = [sweep EXCEPT !.at = "close"]
  /\ UNCHANGED <<status, resv, lapsed, renewals, calls, req, held, cancel>>

(* Mutant: the holds this sweep expires still count as live.                *)
ClosableBeforeSweep ==
  {b \in Bookings : /\ \E r \in sweep.read : BookingOf[r] = b
                    /\ status[b] = "pending"
                    /\ \A r \in ReqsOf(b) : ~Live(resv[r])}
(* The pending bookings, of those read, that have no live hold left.        *)
Closable ==
  {b \in Bookings :
     /\ \E r \in sweep.read : BookingOf[r] = b
     /\ status[b] = "pending"
     /\ \A r \in ReqsOf(b) : Live(resv[r]) => r \in sweep.expired}

SweepClose ==
  /\ sweep.at = "close"
  /\ \A b \in Closable : ~CancelLocksBooking(b)
  /\ sweep' = [sweep EXCEPT !.at = "commit", !.closed = Closable]
  /\ UNCHANGED <<status, resv, lapsed, renewals, calls, req, held, cancel>>

SweepCommit ==
  /\ sweep.at = "commit"
  /\ resv' = [r \in Reqs |-> IF r \in sweep.expired THEN "EXPIRED" ELSE resv[r]]
  /\ req' = [r \in Reqs |-> IF r \in sweep.read THEN "CANCELLED" ELSE req[r]]
  /\ status' = [b \in Bookings |-> IF b \in sweep.closed THEN "cancelled" ELSE status[b]]
  /\ sweep' = Idle
  /\ UNCHANGED <<lapsed, renewals, calls, held, cancel>>

-----------------------------------------------------------------------------
(* cancelBooking.                                                           *)

CancelAt(b, at, read) == cancel' = [cancel EXCEPT ![b] = [at |-> at, read |-> read]]

(* findBookingOrFail and the status check, outside the transaction.         *)
CancelCheck(b) ==
  /\ cancel[b].at = "idle"
  /\ status[b] \in {"pending", "confirmed"}
  /\ calls[b] < MaxCancels
  /\ calls' = [calls EXCEPT ![b] = @ + 1]
  /\ CancelAt(b, "booking", {})
  /\ UNCHANGED <<status, resv, lapsed, renewals, req, held, sweep>>

(* booking.update, by id alone.                                             *)
CancelBookingRow(b) ==
  /\ cancel[b].at = "booking"
  /\ ~SweepLocksBooking(b)
  /\ CancelAt(b, "read", {})
  /\ UNCHANGED <<status, resv, lapsed, renewals, calls, req, held, sweep>>

(* assertAndTransitionBooking: reads the requirements without locking them, *)
(* and refuses if none is live or one is handed out.                        *)
CancelRead(b) ==
  LET live == {r \in ReqsOf(b) : req[r] # "CANCELLED"} IN
  /\ cancel[b].at = "read"
  /\ IF live = {} \/ \E r \in live : req[r] = "HANDED_OUT"
     THEN CancelAt(b, "idle", {})
     ELSE CancelAt(b, "requirements", live)
  /\ UNCHANGED <<status, resv, lapsed, renewals, calls, req, held, sweep>>

(* ... and cancels each by id.                                              *)
CancelRequirements(b) ==
  /\ cancel[b].at = "requirements"
  /\ \A r \in cancel[b].read : ~SweepLocksReq(r)
  /\ CancelAt(b, "inventory", cancel[b].read)
  /\ UNCHANGED <<status, resv, lapsed, renewals, calls, req, held, sweep>>

(* transitionForBooking: the assignments and the live reservations.         *)
CancelInventory(b) ==
  /\ cancel[b].at = "inventory"
  /\ \A r \in ReqsOf(b) : ~SweepLocksResv(r)
  /\ CancelAt(b, "commit", cancel[b].read)
  /\ UNCHANGED <<status, resv, lapsed, renewals, calls, req, held, sweep>>

(* Mutant: only confirmed reservations are given up.                        *)
ConfirmedOnly(b) == {r \in ReqsOf(b) : resv[r] = "CONFIRMED"}
GivenUp(b) == {r \in ReqsOf(b) : Live(resv[r])}

CancelCommit(b) ==
  /\ cancel[b].at = "commit"
  /\ status' = [status EXCEPT ![b] = "cancelled"]
  /\ req' = [r \in Reqs |-> IF r \in cancel[b].read THEN "CANCELLED" ELSE req[r]]
  /\ held' = held \ ReqsOf(b)
  /\ resv' = [r \in Reqs |-> IF r \in GivenUp(b) THEN GivenUpStatus ELSE resv[r]]
  /\ CancelAt(b, "idle", {})
  /\ UNCHANGED <<lapsed, renewals, calls, sweep>>

-----------------------------------------------------------------------------
(* A sweep holding reservations and waiting for requirements, a             *)
(* cancellation holding requirements and waiting for reservations: the      *)
(* database aborts one of them.  (So too with the booking row.)             *)
Deadlocked(b) ==
  \/ /\ sweep.at = "requirements" /\ \E r \in sweep.read : CancelLocksReq(r) /\ BookingOf[r] = b
     /\ cancel[b].at = "inventory" /\ \E r \in ReqsOf(b) : SweepLocksResv(r)
  \/ /\ sweep.at = "close" /\ b \in Closable /\ CancelLocksBooking(b)
     /\ \/ cancel[b].at = "requirements" /\ \E r \in cancel[b].read : SweepLocksReq(r)
        \/ cancel[b].at = "inventory" /\ \E r \in ReqsOf(b) : SweepLocksResv(r)

AbortSweep(b) ==
  /\ Deadlocked(b)
  /\ sweep' = Idle
  /\ UNCHANGED <<status, resv, lapsed, renewals, calls, req, held, cancel>>

AbortCancel(b) ==
  /\ Deadlocked(b)
  /\ CancelAt(b, "idle", {})
  /\ UNCHANGED <<status, resv, lapsed, renewals, calls, req, held, sweep>>

-----------------------------------------------------------------------------
SweepStep ==
  \/ SweepRead \/ SweepExpire \/ SweepRequirements \/ SweepClose \/ SweepCommit
CancelStep(b) ==
  \/ CancelBookingRow(b) \/ CancelRead(b) \/ CancelRequirements(b)
  \/ CancelInventory(b) \/ CancelCommit(b)

Next ==
  \/ SweepStep
  \/ \E b \in Bookings :
       \/ HoldLapses(b) \/ RenewHold(b) \/ ApproveAndReserve(b) \/ RejectRequest(b)
       \/ CancelCheck(b) \/ CancelStep(b) \/ AbortSweep(b) \/ AbortCancel(b)
  \/ \E r \in Reqs : HandOut(r)

(* The cron job comes round, and a running transaction goes on: one that     *)
(* waits for a row is next in the row's queue when it is unlocked (strong    *)
(* fairness), and a deadlock is resolved one way or the other.               *)
Fairness ==
  /\ SF_vars(SweepStep)
  /\ \A b \in Bookings :
       /\ SF_vars(CancelStep(b))
       /\ WF_vars(AbortSweep(b) \/ AbortCancel(b))

Spec == Init /\ [][Next]_vars
FairSpec == Spec /\ Fairness

-----------------------------------------------------------------------------
(* Properties.                                                              *)

BookingStates == {"pending", "confirmed", "cancelled"}
SweepPoints == {"idle", "expire", "requirements", "close", "commit"}
CancelPoints == {"idle", "booking", "read", "requirements", "inventory", "commit"}

(* The shape of the state.                                                  *)
TypeOK ==
  /\ status \in [Bookings -> BookingStates]
  /\ resv \in [Reqs -> {"PENDING", "CONFIRMED", "CANCELLED", "EXPIRED"}]
  /\ lapsed \in [Bookings -> BOOLEAN]
  /\ renewals \in [Bookings -> Nat] /\ calls \in [Bookings -> Nat]
  /\ req \in [Reqs -> {"ASSIGNED", "HANDED_OUT", "CANCELLED"}]
  /\ held \subseteq Reqs
  /\ sweep \in [at : SweepPoints, read : SUBSET Reqs, expired : SUBSET Reqs,
                closed : SUBSET Bookings]
  /\ cancel \in [Bookings -> [at : CancelPoints, read : SUBSET Reqs]]

(* However the statements of sweeps, approvals and cancellations            *)
(* interleave, a cancelled booking keeps no capacity, and a confirmed one    *)
(* still has all of its reservations.                                       *)
CapacityFollowsBooking ==
  \A r \in Reqs :
    /\ status[BookingOf[r]] = "cancelled" => ~Live(resv[r])
    /\ status[BookingOf[r]] = "confirmed" => resv[r] = "CONFIRMED"

(* A request whose hold lapsed does not stay open, although a sweep may wait *)
(* for a cancellation or be rolled back by a deadlock with it: what one      *)
(* sweep misses, the next does.                                              *)
LapsedRequestsEnd ==
  \A b \in Bookings : status[b] = "pending" /\ lapsed[b] ~>
    status[b] # "pending" \/ ~lapsed[b]

Atomic == INSTANCE AtomicHolds

(* Interleaved statement by statement, sweeps, approvals and cancellations   *)
(* do to bookings and reservations what they do as single steps: each        *)
(* commit, and no other step, decides whole bookings with all of their       *)
(* reservations, and a sweep ends pending ones only.                         *)
ImplementsAtomicHolds == Atomic!Spec

-----------------------------------------------------------------------------
(* Statements of the documentation that the code does not keep.             *)

(* "Expire reservations using each hold's policy-derived expires_at": a     *)
(* hold expires only when its expiry has passed.                            *)
ExpiresOnlyLapsed ==
  [][\A r \in Reqs : resv[r] = "PENDING" /\ resv'[r] = "EXPIRED" =>
       lapsed[BookingOf[r]]]_vars

(* "Confirmation promotes valid holds": a confirmed rental's requirements   *)
(* are live.                                                                *)
ConfirmedIsLive ==
  \A r \in Reqs : status[BookingOf[r]] = "confirmed" => req[r] # "CANCELLED"

(* "Handed-out components require return or loss resolution before          *)
(* cancellation": no step cancels a requirement that is handed out.         *)
NoCancelOverHandedOut ==
  [][\A r \in Reqs : req[r] = "HANDED_OUT" => req'[r] # "CANCELLED"]_vars
=============================================================================
