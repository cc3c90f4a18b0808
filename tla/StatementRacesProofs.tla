------------------------- MODULE StatementRacesProofs -------------------------
(***************************************************************************)
(* That capacity follows the booking whatever the interleaving of sweeps,   *)
(* approvals and cancellations, for any number of bookings and requirements. *)
(* The argument is about row locks: what a sweep has expired but not yet     *)
(* committed no one else can write, and the bookings it closes are still     *)
(* pending when it commits.                                                  *)
(***************************************************************************)
EXTENDS StatementRaces, TLAPS

(* A pending booking has all of its reservations and requirements.           *)
PendingIsWhole ==
  \A r \in Reqs : status[BookingOf[r]] = "pending" => resv[r] = "PENDING" /\ req[r] = "ASSIGNED"

Written == sweep.at \in {"requirements", "close", "commit"}

(* What a sweep read it read for whole bookings; what it has expired is still *)
(* pending, and no cancellation is about to give it up.                      *)
SweepHolds ==
  /\ \A r \in sweep.read, s \in Reqs :
       BookingOf[s] = BookingOf[r] /\ resv[s] = "PENDING" => s \in sweep.read
  /\ sweep.expired # {} => Written
  /\ sweep.expired \subseteq sweep.read
  /\ \A r \in sweep.expired : resv[r] = "PENDING" /\ cancel[BookingOf[r]].at # "commit"
  /\ Written => \A r \in sweep.read : resv[r] = "PENDING" => r \in sweep.expired

(* The bookings a sweep closes are still pending, and no cancellation has    *)
(* their rows; of the bookings it read it closes all that are pending.       *)
SweepCloses ==
  /\ sweep.closed # {} => sweep.at = "commit"
  /\ \A b \in sweep.closed :
       /\ status[b] = "pending" /\ cancel[b].at \in {"idle", "booking"}
       /\ \E r \in sweep.read : BookingOf[r] = b
  /\ sweep.at = "commit" =>
       \A r \in sweep.read : status[BookingOf[r]] = "pending" => BookingOf[r] \in sweep.closed

(* A cancellation reads its own booking's requirements.                      *)
CancelReadsOwn == \A b \in Bookings : cancel[b].read \subseteq ReqsOf(b)

Inv == /\ TypeOK /\ CancelReadsOwn /\ PendingIsWhole
       /\ SweepHolds /\ SweepCloses /\ CapacityFollowsBooking

LEMMA Owners == \A r \in Reqs : BookingOf[r] \in Bookings
BY RacesAssumption

LEMMA InitInv == Init => Inv
<1> SUFFICES ASSUME Init
             PROVE  Inv
  OBVIOUS
<1> USE DEF Init
<1>1. TypeOK
  BY DEF TypeOK, BookingStates, SweepPoints, CancelPoints, Idle, NoCancel
<1>2. PendingIsWhole /\ CapacityFollowsBooking
  BY Owners DEF PendingIsWhole, CapacityFollowsBooking, Live
<1>3. SweepHolds /\ SweepCloses
  BY DEF SweepHolds, SweepCloses, Written, Idle
<1>4. CancelReadsOwn
  BY DEF CancelReadsOwn, NoCancel
<1>5. QED
  BY <1>1, <1>2, <1>3, <1>4 DEF Inv

(* Types: the sweep and the cancellations go from point to point.            *)
LEMMA CancelType ==
  ASSUME TypeOK, NEW b \in Bookings, NEW at \in CancelPoints, NEW read \in SUBSET Reqs,
         CancelAt(b, at, read)
  PROVE  cancel' \in [Bookings -> [at : CancelPoints, read : SUBSET Reqs]]
BY DEF TypeOK, CancelAt

LEMMA NextType == TypeOK /\ [Next]_vars => TypeOK'
<1> SUFFICES ASSUME TypeOK, [Next]_vars
             PROVE  TypeOK'
  OBVIOUS
<1> DEFINE Sweeps == [at : SweepPoints, read : SUBSET Reqs, expired : SUBSET Reqs,
                      closed : SUBSET Bookings]
           Cancels == [Bookings -> [at : CancelPoints, read : SUBSET Reqs]]
<1>1. CASE SweepStep
  <2>1. sweep' \in Sweeps
    <3>1. /\ sweep.read \subseteq Reqs /\ sweep.expired \subseteq Reqs
          /\ sweep.closed \subseteq Bookings /\ sweep.at \in SweepPoints
          /\ sweep = [at |-> sweep.at, read |-> sweep.read, expired |-> sweep.expired,
                      closed |-> sweep.closed]
      BY DEF TypeOK
    <3>2. StillPending(sweep.read) \subseteq Reqs /\ Closable \subseteq Bookings
      BY <3>1 DEF StillPending, Closable
    <3>3. CASE SweepRead
      BY <3>3 DEF SweepRead, SweepPoints, Idle
    <3>4. CASE SweepExpire
      <4>1. sweep' = [at |-> "requirements", read |-> sweep.read,
                      expired |-> StillPending(sweep.read), closed |-> sweep.closed]
        BY <3>1, <3>4 DEF SweepExpire
      <4>2. QED
        BY <3>1, <3>2, <4>1 DEF SweepPoints
    <3>5. CASE SweepRequirements
      BY <3>1, <3>5 DEF SweepRequirements, SweepPoints
    <3>6. CASE SweepClose
      <4>1. sweep' = [at |-> "commit", read |-> sweep.read, expired |-> sweep.expired,
                      closed |-> Closable]
        BY <3>1, <3>6 DEF SweepClose
      <4>2. QED
        BY <3>1, <3>2, <4>1 DEF SweepPoints
    <3>7. CASE SweepCommit
      BY <3>7 DEF SweepCommit, SweepPoints, Idle
    <3>8. QED
      BY <1>1, <3>3, <3>4, <3>5, <3>6, <3>7 DEF SweepStep
  <2>2. /\ status' \in [Bookings -> BookingStates]
        /\ resv' \in [Reqs -> {"PENDING", "CONFIRMED", "CANCELLED", "EXPIRED"}]
        /\ req' \in [Reqs -> {"ASSIGNED", "HANDED_OUT", "CANCELLED"}]
    BY <1>1 DEF TypeOK, SweepStep, SweepRead, SweepExpire, SweepRequirements, SweepClose,
                SweepCommit, BookingStates
  <2>3. UNCHANGED <<lapsed, renewals, calls, held, cancel>>
    BY <1>1 DEF SweepStep, SweepRead, SweepExpire, SweepRequirements, SweepClose, SweepCommit
  <2>4. QED
    BY <2>1, <2>2, <2>3 DEF TypeOK
<1>2. ASSUME NEW b \in Bookings, HoldLapses(b) \/ RenewHold(b)
      PROVE  TypeOK'
  <2>1. lapsed' \in [Bookings -> BOOLEAN]
    BY <1>2 DEF TypeOK, HoldLapses, RenewHold
  <2>2. renewals' \in [Bookings -> Nat]
    BY <1>2 DEF TypeOK, HoldLapses, RenewHold
  <2>3. UNCHANGED <<status, resv, calls, req, held, sweep, cancel>>
    BY <1>2 DEF HoldLapses, RenewHold
  <2>4. QED
    BY <2>1, <2>2, <2>3 DEF TypeOK
<1>3. ASSUME NEW b \in Bookings, ApproveAndReserve(b)
      PROVE  TypeOK'
  BY <1>3 DEF ApproveAndReserve, TypeOK, BookingStates
<1>4. ASSUME NEW b \in Bookings, RejectRequest(b)
      PROVE  TypeOK'
  BY <1>4 DEF RejectRequest, TypeOK, BookingStates, GivenUpStatus
<1>5. ASSUME NEW b \in Bookings, CancelCheck(b)
      PROVE  TypeOK'
  <2>1. cancel' \in Cancels
    BY <1>5, CancelType DEF CancelCheck, CancelPoints
  <2>2. calls' \in [Bookings -> Nat]
    BY <1>5 DEF TypeOK, CancelCheck
  <2>3. QED
    BY <1>5, <2>1, <2>2 DEF TypeOK, CancelCheck
<1>6. ASSUME NEW b \in Bookings, CancelStep(b)
      PROVE  TypeOK'
  <2>1. cancel' \in Cancels
    <3>1. cancel[b].read \in SUBSET Reqs
      BY DEF TypeOK
    <3>2. \E at \in CancelPoints, read \in SUBSET Reqs : CancelAt(b, at, read)
      BY <1>6, <3>1 DEF CancelStep, CancelBookingRow, CancelRead, CancelRequirements,
                        CancelInventory, CancelCommit, CancelPoints, ReqsOf
    <3>3. QED
      BY <3>2, CancelType
  <2>2. /\ status' \in [Bookings -> BookingStates]
        /\ resv' \in [Reqs -> {"PENDING", "CONFIRMED", "CANCELLED", "EXPIRED"}]
        /\ req' \in [Reqs -> {"ASSIGNED", "HANDED_OUT", "CANCELLED"}]
        /\ held' \subseteq Reqs
    BY <1>6 DEF TypeOK, CancelStep, CancelBookingRow, CancelRead, CancelRequirements,
                CancelInventory, CancelCommit, BookingStates, GivenUpStatus
  <2>3. UNCHANGED <<lapsed, renewals, calls, sweep>>
    BY <1>6 DEF CancelStep, CancelBookingRow, CancelRead, CancelRequirements, CancelInventory,
                CancelCommit
  <2>4. QED
    BY <2>1, <2>2, <2>3 DEF TypeOK
<1>7. ASSUME NEW b \in Bookings, AbortSweep(b)
      PROVE  TypeOK'
  BY <1>7 DEF AbortSweep, TypeOK, Idle, SweepPoints
<1>8. ASSUME NEW b \in Bookings, AbortCancel(b)
      PROVE  TypeOK'
  <2>1. cancel' \in Cancels
    BY <1>8, CancelType DEF AbortCancel, CancelPoints
  <2>2. QED
    BY <1>8, <2>1 DEF AbortCancel, TypeOK
<1>9. ASSUME NEW r \in Reqs, HandOut(r)
      PROVE  TypeOK'
  BY <1>9 DEF HandOut, TypeOK
<1>10. CASE UNCHANGED vars
  BY <1>10 DEF vars, TypeOK
<1>11. QED
  BY <1>1, <1>2, <1>3, <1>4, <1>5, <1>6, <1>7, <1>8, <1>9, <1>10 DEF Next

-----------------------------------------------------------------------------
(* What nobody writes but the steps below stays; these are the cases.        *)
LEMMA SweepReadInv == Inv /\ SweepRead => PendingIsWhole' /\ SweepHolds' /\ SweepCloses'
                                          /\ CapacityFollowsBooking'
<1> SUFFICES ASSUME Inv, SweepRead
             PROVE  PendingIsWhole' /\ SweepHolds' /\ SweepCloses' /\ CapacityFollowsBooking'
  OBVIOUS
<1>1. PendingIsWhole' /\ CapacityFollowsBooking'
  BY DEF Inv, SweepRead, PendingIsWhole, CapacityFollowsBooking
<1>2. /\ sweep'.at = "expire" /\ sweep'.expired = {} /\ sweep'.closed = {}
      /\ sweep'.read = {r \in Reqs : resv[r] = "PENDING" /\ lapsed[BookingOf[r]]}
      /\ UNCHANGED <<status, resv, cancel>>
  BY DEF SweepRead, Idle
<1>3. SweepHolds' /\ SweepCloses'
  BY <1>2 DEF SweepHolds, SweepCloses, Written
<1>4. QED
  BY <1>1, <1>3

LEMMA SweepExpireInv == Inv /\ SweepExpire => PendingIsWhole' /\ SweepHolds' /\ SweepCloses'
                                              /\ CapacityFollowsBooking'
<1> SUFFICES ASSUME Inv, SweepExpire
             PROVE  PendingIsWhole' /\ SweepHolds' /\ SweepCloses' /\ CapacityFollowsBooking'
  OBVIOUS
<1>1. PendingIsWhole' /\ CapacityFollowsBooking'
  BY DEF Inv, SweepExpire, PendingIsWhole, CapacityFollowsBooking
<1>2. /\ sweep.at = "expire" /\ sweep'.at = "requirements" /\ sweep'.read = sweep.read
      /\ sweep'.expired = {r \in sweep.read : resv[r] = "PENDING"}
      /\ sweep'.closed = sweep.closed
      /\ UNCHANGED <<status, resv, cancel>>
      /\ sweep.read \subseteq Reqs
      /\ \A r \in sweep.read : resv[r] = "PENDING" => cancel[BookingOf[r]].at # "commit"
  BY DEF Inv, TypeOK, SweepExpire, StillPending, CancelLocksResv, Live
<1>3. SweepHolds'
  BY <1>2 DEF Inv, SweepHolds, Written
<1>4. SweepCloses'
  BY <1>2 DEF Inv, SweepCloses
<1>5. QED
  BY <1>1, <1>3, <1>4

LEMMA SweepRequirementsInv ==
  Inv /\ SweepRequirements => PendingIsWhole' /\ SweepHolds' /\ SweepCloses'
                              /\ CapacityFollowsBooking'
<1> SUFFICES ASSUME Inv, SweepRequirements
             PROVE  PendingIsWhole' /\ SweepHolds' /\ SweepCloses' /\ CapacityFollowsBooking'
  OBVIOUS
<1>1. PendingIsWhole' /\ CapacityFollowsBooking'
  BY DEF Inv, SweepRequirements, PendingIsWhole, CapacityFollowsBooking
<1>2. /\ sweep.at = "requirements" /\ sweep'.at = "close" /\ sweep'.read = sweep.read
      /\ sweep'.expired = sweep.expired /\ sweep'.closed = sweep.closed
      /\ UNCHANGED <<status, resv, cancel>>
  BY DEF Inv, TypeOK, SweepRequirements
<1>3. SweepHolds' /\ SweepCloses'
  BY <1>2 DEF Inv, SweepHolds, SweepCloses, Written
<1>4. QED
  BY <1>1, <1>3

(* The bookings read that are pending were read and expired whole, so the    *)
(* sweep closes them.                                                        *)
LEMMA SweepCloseInv == Inv /\ SweepClose => PendingIsWhole' /\ SweepHolds' /\ SweepCloses'
                                            /\ CapacityFollowsBooking'
<1> SUFFICES ASSUME Inv, SweepClose
             PROVE  PendingIsWhole' /\ SweepHolds' /\ SweepCloses' /\ CapacityFollowsBooking'
  OBVIOUS
<1>1. PendingIsWhole' /\ CapacityFollowsBooking'
  BY DEF Inv, SweepClose, PendingIsWhole, CapacityFollowsBooking
<1>2. /\ sweep.at = "close" /\ sweep'.at = "commit" /\ sweep'.read = sweep.read
      /\ sweep'.expired = sweep.expired /\ sweep'.closed = Closable
      /\ UNCHANGED <<status, resv, cancel>>
      /\ sweep.read \subseteq Reqs
      /\ \A b \in Closable : ~CancelLocksBooking(b)
  BY DEF Inv, TypeOK, SweepClose
<1>3. SweepHolds'
  BY <1>2 DEF Inv, SweepHolds, Written
<1>4. \A b \in Closable : /\ status[b] = "pending" /\ cancel[b].at \in {"idle", "booking"}
                          /\ \E r \in sweep.read : BookingOf[r] = b
  BY <1>2 DEF Closable, CancelLocksBooking, Inv, TypeOK, CancelPoints
<1>5. ASSUME NEW r \in sweep.read, status[BookingOf[r]] = "pending"
      PROVE  BookingOf[r] \in Closable
  <2>1. \A s \in ReqsOf(BookingOf[r]) : s \in sweep.expired
    BY <1>2, <1>5 DEF ReqsOf, Inv, PendingIsWhole, SweepHolds, Written
  <2>2. QED
    BY <1>2, <1>5, <2>1, Owners DEF Closable
<1>6. SweepCloses'
  BY <1>2, <1>4, <1>5 DEF SweepCloses
<1>7. QED
  BY <1>1, <1>3, <1>6

LEMMA SweepCommitInv == Inv /\ SweepCommit => PendingIsWhole' /\ SweepHolds' /\ SweepCloses'
                                              /\ CapacityFollowsBooking'
<1> SUFFICES ASSUME Inv, SweepCommit
             PROVE  PendingIsWhole' /\ SweepHolds' /\ SweepCloses' /\ CapacityFollowsBooking'
  OBVIOUS
<1>1. /\ sweep.at = "commit"
      /\ \A r \in Reqs : /\ resv'[r] = IF r \in sweep.expired THEN "EXPIRED" ELSE resv[r]
                         /\ req'[r] = IF r \in sweep.read THEN "CANCELLED" ELSE req[r]
      /\ \A b \in Bookings : status'[b] = IF b \in sweep.closed THEN "cancelled" ELSE status[b]
      /\ sweep'.at = "idle" /\ sweep'.read = {} /\ sweep'.expired = {} /\ sweep'.closed = {}
      /\ sweep.expired \subseteq Reqs /\ sweep.read \subseteq Reqs
  BY DEF Inv, TypeOK, SweepCommit, Idle
<1>2. \A r \in Reqs : BookingOf[r] \in sweep.closed => r \in sweep.expired
  <2> SUFFICES ASSUME NEW r \in Reqs, BookingOf[r] \in sweep.closed
               PROVE  r \in sweep.expired
    OBVIOUS
  <2>1. status[BookingOf[r]] = "pending"
    BY DEF Inv, SweepCloses
  <2>2. PICK s \in sweep.read : BookingOf[s] = BookingOf[r]
    BY DEF Inv, SweepCloses
  <2>3. resv[r] = "PENDING" /\ r \in sweep.read
    BY <2>1, <2>2 DEF Inv, PendingIsWhole, SweepHolds
  <2>4. QED
    BY <1>1, <2>3 DEF Inv, SweepHolds, Written
<1>3. \A r \in sweep.expired : r \in Reqs /\ resv[r] = "PENDING"
  BY <1>1 DEF Inv, SweepHolds
<1>4. \A r \in Reqs : status[BookingOf[r]] = "pending" /\ BookingOf[r] \notin sweep.closed =>
        r \notin sweep.read /\ r \notin sweep.expired
  <2>1. \A r \in Reqs : status[BookingOf[r]] = "pending" /\ r \in sweep.expired => r \in sweep.read
    <3> SUFFICES ASSUME NEW r \in Reqs, r \in sweep.expired
                 PROVE  r \in sweep.read
      OBVIOUS
    <3>1. QED
      BY DEF Inv, SweepHolds
  <2>2. QED
    BY <1>1, <2>1 DEF Inv, SweepCloses
<1>5. PendingIsWhole'
  BY <1>1, <1>4, Owners DEF Inv, PendingIsWhole
<1>6. CapacityFollowsBooking'
  <2> SUFFICES ASSUME NEW r \in Reqs
               PROVE  /\ status'[BookingOf[r]] = "cancelled" => ~Live(resv'[r])
                      /\ status'[BookingOf[r]] = "confirmed" => resv'[r] = "CONFIRMED"
    BY DEF CapacityFollowsBooking, Live
  <2>1. CASE BookingOf[r] \in sweep.closed
    BY <1>1, <1>2, <2>1, Owners DEF Live
  <2>2. CASE BookingOf[r] \notin sweep.closed
    <3>1. status'[BookingOf[r]] = status[BookingOf[r]]
      BY <1>1, <2>2, Owners
    <3>2. /\ status[BookingOf[r]] = "cancelled" => ~Live(resv[r])
          /\ status[BookingOf[r]] = "confirmed" => resv[r] = "CONFIRMED"
      BY DEF Inv, CapacityFollowsBooking
    <3>3. QED
      BY <1>1, <1>3, <3>1, <3>2 DEF Live
  <2>3. QED
    BY <2>1, <2>2
<1>7. SweepHolds' /\ SweepCloses'
  BY <1>1 DEF SweepHolds, SweepCloses, Written
<1>8. QED
  BY <1>5, <1>6, <1>7

-----------------------------------------------------------------------------
(* A command that ends the pendency of one booking, when the sweep holds     *)
(* none of its rows, keeps the rest.                                         *)
LEMMA EndsPendency ==
  ASSUME Inv, NEW b \in Bookings, sweep' = sweep,
         \A c \in Bookings \ {b} : status'[c] = status[c] /\ cancel'[c] = cancel[c],
         \A r \in Reqs \ ReqsOf(b) : resv'[r] = resv[r] /\ req'[r] = req[r],
         b \notin sweep.closed,
         \A r \in ReqsOf(b) : r \notin sweep.expired /\ resv'[r] # "PENDING",
         \/ status'[b] = "cancelled" /\ \A r \in ReqsOf(b) : ~Live(resv'[r])
         \/ status'[b] = "confirmed" /\ \A r \in ReqsOf(b) : resv'[r] = "CONFIRMED"
  PROVE  PendingIsWhole' /\ SweepHolds' /\ SweepCloses' /\ CapacityFollowsBooking'
<1>1. /\ \A r \in Reqs : r \notin ReqsOf(b) => BookingOf[r] \in Bookings \ {b}
      /\ sweep.read \subseteq Reqs /\ sweep.expired \subseteq Reqs
      /\ sweep.closed \subseteq Bookings
  BY Owners DEF ReqsOf, Inv, TypeOK
<1>2. PendingIsWhole'
  <2> SUFFICES ASSUME NEW r \in Reqs, status'[BookingOf[r]] = "pending"
               PROVE  resv'[r] = "PENDING" /\ req'[r] = "ASSIGNED"
    BY DEF PendingIsWhole
  <2>1. r \notin ReqsOf(b)
    BY DEF ReqsOf
  <2>2. QED
    BY <1>1, <2>1 DEF Inv, PendingIsWhole
<1>3. CapacityFollowsBooking'
  <2> SUFFICES ASSUME NEW r \in Reqs
               PROVE  /\ status'[BookingOf[r]] = "cancelled" => ~Live(resv'[r])
                      /\ status'[BookingOf[r]] = "confirmed" => resv'[r] = "CONFIRMED"
    BY DEF CapacityFollowsBooking, Live
  <2>1. CASE r \in ReqsOf(b)
    BY <2>1 DEF ReqsOf
  <2>2. CASE r \notin ReqsOf(b)
    BY <1>1, <2>2 DEF Inv, CapacityFollowsBooking, Live
  <2>3. QED
    BY <2>1, <2>2
<1>4. SweepHolds'
  <2>1. \A r \in Reqs : resv'[r] = "PENDING" => resv[r] = "PENDING"
    BY <1>1
  <2>2. \A r \in sweep.expired : resv'[r] = "PENDING" /\ cancel'[BookingOf[r]].at # "commit"
    <3> SUFFICES ASSUME NEW r \in sweep.expired
                 PROVE  resv'[r] = "PENDING" /\ cancel'[BookingOf[r]].at # "commit"
      OBVIOUS
    <3>1. r \in Reqs \ ReqsOf(b)
      BY <1>1
    <3>2. QED
      BY <1>1, <3>1 DEF Inv, SweepHolds
  <2>3. QED
    BY <1>1, <2>1, <2>2 DEF Inv, SweepHolds, Written
<1>5. SweepCloses'
  <2>1. \A c \in sweep.closed : status'[c] = status[c] /\ cancel'[c] = cancel[c]
    BY <1>1
  <2>2. \A r \in Reqs : status'[BookingOf[r]] = "pending" => status[BookingOf[r]] = "pending"
    BY <1>1, Owners
  <2>3. QED
    BY <1>1, <2>1, <2>2 DEF Inv, SweepCloses
<1>6. QED
  BY <1>2, <1>3, <1>4, <1>5

LEMMA ApproveInv ==
  ASSUME Inv, NEW b \in Bookings, ApproveAndReserve(b)
  PROVE  PendingIsWhole' /\ SweepHolds' /\ SweepCloses' /\ CapacityFollowsBooking'
<1>1. /\ status' = [status EXCEPT ![b] = "confirmed"]
      /\ \A r \in Reqs : resv'[r] = IF r \in ReqsOf(b) /\ resv[r] = "PENDING" THEN "CONFIRMED"
                                                                              ELSE resv[r]
      /\ UNCHANGED <<req, sweep, cancel>>
      /\ status[b] = "pending" /\ status \in [Bookings -> BookingStates]
  BY DEF ApproveAndReserve, Inv, TypeOK
<1>2. \A r \in ReqsOf(b) : resv[r] = "PENDING"
  BY <1>1 DEF ReqsOf, Inv, PendingIsWhole
<1>3. b \notin sweep.closed /\ \A r \in ReqsOf(b) : r \notin sweep.expired
  BY DEF ApproveAndReserve, ReviewRowsFree, SweepLocksBooking, SweepLocksResv
<1>4. \A r \in ReqsOf(b) : r \in Reqs /\ resv'[r] = "CONFIRMED"
  BY <1>1, <1>2 DEF ReqsOf
<1>5. /\ \A c \in Bookings \ {b} : status'[c] = status[c]
      /\ status'[b] = "confirmed"
  BY <1>1
<1>6. QED
  BY <1>1, <1>3, <1>4, <1>5, EndsPendency

LEMMA RejectInv ==
  ASSUME Inv, NEW b \in Bookings, RejectRequest(b)
  PROVE  PendingIsWhole' /\ SweepHolds' /\ SweepCloses' /\ CapacityFollowsBooking'
<1>1. /\ status' = [status EXCEPT ![b] = "cancelled"]
      /\ \A r \in Reqs : resv'[r] = IF r \in ReqsOf(b) /\ Live(resv[r]) THEN "CANCELLED"
                                                                       ELSE resv[r]
      /\ \A r \in Reqs : req'[r] = IF r \in ActiveReqs(b) THEN "CANCELLED" ELSE req[r]
      /\ UNCHANGED <<sweep, cancel>>
      /\ status \in [Bookings -> BookingStates]
  BY DEF RejectRequest, Inv, TypeOK, GivenUpStatus
<1>2. b \notin sweep.closed /\ \A r \in ReqsOf(b) : r \notin sweep.expired
  BY DEF RejectRequest, ReviewRowsFree, SweepLocksBooking, SweepLocksResv
<1>3. \A r \in ReqsOf(b) : resv'[r] # "PENDING" /\ ~Live(resv'[r])
  BY <1>1 DEF ReqsOf, Live
<1>4. \A r \in Reqs \ ReqsOf(b) : resv'[r] = resv[r] /\ req'[r] = req[r]
  BY <1>1 DEF ActiveReqs
<1>5. /\ \A c \in Bookings \ {b} : status'[c] = status[c]
      /\ status'[b] = "cancelled"
  BY <1>1
<1>6. QED
  BY <1>1, <1>2, <1>3, <1>4, <1>5, EndsPendency

(* A cancellation commits with its inventory rows locked, so no sweep has    *)
(* expired one of them.                                                      *)
LEMMA CancelCommitInv ==
  ASSUME Inv, NEW b \in Bookings, CancelCommit(b)
  PROVE  PendingIsWhole' /\ SweepHolds' /\ SweepCloses' /\ CapacityFollowsBooking'
<1>1. /\ status' = [status EXCEPT ![b] = "cancelled"]
      /\ \A r \in Reqs : resv'[r] = IF r \in GivenUp(b) THEN "CANCELLED" ELSE resv[r]
      /\ \A r \in Reqs : req'[r] = IF r \in cancel[b].read THEN "CANCELLED" ELSE req[r]
      /\ sweep' = sweep /\ cancel[b].at = "commit"
      /\ status \in [Bookings -> BookingStates]
  BY DEF CancelCommit, Inv, TypeOK, GivenUpStatus
<1>2. \A c \in Bookings \ {b} : cancel'[c] = cancel[c]
  BY DEF CancelCommit, CancelAt, Inv, TypeOK
<1>3. b \notin sweep.closed /\ \A r \in ReqsOf(b) : r \notin sweep.expired
  BY <1>1 DEF Inv, SweepCloses, SweepHolds, ReqsOf
<1>4. \A r \in ReqsOf(b) : resv'[r] # "PENDING" /\ ~Live(resv'[r])
  BY <1>1 DEF ReqsOf, GivenUp, Live
<1>5. \A r \in Reqs \ ReqsOf(b) : resv'[r] = resv[r] /\ req'[r] = req[r]
  BY <1>1 DEF GivenUp, Inv, CancelReadsOwn
<1>6. /\ \A c \in Bookings \ {b} : status'[c] = status[c]
      /\ status'[b] = "cancelled"
  BY <1>1
<1>7. QED
  BY <1>1, <1>2, <1>3, <1>4, <1>5, <1>6, EndsPendency

-----------------------------------------------------------------------------
(* A cancellation's steps up to its commit write nothing that is committed;  *)
(* they need the rows they lock.                                             *)
LEMMA CancelMoves ==
  ASSUME Inv, NEW b \in Bookings, NEW at, NEW read, CancelAt(b, at, read),
         UNCHANGED <<status, resv, req, sweep>>,
         at = "commit" => \A r \in ReqsOf(b) : r \notin sweep.expired,
         b \in sweep.closed => at \in {"idle", "booking"}
  PROVE  PendingIsWhole' /\ SweepHolds' /\ SweepCloses' /\ CapacityFollowsBooking'
<1>1. PendingIsWhole' /\ CapacityFollowsBooking'
  BY DEF Inv, PendingIsWhole, CapacityFollowsBooking
<1>2. \A c \in Bookings : cancel'[c].at = IF c = b THEN at ELSE cancel[c].at
  BY DEF CancelAt, Inv, TypeOK
<1>3. sweep.expired \subseteq Reqs /\ sweep.closed \subseteq Bookings
  BY DEF Inv, TypeOK
<1>4. \A r \in sweep.expired : cancel'[BookingOf[r]].at # "commit"
  <2> SUFFICES ASSUME NEW r \in sweep.expired
               PROVE  cancel'[BookingOf[r]].at # "commit"
    OBVIOUS
  <2>1. BookingOf[r] \in Bookings /\ cancel[BookingOf[r]].at # "commit"
    BY <1>3, Owners DEF Inv, SweepHolds
  <2>2. BookingOf[r] = b => at # "commit"
    BY <1>3 DEF ReqsOf
  <2>3. QED
    BY <1>2, <2>1, <2>2
<1>5. SweepHolds'
  BY <1>4 DEF Inv, SweepHolds, Written
<1>6. \A c \in sweep.closed : cancel'[c].at \in {"idle", "booking"}
  BY <1>2, <1>3 DEF Inv, SweepCloses
<1>7. SweepCloses'
  BY <1>6 DEF Inv, SweepCloses
<1>8. QED
  BY <1>1, <1>5, <1>7

LEMMA CancelStepInv ==
  ASSUME Inv, NEW b \in Bookings, CancelCheck(b) \/ CancelStep(b) \/ AbortCancel(b)
  PROVE  PendingIsWhole' /\ SweepHolds' /\ SweepCloses' /\ CapacityFollowsBooking'
<1>1. b \in sweep.closed => cancel[b].at \in {"idle", "booking"}
  BY DEF Inv, SweepCloses
<1>2. CASE CancelCheck(b)
  BY <1>2, CancelMoves DEF CancelCheck
<1>3. CASE CancelBookingRow(b)
  BY <1>3, CancelMoves DEF CancelBookingRow, SweepLocksBooking
<1>4. CASE CancelRead(b)
  <2>1. \E at \in {"idle", "requirements"}, read \in SUBSET Reqs : CancelAt(b, at, read)
    BY <1>4 DEF CancelRead, ReqsOf
  <2>2. b \notin sweep.closed /\ UNCHANGED <<status, resv, req, sweep>>
    BY <1>1, <1>4 DEF CancelRead
  <2>3. QED
    BY <2>1, <2>2, CancelMoves
<1>5. CASE CancelRequirements(b)
  BY <1>1, <1>5, CancelMoves DEF CancelRequirements
<1>6. CASE CancelInventory(b)
  BY <1>1, <1>6, CancelMoves DEF CancelInventory, SweepLocksResv
<1>7. CASE CancelCommit(b)
  BY <1>7, CancelCommitInv
<1>8. CASE AbortCancel(b)
  BY <1>8, CancelMoves DEF AbortCancel
<1>9. QED
  BY <1>2, <1>3, <1>4, <1>5, <1>6, <1>7, <1>8 DEF CancelStep

LEMMA NextReadsOwn == Inv /\ [Next]_vars => CancelReadsOwn'
<1> SUFFICES ASSUME Inv, [Next]_vars, NEW b \in Bookings
             PROVE  cancel'[b].read \subseteq ReqsOf(b)
  BY DEF CancelReadsOwn, ReqsOf
<1>1. cancel[b].read \subseteq ReqsOf(b) /\ cancel \in [Bookings -> [at : CancelPoints, read : SUBSET Reqs]]
  BY DEF Inv, CancelReadsOwn, TypeOK
<1>2. ASSUME NEW c \in Bookings, NEW at, NEW read, CancelAt(c, at, read), read \subseteq ReqsOf(c)
      PROVE  cancel'[b].read \subseteq ReqsOf(b)
  BY <1>1, <1>2 DEF CancelAt
<1>3. CASE cancel' = cancel
  BY <1>1, <1>3
<1>4. ASSUME NEW c \in Bookings, CancelCheck(c) \/ CancelStep(c) \/ AbortCancel(c)
      PROVE  \E at \in CancelPoints, read \in SUBSET ReqsOf(c) : CancelAt(c, at, read)
  <2>1. cancel[c].read \subseteq ReqsOf(c)
    BY DEF Inv, CancelReadsOwn
  <2>2. {r \in ReqsOf(c) : req[r] # "CANCELLED"} \subseteq ReqsOf(c)
    OBVIOUS
  <2>3. QED
    BY <1>4, <2>1, <2>2 DEF CancelCheck, CancelStep, AbortCancel, CancelBookingRow, CancelRead,
       CancelRequirements, CancelInventory, CancelCommit, CancelPoints
<1>5. QED
  BY <1>2, <1>3, <1>4 DEF Next, vars, SweepStep, SweepRead, SweepExpire, SweepRequirements,
     SweepClose, SweepCommit, HoldLapses, RenewHold, ApproveAndReserve, RejectRequest,
     AbortSweep, HandOut

LEMMA NextInv == Inv /\ [Next]_vars => Inv'
<1> SUFFICES ASSUME Inv, [Next]_vars
             PROVE  PendingIsWhole' /\ SweepHolds' /\ SweepCloses' /\ CapacityFollowsBooking'
  BY NextType, NextReadsOwn DEF Inv
<1>1. CASE SweepStep
  BY <1>1, SweepReadInv, SweepExpireInv, SweepRequirementsInv, SweepCloseInv, SweepCommitInv
     DEF SweepStep
<1>2. CASE UNCHANGED <<status, resv, req, sweep, cancel>>
  BY <1>2 DEF Inv, PendingIsWhole, SweepHolds, SweepCloses, Written, CapacityFollowsBooking
<1>3. ASSUME NEW b \in Bookings, AbortSweep(b)
      PROVE  PendingIsWhole' /\ SweepHolds' /\ SweepCloses' /\ CapacityFollowsBooking'
  <2>1. UNCHANGED <<status, resv, req, cancel>> /\ sweep' = Idle
    BY <1>3 DEF AbortSweep
  <2>2. PendingIsWhole' /\ CapacityFollowsBooking'
    BY <2>1 DEF Inv, PendingIsWhole, CapacityFollowsBooking
  <2>3. SweepHolds' /\ SweepCloses'
    BY <2>1 DEF SweepHolds, SweepCloses, Written, Idle
  <2>4. QED
    BY <2>2, <2>3
<1>4. ASSUME NEW r \in Reqs, HandOut(r)
      PROVE  PendingIsWhole' /\ SweepHolds' /\ SweepCloses' /\ CapacityFollowsBooking'
  <2>1. /\ UNCHANGED <<status, resv, sweep, cancel>> /\ req' = [req EXCEPT ![r] = "HANDED_OUT"]
        /\ status[BookingOf[r]] = "confirmed" /\ req \in [Reqs -> {"ASSIGNED", "HANDED_OUT", "CANCELLED"}]
    BY <1>4 DEF HandOut, Inv, TypeOK
  <2>2. PendingIsWhole'
    BY <2>1 DEF Inv, PendingIsWhole
  <2>3. SweepHolds' /\ SweepCloses' /\ CapacityFollowsBooking'
    BY <2>1 DEF Inv, SweepHolds, SweepCloses, Written, CapacityFollowsBooking
  <2>4. QED
    BY <2>2, <2>3
<1>5. QED
  BY <1>1, <1>2, <1>3, <1>4, ApproveInv, RejectInv, CancelStepInv
     DEF Next, vars, HoldLapses, RenewHold

(* Whatever the interleaving, the state keeps its shape.                     *)
THEOREM TypeCorrect == Spec => []TypeOK
<1>1. Inv => TypeOK
  BY DEF Inv
<1>2. QED
  BY InitInv, NextInv, <1>1, PTL DEF Spec

(* For any number of bookings, requirements, renewals and cancellations: a   *)
(* cancelled booking keeps no capacity and a confirmed one has all of its    *)
(* reservations, however the statements of the sweep and of the             *)
(* cancellations interleave with the review commands.                        *)
THEOREM CapacityAlwaysFollows == Spec => []CapacityFollowsBooking
<1>1. Inv => CapacityFollowsBooking
  BY DEF Inv
<1>2. QED
  BY InitInv, NextInv, <1>1, PTL DEF Spec

-----------------------------------------------------------------------------
(* Each commit is one step of what the commands promise.                     *)

(* A hold that is pending is a pending request's, and a live reservation a   *)
(* booking's that is not cancelled.                                          *)
LEMMA LiveIsOpen ==
  ASSUME Inv, NEW r \in Reqs
  PROVE  /\ resv[r] = "PENDING" <=> status[BookingOf[r]] = "pending"
         /\ Live(resv[r]) <=> status[BookingOf[r]] # "cancelled"
<1>1. status[BookingOf[r]] \in BookingStates
  BY Owners DEF Inv, TypeOK
<1>2. QED
  BY <1>1 DEF Inv, PendingIsWhole, CapacityFollowsBooking, BookingStates, Live

(* What a sweep expires is all of the reservations of the bookings it        *)
(* closes.                                                                   *)
LEMMA ExpiresWhole ==
  ASSUME Inv, sweep.at = "commit", NEW r \in Reqs
  PROVE  r \in sweep.expired <=> BookingOf[r] \in sweep.closed
<1>1. ASSUME r \in sweep.expired
      PROVE  BookingOf[r] \in sweep.closed
  <2>1. resv[r] = "PENDING" /\ r \in sweep.read
    BY <1>1 DEF Inv, SweepHolds
  <2>2. status[BookingOf[r]] = "pending"
    BY <2>1, LiveIsOpen
  <2>3. QED
    BY <2>1, <2>2 DEF Inv, SweepCloses
<1>2. ASSUME BookingOf[r] \in sweep.closed
      PROVE  r \in sweep.expired
  <2>1. status[BookingOf[r]] = "pending"
    BY <1>2 DEF Inv, SweepCloses
  <2>2. PICK s \in sweep.read : BookingOf[s] = BookingOf[r]
    BY <1>2 DEF Inv, SweepCloses
  <2>3. resv[r] = "PENDING" /\ r \in sweep.read
    BY <2>1, <2>2 DEF Inv, PendingIsWhole, SweepHolds
  <2>4. QED
    BY <2>3 DEF Inv, SweepHolds, Written
<1>3. QED
  BY <1>1, <1>2

(* A commit of one booking decides it and all of its reservations.           *)
LEMMA ApproveDecides ==
  ASSUME Inv, NEW b \in Bookings, ApproveAndReserve(b)
  PROVE  Atomic!Confirm(b)
<1>1. \A r \in Reqs : BookingOf[r] = b => resv[r] = "PENDING"
  BY DEF ApproveAndReserve, Inv, PendingIsWhole
<1>2. resv' = [r \in Reqs |-> IF BookingOf[r] \in {b} THEN "CONFIRMED" ELSE resv[r]]
  BY <1>1 DEF ApproveAndReserve, ReqsOf
<1>3. status' = [c \in Bookings |-> IF c \in {b} THEN "confirmed" ELSE status[c]]
  BY DEF ApproveAndReserve, Inv, TypeOK
<1>4. QED
  BY <1>2, <1>3 DEF ApproveAndReserve, Atomic!Confirm, Atomic!Decide

LEMMA RejectDecides ==
  ASSUME Inv, NEW b \in Bookings, RejectRequest(b)
  PROVE  Atomic!GiveUp(b)
<1>1. \A r \in Reqs : BookingOf[r] = b => Live(resv[r])
  BY LiveIsOpen DEF RejectRequest
<1>2. resv' = [r \in Reqs |-> IF BookingOf[r] \in {b} THEN "CANCELLED" ELSE resv[r]]
  BY <1>1 DEF RejectRequest, ReqsOf, GivenUpStatus
<1>3. status' = [c \in Bookings |-> IF c \in {b} THEN "cancelled" ELSE status[c]]
  BY DEF RejectRequest, Inv, TypeOK
<1>4. QED
  BY <1>2, <1>3 DEF RejectRequest, Atomic!GiveUp, Atomic!Decide

(* A cancellation that comes to a booking that is cancelled by then changes  *)
(* nothing that is promised.                                                 *)
LEMMA CancelDecides ==
  ASSUME Inv, NEW b \in Bookings, CancelCommit(b)
  PROVE  Atomic!GiveUp(b) \/ UNCHANGED <<status, resv>>
<1>1. /\ status' = [status EXCEPT ![b] = "cancelled"]
      /\ resv' = [r \in Reqs |-> IF BookingOf[r] = b /\ Live(resv[r]) THEN "CANCELLED"
                                                                     ELSE resv[r]]
      /\ status \in [Bookings -> BookingStates]
      /\ resv \in [Reqs -> {"PENDING", "CONFIRMED", "CANCELLED", "EXPIRED"}]
  BY DEF CancelCommit, GivenUp, ReqsOf, GivenUpStatus, Inv, TypeOK
<1>2. CASE status[b] = "cancelled"
  <2>1. \A r \in Reqs : BookingOf[r] = b => ~Live(resv[r])
    BY <1>2, LiveIsOpen
  <2>2. QED
    BY <1>1, <1>2, <2>1
<1>3. CASE status[b] \in {"pending", "confirmed"}
  <2>1. \A r \in Reqs : BookingOf[r] = b => Live(resv[r])
    BY <1>3, LiveIsOpen
  <2>2. resv' = [r \in Reqs |-> IF BookingOf[r] \in {b} THEN "CANCELLED" ELSE resv[r]]
    BY <1>1, <2>1
  <2>3. status' = [c \in Bookings |-> IF c \in {b} THEN "cancelled" ELSE status[c]]
    BY <1>1
  <2>4. QED
    BY <1>3, <2>2, <2>3 DEF Atomic!GiveUp, Atomic!Decide
<1>4. QED
  BY <1>1, <1>2, <1>3 DEF BookingStates

LEMMA SweepDecides ==
  ASSUME Inv, SweepCommit
  PROVE  Atomic!Expire(sweep.closed)
<1>1. \A b \in sweep.closed : status[b] = "pending"
  BY DEF Inv, SweepCloses
<1>2. resv' = [r \in Reqs |-> IF BookingOf[r] \in sweep.closed THEN "EXPIRED" ELSE resv[r]]
  BY ExpiresWhole DEF SweepCommit
<1>3. QED
  BY <1>1, <1>2 DEF SweepCommit, Atomic!Expire, Atomic!Decide

(* Every interleaving of the statements of sweeps and cancellations with the *)
(* commands that review a request is, on bookings and reservations, a         *)
(* sequence of single steps that each decide whole bookings: the rental       *)
(* core, which takes both commands as one step, leaves nothing out there.    *)
THEOREM RacesImplementAtomicHolds == Spec => ImplementsAtomicHolds
<1>1. Init => Atomic!Init
  BY DEF Init, Atomic!Init
<1>2. Inv /\ [Next]_vars => [Atomic!Next]_(Atomic!holdVars)
  <2> SUFFICES ASSUME Inv, [Next]_vars
               PROVE  Atomic!Next \/ UNCHANGED <<status, resv>>
    BY DEF Atomic!holdVars
  <2>1. CASE SweepCommit
    <3>1. sweep.closed \in SUBSET Bookings
      BY DEF Inv, TypeOK
    <3>2. QED
      BY <2>1, <3>1, SweepDecides DEF Atomic!Next
  <2>2. ASSUME NEW b \in Bookings, ApproveAndReserve(b) \/ RejectRequest(b) \/ CancelCommit(b)
        PROVE  Atomic!Next \/ UNCHANGED <<status, resv>>
    BY <2>2, ApproveDecides, RejectDecides, CancelDecides DEF Atomic!Next
  <2>3. CASE UNCHANGED <<status, resv>>
    BY <2>3
  <2>4. QED
    BY <2>1, <2>2, <2>3 DEF Next, vars, SweepStep, SweepRead, SweepExpire, SweepRequirements,
       SweepClose, HoldLapses, RenewHold, CancelCheck, CancelStep, CancelBookingRow, CancelRead,
       CancelRequirements, CancelInventory, AbortSweep, AbortCancel, HandOut
<1>3. QED
  BY <1>1, <1>2, InitInv, NextInv, PTL DEF Spec, ImplementsAtomicHolds, Atomic!Spec

-----------------------------------------------------------------------------
(* What a late renewal breaks, and what it alone breaks.                     *)

(* Holds are renewed while no sweep has read them, and no unit leaves while  *)
(* a cancellation has read its requirement.                                  *)
RenewedBeforeRead == \A b \in Bookings : RenewHold(b) => \A r \in sweep.read : BookingOf[r] # b
HandedOutUnread == \A r \in Reqs : HandOut(r) => r \notin cancel[BookingOf[r]].read

(* What a sweep read has lapsed and is not confirmed.                        *)
SweepLate == \A r \in sweep.read : lapsed[BookingOf[r]] /\ status[BookingOf[r]] # "confirmed"

LEMMA NextSweepLate ==
  Inv /\ SweepLate /\ [Next]_vars /\ [RenewedBeforeRead]_vars => SweepLate'
<1> SUFFICES ASSUME Inv, SweepLate, [Next]_vars, [RenewedBeforeRead]_vars
             PROVE  SweepLate'
  OBVIOUS
<1>1. /\ TypeOK /\ CapacityFollowsBooking /\ PendingIsWhole
      /\ sweep.read \subseteq Reqs /\ \A r \in Reqs : BookingOf[r] \in Bookings
  BY Owners DEF Inv, TypeOK
<1>2. ASSUME sweep'.read \subseteq sweep.read,
             \A b \in Bookings : /\ lapsed[b] => lapsed'[b]
                                 /\ status'[b] = "confirmed" => status[b] = "confirmed"
      PROVE  SweepLate'
  BY <1>1, <1>2 DEF SweepLate
<1>3. CASE SweepRead
  <2>1. sweep'.read = {r \in Reqs : resv[r] = "PENDING" /\ lapsed[BookingOf[r]]}
        /\ UNCHANGED <<status, lapsed>>
    BY <1>3 DEF SweepRead, Idle
  <2>2. QED
    BY <1>1, <2>1 DEF SweepLate, CapacityFollowsBooking
<1>4. CASE SweepExpire \/ SweepRequirements \/ SweepClose \/ SweepCommit
  <2>1. sweep'.read \subseteq sweep.read
    <3>1. CASE SweepExpire
      BY <1>1, <3>1 DEF SweepExpire, TypeOK
    <3>2. CASE SweepRequirements
      BY <1>1, <3>2 DEF SweepRequirements, TypeOK
    <3>3. CASE SweepClose
      BY <1>1, <3>3 DEF SweepClose, TypeOK
    <3>4. CASE SweepCommit
      BY <3>4 DEF SweepCommit, Idle
    <3>5. QED
      BY <1>4, <3>1, <3>2, <3>3, <3>4
  <2>2. lapsed' = lapsed /\ \A b \in Bookings : status'[b] \in {status[b], "cancelled"}
    BY <1>4 DEF SweepExpire, SweepRequirements, SweepClose, SweepCommit
  <2>3. QED
    BY <1>2, <2>1, <2>2
<1>5. ASSUME NEW b \in Bookings, RenewHold(b)
      PROVE  SweepLate'
  <2>1. CASE UNCHANGED vars
    BY <1>2, <2>1 DEF vars
  <2>2. CASE RenewedBeforeRead
    BY <1>1, <1>5, <2>2 DEF RenewedBeforeRead, RenewHold, SweepLate, TypeOK
  <2>3. QED
    BY <2>1, <2>2
<1>6. ASSUME NEW b \in Bookings, ApproveAndReserve(b)
      PROVE  SweepLate'
  <2>1. ~lapsed[b]
    BY <1>1, <1>6 DEF ApproveAndReserve, ActiveReqs, ReqsOf, PendingIsWhole
  <2>2. \A r \in sweep.read : BookingOf[r] # b
    BY <2>1 DEF SweepLate
  <2>3. UNCHANGED <<lapsed, sweep>> /\ status' = [status EXCEPT ![b] = "confirmed"]
    BY <1>6 DEF ApproveAndReserve
  <2>4. QED
    BY <1>1, <2>2, <2>3 DEF SweepLate, TypeOK
<1>7. ASSUME NEW b \in Bookings, HoldLapses(b) \/ RejectRequest(b) \/ CancelCheck(b)
                                 \/ CancelStep(b) \/ AbortCancel(b)
      PROVE  SweepLate'
  <2>1. sweep' = sweep
    BY <1>7 DEF HoldLapses, RejectRequest, CancelCheck, CancelStep, CancelBookingRow, CancelRead,
       CancelRequirements, CancelInventory, CancelCommit, AbortCancel
  <2>2. \A c \in Bookings : lapsed[c] => lapsed'[c]
    BY <1>1, <1>7 DEF HoldLapses, RejectRequest, CancelCheck, CancelStep, CancelBookingRow,
       CancelRead, CancelRequirements, CancelInventory, CancelCommit, AbortCancel, TypeOK
  <2>3. \A c \in Bookings : status'[c] \in {status[c], "cancelled"}
    BY <1>1, <1>7 DEF HoldLapses, RejectRequest, CancelCheck, CancelStep, CancelBookingRow,
       CancelRead, CancelRequirements, CancelInventory, CancelCommit, AbortCancel, TypeOK
  <2>4. QED
    BY <1>2, <2>1, <2>2, <2>3
<1>8. ASSUME NEW b \in Bookings, AbortSweep(b)
      PROVE  SweepLate'
  BY <1>2, <1>8 DEF AbortSweep, Idle
<1>9. ASSUME NEW r \in Reqs, HandOut(r)
      PROVE  SweepLate'
  BY <1>2, <1>9 DEF HandOut
<1>10. CASE UNCHANGED vars
  BY <1>2, <1>10 DEF vars
<1>11. QED
  BY <1>3, <1>4, <1>5, <1>6, <1>7, <1>8, <1>9, <1>10 DEF Next, SweepStep

LEMMA InductiveInv == Spec => []Inv
BY InitInv, NextInv, PTL DEF Spec

LEMMA InductiveSweepLate == Spec /\ [][RenewedBeforeRead]_vars => []SweepLate
<1>1. Init => SweepLate
  BY DEF Init, SweepLate, Idle
<1>2. QED
  BY <1>1, NextSweepLate, InductiveInv, PTL DEF Spec

(* Only a sweep's commit expires a hold.                                     *)
LEMMA OnlySweepExpires ==
  ASSUME Inv, [Next]_vars, NEW r \in Reqs, resv[r] # "EXPIRED", resv'[r] = "EXPIRED"
  PROVE  r \in sweep.expired
<1>1. TypeOK
  BY DEF Inv
<1>2. CASE SweepStep
  BY <1>2 DEF SweepStep, SweepRead, SweepExpire, SweepRequirements, SweepClose, SweepCommit
<1>3. CASE \E b \in Bookings : ApproveAndReserve(b) \/ RejectRequest(b) \/ CancelCommit(b)
  BY <1>1, <1>3 DEF ApproveAndReserve, RejectRequest, CancelCommit, GivenUpStatus
<1>4. CASE UNCHANGED resv
  BY <1>4
<1>5. QED
  BY <1>2, <1>3, <1>4 DEF Next, vars, HoldLapses, RenewHold, CancelCheck, CancelStep,
     CancelBookingRow, CancelRead, CancelRequirements, CancelInventory, AbortSweep,
     AbortCancel, HandOut

(* A hold expires only when its expiry has passed, unless it is renewed      *)
(* between a sweep's read of it and the sweep's commit.                      *)
THEOREM OnlyLapsedExpire == Spec /\ [][RenewedBeforeRead]_vars => ExpiresOnlyLapsed
<1>1. Inv /\ SweepLate /\ [Next]_vars =>
        [\A r \in Reqs : resv[r] = "PENDING" /\ resv'[r] = "EXPIRED" => lapsed[BookingOf[r]]]_vars
  BY OnlySweepExpires DEF Inv, SweepHolds, SweepLate
<1>2. QED
  BY <1>1, InductiveInv, InductiveSweepLate, PTL DEF Spec, ExpiresOnlyLapsed

LEMMA NextConfirmedIsLive ==
  Inv /\ SweepLate /\ ConfirmedIsLive /\ [Next]_vars => ConfirmedIsLive'
<1> SUFFICES ASSUME Inv, SweepLate, ConfirmedIsLive, [Next]_vars
             PROVE  ConfirmedIsLive'
  OBVIOUS
<1>1. /\ TypeOK /\ PendingIsWhole /\ CancelReadsOwn
      /\ sweep.read \subseteq Reqs /\ \A r \in Reqs : BookingOf[r] \in Bookings
  BY Owners DEF Inv, TypeOK
<1>2. CASE SweepCommit
  BY <1>1, <1>2 DEF SweepCommit, SweepLate, ConfirmedIsLive
<1>3. ASSUME NEW b \in Bookings, ApproveAndReserve(b)
      PROVE  ConfirmedIsLive'
  BY <1>1, <1>3 DEF ApproveAndReserve, ConfirmedIsLive, PendingIsWhole, TypeOK
<1>4. ASSUME NEW b \in Bookings, RejectRequest(b)
      PROVE  ConfirmedIsLive'
  BY <1>1, <1>4 DEF RejectRequest, ActiveReqs, ReqsOf, ConfirmedIsLive, TypeOK
<1>5. ASSUME NEW b \in Bookings, CancelCommit(b)
      PROVE  ConfirmedIsLive'
  BY <1>1, <1>5 DEF CancelCommit, CancelReadsOwn, ReqsOf, ConfirmedIsLive, TypeOK
<1>6. ASSUME NEW r \in Reqs, HandOut(r)
      PROVE  ConfirmedIsLive'
  BY <1>1, <1>6 DEF HandOut, ConfirmedIsLive, TypeOK
<1>7. CASE UNCHANGED <<status, req>>
  BY <1>7 DEF ConfirmedIsLive
<1>8. QED
  BY <1>2, <1>3, <1>4, <1>5, <1>6, <1>7 DEF Next, vars, SweepStep, SweepRead, SweepExpire,
     SweepRequirements, SweepClose, HoldLapses, RenewHold, CancelCheck, CancelStep,
     CancelBookingRow, CancelRead, CancelRequirements, CancelInventory, AbortSweep, AbortCancel

(* A confirmed rental's requirements are live, unless a hold is renewed      *)
(* between a sweep's read of it and the sweep's commit: an approval needs a  *)
(* hold that has not lapsed, and a sweep reads lapsed ones.                  *)
THEOREM ConfirmedStaysLive == Spec /\ [][RenewedBeforeRead]_vars => []ConfirmedIsLive
<1>1. Init => ConfirmedIsLive
  BY Owners DEF Init, ConfirmedIsLive
<1>2. QED
  BY <1>1, NextConfirmedIsLive, InductiveInv, InductiveSweepLate, PTL DEF Spec

(* A unit that is out is out under a confirmed booking, and a cancellation   *)
(* that goes on has read every live requirement, none of them handed out.    *)
HandedOutIsOut == \A r \in Reqs : req[r] = "HANDED_OUT" => status[BookingOf[r]] = "confirmed"
CancelsRead ==
  \A b \in Bookings : cancel[b].at \in {"requirements", "inventory", "commit"} =>
    \A r \in ReqsOf(b) :
      req[r] = "CANCELLED" \/ (r \in cancel[b].read /\ req[r] # "HANDED_OUT")

LEMMA NextHandedOut ==
  Inv /\ SweepLate /\ ConfirmedIsLive /\ HandedOutIsOut /\ CancelsRead
    /\ [Next]_vars /\ [HandedOutUnread]_vars => HandedOutIsOut' /\ CancelsRead'
<1> SUFFICES ASSUME Inv, SweepLate, ConfirmedIsLive, HandedOutIsOut, CancelsRead,
                    [Next]_vars, [HandedOutUnread]_vars
             PROVE  HandedOutIsOut' /\ CancelsRead'
  OBVIOUS
<1>1. /\ TypeOK /\ CancelReadsOwn /\ SweepCloses
      /\ sweep.read \subseteq Reqs /\ \A r \in Reqs : BookingOf[r] \in Bookings
  BY Owners DEF Inv, TypeOK
<1>2. CASE SweepCommit
  <2>1. /\ req' = [r \in Reqs |-> IF r \in sweep.read THEN "CANCELLED" ELSE req[r]]
        /\ status' = [b \in Bookings |-> IF b \in sweep.closed THEN "cancelled" ELSE status[b]]
        /\ cancel' = cancel
    BY <1>2 DEF SweepCommit
  <2>2. \A b \in sweep.closed : status[b] = "pending"
    BY <1>1 DEF SweepCloses
  <2>3. HandedOutIsOut'
    BY <1>1, <2>1, <2>2 DEF HandedOutIsOut
  <2>4. CancelsRead'
    BY <1>1, <2>1 DEF CancelsRead, ReqsOf
  <2>5. QED
    BY <2>3, <2>4
<1>3. ASSUME NEW b \in Bookings, ApproveAndReserve(b)
      PROVE  HandedOutIsOut' /\ CancelsRead'
  BY <1>1, <1>3 DEF ApproveAndReserve, HandedOutIsOut, CancelsRead, ReqsOf, TypeOK
<1>4. ASSUME NEW b \in Bookings, RejectRequest(b)
      PROVE  HandedOutIsOut' /\ CancelsRead'
  <2>1. /\ req' = [r \in Reqs |-> IF r \in ActiveReqs(b) THEN "CANCELLED" ELSE req[r]]
        /\ status' = [status EXCEPT ![b] = "cancelled"] /\ status[b] = "pending"
        /\ cancel' = cancel
    BY <1>4 DEF RejectRequest
  <2>2. HandedOutIsOut'
    BY <1>1, <2>1 DEF HandedOutIsOut, TypeOK
  <2>3. CancelsRead'
    BY <1>1, <2>1 DEF CancelsRead, ReqsOf
  <2>4. QED
    BY <2>2, <2>3
<1>5. ASSUME NEW b \in Bookings, CancelCommit(b)
      PROVE  HandedOutIsOut' /\ CancelsRead'
  <2>1. /\ req' = [r \in Reqs |-> IF r \in cancel[b].read THEN "CANCELLED" ELSE req[r]]
        /\ status' = [status EXCEPT ![b] = "cancelled"] /\ cancel[b].at = "commit"
        /\ cancel' = [cancel EXCEPT ![b] = [at |-> "idle", read |-> {}]]
    BY <1>5 DEF CancelCommit, CancelAt
  <2>2. \A r \in ReqsOf(b) : req[r] # "HANDED_OUT"
    BY <2>1 DEF CancelsRead
  <2>3. HandedOutIsOut'
    BY <1>1, <2>1, <2>2 DEF HandedOutIsOut, ReqsOf, TypeOK
  <2>4. CancelsRead'
    BY <1>1, <2>1 DEF CancelsRead, ReqsOf, TypeOK
  <2>5. QED
    BY <2>3, <2>4
<1>6. ASSUME NEW b \in Bookings, CancelRead(b)
      PROVE  HandedOutIsOut' /\ CancelsRead'
  <2>1. UNCHANGED <<status, req>>
    BY <1>6 DEF CancelRead
  <2>2. CancelsRead'
    <3> DEFINE live == {r \in ReqsOf(b) : req[r] # "CANCELLED"}
    <3>1. CASE CancelAt(b, "idle", {})
      BY <1>1, <2>1, <3>1 DEF CancelAt, CancelsRead, ReqsOf, TypeOK
    <3>2. CASE CancelAt(b, "requirements", live) /\ ~\E r \in live : req[r] = "HANDED_OUT"
      <4>1. cancel' = [cancel EXCEPT ![b] = [at |-> "requirements", read |-> live]]
        BY <3>2 DEF CancelAt
      <4>2. \A r \in ReqsOf(b) : req[r] = "CANCELLED" \/ (r \in live /\ req[r] # "HANDED_OUT")
        BY <3>2
      <4>3. ASSUME NEW c \in Bookings, cancel'[c].at \in {"requirements", "inventory", "commit"},
                   NEW r \in ReqsOf(c)
            PROVE  req[r] = "CANCELLED" \/ (r \in cancel'[c].read /\ req[r] # "HANDED_OUT")
        <5>1. CASE c = b
          <6>1. cancel'[b].read = live
            BY <1>1, <4>1 DEF TypeOK
          <6>2. QED
            BY <4>2, <4>3, <5>1, <6>1
        <5>2. CASE c # b
          <6>1. cancel'[c] = cancel[c]
            BY <1>1, <4>1, <5>2 DEF TypeOK
          <6>2. QED
            BY <4>3, <6>1 DEF CancelsRead
        <5>3. QED
          BY <5>1, <5>2
      <4>4. QED
        BY <2>1, <4>3 DEF CancelsRead, ReqsOf
    <3>3. QED
      BY <1>6, <3>1, <3>2 DEF CancelRead
  <2>3. QED
    BY <2>1, <2>2 DEF HandedOutIsOut
<1>7. ASSUME NEW b \in Bookings, CancelCheck(b) \/ CancelBookingRow(b) \/ AbortCancel(b)
      PROVE  HandedOutIsOut' /\ CancelsRead'
  <2>1. /\ UNCHANGED <<status, req>>
        /\ \E at \in {"idle", "booking", "read"} : cancel' = [cancel EXCEPT ![b] = [at |-> at, read |-> {}]]
    BY <1>7 DEF CancelCheck, CancelBookingRow, AbortCancel, CancelAt
  <2>2. CancelsRead'
    BY <1>1, <2>1 DEF CancelsRead, ReqsOf, TypeOK
  <2>3. QED
    BY <2>1, <2>2 DEF HandedOutIsOut
<1>8. ASSUME NEW b \in Bookings, CancelRequirements(b) \/ CancelInventory(b)
      PROVE  HandedOutIsOut' /\ CancelsRead'
  <2>1. /\ UNCHANGED <<status, req>> /\ cancel[b].at \in {"requirements", "inventory"}
        /\ \E at \in CancelPoints : cancel' = [cancel EXCEPT ![b] = [at |-> at, read |-> cancel[b].read]]
    BY <1>8 DEF CancelRequirements, CancelInventory, CancelAt, CancelPoints
  <2>2. CancelsRead'
    BY <1>1, <2>1 DEF CancelsRead, ReqsOf, TypeOK
  <2>3. QED
    BY <2>1, <2>2 DEF HandedOutIsOut
<1>9. ASSUME NEW r \in Reqs, HandOut(r)
      PROVE  HandedOutIsOut' /\ CancelsRead'
  <2>1. CASE UNCHANGED vars
    BY <2>1 DEF vars, HandedOutIsOut, CancelsRead
  <2>2. CASE HandedOutUnread
    <3>1. /\ status[BookingOf[r]] = "confirmed" /\ req' = [req EXCEPT ![r] = "HANDED_OUT"]
          /\ UNCHANGED <<status, cancel>> /\ r \notin cancel[BookingOf[r]].read
      BY <1>9, <2>2 DEF HandOut, HandedOutUnread
    <3>2. req[r] # "CANCELLED"
      BY <3>1 DEF ConfirmedIsLive
    <3>3. cancel[BookingOf[r]].at \notin {"requirements", "inventory", "commit"}
      BY <1>1, <3>1, <3>2 DEF CancelsRead, ReqsOf
    <3>4. QED
      BY <1>1, <3>1, <3>3 DEF HandedOutIsOut, CancelsRead, ReqsOf, TypeOK
  <2>3. QED
    BY <2>1, <2>2
<1>10. CASE UNCHANGED <<status, req, cancel>>
  BY <1>10 DEF HandedOutIsOut, CancelsRead
<1>11. QED
  BY <1>2, <1>3, <1>4, <1>5, <1>6, <1>7, <1>8, <1>9, <1>10 DEF Next, vars, SweepStep, SweepRead,
     SweepExpire, SweepRequirements, SweepClose, HoldLapses, RenewHold, CancelStep, AbortSweep

(* No requirement is cancelled while its unit is out, unless a hold is       *)
(* renewed after a sweep read it, or a unit handed out after a cancellation  *)
(* read its requirement: these two windows are all there is.                 *)
THEOREM NothingOutIsCancelled ==
  Spec /\ [][RenewedBeforeRead]_vars /\ [][HandedOutUnread]_vars => NoCancelOverHandedOut
<1> DEFINE Kept == \A r \in Reqs : req[r] = "HANDED_OUT" => req'[r] # "CANCELLED"
<1>1. Init => HandedOutIsOut /\ CancelsRead
  BY DEF Init, HandedOutIsOut, CancelsRead, NoCancel
<1>2. ASSUME Inv, SweepLate, HandedOutIsOut, CancelsRead, [Next]_vars
      PROVE  [Kept]_vars
  <2>1. TypeOK /\ CancelReadsOwn /\ sweep.read \subseteq Reqs
    BY <1>2 DEF Inv, TypeOK
  <2>2. CASE SweepCommit
    BY <1>2, <2>1, <2>2 DEF SweepCommit, SweepLate, HandedOutIsOut
  <2>3. ASSUME NEW b \in Bookings, CancelCommit(b)
        PROVE  Kept
    BY <1>2, <2>1, <2>3 DEF CancelCommit, CancelsRead, CancelReadsOwn
  <2>4. ASSUME NEW b \in Bookings, RejectRequest(b)
        PROVE  Kept
    BY <2>4 DEF RejectRequest, ActiveReqs
  <2>5. ASSUME NEW r \in Reqs, HandOut(r)
        PROVE  Kept
    BY <2>1, <2>5 DEF HandOut, TypeOK
  <2>6. CASE UNCHANGED req
    BY <2>6
  <2>7. QED
    BY <1>2, <2>2, <2>3, <2>4, <2>5, <2>6 DEF Next, vars, SweepStep, SweepRead, SweepExpire,
       SweepRequirements, SweepClose, HoldLapses, RenewHold, ApproveAndReserve, CancelCheck,
       CancelStep, CancelBookingRow, CancelRead, CancelRequirements, CancelInventory,
       AbortSweep, AbortCancel
<1> HIDE DEF Kept
<1>3. Inv /\ SweepLate /\ HandedOutIsOut /\ CancelsRead /\ [Next]_vars => [Kept]_vars
  BY <1>2
<1>4. Spec /\ [][RenewedBeforeRead]_vars /\ [][HandedOutUnread]_vars => [][Kept]_vars
  BY <1>1, <1>3, NextHandedOut, InductiveInv, InductiveSweepLate, ConfirmedStaysLive, PTL DEF Spec
<1>5. QED
  BY <1>4 DEF Kept, NoCancelOverHandedOut
===============================================================================
