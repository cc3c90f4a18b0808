---------------------------- MODULE StockTransfers ----------------------------
(***************************************************************************)
(* Transfers of exact stock units between locations                         *)
(* (inventory-transfer.service.ts), composed with the work done on units    *)
(* and with the bookings that count on a location's stock.  Each action is   *)
(* one Serializable transaction.  One SKU; every booking wants one piece,    *)
(* and all days overlap, so what is reserved at a location is the peak.      *)
(***************************************************************************)
EXTENDS UnitWork, Integers, FiniteSets

CONSTANTS
  Locations,
  Home,          \* unit -> the location it starts at
  Transfers,     \* bound: transfers ever drafted
  MaxReserved    \* bound: bookings at one location

ASSUME TransferAssumption ==
  /\ IsFiniteSet(Units)
  /\ Locations # {} /\ Home \in [Units -> Locations]
  /\ MaxReserved \in Nat

VARIABLES
  location,   \* unit -> StockUnit.locationId
  transfer,   \* InventoryTransfer, with the outcome of each of its units
  reserved    \* location -> pieces of live reservations there

vars == <<workVars, location, transfer, reserved>>

None == [u \in {} |-> "PENDING"]
NoTransfer == LET l == CHOOSE l \in Locations : TRUE IN
  [status |-> "none", from |-> l, to |-> l, outcome |-> None]

Init ==
  /\ WorkInit
  /\ location = Home
  /\ transfer = [t \in Transfers |-> NoTransfer]
  /\ reserved = [l \in Locations |-> 0]

UnitsOf(t) == DOMAIN transfer[t].outcome

(* Is the unit reserved for the transfer, or on its way?                     *)
Carries(t, u) ==
  /\ transfer[t].status \in {"READY", "DISPATCHED", "PARTIALLY_RECEIVED"}
  /\ u \in UnitsOf(t) /\ transfer[t].outcome[u] = "PENDING"

-----------------------------------------------------------------------------
(* Bookings at a location, as far as they count on its stock: the core.      *)

OfferedAt(l, d) == {u \in Units : OfferedOn(u, d) /\ location[u] = l}

Reserve(l, d) ==
  /\ reserved[l] < Cardinality(OfferedAt(l, d)) /\ reserved[l] < MaxReserved
  /\ reserved' = [reserved EXCEPT ![l] = @ + 1]
  /\ UNCHANGED <<workVars, location, transfer>>

Release(l) ==
  /\ reserved[l] > 0
  /\ reserved' = [reserved EXCEPT ![l] = @ - 1]
  /\ UNCHANGED <<workVars, location, transfer>>

-----------------------------------------------------------------------------
(* create: the units are available at the origin.  Nothing is reserved yet.  *)
CreateDraft(t, us, from, to) ==
  /\ transfer[t].status = "none"
  /\ from # to /\ us # {}
  /\ \A u \in us : unit[u] = Rentable /\ location[u] = from
  /\ transfer' = [transfer EXCEPT ![t] =
       [status |-> "DRAFT", from |-> from, to |-> to, outcome |-> [u \in us |-> "PENDING"]]]
  /\ UNCHANGED <<workVars, location, reserved>>

(* reservePhysicalItemLine: each unit is still available at the origin, with  *)
(* no block from today on.                                                   *)
EligibleAt(l) == {u \in Units : location[u] = l /\ \A d \in today..MaxDay : OfferedOn(u, d)}
StillEligible(t) == UnitsOf(t) \subseteq EligibleAt(transfer[t].from)

(* Mutant: the pieces the transfer takes are counted as staying.             *)
EnoughWithTaken(t) == Cardinality(EligibleAt(transfer[t].from)) >= reserved[transfer[t].from]
(* What stays covers the peak of the reservations (getPeakReservedQuantity). *)
EnoughStays(t) ==
  Cardinality(EligibleAt(transfer[t].from)) - Cardinality(UnitsOf(t)) >= reserved[transfer[t].from]

Relocate(us, op) == [u \in Units |-> IF u \in us THEN [unit[u] EXCEPT !.op = op] ELSE unit[u]]

MarkReady(t) ==
  /\ transfer[t].status = "DRAFT"
  /\ StillEligible(t) /\ EnoughStays(t)
  /\ unit' = Relocate(UnitsOf(t), "IN_TRANSFER")
  /\ transfer' = [transfer EXCEPT ![t].status = "READY"]
  /\ UNCHANGED <<order, inspection, issue, incomplete, today, location, reserved>>

Dispatch(t) ==
  /\ transfer[t].status = "READY"
  /\ transfer' = [transfer EXCEPT ![t].status = "DISPATCHED"]
  /\ UNCHANGED <<workVars, location, reserved>>

(* May the unit be moved as the transfer wants, with no inspection?          *)
May(u, to) == TransitionAllowed(unit[u], to, FALSE, FALSE, BlockingWork(u, order, issue, incomplete))

physicalItemOutcome ==
  [RECEIVED |-> Rentable,
   DAMAGED  |-> [disp |-> "QUARANTINED", op |-> "AWAITING_INSPECTION"],
   LOST     |-> [disp |-> "LOST", op |-> "AWAITING_INSPECTION"]]

(* The status after a receipt.                                               *)
StatusReceived(outcome) ==
  IF \E u \in DOMAIN outcome : outcome[u] = "PENDING" THEN "PARTIALLY_RECEIVED"
  ELSE IF \E u \in DOMAIN outcome : outcome[u] \in {"DAMAGED", "LOST"}
  THEN "RECONCILIATION_REQUIRED" ELSE "RECEIVED"

(* receive: result gives the outcome of some of the units still outstanding. *)
Receive(t, us, result) ==
  LET outcome == [u \in UnitsOf(t) |-> IF u \in us THEN result[u] ELSE transfer[t].outcome[u]] IN
  /\ transfer[t].status \in {"DISPATCHED", "PARTIALLY_RECEIVED"}
  /\ us # {} /\ us \subseteq UnitsOf(t)
  /\ \A u \in us : transfer[t].outcome[u] = "PENDING" /\ May(u, physicalItemOutcome[result[u]])
  /\ unit' = [u \in Units |-> IF u \in us THEN physicalItemOutcome[result[u]] ELSE unit[u]]
  /\ location' = [u \in Units |->
       IF u \in us /\ result[u] # "LOST" THEN transfer[t].to ELSE location[u]]
  /\ transfer' = [transfer EXCEPT ![t].outcome = outcome, ![t].status = StatusReceived(outcome)]
  /\ UNCHANGED <<order, inspection, issue, incomplete, today, reserved>>

(* cancel: before the dispatch; what was reserved is available again.        *)
Cancel(t) ==
  LET back == IF transfer[t].status = "READY" THEN UnitsOf(t) ELSE {} IN
  /\ transfer[t].status \in {"DRAFT", "READY"}
  /\ \A u \in back : May(u, [unit[u] EXCEPT !.op = "AVAILABLE"])
  /\ unit' = Relocate(back, "AVAILABLE")
  /\ transfer' = [transfer EXCEPT ![t].status = "CANCELLED"]
  /\ UNCHANGED <<order, inspection, issue, incomplete, today, location, reserved>>

Reconcile(t) ==
  /\ transfer[t].status = "RECONCILIATION_REQUIRED"
  /\ transfer' = [transfer EXCEPT ![t].status = "RECONCILED"]
  /\ UNCHANGED <<workVars, location, reserved>>

-----------------------------------------------------------------------------
TransferStep ==
  \E t \in Transfers :
    \/ \E us \in SUBSET Units, from, to \in Locations : CreateDraft(t, us, from, to)
    \/ MarkReady(t) \/ Dispatch(t) \/ Cancel(t) \/ Reconcile(t)
    \/ \E us \in SUBSET Units : \E result \in [us -> {"RECEIVED", "DAMAGED", "LOST"}] :
         Receive(t, us, result)

Next ==
  \/ TransferStep
  \/ \E l \in Locations, d \in today..MaxDay : Reserve(l, d)
  \/ \E l \in Locations : Release(l)
  \/ WorkNext /\ UNCHANGED <<location, transfer, reserved>>

Spec == Init /\ [][Next]_vars

-----------------------------------------------------------------------------
(* Properties.                                                               *)

TypeOK ==
  /\ WorkTypeOK
  /\ location \in [Units -> Locations]
  /\ \A t \in Transfers :
       /\ transfer[t].status \in {"none", "DRAFT", "READY", "DISPATCHED", "PARTIALLY_RECEIVED",
                                  "RECEIVED", "RECONCILIATION_REQUIRED", "RECONCILED", "CANCELLED"}
       /\ {transfer[t].from, transfer[t].to} \subseteq Locations
       /\ UnitsOf(t) \subseteq Units
       /\ \A u \in UnitsOf(t) : transfer[t].outcome[u] \in {"PENDING", "RECEIVED", "DAMAGED", "LOST"}
  /\ reserved \in [Locations -> Nat]

OnHand(l) == {u \in Units : location[u] = l /\ \A t \in Transfers : ~Carries(t, u)}

Short(l) == reserved[l] > Cardinality(OnHand(l))
CarriedTwice(u) == \E s, t \in Transfers : s # t /\ Carries(s, u) /\ Carries(t, u)
Offered(u) == \E d \in today..MaxDay : OfferedOn(u, d)
OfferedInTransfer(u) == Offered(u) /\ \E t \in Transfers : Carries(t, u)

(* Transfers never take from a location the pieces its bookings count on, and *)
(* no two transfers drafted with the same unit carry it, in whatever order     *)
(* drafts, approvals, bookings, work, receipts and cancellations come: only    *)
(* work that made a unit available while its transfer had it breaks either.    *)
OnlyWorkBreaksTransfers ==
  [][/\ \A l \in Locations : ~Short(l) /\ Short(l)' =>
          \E u \in Units : location[u] = l /\ OfferedInTransfer(u)
     /\ \A u \in Units : ~CarriedTwice(u) /\ CarriedTwice(u)' => OfferedInTransfer(u)]_vars

(* Units in a transfer are not offered for rent.                              *)
TransferredIsNotOffered ==
  \A t \in Transfers, u \in Units : Carries(t, u) => ~Offered(u)

(* A dispatched transfer can be received: some outcome is accepted for each   *)
(* unit outstanding.                                                          *)
DispatchedCanBeReceived ==
  \A t \in Transfers, u \in Units :
    transfer[t].status \in {"DISPATCHED", "PARTIALLY_RECEIVED"} /\ Carries(t, u) =>
      \E result \in {"RECEIVED", "DAMAGED", "LOST"} : May(u, physicalItemOutcome[result])

=============================================================================
