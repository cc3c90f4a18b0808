--------------------------- MODULE CourierShipment ---------------------------
(***************************************************************************)
(* The outbound shipment of one confirmed booking: its dispatch to a        *)
(* courier's API, the courier's updates by webhook and by polling, staff    *)
(* setting its stage by hand, the check for pickups that never happened,    *)
(* and what a delivery does to the booking and its cash.                    *)
(*                                                                          *)
(* None of these commands is one transaction.  A step is one transaction    *)
(* or one call of the courier, and the process may die between two steps.   *)
(***************************************************************************)
EXTENDS Integers, FiniteSets

CONSTANTS
  Keys,         \* idempotency keys; a scheduled pickup makes its own
  Parcels,      \* bound: parcels ever booked with the courier
  Callers,      \* bound: dispatches in progress at once
  Handlers,     \* bound: webhooks, polls and staff's updates in progress at once
  Courier,      \* which courier carries the parcel
  Ends,         \* how a parcel's way may end: delivered, or returned to its sender
  CodAmounts,   \* what a dispatch may ask the courier to collect
  ByHand,       \* the statuses staff may set, and cancel
  MaxByHand     \* bound: how often they do

ASSUME ShipmentAssumption ==
  /\ IsFiniteSet(Parcels)
  /\ Courier \in {"pathao", "steadfast"}
  /\ Ends \subseteq {"delivered", "returned_to_sender"}
  /\ CodAmounts \subseteq Nat
  /\ MaxByHand \in Nat
  /\ ByHand \subseteq {"prepare_parcel", "pickup_pending", "in_transit",
                       "delivered", "error", "cancelled"}

VARIABLES
  booking,    \* Booking.status
  handedOut,  \* is every requirement handed out?
  ship,       \* the Shipment: status, the parcel it refers to, codAmount
  remit,      \* its CodRemittance: expectedAmount
  cash,       \* how many payments were recorded for it
  attempt,    \* key -> ShipmentDispatchAttempt.status
  parcel,     \* the courier's side: key, cash to collect, stage, end
  caller,     \* caller -> its sendPickupNow
  handler,    \* handler -> the update it works on
  receipts,   \* CourierWebhookReceipts
  events,     \* ShipmentEvents of the courier's updates
  stuck,      \* the three-day check: Shipment.pickupRequestedAt, was it selected?
  byHand      \* how often staff set the status

vars == <<booking, handedOut, ship, remit, cash, attempt, parcel, caller, handler,
          receipts, events, stuck, byHand>>
dispatch == <<attempt, caller>>
updates == <<handler, receipts, events, byHand>>
money == <<remit, cash>>

Terminal == {"delivered", "returned_to_sender", "cancelled"}
Active == {"pickup_pending", "in_transit", "unknown"}
Dispatchable == {"prepare_parcel", "error"}
Cancellable == {"prepare_parcel", "pickup_pending", "error"}
Statuses == Terminal \cup Active \cup Dispatchable

(* PROVIDER_PROGRESS_RANK, of the statuses that have one.                   *)
Rank == [prepare_parcel |-> 0, pickup_pending |-> 10, in_transit |-> 50,
         returned_to_sender |-> 90, delivered |-> 100, cancelled |-> 100]
Regresses(from, to) ==
  \/ from \in Terminal /\ to # from
  \/ {from, to} \subseteq DOMAIN Rank /\ Rank[to] < Rank[from]

NoParcel == [key |-> {}, cod |-> 0, stage |-> 0, end |-> "delivered"]
NoCall == [at |-> "idle", key |-> {}, cod |-> 0, parcel |-> {}]
NoUpdate == [at |-> "idle", source |-> "staff", status |-> "error", stage |-> 0,
             next |-> "error", parcel |-> {}, booking |-> "confirmed"]

Init ==
  /\ booking = "confirmed" /\ handedOut = FALSE
  /\ ship = [status |-> "none", ref |-> {}, cod |-> 0]
  /\ remit = 0 /\ cash = 0
  /\ attempt = [k \in Keys |-> "none"]
  /\ parcel = [p \in Parcels |-> NoParcel]
  /\ caller = [c \in Callers |-> NoCall]
  /\ handler = [h \in Handlers |-> NoUpdate]
  /\ receipts = {} /\ events = {}
  /\ stuck = [requested |-> "never", selected |-> FALSE]
  /\ byHand = 0

-----------------------------------------------------------------------------
(* sendPickupNow.                                                           *)

(* createPreparedShipment, when the booking is ready or first dispatched.   *)
PrepareShipment ==
  /\ ship.status = "none"
  /\ ship' = [ship EXCEPT !.status = "prepare_parcel"]
  /\ UNCHANGED <<booking, handedOut, money, dispatch, parcel, updates, stuck>>

(* Mutant: an attempt still in progress does not hold up another.           *)
NotAnswered(k) == attempt[k] \in {"none", "STARTED"}
(* The attempt's unique index on the key.                                   *)
Unused(k) == attempt[k] = "none"

DispatchCheck(c, k, amount) ==
  /\ caller[c].at = "idle"
  /\ booking = "confirmed"
  /\ Unused(k)
  /\ ship.ref = {} /\ ship.status \in Dispatchable
  /\ caller' = [caller EXCEPT ![c] = [at |-> "start", key |-> {k}, cod |-> amount, parcel |-> {}]]
  /\ UNCHANGED <<booking, handedOut, ship, money, attempt, parcel, updates, stuck>>

(* The attempt is recorded, or another call with the key came first.        *)
DispatchStart(c) ==
  LET k == CHOOSE k \in Keys : caller[c].key = {k} IN
  /\ caller[c].at = "start"
  /\ IF Unused(k)
     THEN /\ attempt' = [attempt EXCEPT ![k] = "STARTED"]
          /\ caller' = [caller EXCEPT ![c].at = "submit"]
     ELSE /\ caller' = [caller EXCEPT ![c] = NoCall]
          /\ UNCHANGED attempt
  /\ UNCHANGED <<booking, handedOut, ship, money, parcel, updates, stuck>>

DispatchSubmit(c) ==
  /\ caller[c].at = "submit"
  /\ ship' = [ship EXCEPT !.status = "pickup_pending", !.cod = caller[c].cod]
  /\ stuck' = [stuck EXCEPT !.requested = "lately"]
  /\ caller' = [caller EXCEPT ![c].at = "call"]
  /\ UNCHANGED <<booking, handedOut, money, attempt, parcel, updates>>

(* The courier books a parcel.  It may end delivered or back at the sender. *)
CourierBooks(c, p, end) ==
  /\ caller[c].at = "call" /\ caller[c].parcel = {}
  /\ parcel[p].key = {}
  /\ parcel' = [parcel EXCEPT ![p] = [key |-> caller[c].key, cod |-> caller[c].cod,
                                      stage |-> 0, end |-> end]]
  /\ caller' = [caller EXCEPT ![c].parcel = {p}]
  /\ UNCHANGED <<booking, handedOut, ship, money, attempt, updates, stuck>>

(* Mutant: the remittance is written when the cash is collected.            *)
UnchangedExpected(amount) == remit
(* What is expected once a dispatch that collects amount has succeeded.     *)
ExpectedAfter(amount) == IF amount > 0 THEN amount ELSE remit

(* The answer is recorded with the attempt and the remittance.              *)
DispatchSucceed(c) ==
  /\ caller[c].at = "call" /\ caller[c].parcel # {}
  /\ ship' = [ship EXCEPT !.ref = caller[c].parcel]
  /\ attempt' = [k \in Keys |-> IF k \in caller[c].key THEN "SUCCEEDED" ELSE attempt[k]]
  /\ remit' = ExpectedAfter(caller[c].cod)
  /\ caller' = [caller EXCEPT ![c] = NoCall]
  /\ UNCHANGED <<booking, handedOut, cash, parcel, updates, stuck>>

(* The call failed - before the parcel was booked, or its answer was lost.  *)
DispatchFail(c) ==
  /\ caller[c].at = "call"
  /\ attempt' = [k \in Keys |-> IF k \in caller[c].key THEN "FAILED" ELSE attempt[k]]
  /\ caller' = [caller EXCEPT ![c].at = "failed"]
  /\ UNCHANGED <<booking, handedOut, ship, money, parcel, updates, stuck>>

DispatchError(c) ==
  /\ caller[c].at = "failed"
  /\ ship' = [ship EXCEPT !.status = "error"]
  /\ caller' = [caller EXCEPT ![c] = NoCall]
  /\ UNCHANGED <<booking, handedOut, money, attempt, parcel, updates, stuck>>

DispatchDies(c) ==
  /\ caller[c].at # "idle"
  /\ caller' = [caller EXCEPT ![c] = NoCall]
  /\ UNCHANGED <<booking, handedOut, ship, money, attempt, parcel, updates, stuck>>

-----------------------------------------------------------------------------
(* The courier.  A booked parcel is picked up and ends; one not yet picked   *)
(* up can be called off in the courier's portal.                            *)

Ended == 2
CalledOff == 3
StatusAt(p, stage) ==
  IF stage = Ended THEN parcel[p].end ELSE IF stage = 0 THEN "pickup_pending" ELSE "in_transit"

CourierMoves(p) ==
  /\ parcel[p].key # {} /\ parcel[p].stage < Ended
  /\ parcel' = [parcel EXCEPT ![p].stage = @ + 1]
  /\ UNCHANGED <<booking, handedOut, ship, money, dispatch, updates, stuck>>

CallOff(p) ==
  /\ parcel[p].key # {} /\ parcel[p].stage = 0
  /\ parcel' = [parcel EXCEPT ![p].stage = CalledOff]
  /\ UNCHANGED <<booking, handedOut, ship, money, dispatch, updates, stuck>>

-----------------------------------------------------------------------------
(* The courier's updates: processWebhook, pollAllCourierStatuses.           *)

(* A webhook about any stage passed may arrive, late or again; its receipt  *)
(* is written before it is processed and a second one is dropped.           *)
WebhookArrives(h, p, stage) ==
  /\ handler[h].at = "idle"
  /\ p \in ship.ref
  /\ stage <= parcel[p].stage /\ parcel[p].stage # CalledOff
  /\ <<p, stage>> \notin receipts
  /\ receipts' = receipts \cup {<<p, stage>>}
  /\ handler' = [handler EXCEPT ![h] =
       [NoUpdate EXCEPT !.at = "read", !.source = "webhook", !.status = StatusAt(p, stage),
                        !.stage = stage, !.parcel = {p}, !.booking = booking]]
  /\ UNCHANGED <<booking, handedOut, ship, money, dispatch, parcel, events, stuck, byHand>>

PollSelects(h) ==
  /\ handler[h].at = "idle"
  /\ ship.ref # {} /\ ship.status \in Active
  /\ handler' = [handler EXCEPT ![h] =
       [NoUpdate EXCEPT !.at = "ask", !.source = "poll", !.next = ship.status,
                        !.parcel = ship.ref, !.booking = booking]]
  /\ UNCHANGED <<booking, handedOut, ship, money, dispatch, parcel, receipts, events, stuck, byHand>>

(* A poll tells stages apart less finely than a webhook does; what it is    *)
(* told by Steadfast's tracking of a return is not understood.              *)
Understood(end) == Courier = "pathao" \/ end = "delivered"
PolledStatus(p) ==
  CASE parcel[p].stage = CalledOff -> "unknown"
    [] parcel[p].stage < Ended -> "in_transit"
    [] OTHER -> IF Understood(parcel[p].end) THEN parcel[p].end ELSE "unknown"

PollAnswered(h) ==
  \E p \in handler[h].parcel :
    /\ handler[h].at = "ask"
    /\ handler' = [handler EXCEPT ![h] =
         IF PolledStatus(p) = @.next THEN NoUpdate
         ELSE [@ EXCEPT !.at = "read", !.status = PolledStatus(p), !.stage = parcel[p].stage]]
    /\ UNCHANGED <<booking, handedOut, ship, money, dispatch, parcel, receipts, events, stuck, byHand>>

(* applyProviderStatus: is the update old, by the courier's clock or by the *)
(* status of the shipment now?  What is written is decided here.            *)
Ignored(h) ==
  \/ \E e \in events : e.stage > handler[h].stage
  \/ Regresses(ship.status, handler[h].status)

ReadCurrent(h) ==
  /\ handler[h].at = "read"
  /\ handler' = [handler EXCEPT ![h] =
       IF Ignored(h) THEN [@ EXCEPT !.at = "ignore", !.next = ship.status]
       ELSE [@ EXCEPT !.at = "write", !.next = handler[h].status]]
  /\ UNCHANGED <<booking, handedOut, ship, money, dispatch, parcel, receipts, events, stuck, byHand>>

(* Mutant: an event is known by its source and its parcel only.             *)
EventOfParcel(h) == [source |-> handler[h].source, status |-> "unknown",
                     stage |-> 0, parcel |-> handler[h].parcel]
(* transitionShipment: an event recorded before changes nothing.            *)
Event(h) == [source |-> handler[h].source, status |-> handler[h].status,
             stage |-> handler[h].stage, parcel |-> handler[h].parcel]

WriteStatus(h) ==
  /\ handler[h].at \in {"write", "ignore"}
  /\ IF handler[h].source # "staff" /\ Event(h) \in events
     THEN UNCHANGED <<ship, events>>
     ELSE /\ ship' = [ship EXCEPT !.status = handler[h].next]
          /\ events' = events \cup {Event(h)}
  /\ handler' = [handler EXCEPT ![h] =
       IF @.at = "write" /\ @.status = "delivered"
       THEN [NoUpdate EXCEPT !.at = "deliver", !.booking = handler[h].booking]
       ELSE NoUpdate]
  /\ UNCHANGED <<booking, handedOut, money, dispatch, parcel, receipts, stuck, byHand>>

(* A delivery's first consequence, when the booking was confirmed as the    *)
(* update arrived: updateStatus.  It refuses a booking no longer confirmed  *)
(* or not all handed out; the update then ends here.                        *)
DeliverBooking(h) ==
  /\ handler[h].at = "deliver"
  /\ IF handler[h].booking # "confirmed"
     THEN /\ handler' = [handler EXCEPT ![h].at = "cash"]
          /\ UNCHANGED booking
     ELSE IF booking = "confirmed" /\ handedOut
     THEN /\ handler' = [handler EXCEPT ![h].at = "cash"]
          /\ booking' = "delivered"
     ELSE /\ handler' = [handler EXCEPT ![h] = NoUpdate]
          /\ UNCHANGED booking
  /\ UNCHANGED <<handedOut, ship, money, dispatch, parcel, receipts, events, stuck, byHand>>

(* Mutant: whether a payment was recorded is not looked at.                 *)
Expected == remit > 0
(* Is there cash expected that was not recorded yet?                        *)
Outstanding == remit > 0 /\ cash = 0

(* Its second one: ensureCodPayment.                                        *)
RecordCash(h) ==
  /\ handler[h].at = "cash"
  /\ cash' = IF Outstanding THEN cash + 1 ELSE cash
  /\ handler' = [handler EXCEPT ![h] = NoUpdate]
  /\ UNCHANGED <<booking, handedOut, ship, remit, dispatch, parcel, receipts, events, stuck, byHand>>

(* The courier does not answer, or the process dies.                        *)
UpdateDies(h) ==
  /\ handler[h].at # "idle"
  /\ handler' = [handler EXCEPT ![h] = NoUpdate]
  /\ UNCHANGED <<booking, handedOut, ship, money, dispatch, parcel, receipts, events, stuck, byHand>>

-----------------------------------------------------------------------------
(* Staff, and the three-day check.                                          *)

(* updateDeliveryStage sets any stage; cancelShipment cancels before the    *)
(* pickup, a parcel booked being called off first.                          *)
StaffSets(h, status) ==
  /\ handler[h].at = "idle" /\ byHand < MaxByHand
  /\ ship.status # "none"
  /\ status = "cancelled" =>
       /\ ship.status \in Cancellable
       /\ \A p \in ship.ref : parcel[p].stage = CalledOff
  /\ byHand' = byHand + 1
  /\ handler' = [handler EXCEPT ![h] =
       [NoUpdate EXCEPT !.at = "write", !.status = status, !.next = status, !.booking = booking]]
  /\ UNCHANGED <<booking, handedOut, ship, money, dispatch, parcel, receipts, events, stuck>>

(* The exact items are handed out; staff may deliver the booking themselves. *)
HandOut ==
  /\ ~handedOut
  /\ handedOut' = TRUE
  /\ UNCHANGED <<booking, ship, money, dispatch, parcel, updates, stuck>>

StaffDeliver ==
  /\ booking = "confirmed" /\ handedOut
  /\ booking' = "delivered"
  /\ UNCHANGED <<handedOut, ship, money, dispatch, parcel, updates, stuck>>

ThreeDaysPass ==
  /\ stuck.requested = "lately"
  /\ stuck' = [stuck EXCEPT !.requested = "longAgo"]
  /\ UNCHANGED <<booking, handedOut, ship, money, dispatch, parcel, updates>>

(* Mutant: only shipments with a parcel are checked.                        *)
SelectedWithParcel ==
  ship.status = "pickup_pending" /\ stuck.requested = "longAgo" /\ ship.ref # {}
(* checkStuckPickups selects what waits too long, then marks what it        *)
(* selected.  A pickup that staff only set by hand was never requested.     *)
WaitsTooLong == ship.status = "pickup_pending" /\ stuck.requested = "longAgo"

StuckSelect ==
  /\ WaitsTooLong /\ ~stuck.selected
  /\ stuck' = [stuck EXCEPT !.selected = TRUE]
  /\ UNCHANGED <<booking, handedOut, ship, money, dispatch, parcel, updates>>

StuckMark ==
  /\ stuck.selected
  /\ stuck' = [stuck EXCEPT !.selected = FALSE]
  /\ ship' = [ship EXCEPT !.status = "error"]
  /\ UNCHANGED <<booking, handedOut, money, dispatch, parcel, updates>>

-----------------------------------------------------------------------------
HandlerStep(h) ==
  \/ PollSelects(h) \/ PollAnswered(h) \/ ReadCurrent(h) \/ WriteStatus(h)
  \/ DeliverBooking(h) \/ RecordCash(h) \/ UpdateDies(h)
  \/ \E p \in Parcels, stage \in 0..Ended : WebhookArrives(h, p, stage)
  \/ \E status \in ByHand : StaffSets(h, status)

DispatchStep(c) ==
  \/ \E k \in Keys, amount \in CodAmounts : DispatchCheck(c, k, amount)
  \/ DispatchStart(c) \/ DispatchSubmit(c)
  \/ \E p \in Parcels, end \in Ends : CourierBooks(c, p, end)
  \/ DispatchSucceed(c) \/ DispatchFail(c) \/ DispatchError(c) \/ DispatchDies(c)

Next ==
  \/ PrepareShipment
  \/ \E c \in Callers : DispatchStep(c)
  \/ \E h \in Handlers : HandlerStep(h)
  \/ \E p \in Parcels : CourierMoves(p) \/ CallOff(p)
  \/ HandOut \/ StaffDeliver
  \/ ThreeDaysPass \/ StuckSelect \/ StuckMark

Spec == Init /\ [][Next]_vars

(* The poll and the three-day check are repeated jobs, and the courier does *)
(* not fail to answer for ever, nor does every poll die.  It does not       *)
(* matter which of the polls goes on.  An update that has written the       *)
(* status goes on to the booking and the cash, or dies.                     *)
FairSpec ==
  /\ Spec
  /\ WF_vars(ThreeDaysPass) /\ WF_vars(StuckSelect) /\ WF_vars(StuckMark)
  /\ SF_vars(\E h \in Handlers : PollSelects(h))
  /\ SF_vars(\E h \in Handlers : PollAnswered(h))
  /\ SF_vars(\E h \in Handlers : ReadCurrent(h))
  /\ SF_vars(\E h \in Handlers : WriteStatus(h))
  /\ WF_vars(\E h \in Handlers : DeliverBooking(h) \/ RecordCash(h))

-----------------------------------------------------------------------------
(* Properties.                                                              *)

(* The shape of the state.                                                  *)
ShipRows == [status : Statuses \cup {"none"}, ref : SUBSET Parcels, cod : CodAmounts \cup {0}]
ParcelRows == [key : SUBSET Keys, cod : CodAmounts \cup {0}, stage : 0..CalledOff,
               end : {"delivered", "returned_to_sender"}]
CallerStates == [at : {"idle", "start", "submit", "call", "failed"}, key : SUBSET Keys,
                 cod : CodAmounts \cup {0}, parcel : SUBSET Parcels]
HandlerStates == [at : {"idle", "ask", "read", "write", "ignore", "deliver", "cash"},
                  source : {"webhook", "poll", "staff"}, status : Statuses,
                  stage : 0..CalledOff, next : Statuses, parcel : SUBSET Parcels,
                  booking : {"confirmed", "delivered"}]
PickupStates == [requested : {"never", "lately", "longAgo"}, selected : BOOLEAN]

TypeOK ==
  /\ booking \in {"confirmed", "delivered"} /\ handedOut \in BOOLEAN
  /\ ship \in ShipRows
  /\ remit \in CodAmounts \cup {0} /\ cash \in Nat
  /\ attempt \in [Keys -> {"none", "STARTED", "SUCCEEDED", "FAILED"}]
  /\ parcel \in [Parcels -> ParcelRows]
  /\ caller \in [Callers -> CallerStates]
  /\ handler \in [Handlers -> HandlerStates]
  /\ receipts \subseteq Parcels \X (0..Ended)
  /\ stuck \in PickupStates
  /\ byHand \in 0..MaxByHand

(* A delivery's cash is recorded at most once, whichever webhooks, polls    *)
(* and staff report the delivery, at once or again.                         *)
CashRecordedOnce == cash <= 1

(* A dispatch that a repeated call is told succeeded left the shipment with *)
(* a parcel, and with the remittance of the cash its courier collects: no   *)
(* crash comes between them.                                                *)
SucceededIsTracked ==
  \A k \in Keys : attempt[k] = "SUCCEEDED" =>
    /\ ship.ref # {}
    /\ \A p \in Parcels : parcel[p].key = {k} /\ parcel[p].cod > 0 => remit > 0

(* What an idempotency key promises (OnceOnly): at most one parcel per key. *)
Effects == [k \in Keys |-> Cardinality({p \in Parcels : parcel[p].key = {k}})]
Once == INSTANCE OnceOnly WITH outcome <- attempt, effects <- Effects
DispatchOncePerKey == Once!Spec

(* A dispatch that died waiting for its courier does not block the shipment *)
(* for ever: the three-day check makes it dispatchable again.               *)
DispatchRecovers ==
  (ship.status = "pickup_pending" /\ ship.ref = {} /\ stuck.requested # "never")
    ~> (ship.status # "pickup_pending" \/ ship.ref # {})

Moving(p) == ship.ref = {p} /\ parcel[p].stage = Ended /\ ship.status \in Active

(* A parcel whose webhooks are all lost is followed by polling: once it has *)
(* ended, and the courier's tracking tells, the shipment stops saying that  *)
(* it is moving or has the end in its history, whatever else is written,    *)
(* dropped as seen, or dies meanwhile.                                      *)
EndIsRecorded ==
  \A p \in Parcels :
    (Moving(p) /\ Understood(parcel[p].end))
      ~> (~Moving(p) \/ \E e \in events : e.parcel = {p} /\ e.stage = Ended)

(* An update of the courier never moves a shipment back.                    *)
NoRegression ==
  [][\A h \in Handlers :
       handler[h].source # "staff" /\ WriteStatus(h) => ~Regresses(ship.status, ship'.status)]_vars

(* A cancelled shipment has no parcel on its way.                           *)
CancelledIsNotCarried ==
  ship.status = "cancelled" => \A p \in ship.ref : parcel[p].stage = CalledOff

(* Once a parcel has ended, its shipment does not say for ever that it is   *)
(* moving.                                                                  *)
EndIsNoticed == \A p \in Parcels : Moving(p) ~> ~Moving(p)

(* Each shipment has at most one parcel.                                    *)
OneParcel == Cardinality({p \in Parcels : parcel[p].key # {}}) <= 1

(* With nothing in progress, a delivered shipment's cash is recorded.       *)
DeliveredIsPaid ==
  (\A h \in Handlers : handler[h].at = "idle") /\ ship.status = "delivered" /\ remit > 0
    => cash > 0

=============================================================================
