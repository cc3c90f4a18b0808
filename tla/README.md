# Verification of the rental platform's core

TLA+ models, TLC runs and TLAPS proofs for the backend of the rental management
platform (`src/apps/backend`, NestJS, Prisma and PostgreSQL). Paths below are
relative to `src/apps/backend/src/modules/` unless they start with `src/`.

The system rents physical items to customers. A booking reserves a quantity of a
SKU for a range of days. Staff assign exact stock units to it, pack them, hand
them out, take them back, inspect them, settle the deposit and complete the
booking. The hard part is that everything about a unit's availability is spread
over five kinds of rows (booking, reservation, requirement, assignment, unit),
each written by several commands, a ten-minute cron job, a courier's webhook and a
payment gateway's notifications. Around that core stand the ways into it and out of
it: the checkout that makes a booking, the courier that carries it, the text messages
that tell of it, and the work and the transfers that take units out of rental.

## Inventory

### State, by component

| Component | State | Operations that change it |
|---|---|---|
| Booking lifecycle (`booking/booking.service.ts`) | `Booking.status`, dates, totals | `createBooking`, `updateStatus`, `cancelBooking`, `calculateLateFees`, `reportDamage`, `addNote` |
| Fulfillment requirements (`inventory/fulfillment.service.ts`) | `FulfillmentRequirement`: status, preparation, counters assigned / handed out / returned / lost | `createRequirements`, `assertAndTransitionBooking`, `extendBookingRequirements`, `substitute`, `recordEvent`, `prepareRequirement` |
| Reservations (`inventory/inventory-reservation.service.ts`) | `InventoryReservation`: status, SKU, blocked days, expiry | `create`, `transitionForBooking`, `expirePending` |
| Exact assignment (`inventory/inventory-assignment.service.ts`) | `StockUnitAssignment`: unit, effective days, `releasedAt` | `assign`, `release` |
| Availability (`inventory/inventory-availability.service.ts`) | none: reads reservations, units, issues, inspections | `check`, used by review, extension, substitution and checkout |
| Stock-unit lifecycle (`inventory/stock-unit-lifecycle.service.ts`) | `StockUnit.disposition`, `operationalState` | `transitionInTransaction`, called by every component that touches a unit |
| Inspection (`inventory/stock-unit-inspection.service.ts`) | inspections, issues | `create`, `complete`, `resolveIssue` |
| Booking review (`operations/booking-review.service.ts`) | booking, reservations, requirements | `approveAndReserve`, `rejectRequest`, `renewHold` |
| Hold sweep (`booking/inventory-hold-scheduler.service.ts`) | the same | `expirePendingInventoryHolds`, every ten minutes, tenant by tenant |
| Payments and deposits (`payment/payment.service.ts`) | `Payment` rows, `Booking.totalPaid`, `paymentStatus`, `BookingItem.depositStatus`, `DepositSettlement` | `recordPayment`, `reviewPaymentClaim`, `initiateSslcommerz`, `handleSslcommerzIpn`, `settleDeposit` |
| Courier shipments (`fulfillment/fulfillment.service.ts`) | `Shipment`, dispatch attempts, webhook receipts, `CodRemittance` | dispatch, webhook, polling, `ensureCodPayment` |
| Packing, custody, versions, stages (`operations/`) | packing groups, custody ledger, booking versions | packing, custody transitions, projection of stages |
| Storefront checkout (`booking/storefront-cart.service.ts`, `src/apps/frontend/src/app/(guest)/checkout/page.tsx`) | carts, the browser's cookie, `CheckoutQuote`, the page's key and what it shows | `findActive`, `replace`, `requireMatching`, `validateCart`, `createManualQuote`, `createBooking` |
| Service orders (`inventory/inventory-service-order.service.ts`) | `InventoryServiceOrder`, `AvailabilityBlock`, unit states | create, start, complete, cancel |
| Transfers (`inventory/inventory-transfer.service.ts`) | `InventoryTransfer`, its lines and outcomes, unit states and locations | create, mark ready, dispatch, receive, cancel, reconcile |
| Counts (`inventory/`) | count sessions | create, scan, reconcile |
| Text messages (`notification/`, `jobs/`) | `NotificationDelivery`, the BullMQ job, `FailedJob` | `queueSms`, `createSmsDelivery`, the worker's `processNotificationJob`, `recoverSmsDeliveries` |
| Jobs (`jobs/`) | queues | overdue check, reminders, subscription check, retries |
| Sessions (`auth/`) | sessions, refresh tokens | login, refresh, logout, revoke |
| Tenants, subscriptions, metering | plan, usage | limits |
| Pricing (`pricing-engine/`) | none | price, late fee, discount |
| Customers, staff, catalogue, uploads, analytics, administration | their own rows | create, read, update, delete |
| Web frontend (`src/apps/frontend`) | none of the system's | calls the API |

### How they interact

A command is one HTTP request and, with few exceptions, one database transaction.
Components call each other inside that transaction: `updateStatus` calls
`assertAndTransitionBooking`, which calls `transitionForBooking`; `recordEvent`
calls `transitionInTransaction`. So the unit of interleaving is the transaction -
except where

- a decision is read before the transaction opens (`cancelBooking`);
- a transaction runs at READ COMMITTED and its statements see each other's
  commits (the sweep, `cancelBooking`);
- an external service is called between the read and the write
  (`initiateSslcommerz`, `handleSslcommerzIpn`, the dispatch of a shipment, polling);
- work is split over several transactions (delivery and the recording of its cash;
  `createBooking`'s replay check, plan limit and insert; a cart read and written; the
  overdue job);
- the state is in two places at once (a text message's row in the database, its job
  in Redis, the message itself with a gateway).

Those five are where the models have more than one step per command, and where a
process may die, an answer be lost or a request be made again between two steps.

### What is hard, and what must hold

- A unit must not be promised to two bookings on one day, nor be with two customers.
- Demand that counts against a SKU must not exceed its units, across holds that
  lapse, are renewed, or are swept.
- The parts of a booking (reservation, requirement, assignments, counters, units)
  must close together, whichever of approval, rejection, cancellation, sweep,
  return, loss and completion closes it - and never over a unit a customer has.
- A request nobody decides must end.
- `totalPaid`, `paymentStatus` and `depositStatus` are projections of the payment
  ledger and must agree with it, over two writers that call a gateway in between.
- A booking completes only when all is paid and every deposit settled.
- A basket becomes one booking, with what was quoted, however often the page or the form
  sends it; and what is booked is in stock.
- A shipment is handed to the courier once per command, recovers when the command dies,
  records its parcel's end although webhooks are lost, and its cash is recorded once.
- A text message asked for is sent or visibly given up, and not sent without end.
- A unit is not offered for the days that work on it was planned for, nor from then on while
  an inspection of that work is owed; when the work is over, it is again.
- A transfer takes no unit a location's bookings count on, and no two transfers carry one unit.

`PROJECT.json` lists each hazard at its line with the properties about it. Those that
found no place in that list, or no property: a process that dies between creating a
pending online payment and the gateway's answer leaves a session that blocks the next
one for its time-out (`payment/payment.service.ts:470`); the two statements that look
for and create an online session (`:424`, `OneSessionPending` below); statistics and
events that follow the commit of a status change and are lost when the process stops
there (`booking/booking.service.ts:2934`).

## Modules

| Module | Models |
|---|---|
| `StockUnitLifecycle` | the unit state machine as operators: both transition tables, their guards, what an inspection decision does to a unit |
| `BookingFulfillment` | the core: bookings, holds, reservations, requirements, assignments, hand-out, return, loss, inspection, completion and the hold sweep; one action per transaction |
| `RentalContract` | the abstract specification of the core: promises, hand-over, take-back, closing |
| `StatementRaces` | the sweep and the cancellation, statement by statement, with row locks and deadlocks, against review commands and hand-outs |
| `AtomicHolds` | the abstract specification of those commands: each one step, which decides whole bookings |
| `PaymentLedger` | one booking's payments, projections, charges, deposits, cash on delivery and online sessions |
| `OpenBooks` | the abstract specification of the ledger: enter, charge, return, close |
| `Checkout` | carts, quotes, the page and the form that submit, and `createBooking` in three steps |
| `CourierShipment` | one outbound shipment: dispatch, webhooks, polling, staff, the three-day check, cash |
| `OnceOnly` | the abstract specification of a command with an idempotency key and an external effect |
| `SmsOutbox` | one text message: its row, its job, its worker and the sweep |
| `UnitWork` | service orders, inspections, issues and the blocks they hold, on `StockUnitLifecycle` |
| `StockTransfers` | transfers between locations, composed with `UnitWork` (which it extends) and with reservations |
| `MC...` | the instances TLC checks: symmetry sets and values of constants |
| `...Proofs` | the theorems about the module they are named after; `UnitWorkProofs` has those of `StockTransfers` too, `BookingFulfillmentProofs` the refinement of `RentalContract`, and those of `StatementRaces`, `PaymentLedger` and `CourierShipment` the refinements of `AtomicHolds`, `OpenBooks` and `OnceOnly` |
| `SumTheorems` | facts about sums of functions over finite sets, for the proofs about quantities, pieces and amounts |

`BookingFulfillment`, `UnitWork` and `StockTransfers` share the lifecycle operators;
Four refinements are stated with `INSTANCE`, three of them `WITH` a mapping: `BookingFulfillment`
implements `RentalContract`, `StatementRaces` `AtomicHolds`, `PaymentLedger` `OpenBooks` and
`CourierShipment` `OnceOnly`. `BookingFulfillment` takes the sweep and the transaction of a
cancellation as one step each; that nothing is left out by that, as far as bookings and
reservations go, is what `StatementRaces` and `AtomicHolds` are for. `CourierShipment` and `PaymentLedger` meet at the cash of a
delivery: the first says that it is recorded at most once, the second what one recording
does to the ledger. `Checkout` ends where `BookingFulfillment` begins, with a booking
and its hold.

### BookingFulfillment

State: `status` is `Booking.status`; `resv[r]` and `req[r]` are a requirement's
reservation and the requirement itself (they are created together, one to one);
`asg` the unreleased assignments with their effective days; `out[r]` the units
of `r` that are with the customer (the ones for which a hand-out and no return or loss
event exists); `unit` the units' two states; `drafts` and `unchecked` the open
and the missing return inspections; `lossIssues` the open loss reports; `revenue`
the attributed revenue rows; `lapsed[b]` whether the booking's holds are past their
expiry; `cancelling` the cancellations that have passed their check and not begun
their transaction.

Abstractions, each of which only adds behaviours unless it says otherwise:

- one transaction is one step; `StatementRaces` studies the exceptions;
- the default availability policy (only `AVAILABLE` units count, no shortage
  allowed, no turnaround buffer) at one location;
- the days of a booking are days `1..MaxDay`; an effective range is the rental's;
- preparation `NOT_STARTED` and `IN_PROGRESS` are one value, `"OPEN"`;
- guards about custody, condition grades, pre-rental inspections, service orders
  and other inventory blocks are dropped: a step the code refuses for one of
  these is allowed here;
- the money guards of completion are dropped here; `PaymentLedger` has them;
- "today", which the retirement guard compares with future assignments, is any day;
- a booking's holds share one expiry, so they lapse together (all are created and
  renewed by one statement);
- an open return inspection makes its unit ineligible on every day (the code blocks an
  open-ended range from now on);
- at most one cancellation of a booking is in flight;
- `updateStatus` is never called with `confirmed` or `cancelled` by any controller, so
  the model does not call it so.

### StatementRaces

`expirePending` is four statements (read the lapsed holds, expire them, cancel
their requirements, close the emptied bookings) and a commit; a cancellation is the
check outside, the update of the booking row, the read of the requirements, their update,
the reservations' update, and a commit. Locks are those PostgreSQL takes for the
statements and are held to the commit; a statement takes all its locks at once. When
sweep and cancellation wait for each other the database aborts one of them. A review
command locks the rows it needs in one step. Preparation is left out and units are
assigned from the start. `AtomicHolds` has the committed status of bookings and reservations
and no statements: a pending booking is confirmed or expires whole, a pending or
confirmed one is given up whole.

### PaymentLedger

One booking from its confirmation; `createBooking` may have made its first payment row, a
customer's claim of the whole or a verified payment the staff who created it recorded. `pay` is its payment rows, `session` what the
gateway knows of an online payment, `handling` the notifications being processed
between their first read and their write, `starting` the session starts in progress,
`cod` the outbound shipment's remittance. Commands that lock the booking row
(or, for the settlement, run serializable) are one step; the two that call the gateway
are not. Abstractions: transaction-identifier uniqueness and idempotent replays change
nothing and are dropped; a notification's amount is its session's; evidence for
deductions is dropped; at most one cash-collecting shipment; a fee, extension or damage
charge is 0 or 1, a substitution's price impact 1 or -1, whatever the item's own total is. `RetryInSession` says whether the gateway lets a customer try again in
a session after a failed attempt, with the failure's notification arriving late.
`OpenBooks` knows no claims, sessions, notifications, couriers or statuses. Its entries
are the verified payments, its total is the stored `totalPaid` - which the code computes
anew from the payments each time and the books only add to - and its open deposit is what was
paid for deposits less those settled.

### Checkout

`cookie` is the cart the browser's cookie names; `carts`, `quotes` and `bookings` are
the rows; `client[c]` is a checkout page or an owner's draft, where it stands
(`form`, `sync`, `write`, `quote`, `submit`, `waiting`, `done`), its key (the page or
draft and how often it was reloaded), what it shows and what it waits for; `request[r]` is
a call of `createBooking` on the server, which goes on when nobody waits for it.
`replace` is two steps, a read and a write into the cart it read; `createBooking` is
three: `CheckKey` (the replay check), `CheckLimit` (`enforcePlanLimit`) and `Book` (the
serializable transaction with its unique index).

What the code does on a retry is less than the key suggests. The page makes a new
quote for every submission under the same key, so a retry whose first request
succeeded is refused with `IDEMPOTENCY_KEY_REUSED` rather than replayed, and two
submissions at once fail at the cart the first one checked out; only the form, which keeps its
quote, is replayed.

Abstractions: a basket is a number of pieces of one SKU and a price the version of the
price list it was computed with; a quote's ten minutes, a booking number another one
took and an aborted transaction are all `BookRefused`; a booking once made keeps its
pieces (what later happens to it is the core's); claims and first payments are
`PaymentLedger`'s.

### CourierShipment and OnceOnly

`ship`, `remit` and `cash` are the shipment, its remittance and the payments recorded
for it; `attempt[k]` the dispatch attempt under an idempotency key; `parcel` what the
courier has; `caller` and `handler` the commands in progress, each at the step it
has reached; `receipts` and `events` the webhook receipts and shipment events by
which repeated updates are recognised. A step is one transaction or one call of the
courier. A caller may die after any step, the courier may book the parcel and its
answer be lost, and a webhook may be lost, late, doubled or out of order.

`Courier` says whose words are translated: a poll of Pathao understands both ends of a parcel, one of Steadfast a
delivery only (`fulfillment/providers/steadfast.adapter.ts:52`). `stuck` has the time of the last
pickup request and what the three-day check selected: it selects by that time, which a stage set by hand does not
write (`fulfillment/fulfillment.service.ts:216`, `:540`).

Abstractions: the courier's statuses between the request of a pickup and the parcel's
end are `pickup_pending`, `in_transit` and `unknown`; a parcel delivered in part, which both adapters
report as delivered, is a delivered one; the hand-out of the items with the
parcel is one flag; return shipments and the reconciliation of remittances are left out.
`OnceOnly` has two variables, what a repeated call is told and how often the effect
took place; `Parcels` with the key `k` are the effects under `k`.

### SmsOutbox

`row` is the `NotificationDelivery` (status, attempts, whether it is due), `job` the BullMQ
job, `worker` where its worker is, `queueing` a call of `onSmsDeliveryQueued` on its way,
`deadLetters` the `FailedJob` rows. The three constants are the code's: five attempts
of a delivery, three of a job; one restart of a stalled job is BullMQ's default and
external. The worker may die after any step, a statement of its may fail, without effect, and the gateway may send
the message and its answer be lost. When the statement that records a failure fails in a job's last try
(`jobs/jobs.service.ts:185`), the row stays `processing` with no job and no worker, and the sweep passes it over:
`RequestsAreSettled` excepts that state (`Unrecorded`).

### UnitWork and StockTransfers

`unit`, `order`, `inspection` and `issue` are the rows. An availability block is kept with
what holds it: with an order the set of the days it blocks, with an inspection, which blocks
from its day on without end, only whether it has one. Days are `1..MaxDay`, and `today` goes through them; the last
day stands for every later one, so a block up to it has no end. `plan` are the days an order
was created to block, `block` those it blocks now. Work that is scheduled blocks from its first day, other work
from the day of its request (`inventory/inventory-service-order.service.ts:197`); completing it moves the
block's last day and never its first (`:354`); and a rental asks for each of its days (`OfferedOn`). `owes` says
that a completed order asked for an inspection. Every action is a
whole serializable transaction, refused when any part is: an inspection that asks for
repair makes its issue, its follow-up order and its block and moves the unit. Staff may set
a unit's state as the lifecycle lets them, `CLEANING` too, which no order then ends; hence
`WorkLeavesNoUnitBehind` speaks of units that are at work for an order. The lifecycle refuses to retire a unit with
future assignments (`inventory/stock-unit-lifecycle.service.ts:139`); assignments are the core's, so here a unit may be
retired whatever they are, which adds behaviours.
`StockTransfers` adds each unit's location, the transfers with the outcome of each of
their units, and how many pieces are reserved at a location; its next step is a step
of a transfer, of a booking or of `UnitWork`. A booking is compared with what is offered on its day, a transfer
takes and counts only units with no block from today on (`EligibleAt`). Abstractions: one SKU, one-piece bookings whose
days all overlap, so that what is reserved is the peak the code computes;
checklists, media, costs and providers are left out; a repeated command with the
idempotency key of an earlier one changes nothing and is dropped.

## Runs

| Run | Question | Bounds, and why they are enough |
|---|---|---|
| `rivals` | Do two bookings of one unit keep apart, does everything close together, does the core implement `RentalContract`? | one unit is the most contended case; two days give disjoint, overlapping and extended ranges; no hold renewal, because renewing is what breaks `NoOverbooking` (`renewal` below) |
| `set` | Do counters, preparation and partial hand-outs, returns and losses stay consistent, and do substitutions leave nothing behind? | one booking of one suit and two gowns, three units: a quantity of two has every partial state |
| `unitstates` | Can a loss be forgotten through manual transitions, dispositions and inspections? | one unit, all states and dispositions but those no controller accepts, every inspection decision, one open inspection, two renewals |
| `races` | Do the statements of sweeps and cancellations, interleaved, implement `AtomicHolds`, and do lapsed requests end? | a booking of two requirements (a sweep takes more than one row) and one of one; one renewal, two cancellations |
| `counter` | Do the projections follow the ledger when staff and a customer's claim pay in parts? | two deposits (partial collection), three payments, the first of them perhaps made with the booking, two charges |
| `gateway` | Does the ledger stay exact, and implement `OpenBooks`, with two sessions and two notifications in progress? | two callers and two handlers are what races need; three payments let staff and a courier pay in between; one charge |
| `checkout` | Does a basket become one booking, as quoted and from stock, whatever is repeated, reloaded or changed in between? | a page and a draft competing for two pieces; two requests at once (a twin and a rival), two quotes and carts (old and new), one change of price, one reload, a plan with room for one booking |
| `shipment` | Is a parcel booked once per key, does a dead dispatch recover, is a parcel's end recorded, is its cash recorded once? | one run of two instances (`Loads`): *dispatches*, two calls, two keys and two parcels with no updates; *updates*, one dispatch and one parcel delivered or returned, two handlers at once, one status set by hand, and only the pickup's webhook, late or never - the loss of the others is what the poll is for. Both instances together are beyond five minutes |
| `sms` | Is a message sent or given up, within its attempts? | two requests of the same message; one death: the second is what breaks it (`stalled` below); two failed statements, one for the begin or completion of an attempt and one for the record of its failure; five attempts and three tries of a job are the code's |
| `work` | Does work keep the days it was planned for, and its blocks no longer than that, can it always end, and does it take its unit along? | one unit; two orders and two inspections (one of each at work, one before or after), one issue; two days: a first day and a later one, which work scheduled for later, completed early or late, needs; an inspection that accepts, repairs or retires; staff moving the unit to the states either kind of work uses and out of them |
| `transfers` | What can make a location short or have two transfers carry a unit? | three units, two transfers that may want the same ones, one order of work, two reservations, two days; no inspections and no moves by staff, which the proof covers |
| `custody` | Refutes the documentation's first invariant of custody | the smallest instance with a counterexample |

`CHECK_DEADLOCK FALSE` everywhere: the bookings, payments, quotes, parcels and
transfers of an instance are finite, so its runs end; a real system would get new ones.
`SYMMETRY` is used where elements are interchangeable and no liveness property is
checked: payments (`counter`, `gateway`), requests, quotes and carts (`checkout`), orders
and inspections (`work`), transfers and units (`transfers`).

**Fairness.** Three specifications assume any.

- `StatementRaces!FairSpec`: the sweep is a cron job that comes round every ten minutes,
  so `SweepStep` is fair; it and a running cancellation are strongly fair, because
  PostgreSQL queues those who wait for a row, so a statement that is enabled again and
  again is not overtaken for ever; and PostgreSQL resolves every deadlock. Holds can be
  renewed only `MaxRenewals` times, so `LapsedRequestsEnd` does not say that a request
  whose hold staff renew for ever ends.
- `CourierShipment!FairSpec`: time passes and the three-day check and its mark come round
  (weak fairness); a poll selects the shipment, is answered, and writes what it read
  again and again (strong fairness, since other updates of the shipment come in between),
  whichever of the handlers it runs in: the poll is a repeated job, and the courier does not fail every one of its
  calls for ever; what has written the status goes on to the booking and the cash, or dies (weak fairness). Nothing is
  assumed of webhooks, dispatches, staff, or the parcel. `MCFairSpec` is the same within the bounds of the run.
- `SmsOutbox!Spec`: a worker takes its job and goes on, the queueing of a message that
  did not die comes through, the sweep runs every five minutes, and a waiting time passes. The
  gateway may refuse every message; nobody has to ask again.

Nothing is assumed of staff, customers or the payment gateway.

### What the code does not keep

`custody` is a listed run: a unit that is out can be handed out a second time, because a
transition to the state it is in succeeds (`inventory/stock-unit-lifecycle.service.ts:121`);
the design says "1. One active custody owner per physical unit."
(`src/docs/superpowers/specs/2026-08-18-booking-rental-operations-engine-design.md:390`).

The modules state more that the code does not keep. Each of these configurations shows one
counterexample (`tlc -config <name>.cfg <module>.tla`); where one has several properties,
all but one are commented out, and each of them fails when it takes the other's place.
In this table `inventory design` is
`src/docs/superpowers/specs/2026-08-12-serialized-rental-inventory-and-product-lifecycle-design.md`,
`engine design` is `src/docs/superpowers/specs/2026-08-18-booking-rental-operations-engine-design.md`
and `matrix` is `src/docs/product-rental-domain-completeness-matrix.md`.

| Configuration, module | Statement | What happens | The documentation or message |
|---|---|---|---|
| `lonebooking`, `MCBookingFulfillment` | `ClosedBookingsHoldNoUnit` | `expirePending` cancels a booking and never releases the units assigned to it (`inventory/inventory-reservation.service.ts:275`) | "Cancellation and completion release the appropriate reservations and assignments." (inventory design:417) |
| | `CancelledFromPendingOrConfirmed` | `cancelBooking` checks the status before its transaction and never again, so a booking delivered and returned meanwhile is cancelled (`booking/booking.service.ts:2952`) | 'Cancellation is only allowed for pending or confirmed bookings.' (`booking/booking.service.ts:2955`) |
| | `InspectedMeansInspected` | the guard counts returned units now in `AWAITING_INSPECTION`, so one moved on by hand passes uninspected (`inventory/fulfillment.service.ts:551`) | "booking inspect/complete guards require every returned physical item inspection" (matrix:103) |
| | `CompletionAttributesRevenue` | revenue is attributed to assignments not yet released, and returns have released them (`inventory/inventory-reservation.service.ts:182`) | "Booking completion creates deterministic `RENTAL_REVENUE` rows per assignment." (`src/docs/serialized-inventory-cutover-checklist.md:29`) |
| `twounits`, `MCBookingFulfillment` | `CommittedDaysDisjoint` | an extension moves the reservation and leaves its assignments' days, which `assign` compares (`inventory/fulfillment.service.ts:394`) | "2. No overlapping committed exact-unit reservations including turnaround buffers." (engine design:391) |
| | `DemandCountedOnce` | a booking whose unit is out lowers availability twice: the unit is not counted and its reservation is subtracted (`inventory/inventory-availability.service.ts:477`) | "Subtracts quantity demand from overlapping active pending and confirmed reservations exactly once." (inventory design:398) |
| `renewal`, `MCBookingFulfillment` | `NoOverbooking` | a lapsed hold is renewed without looking at capacity again (`operations/booking-review.service.ts:386`) | "while guaranteeing that total demand does not exceed eligible capacity." (inventory design:406) |
| `lateapproval`, `MCStatementRaces` | `ConfirmedIsLive` | the sweep cancels the requirements of a booking approved since it read it (`inventory/inventory-reservation.service.ts:242`) | "Confirmation promotes valid holds." (inventory design:417) |
| | `ExpiresOnlyLapsed` | the sweep rechecks that a hold is `PENDING`, not that it is still past its expiry (`:234`) | "Expire reservations using each hold's policy-derived `expires_at`" (`src/docs/background-jobs.md:60`) |
| | `NoCancelOverHandedOut` | requirements are read without a lock and cancelled by id (`inventory/fulfillment.service.ts:622`) | 'Handed-out components require return or loss resolution before cancellation' (`inventory/fulfillment.service.ts:620`) |
| `ondelivery`, `MCPaymentLedger` | `NeverOvercollected` | the cash to collect is compared with the balance at dispatch and recorded in full after delivery (`fulfillment/fulfillment.service.ts:907`) | 'COD collection cannot exceed the remaining booking balance' (`fulfillment/fulfillment.service.ts:148`) |
| | `DepositStatusCurrent` | cash on delivery is never projected on the items' deposit status, so the deposit cannot be settled until another payment is recorded (`fulfillment/fulfillment.service.ts:915`) | "Verified `Payment.depositAmount` allocations project `pending`, `collected`, and `held`" (`src/docs/development/P08-payment-deposits.md:51`) |
| `claimdeposit`, `MCPaymentLedger` | `DepositsCollectedOnce` | approving a claim compares its amount with the balance, not its deposit part with the open deposits (`payment/payment.service.ts:259`) | 'Deposit allocation (...) exceeds uncollected deposits (...)' (`payment/payment.service.ts:124`) |
| `online`, `MCPaymentLedger` (with `RetryInSession`) | `LedgerExact` | a late failure notice is written by id over a payment verified since (`payment/payment.service.ts:689`) | "Track `tran_id` to prevent double processing" (`src/docs/integrations/sslcommerz.md:113`) |
| | `PaymentStatusCurrent` | the amount paid is compared with a grand total read before the gateway was asked (`payment/payment.service.ts:652`) | "if (totalPaid < grandTotal) return 'partial'; return 'paid';" (`src/docs/flows/payment-flow.md:151`) |
| | `OneSessionPending` | the look for a pending session and its creation are two statements without a lock (`payment/payment.service.ts:424`) | 'A payment session is already pending for this booking' (`payment/payment.service.ts:429`) |
| `unrecorded`, `MCCourierShipment` | `DeliveredIsPaid` | the update writes the shipment's status, then the booking's, then the cash; when the booking's is refused (its items are not all recorded as handed out) or the process dies, the cash stays unrecorded, and the repeated update is recognised as seen (`fulfillment/fulfillment.service.ts:797`); so too when staff set the shipment delivered before the courier's answer to the dispatch, with the cash to collect, was recorded | none; a statement of this project |
| | `NoRegression` | whether an update is old is decided on a status read before the transaction that writes it (`fulfillment/fulfillment.service.ts:747`) | "Older or regressive provider events remain in the timeline but cannot regress normalized state." (engine design:178) |
| `cancelled`, `MCCourierShipment` | `CancelledIsNotCarried` | the status and the reference are read outside the transaction that cancels: a dispatch in progress succeeds in between, and its parcel is on its way (`fulfillment/fulfillment.service.ts:314`) | none; a statement of this project |
| `twoparcels`, `MCCourierShipment` | `OneParcel` | two dispatches with different keys both find a shipment without a parcel and both book one; so does a new command after one whose answer was lost (`fulfillment/fulfillment.service.ts:283`) | none; what `DispatchOncePerKey` does not promise |
| `unnoticed`, `MCCourierShipment` | `EndIsNoticed` | one update read `in_transit` and is about to write it, another records the end, then the first writes; every later poll meets the event of the end it recorded before and changes nothing (`fulfillment/fulfillment.service.ts:745`, `:938`). For Steadfast one handler is enough: no poll understands a return (`fulfillment/providers/steadfast.adapter.ts:52`) | none; what `EndIsRecorded` does not promise |
| `stalled`, `MCSmsOutbox` | `RequestsAreSettled` with two deaths | the delivery stays `processing`, which the sweep does not select, once BullMQ has given the job up (`jobs/jobs.service.ts:177`) | "Due deliveries below five attempts are recovered every five minutes and at process startup." (`src/docs/launch-readiness.md:34`) |
| `early`, `MCUnitWork` | `OwedInspectionBlocksUnit` | work scheduled for tomorrow is completed today with an inspection asked for; the block still begins tomorrow, so once another inspection has made the unit `AVAILABLE` it is offered for today with the work's inspection owed (`inventory/inventory-service-order.service.ts:354`) | "`${block.reason ?? 'Service'}; awaiting completion inspection`", the reason the code gives the block (`inventory/inventory-service-order.service.ts:357`) |
| `intransfer`, `MCStockTransfers` | `TransferredIsNotOffered` | work finished while a transfer has the unit makes it `AVAILABLE`; nobody looks at transfers (`inventory/inventory-service-order.service.ts:371`) | capacity "Excludes supply-side unavailability independent of booking demand: applicable item/product/SKU/location blocks, transfers, ..." (inventory design:397) |
| `stucktransfer`, `MCStockTransfers` | `DispatchedCanBeReceived` | a unit is retired by an inspection while it is on its way, and the lifecycle refuses every outcome of a receipt (`inventory/inventory-transfer.service.ts:540`) | none; a statement of this project |
| `retry`, `MCCheckout` | `RetryGetsBooking` | a request whose twin books between its replay check and its transaction is refused - at the plan's limit, or because the quote or the cart is used up - although its booking exists (`booking/booking.service.ts:1539`) | "Tenant-scoped creation key plus canonical SHA-256 request fingerprint returns a matching prior booking" (matrix:91); "Idempotent command replays bypass new-usage checks" (`src/docs/launch-readiness.md:15`) |
| | `WithinMonthlyLimit` | the limit is checked before the transaction, so requests that pass it together exceed it together (`tenant/subscription.service.ts:158`) | "Fail-closed store entitlement plus product, monthly booking and active/pending staff limits" (`src/docs/launch-readiness.md:15`) |

## Proofs

Proved with TLAPS, for every value of the constants that satisfies the assumptions of
the module (sets of rows are finite where they are counted, bounds are natural numbers,
quantities are positive):

| Module | Theorem | Says |
|---|---|---|
| `BookingFulfillmentProofs` | `TypeCorrect` | `Spec => []TypeOK` |
| | `NeverDoubleAssigned` | `Spec => []NoDoubleAssignment` |
| | `ReservationsAlwaysFollow` | `Spec => []ReservationsFollowBooking` |
| | `OutItemsAlwaysAccountedFor` | `Spec => []OutItemsAccountedFor` |
| | `ReservationsNeverComeBack` | `Spec => ReservationsOnlyMoveOn` |
| | `AssignmentsAlwaysMatchSku`, `AssignedQuantityAlwaysExact`, `PreparedAlwaysPacked`, `StatusAlwaysMatchesItems`, `LossIsNeverForgotten` | `Spec => []...` of five more invariants of the core's runs |
| | `HandedOutComplete` | `Spec => HandOutComplete` |
| | `NeverOverbookedInTime` | `Spec => []NoOverbooking`, if holds are renewed only before they lapse (`RenewedInTime`) |
| | `NeverOverbooked` | without renewals (`MaxRenewals = 0`): `Spec => []NoOverbooking` |
| | `OnlySweepsStrandUnits` | `Spec => []ClosedBookingsHoldNoUnit`, if the sweep expires only holds nothing is assigned to (`SweepFindsNoUnit`) |
| | `OnlyExtensionsCollide` | `Spec => []CommittedDaysDisjoint`, if only bookings nothing is assigned to are extended (`ExtendsUnassigned`) |
| | `CustodyLostTwoWays` | `Spec => []SingleCustody`, if units are handed out from the shop only (`HandsOutFromShop`) and no staff move or inspection takes a unit off a rental that is not back (`LeavesRentalsAlone`) |
| | `OnlyDeliveryOvertakes` | `Spec => CancelledFromPendingOrConfirmed`, if no booking is delivered between a cancellation's check and its transaction (`NotDeliveredMeanwhile`) |
| | `CoreImplementsContract` | `Spec => ImplementsContract`, the refinement of `RentalContract` |
| `StatementRacesProofs` | `TypeCorrect`, `CapacityAlwaysFollows` | `Spec => []TypeOK`, `Spec => []CapacityFollowsBooking` |
| | `RacesImplementAtomicHolds` | `Spec => ImplementsAtomicHolds`, the refinement of `AtomicHolds` |
| | `OnlyLapsedExpire`, `ConfirmedStaysLive` | `Spec => ExpiresOnlyLapsed`, `Spec => []ConfirmedIsLive`, if no hold is renewed between a sweep's read of it and the sweep's end (`RenewedBeforeRead`) |
| | `NothingOutIsCancelled` | `Spec => NoCancelOverHandedOut`, if moreover no unit leaves between a cancellation's read of its requirement and the cancellation's end (`HandedOutUnread`) |
| `PaymentLedgerProofs` | `TypeCorrect`, `SettlementsAreFinal` | `Spec => []TypeOK`, `Spec => SettlementFinal` |
| | `LedgerAlwaysExact`, `CompletedIsPaid` | if a session ends with its first attempt (`~RetryInSession`): `Spec => []LedgerExact`, `Spec => CompletesPaidInFull` |
| | `DepositStatusAlwaysCurrent` | if moreover no courier collects cash (`CodAmounts = {}`): `Spec => []DepositStatusCurrent` |
| | `PaymentStatusAlwaysCurrent` | if the booking is not paid online: `Spec => []PaymentStatusCurrent` |
| | `NothingOvercollected` | if moreover no courier collects cash: `Spec => NeverOvercollected` |
| | `DepositsCollectedOnDelivery` | if the booking is paid on delivery (`Method = "cod"`): `Spec => []DepositsCollectedOnce` |
| | `LedgerImplementsOpenBooks` | if a session ends with its first attempt: `Spec => ImplementsOpenBooks`, the refinement of `OpenBooks` |
| | `LedgerExactUnlessStruck`, `BooksKeptUnlessStruck` | `Spec => []LedgerExact`, `Spec => ImplementsOpenBooks`, if no failure notice is written over a verified payment (`SparesVerified`) |
| | `PaymentStatusCurrentUnlessRecharged` | `Spec => []PaymentStatusCurrent`, if a notification compares with what is due when it writes (`NotifiedAsCharged`) |
| | `DepositStatusCurrentUnlessCash` | `Spec => []DepositStatusCurrent`, if no failure notice is written over a verified payment and no cash with a deposit in it is collected (`CashTakesNoDeposit`) |
| | `OneSessionUnlessTogether` | `Spec => []OneSessionPending`, if no start looks for a pending session while another is between its look and its row (`StartsAlone`) |
| | `CollectedWithinDue` | `Spec => NeverOvercollected /\ []DepositsCollectedOnce`, if no failure notice is written over a verified payment and no amount fixed earlier is still to come when one is paid or the total due is lowered (`OneAtATime`) |
| `CheckoutProofs` | `TypeCorrect`, `AlwaysBookedAsQuoted`, `AlwaysBookedOnce`, `NothingOversold`, `AnswersAlwaysMatch`, `OverrunAlwaysBounded` | `Spec => []...` of the type invariant and the five invariants of the run |
| | `LimitKeptOneAtATime` | `Spec => []WithinMonthlyLimit`, if a request checks the limit only when no other has passed it and is still to book (`CheckedAlone`) |
| | `RetryAnsweredApart` | `Spec => RetryGetsBooking`, if no booking is made while another request with its key is past its own replay check (`KeysApart`) |
| `CourierShipmentProofs` | `TypeCorrect`, `SucceededAlwaysTracked`, `CashAlwaysOnce` | `Spec => []...` of the type invariant and of two invariants of the run |
| | `OneParcelWhenAnswered` | `Spec => []OneParcel`, if dispatches do not overlap and none that booked a parcel dies or loses the answer (`AnsweredAlone`) |
| | `NoRegressionWhileTrue` | `Spec => NoRegression`, if the status an update was compared with is still the status when it writes (`ReadsStillTrue`) |
| | `CancelledAloneIsNotCarried` | `Spec => []CancelledIsNotCarried`, if no dispatch overlaps a cancellation (`CancelsAlone`) |
| | `PaidWhenReported` | `Spec => []DeliveredIsPaid`, if an update that reports a delivery neither dies nor is refused with the cash outstanding (`ReportsCompletely`) and what is to be collected is recorded before the delivery is known (`AnsweredBeforeDelivery`) |
| | `DispatchIsOnceOnly` | `Spec => DispatchOncePerKey`, the refinement of `OnceOnly` |
| `SmsOutboxProofs` | `TypeCorrect`, `AlwaysSentWithinAttempts`, `SentForGood` | `Spec => []TypeOK`, `Spec => []SentWithinAttempts`, `Spec => SentStaysSent` |
| | `OnlyStallsForget`, `NeverForgotten` | `Spec => [](InHand \/ Unrecorded)`: a message that is not settled has a step due that the scheduling brings about, unless the failure of a job's last try was not recorded, if no job loses two workers (`StallsOnce`), or if no more workers die than BullMQ forgives a job (`MaxDeaths <= MaxStalled`) |
| `UnitWorkProofs` | `TypeCorrect` | units stand in states of the lifecycle, rows keep their shape |
| | `WorkAlwaysKeepsItsDays`, `BlocksAlwaysReleased`, `ResolvedForGood` | `WorkSpec => []...` of three invariants of the run |
| | `NoUnitLeftBehind` | `WorkSpec => WorkLeavesNoUnitBehind` |
| | `WorkHasAnEnd` | `WorkSpec => []EndsAllowed`: open work has a unit, and its unit's state a transition, with which it can end |
| | `TransfersTypeCorrect`, `OnlyWorkBreaks` | `Spec => []TypeOK`, `Spec => OnlyWorkBreaksTransfers`, of `StockTransfers` |
| | `TransfersLeftAlone` | `Spec => []...` of that a location's stock covers its bookings (`Covered`), `TransferredIsNotOffered` and `DispatchedCanBeReceived`, if nothing but transfers moves a unit they have (`CarriedLeftAlone`) |

Twenty-two of these theorems are about properties that the code does
not keep. Each assumes that a kind of step, or two, do not happen - the hypothesis is an action property,
`[][A]_vars`, where `A` restricts nothing but those steps - and concludes that the property holds.
With the counterexample of the table above they say what breaks it and what does not: TLC shows that
the step does, the theorem that nothing else can, however many actors there are. The hypotheses
leave the races in: two notifications, sessions or retries still overlap, only not in that
step. Every statement of the table has such a theorem (`RequestsAreSettled` for its part about states, `InHand`)
but `DemandCountedOnce`, `InspectedMeansInspected` and `CompletionAttributesRevenue`, which take no
interleaving - the commands named there break them by themselves -, `OwedInspectionBlocksUnit`, of which
`WorkAlwaysKeepsItsDays` proves what is true from the work's first day on, and `EndIsNoticed`, a liveness property.

**The core.** `TypeInv` (the types, and that `asg` is finite, which cardinalities need) is
inductive by itself. `NoDoubleAssignment` is inductive over it: only `Assign`
adds assignments, after comparing with all of them, and no step changes an
assignment's days. `ReservationsFollowBooking` is inductive too: each command that
changes a booking's status closes or confirms all its reservations, and the sweep takes
a booking's holds all together. `OutItemsAccountedFor` is not inductive: that a
cancellation spares what is out needs the counters of each requirement to agree with its
status (`ItemsInv`), so `CoreInv` is the conjunction of `TypeInv`,
`ReservationsFollowBooking` and `ItemsInv`; the guard of a cancellation speaks of
counters, the property of units, and `ItemsInv` is what connects them.
`ReservationsNeverComeBack` needs that a booking not yet created has no reservation
(`Unplaced`). `LossNeverForgotten` is inductive over the types.

The other invariants are proved together, as `WholeInv`: `CoreInv`, `Unplaced`,
`NoDoubleAssignment`, `AlignedInv` and `PackInv`. `AlignedInv` says that an assignment belongs
to a booking that was placed, is of its reservation's SKU and begins on its first day; two
assignments of one unit to one requirement would therefore overlap, so a unit serves a
requirement once, and adding or taking back an assignment changes their number by exactly
one. `PackInv` carries that number: a requirement's counters tell how many assignments it has
(`CountsOf`), and a booking's status tells which statuses and counters its requirements may have
(`StageOf`). A hand-out is complete because a packed requirement has all of its units.

Capacity is a sum: what is reserved of a SKU on a day is the quantity of the requirements whose
reservation counts and has that day (`Load`). A creation, an extension and a substitution compare with
what is reserved by others on any day of a whole range; what is reserved on one day of
the range overlaps the range, so what fits the comparison fits each day (`CheckedFits`, `FitsMoved`), and the units
fit for rent are no more than the units there are. An extension compares one requirement at a time,
each with the others as they were, and moves them all: that they count each other's new days already follows
from their beginning on one day (`OneStart`). A confirmation leaves what counts as it was
because a request whose hold has lapsed is not approved; closing only takes away. That leaves
renewal, which brings a lapsed hold back without a comparison.

That a closed booking holds no unit, and that reservations with one unit never meet, each fail by one step:
the sweep, which leaves assignments be, and an extension, which leaves their days behind (`DaysCurrent`).
Custody needs that the unit of an item that is out says so (`OutOnce`); staff and inspections can make it say
something else, and a hand-out from a rental does not ask. A cancellation under way is of a booking that
may still be, or is by now, cancelled (`Cancellable`), since only a delivery takes a confirmed
booking where it may not.

The refinement uses `MapInv` - `CoreInv`, `NoDoubleAssignment` and `AlignedInv` - and maps
every action to a step of the contract or a stutter, one lemma per kind of step.

**StatementRaces.** `CapacityFollowsBooking` relates a booking to its reservations, and
between two statements of a sweep or a cancellation the two do disagree. What keeps a
commit from showing it are the row locks: the invariant says that a pending booking has all of its reservations and
requirements (`PendingIsWhole`), that what a sweep read it read for whole bookings and what it
has expired, but not committed, is still pending for everyone else and given up by no
cancellation (`SweepHolds`), that it closes exactly the pending bookings it read
(`SweepCloses`), and that a cancellation reads its own booking's requirements
(`CancelReadsOwn`). With these, every commit changes a booking and its reservations to statuses
that agree: each is one step of `AtomicHolds`, because what a sweep expires is exactly the
reservations of the bookings it closes (`ExpiresWhole`), and what a cancellation gives up is all that its booking has,
unless the booking was cancelled by then, and that changes nothing. The three properties that `lateapproval` refutes need moreover that what a sweep read stays lapsed and
unconfirmed until it ends (`SweepLate`): a lapsed request is not approved, so renewal is the one step
that can change it. For a unit that is out they need the same of a cancellation, that what it read is not
handed out until it ends (`CancelsRead`).

**PaymentLedger.** A settled deposit has a final status, and both the settlement and the
projection pass over items whose status is final; the rest is one lemma per writer. The
other theorems hold under the conditions their runs set, because the code does not keep the properties
without them (the table of what it does not keep). `SessionsInv` follows a gateway payment
through its session: a verified one was paid in it, a notification's kind says how it
ended, and a row that may still be deleted has none. So a notification of a failed attempt,
written by id, and the deletion of a row never hit a verified payment, and every step is of
one of three kinds (`StepKinds`): it recomputes the total and projects the deposits, it
collects cash and recomputes the total, or it leaves both sums as they were. That the sums stay the
same needs no induction: they are functions of the verified rows, and those rows are the same.
That no payment takes what is collected beyond what is due is a fact about steps: verifying one row adds
its amount to the sum, after comparing it with what is still due in the same state. The
amounts of a booking stay natural numbers because sums of natural numbers do. Cash on delivery
allots to the deposits at most what is not collected of them, and staff's payments compare; only the
approval of a claim does not, and a booking paid on delivery has no claims.

The refinement of `OpenBooks` follows from steps too: each verifies one payment, whose entry is new, and
recomputes the total, or verifies none and leaves the total (`VerifiesOne`, `VerifiesNone`). That adding the
payment's amount gives the recomputed total is where `LedgerExact` is needed, and that a deposit is returned
out of what was paid where the settlement's guard is.
The theorems with a hypothesis about steps ask nothing of constants, so methods and amounts are mixed
freely: a session that is started waits for its payment (`StartsPending`); starts that do not look
together leave at most one session pending (`SessionsAlone`); and every amount that is fixed and
still to come - a claim's, a session's, a courier's - fits what is open (`AwaitedFits`), which is
lost as soon as another one is paid first.

**Checkout.** A quote once made never changes and a checked-out cart never becomes active
again; with these two facts about steps, three invariants are inductive together: each
booking is as some quote of its own says (`Quoted`), each cart of a booking is checked out
(`CartsTaken`), and key, quote and cart tell bookings apart. Nothing is oversold because the
transaction counts the pieces booked again, and a booking adds its own basket and nothing else to that sum. The overrun is counted over
bookings and requests about to book: a request gets there while there is room, and one that books
leaves. A request past its own replay check is refused for what its twin did only when the twin
booked after that check: otherwise its key has no booking (`NotMadeYet`). When a request checks alone, bookings and requests about to book together stay within the
limit, which is then kept.

**CourierShipment.** The attempt's row is what makes one call at a time work under a key: a
call between the record of its attempt and its report has the attempt `STARTED` and is alone
(`OneWorks`), so a parcel that exists under a key while its call has not reported
belongs to that call (`ParcelsOwned`, `BookedIsKeyed`). Every step then maps to a step of
`OnceOnly` or a stutter. That the cash is recorded once rests on the remittance's guard,
inside the transaction. The types need that an update, from its read on, is about a shipment that was
prepared (`Prepared`): before that there is no status to compare with. The
three properties that overlapping steps break hold when they do not overlap, each by an invariant of its own: the
only parcel belongs to the only dispatch or was recorded by it (`OneDispatch`), a compared
update is still ahead of the status (`ComparesWell`), and a cancellation finds all dispatches
over and every parcel called off (`NothingOnItsWay`).
The cash of a delivery is recorded once nothing is in progress because a delivery that is known, with cash outstanding, has an
update about to record it (`PaidOrPaying`).

**SmsOutbox.** An attempt is counted before it is made, so what the gateway was told is at
most what was counted, with one less while the worker is about to tell it; and a `sent` row
is begun by no worker. That a message is not forgotten (`InHand`) is what of `RequestsAreSettled` can be said of
states: until it is settled, a worker has it, a job waits, it is being queued, the sweep would select it, or its
waiting time runs. It rests on `AttemptInHand`: a row that is `processing`, which the sweep passes over, has
its worker or a job that will begin it again, or its job ended with a last try that was not recorded.

**UnitWork.** An owed inspection belongs to a completed order, blocks belong to work that is
open or owes one and have the days their work was planned for, or from the first of those on (`BlockRight`), and an inspection's own block lasts no longer than its draft
(`DraftsBlock`), and inspections name completed orders only (`InspectsCompleted`);
together they are inductive, whatever state staff have moved the unit to. That work leaves no
unit behind is a fact about steps: completing an order or cancelling one in progress
moves its unit on, an inspection that sends a unit to work makes the order for it, and no
transition of the lifecycle leads from one service state to another. That work can be brought to
an end is a fact about states: open work is for a unit (`HasUnits`), and every state of
the lifecycle lets a unit wait for an inspection or be retired, so each open order or
draft has an outcome the lifecycle accepts (`AlwaysAWayOut`).
The transfers' property is one about steps
too: only an approval takes units from a location and only a reservation counts on more,
both compare with what is offered there, and what is offered and carried by no transfer is on hand.
When work leaves the units of transfers alone, each of them is in transfer and in one transfer
only (`CarriedWell`), and all three statements follow.

**Sums.** `SumTheorems` proves what the proofs need of the community modules' folds: adding or
changing one summand changes the sum by the difference, sums of larger sets and summands are larger. The
library's induction theorems take the fact to be proved as a parameter, which the installed provers cannot
instantiate; `Induction` takes the set of numbers the fact holds for instead, and is proved from
the least number that is not in it.

Only model-checked: the four liveness properties (`LapsedRequestsEnd`, `DispatchRecovers`,
`EndIsRecorded`, `RequestsAreSettled`), because the prover does not reason about fairness - of `RequestsAreSettled` the part about states is proved (`InHand`) - and
`WorkCanEnd`, because it does not about `ENABLED`: that open work meets the conditions of the actions that end
it is `WorkHasAnEnd`, that these are then enabled is TLC's to say.

The type invariant of every module with a specification of the code is proved. The core's is checked in a run as
well.

## Plan

1. `operations/`: packing groups, custody ledger, optimistic versions, command replay and
   the projection of stages.
2. Sessions: refresh rotation, session limit, revocation.
3. Pure operators against reference definitions: late fee, extension and revenue
   splits, blocked ranges, composition expansion.
4. Return shipments and the reconciliation of remittances, on `CourierShipment`; the overdue
   job and its late fees.
5. Availability with several locations, policies, blocks and turnaround buffers.

## Not modelled, and why

Components listed under "not_modelled" in `PROJECT.json` are either planned above
or keep rows nothing else depends on (catalogue, uploads, analytics,
administration, customers), or are the clients of external services. Most of the
repository's lines are of this kind: of about a hundred thousand, half are the web
frontend's pages and components, which show what the API stores and send single commands,
and much of the rest is queries, validation of input, and the catalogue. What the models
cover is the code that decides about the state several actors share, so the share of
lines they map is small and is not to be read as a share of the behaviour.

Of the modelled components this is left out: coupons and discounts, damage reports and
notes (bookings); expansion of bundles and preparation inspections (requirements); other
policies than the default (availability); media and checklists (inspections); optimistic
versions and command replay (review); counts, which only record what was seen.

Events emitted after a commit are left out where no modelled state is written by their
listeners; the text messages, which are, have a module. Tenants are independent of each
other, so a model has one.
