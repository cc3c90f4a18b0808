---------------------------- MODULE PaymentLedger ----------------------------
(***************************************************************************)
(* The money of one booking: its payments, the projections of them kept on  *)
(* the booking and its items (totalPaid, paymentStatus, depositStatus), the *)
(* charges that change what is due, and the deposit settlements.            *)
(*                                                                          *)
(* A command that locks the booking is one step.  The two that do not - the *)
(* start of an online session and the gateway's notification - read, call   *)
(* the gateway and write in steps of their own.                             *)
(***************************************************************************)
EXTENDS Integers, FiniteSets, Functions

CONSTANTS
  Payments,         \* bound: the payments ever made
  Items,
  ItemDeposit,      \* item -> its security deposit
  RentalTotal,      \* the grand total at creation, deposits excluded
  Method,           \* Booking.paymentMethod
  LateFees,         \* bound: the late fees a recalculation can come to
  MaxCharges,       \* bound: recalculations, extensions, price impacts, damage charges
  CodAmounts,       \* bound: what staff may tell the courier to collect
  Callers,          \* bound: session starts in progress at once
  Handlers,         \* bound: notifications in progress at once
  RetryInSession    \* can a session be paid after a failed attempt in it?

ASSUME LedgerAssumption ==
  /\ IsFiniteSet(Payments) /\ IsFiniteSet(Items)
  /\ ItemDeposit \in [Items -> Nat \ {0}]
  /\ RentalTotal \in Nat \ {0}
  /\ Method \in {"cod", "bkash", "sslcommerz"}
  /\ LateFees \subseteq Nat /\ MaxCharges \in Nat
  /\ CodAmounts \subseteq Nat \ {0}
  /\ RetryInSession \in BOOLEAN

TotalDeposit == SumFunctionOnSet(ItemDeposit, Items)

VARIABLES
  status,         \* Booking.status, from confirmation on
  grandTotal, lateFee, totalPaid, paymentStatus,
  pay,            \* payment -> its row
  depositStatus,  \* item -> BookingItem.depositStatus
  settled,        \* items with a DepositSettlement
  charges,        \* charges so far
  cod,            \* the outbound shipment's CodRemittance
  starting,       \* caller -> its initiateSslcommerz call
  session,        \* payment -> what the gateway knows of its session
  handling        \* handler -> the notification it works on

vars == <<status, grandTotal, lateFee, totalPaid, paymentStatus, pay, depositStatus,
          settled, charges, cod, starting, session, handling>>
booking == <<grandTotal, lateFee, totalPaid, paymentStatus>>
gateway == <<starting, session, handling>>

NoPayment == [status |-> "NONE", method |-> "manual", amount |-> 0, deposit |-> 0]
NoStart == [at |-> "idle", amount |-> 0, deposit |-> 0, payment |-> {}]
NoNotice == [kind |-> "idle", payment |-> {}, total |-> 0, paid |-> 0]

-----------------------------------------------------------------------------
(* Reading the ledger.                                                      *)

Verified(ledger) == {p \in Payments : ledger[p].status = "verified"}
Paid(ledger) == SumFunction([p \in Verified(ledger) |-> ledger[p].amount])
DepositPaid(ledger) == SumFunction([p \in Verified(ledger) |-> ledger[p].deposit])
RentalPaid(ledger) == Paid(ledger) - DepositPaid(ledger)
SettledDeposits == SumFunctionOnSet(ItemDeposit, settled)
PendingOnline == {p \in Payments : pay[p].method = "gateway" /\ pay[p].status = "pending"}

LeastOf(a, b) == IF a < b THEN a ELSE b
NotNegative(n) == IF n < 0 THEN 0 ELSE n

CalculatePaymentStatus(paid, total) ==
  IF paid <= 0 THEN "unpaid" ELSE IF paid < total THEN "partial" ELSE "paid"

ProjectedDeposit(paid) ==
  IF paid <= 0 THEN "pending" ELSE IF paid < TotalDeposit THEN "collected" ELSE "held"

-----------------------------------------------------------------------------
(* A claim is the whole of the booking.                                     *)
Claim == [status |-> "pending", method |-> "claim",
          amount |-> RentalTotal + TotalDeposit, deposit |-> TotalDeposit]

(* The payment recorded with a booking: no part of it is more than is due.  *)
InitialPayments ==
  {row \in [status : {"verified"}, method : {"manual"},
            amount : 1..(RentalTotal + TotalDeposit), deposit : 0..TotalDeposit] :
     row.deposit <= row.amount /\ row.amount - row.deposit <= RentalTotal}

(* createBooking, confirmed: its customer may have claimed a bKash payment,  *)
(* or the staff who created it recorded an initial one.                     *)
Created == {NoPayment} \cup InitialPayments \cup (IF Method = "bkash" THEN {Claim} ELSE {})

Init ==
  /\ status = "confirmed"
  /\ grandTotal = RentalTotal + TotalDeposit /\ lateFee = 0
  /\ \E first \in Payments, row \in Created :
       pay = [p \in Payments |-> IF p = first THEN row ELSE NoPayment]
  /\ totalPaid = Paid(pay)
  /\ paymentStatus = CalculatePaymentStatus(totalPaid, grandTotal)
  /\ depositStatus = [i \in Items |-> ProjectedDeposit(DepositPaid(pay))]
  /\ settled = {} /\ charges = 0
  /\ cod = [expected |-> 0, collected |-> FALSE]
  /\ starting = [c \in Callers |-> NoStart]
  /\ session = [p \in Payments |-> "none"]
  /\ handling = [h \in Handlers |-> NoNotice]

-----------------------------------------------------------------------------
(* The projections.                                                         *)

(* Mutant: a deposit collected in part is never looked at again.            *)
ProjectPendingOnly(paid) ==
  depositStatus' = [i \in Items |->
    IF depositStatus[i] \in {"pending", "held"} THEN ProjectedDeposit(paid) ELSE depositStatus[i]]
(* Mutant: every deposit is projected, a settled one too.                   *)
ProjectEveryDeposit(paid) == depositStatus' = [i \in Items |-> ProjectedDeposit(paid)]
(* updateDepositProjection.                                                 *)
UpdateDepositProjection(paid) ==
  depositStatus' = [i \in Items |->
    IF depositStatus[i] \in {"pending", "collected", "held"}
    THEN ProjectedDeposit(paid) ELSE depositStatus[i]]

(* Mutant: the payment is added to the total read with the notification.    *)
PaidFromFirstRead(h, ledger, p) == handling[h].paid + ledger[p].amount
(* What a verified notification leaves paid in all: the ledger's sum.       *)
PaidFromLedger(h, ledger, p) == Paid(ledger)

(* The payment commands' common end: the ledger becomes ledger, and what is *)
(* kept on the booking is recalculated against total.                       *)
Post(ledger, total) ==
  /\ pay' = ledger
  /\ totalPaid' = Paid(ledger)
  /\ paymentStatus' = CalculatePaymentStatus(Paid(ledger), total)
  /\ UpdateDepositProjection(DepositPaid(ledger))
  /\ UNCHANGED <<grandTotal, lateFee>>

(* Mutant: the payment status is left as it was.                            *)
RechargeOnly(total) ==
  /\ total >= 0
  /\ charges < MaxCharges
  /\ charges' = charges + 1
  /\ grandTotal' = total
  /\ UNCHANGED <<totalPaid, paymentStatus, pay>>
(* A charge: what is due changes, what was paid does not.                   *)
Recharge(total) ==
  /\ total >= 0
  /\ charges < MaxCharges
  /\ charges' = charges + 1
  /\ grandTotal' = total
  /\ paymentStatus' = CalculatePaymentStatus(totalPaid, total)
  /\ UNCHANGED <<totalPaid, pay>>

-----------------------------------------------------------------------------
(* Payments staff record, and customers' claims they review.                *)

(* Mutant: the balance is not looked at.                                    *)
FitsAnything(amount, deposit) == deposit <= amount
(* recordPayment's conditions on the amount and on each of its two parts.   *)
FitsBalance(amount, deposit) ==
  /\ amount <= grandTotal - Paid(pay)
  /\ deposit <= amount
  /\ deposit <= TotalDeposit - DepositPaid(pay)
  /\ amount - deposit <= grandTotal - TotalDeposit - RentalPaid(pay)

RecordPayment(p, amount, deposit) ==
  /\ pay[p].status = "NONE"
  /\ FitsBalance(amount, deposit)
  /\ Post([pay EXCEPT ![p] = [status |-> "verified", method |-> "manual",
                              amount |-> amount, deposit |-> deposit]], grandTotal)
  /\ UNCHANGED <<status, settled, charges, cod, gateway>>

ApproveClaim(p) ==
  /\ pay[p].method = "claim" /\ pay[p].status = "pending"
  /\ pay[p].amount <= grandTotal - Paid(pay)
  /\ Post([pay EXCEPT ![p].status = "verified"], grandTotal)
  /\ UNCHANGED <<status, settled, charges, cod, gateway>>

RejectClaim(p) ==
  /\ pay[p].method = "claim" /\ pay[p].status = "pending"
  /\ pay' = [pay EXCEPT ![p].status = "failed"]
  /\ UNCHANGED <<status, booking, depositStatus, settled, charges, cod, gateway>>

-----------------------------------------------------------------------------
(* Cash on delivery.                                                        *)

(* sendPickupNow, once: the courier is told to collect at most what is due. *)
Dispatch(amount) ==
  /\ status = "confirmed"
  /\ cod.expected = 0
  /\ amount <= NotNegative(grandTotal - totalPaid)
  /\ cod' = [cod EXCEPT !.expected = amount]
  /\ UNCHANGED <<status, booking, pay, depositStatus, settled, charges, gateway>>

(* A cash collection pays the open deposit first.                           *)
CodDeposit == LeastOf(cod.expected, NotNegative(TotalDeposit - DepositPaid(pay)))

(* ensureCodPayment, once the shipment is delivered: what the courier was   *)
(* told to collect was paid.                                                *)
EnsureCodPayment(p) ==
  LET ledger == [pay EXCEPT ![p] = [status |-> "verified", method |-> "cod",
                                    amount |-> cod.expected, deposit |-> CodDeposit]]
  IN
  /\ status # "confirmed"
  /\ cod.expected > 0 /\ ~cod.collected
  /\ pay[p].status = "NONE"
  /\ pay' = ledger
  /\ totalPaid' = Paid(ledger)
  /\ paymentStatus' = CalculatePaymentStatus(Paid(ledger), grandTotal)
  /\ cod' = [cod EXCEPT !.collected = TRUE]
  /\ UNCHANGED <<status, grandTotal, lateFee, depositStatus, settled, charges, gateway>>

-----------------------------------------------------------------------------
(* Online payment: initiateSslcommerz.                                      *)

StartCheck(c) ==
  LET amount == grandTotal - Paid(pay)
      deposit == NotNegative(TotalDeposit - DepositPaid(pay))
  IN
  /\ Method = "sslcommerz"
  /\ starting[c].at = "idle"
  /\ amount > 0 /\ deposit <= amount
  /\ PendingOnline = {}
  /\ starting' = [starting EXCEPT ![c] =
                    [at |-> "create", amount |-> amount, deposit |-> deposit, payment |-> {}]]
  /\ UNCHANGED <<status, booking, pay, depositStatus, settled, charges, cod, session, handling>>

StartCreate(c, p) ==
  /\ starting[c].at = "create"
  /\ pay[p].status = "NONE"
  /\ pay' = [pay EXCEPT ![p] = [status |-> "pending", method |-> "gateway",
                                amount |-> starting[c].amount, deposit |-> starting[c].deposit]]
  /\ starting' = [starting EXCEPT ![c].at = "call", ![c].payment = {p}]
  /\ UNCHANGED <<status, booking, depositStatus, settled, charges, cod, session, handling>>

(* The gateway opens the session, or it does not and the row is deleted, or *)
(* the process dies in between and the row stays.                           *)
StartOpened(c) ==
  /\ starting[c].at = "call"
  /\ starting' = [starting EXCEPT ![c] = NoStart]
  /\ session' = [p \in Payments |-> IF p \in starting[c].payment THEN "open" ELSE session[p]]
  /\ UNCHANGED <<status, booking, pay, depositStatus, settled, charges, cod, handling>>

StartFailed(c) ==
  /\ starting[c].at = "call"
  /\ starting' = [starting EXCEPT ![c] = NoStart]
  /\ pay' = [p \in Payments |-> IF p \in starting[c].payment THEN NoPayment ELSE pay[p]]
  /\ UNCHANGED <<status, booking, depositStatus, settled, charges, cod, session, handling>>

StartDies(c) ==
  /\ starting[c].at # "idle"
  /\ starting' = [starting EXCEPT ![c] = NoStart]
  /\ UNCHANGED <<status, booking, pay, depositStatus, settled, charges, cod, session, handling>>

-----------------------------------------------------------------------------
(* Online payment: the gateway, and handleSslcommerzIpn.                    *)

(* The customer's attempt fails or succeeds.                                *)
Attempt(p) ==
  /\ \/ session[p] = "open" /\ \E result \in {"failed", "paid"} :
                                 session' = [session EXCEPT ![p] = result]
     \/ RetryInSession /\ session[p] = "failed"
                       /\ session' = [session EXCEPT ![p] = "paid at last"]
  /\ UNCHANGED <<status, booking, pay, depositStatus, settled, charges, cod, starting, handling>>

(* Notifications of what happened may come late, twice, in any order.       *)
Notices(p) ==
  (IF session[p] \in {"failed", "paid at last"} THEN {"FAILED"} ELSE {})
    \cup (IF session[p] \in {"paid", "paid at last"} THEN {"VALID"} ELSE {})

(* The first read: a pending payment, with its booking's totals.            *)
IpnRead(h, p) ==
  /\ handling[h].kind = "idle"
  /\ p \in PendingOnline
  /\ \E kind \in Notices(p) :
       handling' = [handling EXCEPT ![h] = 
          [kind |-> kind, payment |-> {p}, total |-> grandTotal, paid |-> totalPaid]]
  /\ UNCHANGED <<status, booking, pay, depositStatus, settled, charges, cod, starting, session>>

(* The gateway confirms the payment: under the locks it is verified, unless *)
(* it is no longer pending.  The status compares with the total first read. *)
IpnVerify(h, p) ==
  LET ledger == [pay EXCEPT ![p].status = "verified"] IN
  /\ handling[h].kind = "VALID" /\ handling[h].payment = {p}
  /\ pay[p].status = "pending"
  /\ pay' = ledger
  /\ totalPaid' = PaidFromLedger(h, ledger, p)
  /\ paymentStatus' = CalculatePaymentStatus(PaidFromLedger(h, ledger, p), handling[h].total)
  /\ UpdateDepositProjection(DepositPaid(ledger))
  /\ handling' = [handling EXCEPT ![h] = NoNotice]
  /\ UNCHANGED <<status, grandTotal, lateFee, settled, charges, cod, starting, session>>

(* Nothing is written: the payment was decided before, the gateway rates it *)
(* high risk, or the validation call fails or the process dies.             *)
IpnIgnored(h) ==
  /\ handling[h].kind # "idle"
  /\ handling' = [handling EXCEPT ![h] = NoNotice]
  /\ UNCHANGED <<status, booking, pay, depositStatus, settled, charges, cod, starting, session>>

(* A failed attempt is written by id, whatever the payment is by now.       *)
IpnFail(h, p) ==
  /\ handling[h].kind = "FAILED" /\ handling[h].payment = {p}
  /\ pay' = [pay EXCEPT ![p].status = "failed"]
  /\ handling' = [handling EXCEPT ![h] = NoNotice]
  /\ UNCHANGED <<status, booking, depositStatus, settled, charges, cod, starting, session>>

-----------------------------------------------------------------------------
(* What is due changes.                                                     *)

(* calculateLateFees, at any status: each time the whole fee again.         *)
CalculateLateFees(fee) ==
  /\ fee # lateFee
  /\ lateFee' = fee
  /\ Recharge(grandTotal + fee - lateFee)
  /\ UNCHANGED <<status, depositStatus, settled, cod, gateway>>

(* extendBookingRequirements with an extension charge.                      *)
ChargeExtension ==
  /\ status \in {"confirmed", "delivered"}
  /\ Recharge(grandTotal + 1)
  /\ UNCHANGED <<status, lateFee, depositStatus, settled, cod, gateway>>

(* A substitution's price impact, in either direction; what it may take off  *)
(* the item and the subtotal is left open.                                  *)
Substitute ==
  /\ status = "confirmed"
  /\ \E impact \in {-1, 1} : Recharge(grandTotal + impact)
  /\ UNCHANGED <<status, lateFee, depositStatus, settled, cod, gateway>>

(* settleDeposit: refund, deduction or forfeit account for the whole        *)
(* deposit; damage beyond it is charged on top.                             *)
SettleDeposit(i, how, extra) ==
  /\ status = "inspected"
  /\ i \notin settled
  /\ depositStatus[i] = "held" /\ DepositPaid(pay) >= TotalDeposit
  /\ ItemDeposit[i] <= DepositPaid(pay) - SettledDeposits
  /\ settled' = settled \cup {i}
  /\ depositStatus' = [depositStatus EXCEPT ![i] = how]
  /\ IF extra > 0 THEN Recharge(grandTotal + extra)
     ELSE UNCHANGED <<grandTotal, totalPaid, paymentStatus, pay, charges>>
  /\ UNCHANGED <<status, lateFee, cod, gateway>>

-----------------------------------------------------------------------------
(* The booking goes on.                                                     *)

Advance ==
  /\ \/ status = "confirmed" /\ status' = "delivered"
     \/ status = "delivered" /\ status' = "inspected"
  /\ UNCHANGED <<booking, pay, depositStatus, settled, charges, cod, gateway>>

(* Mutant: the payment status is trusted instead of the amounts.            *)
SquaredByStatus == settled = Items /\ paymentStatus = "paid"
(* assertAndTransitionBooking's conditions on money.                        *)
Squared == settled = Items /\ totalPaid >= grandTotal

Complete ==
  /\ status = "inspected"
  /\ Squared
  /\ status' = "completed"
  /\ UNCHANGED <<booking, pay, depositStatus, settled, charges, cod, gateway>>

-----------------------------------------------------------------------------
Amounts == 1..(RentalTotal + TotalDeposit + MaxCharges)

Next ==
  \/ \E p \in Payments, amount \in Amounts, deposit \in 0..TotalDeposit :
       RecordPayment(p, amount, deposit)
  \/ \E p \in Payments :
       \/ ApproveClaim(p) \/ RejectClaim(p) \/ EnsureCodPayment(p) \/ Attempt(p)
       \/ \E c \in Callers : StartCreate(c, p)
       \/ \E h \in Handlers : IpnRead(h, p) \/ IpnVerify(h, p) \/ IpnFail(h, p)
  \/ \E amount \in CodAmounts : Dispatch(amount)
  \/ \E c \in Callers : StartCheck(c) \/ StartOpened(c) \/ StartFailed(c) \/ StartDies(c)
  \/ \E h \in Handlers : IpnIgnored(h)
  \/ \E fee \in LateFees : CalculateLateFees(fee)
  \/ ChargeExtension \/ Substitute
  \/ \E i \in Items, how \in {"refunded", "partially_refunded", "forfeited"}, extra \in {0, 1} :
       SettleDeposit(i, how, extra)
  \/ Advance
  \/ Complete

Spec == Init /\ [][Next]_vars

-----------------------------------------------------------------------------
(* What the ledger's books show of a booking: each verified payment is an    *)
(* entry, the total is the one kept on the booking.                         *)
Entries == {[payment |-> p, amount |-> pay[p].amount, deposit |-> pay[p].deposit] : p \in Verified(pay)}

Books == INSTANCE OpenBooks WITH
           entries <- Entries, total <- totalPaid, held <- DepositPaid(pay) - SettledDeposits,
           due <- grandTotal, returned <- settled, closed <- status = "completed"

-----------------------------------------------------------------------------
(* Properties.                                                              *)

(* The type invariant.  A payment's deposit part is part of its amount      *)
(* (rentalAmount is never negative), and no total is negative.              *)
TypeOK ==
  /\ status \in {"confirmed", "delivered", "inspected", "completed"}
  /\ grandTotal \in Nat /\ lateFee \in LateFees \cup {0} /\ totalPaid \in Nat
  /\ paymentStatus \in {"unpaid", "partial", "paid"}
  /\ \A p \in Payments :
       /\ pay[p].amount \in Nat /\ pay[p].deposit \in 0..pay[p].amount
       /\ pay[p].status \in {"NONE", "pending", "verified", "failed"}
       /\ pay[p].method \in {"manual", "claim", "cod", "gateway"}
       /\ pay[p].status = "NONE" <=> pay[p].amount = 0
  /\ depositStatus \in [Items -> {"pending", "collected", "held",
                                  "refunded", "partially_refunded", "forfeited"}]
  /\ settled \subseteq Items
  /\ charges \in 0..MaxCharges
  /\ cod \in [expected : CodAmounts \cup {0}, collected : BOOLEAN]
  /\ session \in [Payments -> {"none", "open", "failed", "paid", "paid at last"}]

(* Booking.totalPaid is the sum of the booking's verified payments, whoever *)
(* recorded them (payments staff record, reviewed claims, cash collections  *)
(* and notifications all recompute it from rows they read under a lock).    *)
LedgerExact == totalPaid = Paid(pay)

(* Booking.paymentStatus is what the amounts say (calculatePaymentStatus),  *)
(* across every command that changes what was paid or what is due.          *)
PaymentStatusCurrent == paymentStatus = CalculatePaymentStatus(totalPaid, grandTotal)

(* No payment takes what was collected beyond what is due.  (What is due    *)
(* may drop below it later, when a late fee is recalculated.)               *)
NeverOvercollected == [][Paid(pay') > Paid(pay) => Paid(pay') <= grandTotal']_vars

(* The deposit part of the verified payments never exceeds the booking's    *)
(* deposits, which is what settlements pay back.                            *)
DepositsCollectedOnce == DepositPaid(pay) <= TotalDeposit

(* An unsettled deposit's status says how much deposit was collected.       *)
DepositStatusCurrent ==
  \A i \in Items \ settled : depositStatus[i] = ProjectedDeposit(DepositPaid(pay))

(* A settled deposit is final: no later payment projects its status anew.   *)
SettlementFinal == [][\A i \in settled : depositStatus'[i] = depositStatus[i]]_vars

(* A booking completes only when the verified payments cover all that is    *)
(* due and every deposit is settled, though the guard of the completion     *)
(* reads neither the payments nor a value written in the same transaction.  *)
CompletesPaidInFull ==
  [][status' = "completed" /\ status # "completed"
       => Paid(pay) >= grandTotal /\ settled = Items]_vars

(* The payments, the sums kept of them, the deposits settled and the charges *)
(* implement OpenBooks: a payment counts once, however many commands and     *)
(* notifications are about it; the total on the booking grows by just what   *)
(* is verified; a deposit is returned once, out of deposit that was paid;    *)
(* and a booking completes with everything due paid and every deposit        *)
(* settled, though its guard reads no payment.                              *)
ImplementsOpenBooks == Books!Spec

(* At most one online session of a booking waits for its payment.           *)
OneSessionPending == Cardinality(PendingOnline) <= 1

=============================================================================
