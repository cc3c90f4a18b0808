------------------------- MODULE PaymentLedgerProofs -------------------------
(***************************************************************************)
(* What the ledger keeps, for any number of items, payments, charges, session *)
(* starts and notifications.  A settled deposit is final: what projects       *)
(* deposits anew passes over the three statuses a settlement writes.  The     *)
(* totals kept on the booking are those of its rows: each command that        *)
(* verifies a payment recomputes them, and no other touches a verified one.   *)
(***************************************************************************)
EXTENDS PaymentLedger, SumTheorems

Final == {"refunded", "partially_refunded", "forfeited"}

SettledAreFinal ==
  /\ DOMAIN depositStatus = Items
  /\ settled \subseteq Items
  /\ \A i \in settled : depositStatus[i] \in Final

(* No step looks at a settled deposit again.                                 *)
KeepsSettled == \A i \in settled : depositStatus'[i] = depositStatus[i]

LEMMA ProjectionKeeps ==
  ASSUME SettledAreFinal, NEW paid, UpdateDepositProjection(paid), settled' = settled
  PROVE  SettledAreFinal' /\ KeepsSettled
BY DEF SettledAreFinal, UpdateDepositProjection, KeepsSettled, Final

LEMMA SettlementKeeps ==
  ASSUME SettledAreFinal, NEW i \in Items, NEW how \in Final, NEW extra,
         SettleDeposit(i, how, extra)
  PROVE  SettledAreFinal' /\ KeepsSettled
BY DEF SettledAreFinal, SettleDeposit, KeepsSettled

(* What neither projects nor settles.                                        *)
Elsewhere == UNCHANGED <<depositStatus, settled>>

LEMMA ElsewhereKeeps == SettledAreFinal /\ Elsewhere => SettledAreFinal' /\ KeepsSettled
BY DEF SettledAreFinal, Elsewhere, KeepsSettled

LEMMA NextKeeps == SettledAreFinal /\ [Next]_vars => SettledAreFinal' /\ KeepsSettled
<1> SUFFICES ASSUME SettledAreFinal, [Next]_vars
             PROVE  SettledAreFinal' /\ KeepsSettled
  OBVIOUS
<1>1. ASSUME NEW p \in Payments, NEW amount, NEW deposit, RecordPayment(p, amount, deposit)
      PROVE  SettledAreFinal' /\ KeepsSettled
  BY <1>1, ProjectionKeeps DEF RecordPayment, Post
<1>2. ASSUME NEW p \in Payments, ApproveClaim(p)
      PROVE  SettledAreFinal' /\ KeepsSettled
  BY <1>2, ProjectionKeeps DEF ApproveClaim, Post
<1>3. ASSUME NEW h \in Handlers, NEW p \in Payments, IpnVerify(h, p)
      PROVE  SettledAreFinal' /\ KeepsSettled
  BY <1>3, ProjectionKeeps DEF IpnVerify
<1>4. ASSUME NEW i \in Items, NEW how \in Final, NEW extra, SettleDeposit(i, how, extra)
      PROVE  SettledAreFinal' /\ KeepsSettled
  BY <1>4, SettlementKeeps
<1>5. ASSUME NEW c \in Callers, StartCheck(c) \/ StartOpened(c) \/ StartFailed(c) \/ StartDies(c)
      PROVE  Elsewhere
  BY <1>5 DEF StartCheck, StartOpened, StartFailed, StartDies, Elsewhere
<1>6. CASE \/ \E amount \in CodAmounts : Dispatch(amount)
           \/ \E h \in Handlers : IpnIgnored(h)
           \/ \E fee \in LateFees : CalculateLateFees(fee)
           \/ ChargeExtension \/ Substitute \/ Advance \/ Complete \/ UNCHANGED vars
  BY <1>6, ElsewhereKeeps DEF Dispatch, IpnIgnored, CalculateLateFees, ChargeExtension, Substitute, Advance,
     Complete, vars, Elsewhere
<1>7. ASSUME NEW p \in Payments, RejectClaim(p) \/ EnsureCodPayment(p) \/ Attempt(p)
      PROVE  Elsewhere
  BY <1>7 DEF RejectClaim, EnsureCodPayment, Attempt, Elsewhere
<1>8. ASSUME NEW p \in Payments, NEW h \in Handlers, IpnRead(h, p) \/ IpnFail(h, p)
      PROVE  Elsewhere
  BY <1>8 DEF IpnRead, IpnFail, Elsewhere
<1>9. ASSUME NEW p \in Payments, NEW c \in Callers, StartCreate(c, p)
       PROVE  Elsewhere
  BY <1>9 DEF StartCreate, Elsewhere
<1>10. QED
  BY <1>1, <1>2, <1>3, <1>4, <1>5, <1>6, <1>7, <1>8, <1>9, ElsewhereKeeps DEF Next, Final

(* Once a deposit is refunded, deducted from or forfeited, no later payment, *)
(* charge or notification changes its status.                                *)
THEOREM SettlementsAreFinal == Spec => SettlementFinal
<1>1. Init => SettledAreFinal
  BY DEF Init, SettledAreFinal
<1>2. KeepsSettled => (\A i \in settled : depositStatus'[i] = depositStatus[i])
  BY DEF KeepsSettled
<1>3. QED
  BY <1>1, <1>2, NextKeeps, PTL DEF Spec, SettlementFinal

-----------------------------------------------------------------------------
(* The gateway's sessions.  A verified gateway payment was paid in its       *)
(* session; when a session ends with its first attempt, a notification of a   *)
(* failed attempt is never about such a payment, nor is the row of a session  *)
(* that could not be opened.                                                 *)

Rows ==
  /\ DOMAIN pay = Payments
  /\ \A p \in Payments : DOMAIN pay[p] = {"status", "method", "amount", "deposit"}
  /\ DOMAIN session = Payments
  /\ DOMAIN starting = Callers
  /\ \A c \in Callers : DOMAIN starting[c] = {"at", "amount", "deposit", "payment"}
  /\ DOMAIN handling = Handlers

SessionRight(p) ==
  /\ session[p] \in {"none", "open", "failed", "paid"}
  /\ session[p] # "none" => pay[p].method = "gateway" /\ pay[p].status # "NONE"
  /\ pay[p].method = "gateway" /\ pay[p].status = "verified" => session[p] = "paid"

StartRight(c, p) ==
  p \in starting[c].payment =>
    pay[p].status = "pending" /\ pay[p].method = "gateway" /\ session[p] = "none"

NoticeRight(h, p) ==
  p \in handling[h].payment =>
    /\ handling[h].kind = "FAILED" => session[p] = "failed"
    /\ handling[h].kind = "VALID" => session[p] = "paid"

SessionsInv ==
  /\ Rows
  /\ \A p \in Payments : SessionRight(p)
  /\ \A c \in Callers, p \in Payments : StartRight(c, p)
  /\ \A c, d \in Callers, p \in Payments :
       p \in starting[c].payment /\ p \in starting[d].payment => c = d
  /\ \A h \in Handlers, p \in Payments : NoticeRight(h, p)

LEMMA DepositIsNat == TotalDeposit \in Nat
<1>1. IsFiniteSet(Items) /\ \A i \in Items : ItemDeposit[i] \in Nat
  BY LedgerAssumption
<1>2. QED
  BY <1>1, SumGrows DEF TotalDeposit

(* What a booking is created with: nothing, a claim, or a verified payment.  *)
LEMMA CreatedRow ==
  ASSUME NEW row \in Created
  PROVE  /\ DOMAIN row = {"status", "method", "amount", "deposit"}
         /\ row.amount \in Nat /\ row.deposit \in Nat /\ row.deposit <= row.amount
         /\ \/ row = NoPayment
            \/ row = Claim /\ Method = "bkash"
            \/ /\ row \in InitialPayments /\ row.status = "verified" /\ row.method = "manual"
               /\ row.amount >= 1 /\ row.deposit <= TotalDeposit
               /\ row.amount - row.deposit <= RentalTotal
BY DepositIsNat, LedgerAssumption DEF Created, NoPayment, Claim, InitialPayments

(* ... so nothing waits at the gateway.                                      *)
LEMMA InitRows ==
  ASSUME Init
  PROVE  /\ DOMAIN pay = Payments
         /\ \A p \in Payments :
              /\ pay[p] \in Created
              /\ DOMAIN pay[p] = {"status", "method", "amount", "deposit"}
              /\ pay[p].method \in {"manual", "claim"}
              /\ pay[p].method = "claim" => pay[p] = Claim /\ Method = "bkash"
              /\ pay[p].status = "pending" => pay[p] = Claim
<1>1. DOMAIN pay = Payments /\ \A p \in Payments : pay[p] \in Created
  BY DEF Init, Created
<1>2. QED
  BY <1>1, CreatedRow DEF NoPayment, Claim

LEMMA InitSessions == Init => SessionsInv
<1> SUFFICES ASSUME Init
             PROVE  SessionsInv
  OBVIOUS
<1>1. /\ DOMAIN pay = Payments
      /\ \A p \in Payments : /\ DOMAIN pay[p] = {"status", "method", "amount", "deposit"}
                             /\ pay[p].method # "gateway"
  BY InitRows
<1>2. /\ session = [p \in Payments |-> "none"]
      /\ starting = [c \in Callers |-> NoStart]
      /\ handling = [h \in Handlers |-> NoNotice]
  BY DEF Init
<1>3. Rows
  BY <1>1, <1>2 DEF Rows, NoStart
<1>4. \A p \in Payments : SessionRight(p)
  BY <1>1, <1>2 DEF SessionRight
<1>5. /\ \A c \in Callers : starting[c].payment = {}
      /\ \A h \in Handlers : handling[h].payment = {}
  BY <1>2 DEF NoStart, NoNotice
<1>6. QED
  BY <1>3, <1>4, <1>5 DEF SessionsInv, StartRight, NoticeRight

(* A row that changes outside the gateway's calls.                           *)
LEMMA RowStep ==
  ASSUME SessionsInv, NEW p \in Payments, NEW row,
         DOMAIN row = {"status", "method", "amount", "deposit"},
         pay' = [pay EXCEPT ![p] = row], UNCHANGED gateway,
         pay[p].status = "NONE" \/ pay[p].method # "gateway",
         row.method # "gateway"
  PROVE  SessionsInv'
<1>1. /\ pay'[p] = row /\ \A q \in Payments : q # p => pay'[q] = pay[q]
      /\ DOMAIN pay' = Payments
  BY DEF SessionsInv, Rows
<1>2. UNCHANGED <<starting, session, handling>>
  BY DEF gateway
<1>3. Rows'
  BY <1>1, <1>2 DEF SessionsInv, Rows
<1>4. session[p] = "none"
  BY DEF SessionsInv, SessionRight
<1>5. \A q \in Payments : SessionRight(q)'
  BY <1>1, <1>2, <1>4 DEF SessionsInv, SessionRight
<1>6. \A c \in Callers : p \notin starting[c].payment
  BY DEF SessionsInv, StartRight
<1>7. \A c \in Callers, q \in Payments : StartRight(c, q)'
  BY <1>1, <1>2, <1>6 DEF SessionsInv, StartRight
<1>8. \A h \in Handlers, q \in Payments : NoticeRight(h, q)'
  BY <1>2 DEF SessionsInv, NoticeRight
<1>9. QED
  BY <1>2, <1>3, <1>5, <1>7, <1>8 DEF SessionsInv

LEMMA StartCheckSessions ==
  ASSUME SessionsInv, NEW c \in Callers, StartCheck(c) \/ StartDies(c)
  PROVE  SessionsInv'
<1>1. /\ \/ starting' = [starting EXCEPT ![c] = NoStart]
         \/ starting' = [starting EXCEPT ![c] =
              [at |-> "create", amount |-> grandTotal - Paid(pay),
               deposit |-> NotNegative(TotalDeposit - DepositPaid(pay)), payment |-> {}]]
      /\ UNCHANGED <<pay, session, handling>>
  BY DEF StartCheck, StartDies
<1>2. /\ starting'[c].payment = {} /\ \A d \in Callers : d # c => starting'[d] = starting[d]
      /\ DOMAIN starting' = Callers
      /\ DOMAIN starting'[c] = {"at", "amount", "deposit", "payment"}
  BY <1>1 DEF SessionsInv, Rows, NoStart
<1>3. UNCHANGED <<pay, session, handling>>
  BY <1>1
<1>4. Rows'
  BY <1>2, <1>3 DEF SessionsInv, Rows
<1>5. \A d \in Callers, q \in Payments : StartRight(d, q)'
  BY <1>2, <1>3 DEF SessionsInv, StartRight
<1>6. \A q \in Payments : SessionRight(q)' /\ \A h \in Handlers : NoticeRight(h, q)'
  BY <1>3 DEF SessionsInv, SessionRight, NoticeRight
<1>7. QED
  BY <1>2, <1>4, <1>5, <1>6 DEF SessionsInv

LEMMA StartCreateSessions ==
  ASSUME SessionsInv, NEW c \in Callers, NEW p \in Payments, StartCreate(c, p)
  PROVE  SessionsInv'
<1>1. /\ pay[p].status = "NONE" /\ UNCHANGED <<session, handling>>
      /\ pay' = [pay EXCEPT ![p] = [status |-> "pending", method |-> "gateway",
                                    amount |-> starting[c].amount, deposit |-> starting[c].deposit]]
      /\ starting' = [starting EXCEPT ![c].at = "call", ![c].payment = {p}]
  BY DEF StartCreate
<1>2. /\ DOMAIN pay' = Payments /\ DOMAIN pay'[p] = {"status", "method", "amount", "deposit"}
      /\ pay'[p].status = "pending" /\ pay'[p].method = "gateway"
      /\ \A q \in Payments : q # p => pay'[q] = pay[q]
  BY <1>1 DEF SessionsInv, Rows
<1>3. /\ DOMAIN starting' = Callers /\ starting'[c].payment = {p}
      /\ DOMAIN starting'[c] = {"at", "amount", "deposit", "payment"}
      /\ \A d \in Callers : d # c => starting'[d] = starting[d]
  BY <1>1 DEF SessionsInv, Rows
<1>4. session[p] = "none" /\ \A d \in Callers : p \notin starting[d].payment
  BY <1>1 DEF SessionsInv, SessionRight, StartRight
<1>5. Rows'
  BY <1>1, <1>2, <1>3 DEF SessionsInv, Rows
<1>6. \A q \in Payments : SessionRight(q)'
  BY <1>1, <1>2, <1>4 DEF SessionsInv, SessionRight
<1>7. \A d \in Callers, q \in Payments : StartRight(d, q)'
  BY <1>1, <1>2, <1>3, <1>4 DEF SessionsInv, StartRight
<1>8. \A d, e \in Callers, q \in Payments :
        q \in starting'[d].payment /\ q \in starting'[e].payment => d = e
  BY <1>3, <1>4 DEF SessionsInv
<1>9. \A h \in Handlers, q \in Payments : NoticeRight(h, q)'
  BY <1>1 DEF SessionsInv, NoticeRight
<1>10. QED
  BY <1>5, <1>6, <1>7, <1>8, <1>9 DEF SessionsInv

(* The call to the gateway ends: it opened a session, or the row goes.       *)
LEMMA StartEndsSessions ==
  ASSUME SessionsInv, NEW c \in Callers, StartOpened(c) \/ StartFailed(c)
  PROVE  SessionsInv'
<1>1. starting' = [starting EXCEPT ![c] = NoStart] /\ handling' = handling
  BY DEF StartOpened, StartFailed
<1>2. /\ DOMAIN starting' = Callers /\ starting'[c] = NoStart
      /\ \A d \in Callers : d # c => starting'[d] = starting[d]
  BY <1>1 DEF SessionsInv, Rows
<1>3. \A q \in starting[c].payment : q \in Payments =>
        /\ pay[q].status = "pending" /\ pay[q].method = "gateway" /\ session[q] = "none"
        /\ \A d \in Callers : d # c => q \notin starting[d].payment
  BY DEF SessionsInv, StartRight
<1>4. /\ DOMAIN pay' = Payments /\ DOMAIN session' = Payments
      /\ \A q \in Payments : q \notin starting[c].payment =>
           pay'[q] = pay[q] /\ session'[q] = session[q]
      /\ \A q \in Payments : q \in starting[c].payment =>
           \/ pay'[q] = pay[q] /\ session'[q] = "open"
           \/ pay'[q] = NoPayment /\ session'[q] = session[q]
  BY DEF StartOpened, StartFailed, SessionsInv, Rows
<1>5. Rows'
  BY <1>1, <1>2, <1>4 DEF SessionsInv, Rows, NoStart, NoPayment
<1>6. \A q \in Payments : SessionRight(q)'
  <2> SUFFICES ASSUME NEW q \in Payments
               PROVE  SessionRight(q)'
    OBVIOUS
  <2>1. SessionRight(q)
    BY DEF SessionsInv
  <2>2. NoPayment.method # "gateway"
    BY DEF NoPayment
  <2>3. QED
    BY <1>3, <1>4, <2>1, <2>2 DEF SessionRight
<1>7. \A d \in Callers, q \in Payments : StartRight(d, q)'
  <2> SUFFICES ASSUME NEW d \in Callers, NEW q \in Payments, q \in starting'[d].payment
               PROVE  StartRight(d, q)'
    BY DEF StartRight
  <2>1. d # c /\ q \in starting[d].payment
    BY <1>2 DEF NoStart
  <2>2. q \notin starting[c].payment
    BY <1>3, <2>1
  <2>3. StartRight(d, q)
    BY DEF SessionsInv
  <2>4. QED
    BY <1>2, <1>4, <2>1, <2>2, <2>3 DEF StartRight
<1>8. \A d, e \in Callers, q \in Payments :
        q \in starting'[d].payment /\ q \in starting'[e].payment => d = e
  BY <1>2 DEF SessionsInv, NoStart
<1>9. \A h \in Handlers, q \in Payments : NoticeRight(h, q)'
  <2> SUFFICES ASSUME NEW h \in Handlers, NEW q \in Payments
               PROVE  NoticeRight(h, q)'
    OBVIOUS
  <2>1. NoticeRight(h, q)
    BY DEF SessionsInv
  <2>2. session[q] # "none" => session'[q] = session[q]
    BY <1>3, <1>4
  <2>3. QED
    BY <1>1, <2>1, <2>2 DEF NoticeRight
<1>10. QED
  BY <1>5, <1>6, <1>7, <1>8, <1>9 DEF SessionsInv

(* The customer's attempt in a session that takes one.                       *)
LEMMA AttemptSessions ==
  ASSUME SessionsInv, ~RetryInSession, NEW p \in Payments, Attempt(p)
  PROVE  SessionsInv'
<1>1. PICK result \in {"failed", "paid"} :
        session[p] = "open" /\ session' = [session EXCEPT ![p] = result]
  BY DEF Attempt
<1>2. UNCHANGED <<pay, starting, handling>>
  BY DEF Attempt
<1>3. /\ DOMAIN session' = Payments /\ session'[p] = result
      /\ \A q \in Payments : q # p => session'[q] = session[q]
  BY <1>1 DEF SessionsInv, Rows
<1>4. Rows'
  BY <1>2, <1>3 DEF SessionsInv, Rows
<1>5. \A q \in Payments : SessionRight(q)'
  BY <1>1, <1>2, <1>3 DEF SessionsInv, SessionRight
<1>6. \A c \in Callers, q \in Payments : StartRight(c, q)'
  BY <1>1, <1>2, <1>3 DEF SessionsInv, StartRight
<1>7. \A h \in Handlers, q \in Payments : NoticeRight(h, q)'
  BY <1>1, <1>2, <1>3 DEF SessionsInv, NoticeRight
<1>8. QED
  BY <1>2, <1>4, <1>5, <1>6, <1>7 DEF SessionsInv

LEMMA IpnReadSessions ==
  ASSUME SessionsInv, NEW h \in Handlers, NEW p \in Payments, IpnRead(h, p)
  PROVE  SessionsInv'
<1>1. PICK kind \in {"FAILED", "VALID"} :
        /\ kind \in Notices(p)
        /\ handling' = [handling EXCEPT ![h] =
             [kind |-> kind, payment |-> {p}, total |-> grandTotal, paid |-> totalPaid]]
  BY DEF IpnRead, Notices
<1>2. UNCHANGED <<pay, starting, session>>
  BY DEF IpnRead
<1>3. session[p] \in {"none", "open", "failed", "paid"}
  BY DEF SessionsInv, SessionRight
<1>4. /\ kind = "FAILED" => session[p] = "failed"
      /\ kind = "VALID" => session[p] = "paid"
  BY <1>1, <1>3 DEF Notices
<1>5. /\ DOMAIN handling' = Handlers
      /\ handling'[h].kind = kind /\ handling'[h].payment = {p}
      /\ \A g \in Handlers : g # h => handling'[g] = handling[g]
  BY <1>1 DEF SessionsInv, Rows
<1>6. Rows'
  BY <1>2, <1>5 DEF SessionsInv, Rows
<1>7. \A g \in Handlers, q \in Payments : NoticeRight(g, q)'
  BY <1>2, <1>4, <1>5 DEF SessionsInv, NoticeRight
<1>8. /\ \A q \in Payments : SessionRight(q)'
      /\ \A c \in Callers, q \in Payments : StartRight(c, q)'
  BY <1>2 DEF SessionsInv, SessionRight, StartRight
<1>9. QED
  BY <1>2, <1>6, <1>7, <1>8 DEF SessionsInv

(* A notification's payment is of the gateway, and not being started.        *)
LEMMA NoticeOf ==
  ASSUME SessionsInv, NEW h \in Handlers, NEW p \in Payments,
         handling[h].payment = {p}, handling[h].kind \in {"VALID", "FAILED"}
  PROVE  /\ session[p] = IF handling[h].kind = "VALID" THEN "paid" ELSE "failed"
         /\ pay[p].method = "gateway" /\ pay[p].status # "NONE"
         /\ handling[h].kind = "FAILED" => pay[p].status # "verified"
         /\ \A c \in Callers : p \notin starting[c].payment
<1>1. NoticeRight(h, p) /\ SessionRight(p)
  BY DEF SessionsInv
<1>2. session[p] = IF handling[h].kind = "VALID" THEN "paid" ELSE "failed"
  BY <1>1 DEF NoticeRight
<1>3. QED
  BY <1>1, <1>2 DEF SessionRight, SessionsInv, StartRight

LEMMA IpnEndsSessions ==
  ASSUME SessionsInv, NEW h \in Handlers, NEW p \in Payments, IpnVerify(h, p) \/ IpnFail(h, p)
  PROVE  SessionsInv'
<1>1. /\ handling[h].payment = {p} /\ handling[h].kind \in {"VALID", "FAILED"}
      /\ handling' = [handling EXCEPT ![h] = NoNotice]
      /\ UNCHANGED <<starting, session>>
  BY DEF IpnVerify, IpnFail
<1>2. PICK st \in {"verified", "failed"} :
        /\ pay' = [pay EXCEPT ![p].status = st]
        /\ st = "verified" => handling[h].kind = "VALID"
  BY DEF IpnVerify, IpnFail
<1>3. /\ DOMAIN pay' = Payments
      /\ \A q \in Payments : q # p => pay'[q] = pay[q]
      /\ pay'[p].status = st /\ pay'[p].method = pay[p].method
      /\ DOMAIN pay'[p] = DOMAIN pay[p]
  <2>1. /\ DOMAIN pay = Payments /\ DOMAIN pay[p] = {"status", "method", "amount", "deposit"}
    BY DEF SessionsInv, Rows
  <2>2. pay' = [pay EXCEPT ![p] = [pay[p] EXCEPT !.status = st]]
    BY <1>2
  <2>3. /\ [pay[p] EXCEPT !.status = st].status = st
        /\ [pay[p] EXCEPT !.status = st].method = pay[p].method
        /\ DOMAIN [pay[p] EXCEPT !.status = st] = DOMAIN pay[p]
    BY <2>1
  <2>4. QED
    BY <2>1, <2>2, <2>3
<1>4. /\ DOMAIN handling' = Handlers /\ handling'[h] = NoNotice
      /\ \A g \in Handlers : g # h => handling'[g] = handling[g]
  BY <1>1 DEF SessionsInv, Rows
<1>5. Rows'
  BY <1>1, <1>3, <1>4 DEF SessionsInv, Rows
<1>6. /\ session[p] = IF handling[h].kind = "VALID" THEN "paid" ELSE "failed"
      /\ pay[p].method = "gateway"
      /\ \A c \in Callers : p \notin starting[c].payment
  BY <1>1, NoticeOf
<1>7. \A q \in Payments : SessionRight(q)'
  <2>1. ASSUME NEW q \in Payments, q # p
        PROVE  SessionRight(q)'
    BY <1>1, <1>3, <2>1 DEF SessionsInv, SessionRight
  <2>2. SessionRight(p)'
    BY <1>1, <1>2, <1>3, <1>6 DEF SessionRight
  <2>3. QED
    BY <2>1, <2>2
<1>8. \A c \in Callers, q \in Payments : StartRight(c, q)'
  BY <1>1, <1>3, <1>6 DEF SessionsInv, StartRight
<1>9. \A g \in Handlers, q \in Payments : NoticeRight(g, q)'
  BY <1>1, <1>4 DEF SessionsInv, NoticeRight, NoNotice
<1>10. QED
  BY <1>1, <1>5, <1>7, <1>8, <1>9 DEF SessionsInv

LEMMA IpnIgnoredSessions ==
  ASSUME SessionsInv, NEW h \in Handlers, IpnIgnored(h)
  PROVE  SessionsInv'
<1>1. handling' = [handling EXCEPT ![h] = NoNotice] /\ UNCHANGED <<pay, starting, session>>
  BY DEF IpnIgnored
<1>2. /\ DOMAIN handling' = Handlers /\ handling'[h] = NoNotice
      /\ \A g \in Handlers : g # h => handling'[g] = handling[g]
  BY <1>1 DEF SessionsInv, Rows
<1>3. Rows'
  BY <1>1, <1>2 DEF SessionsInv, Rows
<1>4. \A g \in Handlers, q \in Payments : NoticeRight(g, q)'
  BY <1>1, <1>2 DEF SessionsInv, NoticeRight, NoNotice
<1>5. /\ \A q \in Payments : SessionRight(q)'
      /\ \A c \in Callers, q \in Payments : StartRight(c, q)'
  BY <1>1 DEF SessionsInv, SessionRight, StartRight
<1>6. QED
  BY <1>1, <1>3, <1>4, <1>5 DEF SessionsInv

(* Payments staff record, claims they review, and cash.                      *)
LEMMA StaffSessions ==
  ASSUME SessionsInv, NEW p \in Payments,
         \/ \E amount \in Amounts, deposit \in 0..TotalDeposit : RecordPayment(p, amount, deposit)
         \/ ApproveClaim(p) \/ RejectClaim(p) \/ EnsureCodPayment(p)
  PROVE  SessionsInv'
<1> DEFINE Row(row) ==
      /\ DOMAIN row = {"status", "method", "amount", "deposit"} /\ row.method # "gateway"
      /\ pay' = [pay EXCEPT ![p] = row] /\ UNCHANGED gateway
      /\ pay[p].status = "NONE" \/ pay[p].method # "gateway"
<1>1. ASSUME NEW amount, NEW deposit, RecordPayment(p, amount, deposit)
      PROVE  Row([status |-> "verified", method |-> "manual",
                  amount |-> amount, deposit |-> deposit])
  BY <1>1 DEF RecordPayment, Post
<1>2. ASSUME EnsureCodPayment(p)
      PROVE  Row([status |-> "verified", method |-> "cod",
                  amount |-> cod.expected, deposit |-> CodDeposit])
  BY <1>2 DEF EnsureCodPayment
<1>3. DOMAIN pay[p] = {"status", "method", "amount", "deposit"}
  BY DEF SessionsInv, Rows
<1>4. ASSUME ApproveClaim(p)
      PROVE  Row([pay[p] EXCEPT !.status = "verified"])
  BY <1>3, <1>4 DEF ApproveClaim, Post
<1>5. ASSUME RejectClaim(p)
      PROVE  Row([pay[p] EXCEPT !.status = "failed"])
  BY <1>3, <1>5 DEF RejectClaim
<1>6. \E row : Row(row)
  BY <1>1, <1>2, <1>4, <1>5
<1>7. QED
  BY <1>6, RowStep

LEMMA NextSessions ==
  ASSUME ~RetryInSession, SessionsInv, [Next]_vars
  PROVE  SessionsInv'
<1>1. CASE UNCHANGED <<pay, gateway>>
  BY <1>1 DEF gateway, SessionsInv, Rows, SessionRight, StartRight, NoticeRight
<1>2. ASSUME NEW i, NEW how, NEW extra, SettleDeposit(i, how, extra)
      PROVE  UNCHANGED <<pay, gateway>>
  BY <1>2 DEF SettleDeposit, Recharge
<1>3. ASSUME NEW amount, Dispatch(amount)
      PROVE  UNCHANGED <<pay, gateway>>
  BY <1>3 DEF Dispatch
<1>4. ASSUME NEW fee, CalculateLateFees(fee)
      PROVE  UNCHANGED <<pay, gateway>>
  BY <1>4 DEF CalculateLateFees, Recharge
<1>5. ASSUME ChargeExtension \/ Substitute \/ Advance \/ Complete \/ UNCHANGED vars
      PROVE  UNCHANGED <<pay, gateway>>
  BY <1>5 DEF ChargeExtension, Substitute, Recharge, Advance, Complete, vars, gateway
<1>6. QED
  BY <1>1, <1>2, <1>3, <1>4, <1>5, StaffSessions, AttemptSessions, StartCreateSessions,
     StartCheckSessions, StartEndsSessions, IpnReadSessions, IpnEndsSessions, IpnIgnoredSessions
     DEF Next

-----------------------------------------------------------------------------
(* What steps do to the sums: those that change which payments are verified  *)
(* recompute the total from the rows they write, and project the deposits    *)
(* unless they collect cash; all others leave both sums as they were.        *)

SumsKept == /\ Paid(pay') = Paid(pay) /\ DepositPaid(pay') = DepositPaid(pay)
            /\ totalPaid' = totalPaid

(* Deposits change status only when they are settled.                        *)
DepositsKept ==
  \/ UNCHANGED <<depositStatus, settled>>
  \/ \E i \in Items : \E how : /\ settled' = settled \cup {i}
                               /\ depositStatus' = [depositStatus EXCEPT ![i] = how]

Posted == /\ totalPaid' = Paid(pay') /\ settled' = settled
          /\ UpdateDepositProjection(DepositPaid(pay'))

CashPosted == totalPaid' = Paid(pay') /\ \E p \in Payments : EnsureCodPayment(p)

StepKinds == Posted \/ CashPosted \/ (SumsKept /\ DepositsKept)

(* What is being started waits for its payment.                              *)
StartsPending ==
  \A c \in Callers, p \in Payments :
    p \in starting[c].payment => pay[p].status = "pending" /\ pay[p].method = "gateway"

(* A step in which a failed attempt is not written over a verified payment.  *)
SparesVerified ==
  \A h \in Handlers, p \in Payments : IpnFail(h, p) => pay[p].status # "verified"

LEMMA SessionsSpare == SessionsInv => Rows /\ StartsPending /\ SparesVerified
<1>1. SessionsInv => SparesVerified
  BY NoticeOf DEF SparesVerified, IpnFail
<1>2. QED
  BY <1>1 DEF SessionsInv, StartRight, StartsPending

(* The sums are over the rows of verified payments.                          *)
LEMMA UnverifiedChange ==
  ASSUME \A p \in Payments : \/ pay'[p] = pay[p]
                             \/ pay[p].status # "verified" /\ pay'[p].status # "verified"
  PROVE  Paid(pay') = Paid(pay) /\ DepositPaid(pay') = DepositPaid(pay)
<1>1. Verified(pay') = Verified(pay) /\ \A p \in Verified(pay) : pay'[p] = pay[p]
  BY DEF Verified
<1>2. /\ [p \in Verified(pay') |-> pay'[p].amount] = [p \in Verified(pay) |-> pay[p].amount]
      /\ [p \in Verified(pay') |-> pay'[p].deposit] = [p \in Verified(pay) |-> pay[p].deposit]
  BY <1>1
<1>3. QED
  BY <1>2 DEF Paid, DepositPaid

LEMMA StaffKinds ==
  ASSUME Rows, NEW p \in Payments,
         \/ \E amount \in Amounts, deposit \in 0..TotalDeposit : RecordPayment(p, amount, deposit)
         \/ ApproveClaim(p) \/ RejectClaim(p) \/ EnsureCodPayment(p)
  PROVE  StepKinds
<1>1. ASSUME NEW amount, NEW deposit, RecordPayment(p, amount, deposit)
      PROVE  Posted
  BY <1>1 DEF RecordPayment, Post, Posted
<1>2. ASSUME ApproveClaim(p)
      PROVE  Posted
  BY <1>2 DEF ApproveClaim, Post, Posted
<1>3. ASSUME EnsureCodPayment(p)
      PROVE  CashPosted
  BY <1>3 DEF EnsureCodPayment, CashPosted
<1>4. ASSUME RejectClaim(p)
      PROVE  SumsKept /\ DepositsKept
  <2>1. /\ pay[p].status = "pending" /\ pay' = [pay EXCEPT ![p].status = "failed"]
        /\ UNCHANGED <<totalPaid, depositStatus, settled>>
    BY <1>4 DEF RejectClaim, booking
  <2>2. DOMAIN pay = Payments /\ DOMAIN pay[p] = {"status", "method", "amount", "deposit"}
    BY DEF Rows
  <2>3. pay'[p].status = "failed" /\ \A q \in Payments : q # p => pay'[q] = pay[q]
    BY <2>1, <2>2
  <2>4. Paid(pay') = Paid(pay) /\ DepositPaid(pay') = DepositPaid(pay)
    BY <2>1, <2>3, UnverifiedChange
  <2>5. QED
    BY <2>1, <2>4 DEF SumsKept, DepositsKept
<1>5. QED
  BY <1>1, <1>2, <1>3, <1>4 DEF StepKinds

LEMMA GatewayKinds ==
  ASSUME Rows, StartsPending, SparesVerified,
         \/ \E p \in Payments :
              \/ \E c \in Callers : StartCreate(c, p)
              \/ \E h \in Handlers : IpnRead(h, p) \/ IpnVerify(h, p) \/ IpnFail(h, p)
              \/ Attempt(p)
         \/ \E c \in Callers : StartCheck(c) \/ StartOpened(c) \/ StartFailed(c) \/ StartDies(c)
         \/ \E h \in Handlers : IpnIgnored(h)
  PROVE  StepKinds
<1> DEFINE Same == UNCHANGED <<totalPaid, depositStatus, settled>>
           Rest(q) == \/ pay'[q] = pay[q]
                      \/ pay[q].status # "verified" /\ pay'[q].status # "verified"
<1>1. ASSUME Same, \A q \in Payments : Rest(q)
      PROVE  StepKinds
  BY <1>1, UnverifiedChange DEF StepKinds, SumsKept, DepositsKept
<1>2. /\ DOMAIN pay = Payments
      /\ \A p \in Payments : DOMAIN pay[p] = {"status", "method", "amount", "deposit"}
  BY DEF Rows
<1>3. ASSUME NEW p \in Payments, NEW c \in Callers, StartCreate(c, p)
      PROVE  StepKinds
  <2>1. pay[p].status = "NONE" /\ pay'[p].status = "pending" /\ Same
        /\ \A q \in Payments : q # p => pay'[q] = pay[q]
    BY <1>2, <1>3 DEF StartCreate, booking
  <2>2. QED
    BY <1>1, <2>1
<1>4. ASSUME NEW c \in Callers, StartFailed(c)
      PROVE  StepKinds
  <2>1. Same /\ \A q \in Payments :
          pay'[q] = IF q \in starting[c].payment THEN NoPayment ELSE pay[q]
    BY <1>4 DEF StartFailed, booking
  <2>2. \A q \in Payments : q \in starting[c].payment => pay[q].status = "pending"
    BY DEF StartsPending
  <2>3. \A q \in Payments : Rest(q)
    BY <2>1, <2>2 DEF NoPayment
  <2>4. QED
    BY <1>1, <2>1, <2>3
<1>5. ASSUME NEW p \in Payments, NEW h \in Handlers, IpnFail(h, p)
      PROVE  StepKinds
  <2>1. pay' = [pay EXCEPT ![p].status = "failed"] /\ Same
    BY <1>5 DEF IpnFail, booking
  <2>2. pay[p].status # "verified"
    BY <1>5 DEF SparesVerified
  <2>3. pay'[p].status = "failed" /\ \A q \in Payments : q # p => pay'[q] = pay[q]
    BY <1>2, <2>1
  <2>4. QED
    BY <1>1, <2>1, <2>2, <2>3
<1>6. ASSUME NEW p \in Payments, NEW h \in Handlers, IpnVerify(h, p)
      PROVE  StepKinds
  BY <1>6 DEF IpnVerify, PaidFromLedger, Posted, StepKinds
<1>7. ASSUME \/ \E p \in Payments : Attempt(p) \/ \E h \in Handlers : IpnRead(h, p)
             \/ \E h \in Handlers : IpnIgnored(h)
             \/ \E c \in Callers : StartCheck(c) \/ StartOpened(c) \/ StartDies(c)
      PROVE  StepKinds
  <2>1. Same /\ pay' = pay
    BY <1>7 DEF IpnRead, IpnIgnored, Attempt, StartCheck, StartOpened, StartDies, booking
  <2>2. QED
    BY <1>1, <2>1
<1>8. QED
  BY <1>3, <1>4, <1>5, <1>6, <1>7

LEMMA ChargeKinds ==
  ASSUME \/ \E amount \in CodAmounts : Dispatch(amount)
         \/ \E fee \in LateFees : CalculateLateFees(fee)
         \/ ChargeExtension \/ Substitute \/ Advance \/ Complete \/ UNCHANGED vars
         \/ \E i \in Items, how \in {"refunded", "partially_refunded", "forfeited"}, extra \in {0, 1} :
              SettleDeposit(i, how, extra)
  PROVE  SumsKept /\ DepositsKept
<1>1. ASSUME NEW i \in Items, NEW how, NEW extra, SettleDeposit(i, how, extra)
      PROVE  SumsKept /\ DepositsKept
  BY <1>1 DEF SettleDeposit, Recharge, SumsKept, DepositsKept
<1>2. ASSUME UNCHANGED <<pay, totalPaid, depositStatus, settled>>
      PROVE  SumsKept /\ DepositsKept
  BY <1>2 DEF SumsKept, DepositsKept
<1>3. ASSUME NEW amount, Dispatch(amount)
      PROVE  UNCHANGED <<pay, totalPaid, depositStatus, settled>>
  BY <1>3 DEF Dispatch, booking
<1>4. ASSUME NEW fee, CalculateLateFees(fee)
      PROVE  UNCHANGED <<pay, totalPaid, depositStatus, settled>>
  BY <1>4 DEF CalculateLateFees, Recharge
<1>5. ASSUME ChargeExtension \/ Substitute \/ Advance \/ Complete \/ UNCHANGED vars
      PROVE  UNCHANGED <<pay, totalPaid, depositStatus, settled>>
  BY <1>5 DEF ChargeExtension, Substitute, Recharge, Advance, Complete, vars, booking
<1>6. QED
  BY <1>1, <1>2, <1>3, <1>4, <1>5

LEMMA NextKinds == Rows /\ StartsPending /\ SparesVerified /\ [Next]_vars => StepKinds
BY StaffKinds, GatewayKinds, ChargeKinds DEF Next, StepKinds

(* When a session ends with its first attempt: the booking's total is the    *)
(* sum of its verified payments, whatever staff, couriers, customers and late *)
(* or repeated notifications do at once.                                      *)
THEOREM LedgerAlwaysExact ==
  ASSUME ~RetryInSession
  PROVE  Spec => []LedgerExact
<1>1. Init => LedgerExact
  BY DEF Init, LedgerExact
<1>2. SessionsInv /\ LedgerExact /\ [Next]_vars => LedgerExact'
  BY NextKinds, SessionsSpare DEF StepKinds, Posted, CashPosted, SumsKept, LedgerExact
<1>3. SessionsInv /\ [Next]_vars => SessionsInv'
  BY NextSessions
<1>4. QED
  BY InitSessions, <1>1, <1>2, <1>3, PTL DEF Spec

(* Then a booking that completes has all that is due in verified payments,   *)
(* though its completion reads the total alone.                              *)
THEOREM CompletedIsPaid ==
  ASSUME ~RetryInSession
  PROVE  Spec => CompletesPaidInFull
<1>1. LedgerExact /\ [Next]_vars /\ status' = "completed" /\ status # "completed"
        => Paid(pay) >= grandTotal /\ settled = Items
  <2> SUFFICES ASSUME LedgerExact, [Next]_vars, status' = "completed", status # "completed"
               PROVE  Paid(pay) >= grandTotal /\ settled = Items
    OBVIOUS
  <2>1. ASSUME status' = status
        PROVE  FALSE
    BY <2>1
  <2>2. Complete \/ status' = status \/ status' # "completed"
    BY DEF Next, RecordPayment, ApproveClaim, RejectClaim, EnsureCodPayment, Attempt, StartCreate,
       IpnRead, IpnVerify, IpnFail, Dispatch, StartCheck, StartOpened, StartFailed, StartDies,
       IpnIgnored, CalculateLateFees, ChargeExtension, Substitute, SettleDeposit, Advance, vars
  <2>3. QED
    BY <2>1, <2>2 DEF Complete, Squared, LedgerExact
<1>2. LedgerExact /\ [Next]_vars =>
        [status' = "completed" /\ status # "completed"
           => Paid(pay) >= grandTotal /\ settled = Items]_vars
  BY <1>1
<1>3. Spec => []LedgerExact
  BY LedgerAlwaysExact
<1>4. QED
  BY <1>2, <1>3, PTL DEF Spec, CompletesPaidInFull

-----------------------------------------------------------------------------
(* Deposits.  Nothing but cash collections posts without projecting.         *)

DepositsInv ==
  /\ DOMAIN depositStatus = Items
  /\ cod.expected = 0
  /\ DepositStatusCurrent

LEMMA NoCash ==
  ASSUME CodAmounts = {}, cod.expected = 0, [Next]_vars
  PROVE  cod' = cod
<1>1. ASSUME NEW p \in Payments
      PROVE  ~EnsureCodPayment(p)
  BY DEF EnsureCodPayment
<1>2. QED
  BY <1>1 DEF Next, RecordPayment, ApproveClaim, RejectClaim, Attempt, StartCreate,
     IpnRead, IpnVerify, IpnFail, StartCheck, StartOpened, StartFailed, StartDies,
     IpnIgnored, CalculateLateFees, ChargeExtension, Substitute, SettleDeposit, Advance, Complete, vars

LEMMA NextDeposits ==
  ASSUME CodAmounts = {}, SessionsInv, DepositsInv, [Next]_vars
  PROVE  DepositsInv'
<1>1. cod' = cod /\ cod.expected = 0
  BY NoCash DEF DepositsInv
<1>2. CASE Posted
  <2>1. \A i \in Items \ settled : depositStatus[i] \in {"pending", "collected", "held"}
    BY DEF DepositsInv, DepositStatusCurrent, ProjectedDeposit
  <2>2. /\ DOMAIN depositStatus' = Items
        /\ \A i \in Items \ settled' : depositStatus'[i] = ProjectedDeposit(DepositPaid(pay'))
    BY <1>2, <2>1 DEF Posted, UpdateDepositProjection
  <2>3. QED
    BY <1>1, <2>2 DEF DepositsInv, DepositStatusCurrent, ProjectedDeposit
<1>3. CASE SumsKept /\ DepositsKept
  <2>1. /\ DOMAIN depositStatus' = Items /\ settled \subseteq settled'
        /\ \A i \in Items \ settled' : depositStatus'[i] = depositStatus[i]
    BY <1>3 DEF DepositsKept, DepositsInv
  <2>2. \A i \in Items \ settled' : depositStatus'[i] = ProjectedDeposit(DepositPaid(pay'))
    BY <1>3, <2>1 DEF SumsKept, DepositsInv, DepositStatusCurrent
  <2>3. QED
    BY <1>1, <2>1, <2>2 DEF DepositsInv, DepositStatusCurrent, ProjectedDeposit
<1>4. ~CashPosted
  BY <1>1 DEF CashPosted, EnsureCodPayment
<1>5. QED
  BY <1>2, <1>3, <1>4, NextKinds, SessionsSpare DEF StepKinds

(* Where no courier collects cash and a session ends with its first attempt: *)
(* an unsettled deposit's status says how much deposit was collected.        *)
THEOREM DepositStatusAlwaysCurrent ==
  ASSUME ~RetryInSession, CodAmounts = {}
  PROVE  Spec => []DepositStatusCurrent
<1>1. Init => DepositsInv
  BY DEF Init, DepositsInv, DepositStatusCurrent
<1>2. SessionsInv /\ DepositsInv /\ [Next]_vars => DepositsInv'
  BY NextDeposits
<1>3. SessionsInv /\ [Next]_vars => SessionsInv'
  BY NextSessions
<1>4. DepositsInv => DepositStatusCurrent
  BY DEF DepositsInv
<1>5. QED
  BY InitSessions, <1>1, <1>2, <1>3, <1>4, PTL DEF Spec

-----------------------------------------------------------------------------
(* The payment status.  A notification compares with a total it read before  *)
(* the lock; a booking that is not paid online never sees one.               *)

NoOnline ==
  /\ DOMAIN pay = Payments
  /\ \A p \in Payments : /\ DOMAIN pay[p] = {"status", "method", "amount", "deposit"}
                         /\ pay[p].method # "gateway"
  /\ \A c \in Callers : starting[c].at = "idle"
  /\ \A h \in Handlers : handling[h].kind = "idle"

LEMMA NothingOnline ==
  ASSUME Method # "sslcommerz", NoOnline
  PROVE  /\ \A c \in Callers : ~(StartCheck(c) \/ StartOpened(c) \/ StartFailed(c) \/ StartDies(c))
         /\ \A c \in Callers, p \in Payments : ~StartCreate(c, p)
         /\ \A h \in Handlers, p \in Payments : ~(IpnRead(h, p) \/ IpnVerify(h, p) \/ IpnFail(h, p))
         /\ \A h \in Handlers : ~IpnIgnored(h)
<1>1. PendingOnline = {}
  BY DEF NoOnline, PendingOnline
<1>2. QED
  BY <1>1 DEF NoOnline, StartCheck, StartOpened, StartFailed, StartDies, StartCreate, IpnRead,
     IpnVerify, IpnFail, IpnIgnored

LEMMA NextCurrent ==
  ASSUME Method # "sslcommerz", NoOnline, PaymentStatusCurrent, [Next]_vars
  PROVE  NoOnline' /\ PaymentStatusCurrent'
<1> DEFINE Quiet == UNCHANGED <<starting, handling>>
<1>1. ASSUME NEW p \in Payments, NEW row,
             DOMAIN row = {"status", "method", "amount", "deposit"}, row.method # "gateway",
             pay' = [pay EXCEPT ![p] = row], Quiet
      PROVE  NoOnline'
  <2>1. /\ DOMAIN pay' = Payments /\ pay'[p] = row
        /\ \A q \in Payments : q # p => pay'[q] = pay[q]
    BY <1>1 DEF NoOnline
  <2>2. QED
    BY <1>1, <2>1 DEF NoOnline
<1>2. ASSUME NEW p \in Payments, NEW amount, NEW deposit, RecordPayment(p, amount, deposit)
      PROVE  NoOnline' /\ PaymentStatusCurrent'
  <2>1. Quiet /\ PaymentStatusCurrent'
    BY <1>2 DEF RecordPayment, Post, PaymentStatusCurrent, CalculatePaymentStatus, gateway
  <2> DEFINE row == [status |-> "verified", method |-> "manual",
                     amount |-> amount, deposit |-> deposit]
  <2>2. pay' = [pay EXCEPT ![p] = row]
    BY <1>2 DEF RecordPayment, Post
  <2>3. DOMAIN row = {"status", "method", "amount", "deposit"} /\ row.method # "gateway"
    OBVIOUS
  <2> HIDE DEF row
  <2>4. QED
    BY <1>1, <2>1, <2>2, <2>3
<1>3. ASSUME NEW p \in Payments, EnsureCodPayment(p)
      PROVE  NoOnline' /\ PaymentStatusCurrent'
  <2>1. Quiet /\ PaymentStatusCurrent'
    BY <1>3 DEF EnsureCodPayment, PaymentStatusCurrent, CalculatePaymentStatus, gateway
  <2> DEFINE row == [status |-> "verified", method |-> "cod",
                     amount |-> cod.expected, deposit |-> CodDeposit]
  <2>2. pay' = [pay EXCEPT ![p] = row]
    BY <1>3 DEF EnsureCodPayment
  <2>3. DOMAIN row = {"status", "method", "amount", "deposit"} /\ row.method # "gateway"
    OBVIOUS
  <2> HIDE DEF row
  <2>4. QED
    BY <1>1, <2>1, <2>2, <2>3
<1>4. ASSUME NEW p \in Payments, ApproveClaim(p) \/ RejectClaim(p)
      PROVE  NoOnline' /\ PaymentStatusCurrent'
  <2>1. Quiet /\ PaymentStatusCurrent'
    BY <1>4 DEF ApproveClaim, RejectClaim, Post, PaymentStatusCurrent, CalculatePaymentStatus,
       gateway, booking
  <2>2. PICK st : pay' = [pay EXCEPT ![p].status = st]
    BY <1>4 DEF ApproveClaim, RejectClaim, Post
  <2>3. /\ DOMAIN pay = Payments /\ DOMAIN pay[p] = {"status", "method", "amount", "deposit"}
        /\ pay[p].method # "gateway"
    BY DEF NoOnline
  <2>4. /\ pay' = [pay EXCEPT ![p] = [pay[p] EXCEPT !.status = st]]
        /\ DOMAIN [pay[p] EXCEPT !.status = st] = DOMAIN pay[p]
        /\ [pay[p] EXCEPT !.status = st].method = pay[p].method
    BY <2>2, <2>3
  <2>5. QED
    BY <1>1, <2>1, <2>3, <2>4
<1>5. ASSUME UNCHANGED <<pay, starting, handling>>
      PROVE  NoOnline'
  BY <1>5 DEF NoOnline
<1>6. ASSUME \/ \E p \in Payments : Attempt(p)
             \/ \E amount \in CodAmounts : Dispatch(amount)
             \/ Advance \/ Complete \/ UNCHANGED vars
      PROVE  NoOnline' /\ PaymentStatusCurrent'
  <2>1. UNCHANGED <<pay, starting, handling, totalPaid, paymentStatus, grandTotal>>
    BY <1>6 DEF Attempt, Dispatch, Advance, Complete, vars, gateway, booking
  <2>2. QED
    BY <1>5, <2>1 DEF PaymentStatusCurrent, CalculatePaymentStatus
<1>7. ASSUME NEW total, Recharge(total), UNCHANGED gateway
      PROVE  NoOnline' /\ PaymentStatusCurrent'
  BY <1>5, <1>7 DEF Recharge, gateway, PaymentStatusCurrent, CalculatePaymentStatus
<1>8. ASSUME NEW i, NEW how, NEW extra, SettleDeposit(i, how, extra)
      PROVE  NoOnline' /\ PaymentStatusCurrent'
  <2>1. UNCHANGED gateway /\ (Recharge(grandTotal + extra)
          \/ UNCHANGED <<grandTotal, totalPaid, paymentStatus, pay, charges>>)
    BY <1>8 DEF SettleDeposit
  <2>2. QED
    BY <1>5, <1>7, <2>1 DEF gateway, PaymentStatusCurrent, CalculatePaymentStatus
<1>9. ASSUME ChargeExtension \/ Substitute \/ \E fee \in LateFees : CalculateLateFees(fee)
      PROVE  NoOnline' /\ PaymentStatusCurrent'
  <2>1. UNCHANGED gateway /\ \E total : Recharge(total)
    BY <1>9 DEF ChargeExtension, Substitute, CalculateLateFees
  <2>2. QED
    BY <1>7, <2>1
<1>10. QED
  BY <1>2, <1>3, <1>4, <1>6, <1>8, <1>9, NothingOnline DEF Next

(* A booking not paid online: its payment status is what its amounts say,    *)
(* after any sequence of payments, claims, cash, charges and settlements.    *)
THEOREM PaymentStatusAlwaysCurrent ==
  ASSUME Method # "sslcommerz"
  PROVE  Spec => []PaymentStatusCurrent
<1>1. Init => NoOnline /\ PaymentStatusCurrent
  BY InitRows DEF Init, NoOnline, PaymentStatusCurrent, NoStart, NoNotice
<1>2. NoOnline /\ PaymentStatusCurrent /\ [Next]_vars => NoOnline' /\ PaymentStatusCurrent'
  BY NextCurrent
<1>3. QED
  BY <1>1, <1>2, PTL DEF Spec

-----------------------------------------------------------------------------
(* Types.  A row is there when it has an amount, of which its deposit is a   *)
(* part; the gateway's calls and notifications are about rows that are there. *)

RowType ==
  {row \in [status : {"NONE", "pending", "verified", "failed"},
            method : {"manual", "claim", "cod", "gateway"}, amount : Nat, deposit : Nat] :
     /\ row.deposit <= row.amount
     /\ row.status = "NONE" <=> row.amount = 0}
StartType ==
  {start \in [at : {"idle", "create", "call"}, amount : Nat, deposit : Nat,
              payment : SUBSET Payments] :
     start.at = "create" => start.amount > 0 /\ start.deposit <= start.amount}
NoticeType ==
  [kind : {"idle", "FAILED", "VALID"}, payment : SUBSET Payments, total : Nat, paid : Nat]

LedgerType ==
  /\ pay \in [Payments -> RowType]
  /\ starting \in [Callers -> StartType]
  /\ session \in [Payments -> {"none", "open", "failed", "paid", "paid at last"}]
  /\ handling \in [Handlers -> NoticeType]
AboutRows ==
  /\ \A p \in Payments : session[p] # "none" => pay[p].status # "NONE"
  /\ \A c \in Callers, p \in Payments :
       p \in starting[c].payment => session[p] = "none" /\ pay[p].status # "NONE"
  /\ \A c, d \in Callers, p \in Payments :
       p \in starting[c].payment /\ p \in starting[d].payment => c = d
  /\ \A h \in Handlers, p \in Payments :
       p \in handling[h].payment => session[p] # "none"
BookingType ==
  /\ status \in {"confirmed", "delivered", "inspected", "completed"}
  /\ grandTotal \in Nat /\ lateFee \in LateFees \cup {0} /\ totalPaid \in Nat
  /\ paymentStatus \in {"unpaid", "partial", "paid"}
  /\ depositStatus \in [Items -> {"pending", "collected", "held",
                                  "refunded", "partially_refunded", "forfeited"}]
  /\ settled \subseteq Items
  /\ charges \in 0..MaxCharges
  /\ cod \in [expected : CodAmounts \cup {0}, collected : BOOLEAN]

TypeInv == LedgerType /\ AboutRows /\ BookingType

(* The sums over the verified rows of a ledger.                              *)
LEMMA SumsAreNat ==
  ASSUME NEW ledger \in [Payments -> RowType]
  PROVE  Paid(ledger) \in Nat /\ DepositPaid(ledger) \in Nat
<1> DEFINE amounts == [p \in Verified(ledger) |-> ledger[p].amount]
           deposits == [p \in Verified(ledger) |-> ledger[p].deposit]
<1>1. IsFiniteSet(Verified(ledger))
  BY LedgerAssumption, FS_Subset DEF Verified
<1>2. \A p \in Verified(ledger) : amounts[p] \in Nat /\ deposits[p] \in Nat
  BY DEF Verified, RowType
<1>3. /\ Paid(ledger) = SumFunctionOnSet(amounts, Verified(ledger))
      /\ DepositPaid(ledger) = SumFunctionOnSet(deposits, Verified(ledger))
  BY DEF Paid, DepositPaid, SumFunction
<1> HIDE DEF amounts, deposits
<1>4. QED
  BY <1>1, <1>2, <1>3, SumGrows

(* One more row verified adds its amount and its deposit.                    *)
LEMMA RowAdds ==
  ASSUME NEW ledger \in [Payments -> RowType], NEW p \in Payments, NEW row \in RowType,
         ledger[p].status # "verified", row.status = "verified"
  PROVE  /\ Paid([ledger EXCEPT ![p] = row]) = Paid(ledger) + row.amount
         /\ DepositPaid([ledger EXCEPT ![p] = row]) = DepositPaid(ledger) + row.deposit
<1> DEFINE next == [ledger EXCEPT ![p] = row]
           S == Verified(ledger)
           AmountsOf(l) == [q \in Verified(l) |-> l[q].amount]
           DepositsOf(l) == [q \in Verified(l) |-> l[q].deposit]
<1>1. /\ IsFiniteSet(S) /\ p \notin S
      /\ \A q \in S : /\ AmountsOf(ledger)[q] = ledger[q].amount /\ ledger[q].amount \in Nat
                      /\ DepositsOf(ledger)[q] = ledger[q].deposit /\ ledger[q].deposit \in Nat
  BY LedgerAssumption, FS_Subset DEF Verified, RowType
<1>2. /\ Verified(next) = S \cup {p}
      /\ next[p] = row /\ row.amount \in Nat /\ row.deposit \in Nat
      /\ \A q \in S : next[q] = ledger[q]
  BY DEF Verified, RowType
<1>3. \A q \in S \cup {p} : /\ AmountsOf(next)[q] = next[q].amount
                            /\ DepositsOf(next)[q] = next[q].deposit
  BY <1>2
<1>4. /\ Paid(ledger) = SumFunctionOnSet(AmountsOf(ledger), S)
      /\ DepositPaid(ledger) = SumFunctionOnSet(DepositsOf(ledger), S)
      /\ Paid(next) = SumFunctionOnSet(AmountsOf(next), S \cup {p})
      /\ DepositPaid(next) = SumFunctionOnSet(DepositsOf(next), S \cup {p})
  BY <1>2 DEF Paid, DepositPaid, SumFunction
<1> HIDE DEF next, S, AmountsOf, DepositsOf
<1>5. /\ SumFunctionOnSet(AmountsOf(next), S \cup {p}) = row.amount + SumFunctionOnSet(AmountsOf(next), S)
      /\ SumFunctionOnSet(DepositsOf(next), S \cup {p}) = row.deposit + SumFunctionOnSet(DepositsOf(next), S)
  <2>1. \A q \in S \cup {p} : AmountsOf(next)[q] \in Int /\ DepositsOf(next)[q] \in Int
    BY <1>1, <1>2, <1>3
  <2>2. AmountsOf(next)[p] = row.amount /\ DepositsOf(next)[p] = row.deposit
    BY <1>2, <1>3
  <2>3. SumFunctionOnSet(AmountsOf(next), S \cup {p})
          = AmountsOf(next)[p] + SumFunctionOnSet(AmountsOf(next), S)
    BY <1>1, <2>1, OneMore
  <2>4. SumFunctionOnSet(DepositsOf(next), S \cup {p})
          = DepositsOf(next)[p] + SumFunctionOnSet(DepositsOf(next), S)
    BY <1>1, <2>1, OneMore
  <2>5. QED
    BY <2>2, <2>3, <2>4
<1>6. /\ SumFunctionOnSet(AmountsOf(next), S) = SumFunctionOnSet(AmountsOf(ledger), S)
      /\ SumFunctionOnSet(DepositsOf(next), S) = SumFunctionOnSet(DepositsOf(ledger), S)
  <2>1. \A q \in S : /\ AmountsOf(next)[q] = AmountsOf(ledger)[q]
                     /\ DepositsOf(next)[q] = DepositsOf(ledger)[q]
    BY <1>1, <1>2, <1>3
  <2>2. QED
    BY <1>1, <2>1, SameSum
<1>7. Paid(ledger) \in Nat /\ DepositPaid(ledger) \in Nat
  BY SumsAreNat
<1>8. QED
  BY <1>2, <1>4, <1>5, <1>6, <1>7 DEF next

(* At first at most one row is verified: the sums are its amounts.           *)
LEMMA InitSums ==
  ASSUME Init
  PROVE  \/ Verified(pay) = {} /\ Paid(pay) = 0 /\ DepositPaid(pay) = 0
         \/ \E p \in Payments :
              /\ Verified(pay) = {p} /\ pay[p] \in InitialPayments
              /\ Paid(pay) = pay[p].amount /\ DepositPaid(pay) = pay[p].deposit
<1> DEFINE none == [p \in Payments |-> NoPayment]
<1>1. none \in [Payments -> RowType] /\ Verified(none) = {}
  BY DEF NoPayment, RowType, Verified
<1>2. Paid(none) = 0 /\ DepositPaid(none) = 0
  <2>1. /\ DOMAIN [p \in Verified(none) |-> none[p].amount] = {}
        /\ DOMAIN [p \in Verified(none) |-> none[p].deposit] = {}
    BY <1>1
  <2>2. QED
    BY <2>1, EmptySum DEF Paid, DepositPaid, SumFunction
<1>3. PICK first \in Payments, row \in Created :
        pay = [p \in Payments |-> IF p = first THEN row ELSE NoPayment]
  BY DEF Init
<1>4. pay = [none EXCEPT ![first] = row]
  BY <1>3
<1>5. CASE row = NoPayment \/ row = Claim
  <2>1. \A p \in Payments : pay[p].status # "verified"
    BY <1>3, <1>5 DEF NoPayment, Claim
  <2>2. Verified(pay) = {}
    BY <2>1 DEF Verified
  <2>3. /\ DOMAIN [p \in Verified(pay) |-> pay[p].amount] = {}
        /\ DOMAIN [p \in Verified(pay) |-> pay[p].deposit] = {}
    BY <2>2
  <2>4. QED
    BY <2>2, <2>3, EmptySum DEF Paid, DepositPaid, SumFunction
<1>6. CASE row \in InitialPayments /\ row.status = "verified" /\ row.amount >= 1
  <2>1. row \in RowType /\ none[first].status # "verified"
    BY <1>6, CreatedRow, DepositIsNat, LedgerAssumption DEF InitialPayments, RowType, NoPayment
  <2>2. Verified(pay) = {first} /\ pay[first] = row
    BY <1>3, <1>6 DEF Verified, NoPayment
  <2> HIDE DEF none
  <2>3. /\ Paid(pay) = Paid(none) + row.amount
        /\ DepositPaid(pay) = DepositPaid(none) + row.deposit
    BY <1>1, <1>4, <1>6, <2>1, RowAdds
  <2>4. row.amount \in Nat /\ row.deposit \in Nat
    BY CreatedRow
  <2>5. QED
    BY <1>2, <1>6, <2>2, <2>3, <2>4
<1>7. QED
  BY <1>5, <1>6, CreatedRow

(* A claim that waits is then the only row.                                  *)
LEMMA OneCreated ==
  ASSUME Init, NEW p \in Payments, pay[p].status = "pending"
  PROVE  Paid(pay) = 0 /\ DepositPaid(pay) = 0
<1>1. PICK first \in Payments, row \in Created :
        pay = [q \in Payments |-> IF q = first THEN row ELSE NoPayment]
  BY DEF Init
<1>2. p = first /\ row.status = "pending"
  BY <1>1 DEF NoPayment
<1>3. \A q \in Payments : pay[q].status # "verified"
  BY <1>1, <1>2 DEF NoPayment
<1>4. Verified(pay) = {}
  BY <1>3 DEF Verified
<1>5. QED
  BY <1>4, InitSums

(* What a created booking has paid is within its deposit.                    *)
LEMMA CreatedWithinDeposit ==
  ASSUME Init
  PROVE  /\ Paid(pay) \in Nat /\ DepositPaid(pay) \in Nat
         /\ DepositPaid(pay) <= TotalDeposit
<1>1. CASE Verified(pay) = {} /\ Paid(pay) = 0 /\ DepositPaid(pay) = 0
  BY <1>1, DepositIsNat
<1>2. ASSUME NEW p \in Payments, pay[p] \in InitialPayments,
             Paid(pay) = pay[p].amount, DepositPaid(pay) = pay[p].deposit
      PROVE  /\ Paid(pay) \in Nat /\ DepositPaid(pay) \in Nat
             /\ DepositPaid(pay) <= TotalDeposit
  BY <1>2, DepositIsNat, LedgerAssumption DEF InitialPayments
<1>3. QED
  BY <1>1, <1>2, InitSums

LEMMA InitTypes == Init => TypeInv
<1> SUFFICES ASSUME Init
             PROVE  TypeInv
  OBVIOUS
<1> USE LedgerAssumption, DepositIsNat
<1>1. \A row \in Created : row \in RowType
  <2> SUFFICES ASSUME NEW row \in Created
               PROVE  row \in RowType
    OBVIOUS
  <2>1. CASE row = NoPayment
    BY <2>1 DEF NoPayment, RowType
  <2>2. CASE row = Claim
    BY <2>2 DEF Claim, RowType
  <2>3. CASE row \in InitialPayments
    BY <2>3 DEF InitialPayments, RowType
  <2>4. QED
    BY <2>1, <2>2, <2>3, CreatedRow
<1>2. PICK first \in Payments, row \in Created :
        pay = [p \in Payments |-> IF p = first THEN row ELSE NoPayment]
  BY DEF Init
<1>3. NoPayment \in Created
  BY DEF Created
<1>4. pay \in [Payments -> RowType]
  BY <1>1, <1>2, <1>3
<1>5. /\ starting = [c \in Callers |-> NoStart] /\ NoStart \in StartType
      /\ session = [p \in Payments |-> "none"]
      /\ handling = [h \in Handlers |-> NoNotice] /\ NoNotice \in NoticeType
  BY DEF Init, NoStart, NoNotice, StartType, NoticeType
<1>6. LedgerType
  BY <1>4, <1>5 DEF LedgerType
<1>7. AboutRows
  BY <1>5 DEF AboutRows, NoStart, NoNotice
<1>8. BookingType
  <2>1. Paid(pay) \in Nat
    BY <1>4, SumsAreNat
  <2>2. QED
    BY <2>1 DEF Init, BookingType, CalculatePaymentStatus, ProjectedDeposit
<1>9. QED
  BY <1>6, <1>7, <1>8 DEF TypeInv

(* A row is written, and at most a notification is done with.                *)
LEMMA RowPut ==
  ASSUME LedgerType, AboutRows, NEW p \in Payments, NEW row \in RowType, row.status # "NONE",
         pay' = [pay EXCEPT ![p] = row], UNCHANGED <<starting, session>>,
         \/ handling' = handling
         \/ \E h \in Handlers : handling' = [handling EXCEPT ![h] = NoNotice]
  PROVE  LedgerType' /\ AboutRows'
<1>1. /\ pay'[p] = row
      /\ \A q \in Payments : pay'[q].status = "NONE" => pay[q].status = "NONE"
  BY DEF LedgerType
<1>2. /\ handling' \in [Handlers -> NoticeType]
      /\ \A h \in Handlers : handling'[h].payment \subseteq handling[h].payment
  <2>1. NoNotice \in NoticeType /\ NoNotice.payment = {}
    BY DEF NoNotice, NoticeType
  <2>2. QED
    BY <2>1 DEF LedgerType
<1>3. LedgerType'
  BY <1>2 DEF LedgerType
<1>4. QED
  BY <1>1, <1>2, <1>3 DEF AboutRows

LEMMA StaffTypes ==
  ASSUME TypeInv, NEW p \in Payments,
         \/ \E amount \in Amounts, deposit \in 0..TotalDeposit : RecordPayment(p, amount, deposit)
         \/ ApproveClaim(p) \/ RejectClaim(p) \/ EnsureCodPayment(p)
  PROVE  TypeInv'
<1> USE LedgerAssumption, DepositIsNat DEF TypeInv
<1>1. pay[p] \in RowType /\ DOMAIN pay[p] = {"status", "method", "amount", "deposit"}
  BY DEF LedgerType, RowType
<1>2. PICK row \in RowType : /\ pay' = [pay EXCEPT ![p] = row] /\ row.status # "NONE"
  <2>1. ASSUME NEW amount \in Amounts, NEW deposit \in 0..TotalDeposit,
               RecordPayment(p, amount, deposit)
        PROVE  \E row \in RowType : pay' = [pay EXCEPT ![p] = row] /\ row.status # "NONE"
    <3> DEFINE row == [status |-> "verified", method |-> "manual",
                       amount |-> amount, deposit |-> deposit]
    <3>1. amount \in Nat \ {0} /\ deposit \in Nat /\ deposit <= amount
      BY <2>1 DEF Amounts, RecordPayment, FitsBalance
    <3>2. row \in RowType /\ row.status # "NONE"
      BY <3>1 DEF RowType
    <3>3. pay' = [pay EXCEPT ![p] = row]
      BY <2>1 DEF RecordPayment, Post
    <3> HIDE DEF row
    <3>4. QED
      BY <3>2, <3>3
  <2>2. ASSUME EnsureCodPayment(p)
        PROVE  \E row \in RowType : pay' = [pay EXCEPT ![p] = row] /\ row.status # "NONE"
    <3> DEFINE row == [status |-> "verified", method |-> "cod",
                       amount |-> cod.expected, deposit |-> CodDeposit]
    <3>1. cod.expected \in Nat \ {0}
      BY <2>2 DEF EnsureCodPayment, BookingType
    <3>2. DepositPaid(pay) \in Nat
      BY SumsAreNat DEF LedgerType
    <3>3. CodDeposit \in Nat /\ CodDeposit <= cod.expected
      BY <3>1, <3>2 DEF CodDeposit, LeastOf, NotNegative
    <3>4. row \in RowType /\ row.status # "NONE"
      BY <3>1, <3>3 DEF RowType
    <3>5. pay' = [pay EXCEPT ![p] = row]
      BY <2>2 DEF EnsureCodPayment
    <3> HIDE DEF row
    <3>6. QED
      BY <3>4, <3>5
  <2>3. ASSUME ApproveClaim(p) \/ RejectClaim(p)
        PROVE  \E row \in RowType : pay' = [pay EXCEPT ![p] = row] /\ row.status # "NONE"
    <3>1. PICK st \in {"verified", "failed"} :
            pay' = [pay EXCEPT ![p].status = st] /\ pay[p].status = "pending"
      BY <2>3 DEF ApproveClaim, RejectClaim, Post
    <3> DEFINE row == [pay[p] EXCEPT !.status = st]
    <3>2. row \in RowType /\ row.status # "NONE"
      BY <1>1, <3>1 DEF RowType
    <3>3. pay' = [pay EXCEPT ![p] = row]
      BY <3>1
    <3> HIDE DEF row
    <3>4. QED
      BY <3>2, <3>3
  <2>4. QED
    BY <2>1, <2>2, <2>3
<1>3. LedgerType' /\ AboutRows'
  <2>1. UNCHANGED <<starting, session, handling>>
    BY DEF RecordPayment, ApproveClaim, RejectClaim, EnsureCodPayment, gateway
  <2>2. QED
    BY <1>2, <2>1, RowPut
<1>4. Paid(pay') \in Nat
  BY <1>3, SumsAreNat DEF LedgerType
<1>5. BookingType'
  <2>1. \/ totalPaid' = totalPaid \/ totalPaid' = Paid(pay')
    BY DEF RecordPayment, ApproveClaim, RejectClaim, EnsureCodPayment, Post, booking
  <2>2. UNCHANGED <<status, grandTotal, lateFee, settled, charges>>
    BY DEF RecordPayment, ApproveClaim, RejectClaim, EnsureCodPayment, Post, booking
  <2>3. paymentStatus' \in {"unpaid", "partial", "paid"}
    BY DEF RecordPayment, ApproveClaim, RejectClaim, EnsureCodPayment, Post, booking,
           CalculatePaymentStatus, BookingType
  <2>4. depositStatus' \in [Items -> {"pending", "collected", "held",
                                      "refunded", "partially_refunded", "forfeited"}]
    BY DEF RecordPayment, ApproveClaim, RejectClaim, EnsureCodPayment, Post,
           UpdateDepositProjection, ProjectedDeposit, BookingType
  <2>5. cod' \in [expected : CodAmounts \cup {0}, collected : BOOLEAN]
    BY DEF RecordPayment, ApproveClaim, RejectClaim, EnsureCodPayment, BookingType
  <2>6. QED
    BY <1>4, <2>1, <2>2, <2>3, <2>4, <2>5 DEF BookingType
<1>6. QED
  BY <1>3, <1>5

LEMMA GatewayTypes ==
  ASSUME TypeInv,
         \/ \E p \in Payments :
              \/ \E c \in Callers : StartCreate(c, p)
              \/ \E h \in Handlers : IpnRead(h, p) \/ IpnVerify(h, p) \/ IpnFail(h, p)
              \/ Attempt(p)
         \/ \E c \in Callers : StartCheck(c) \/ StartOpened(c) \/ StartFailed(c) \/ StartDies(c)
         \/ \E h \in Handlers : IpnIgnored(h)
  PROVE  TypeInv'
<1> USE LedgerAssumption, DepositIsNat DEF TypeInv
<1> DEFINE Booked == UNCHANGED <<status, booking, depositStatus, settled, charges, cod>>
<1>1. ASSUME Booked
      PROVE  BookingType'
  BY <1>1 DEF BookingType, booking
<1>2. NoStart \in StartType /\ NoStart.payment = {} /\ NoNotice \in NoticeType /\ NoNotice.payment = {}
  BY DEF NoStart, StartType, NoNotice, NoticeType
<1>3. Paid(pay) \in Nat /\ DepositPaid(pay) \in Nat
  BY SumsAreNat DEF LedgerType
<1>4. ASSUME NEW c \in Callers, StartCheck(c) \/ StartDies(c)
      PROVE  TypeInv'
  <2>1. PICK start \in StartType : /\ start.payment = {}
                                   /\ starting' = [starting EXCEPT ![c] = start]
    <3>1. CASE StartDies(c)
      BY <1>2, <3>1 DEF StartDies
    <3>2. CASE StartCheck(c)
      <4> DEFINE amount == grandTotal - Paid(pay)
                 deposit == NotNegative(TotalDeposit - DepositPaid(pay))
                 start == [at |-> "create", amount |-> amount, deposit |-> deposit, payment |-> {}]
      <4>1. amount \in Nat /\ amount > 0 /\ deposit \in Nat /\ deposit <= amount
        BY <1>3, <3>2 DEF StartCheck, NotNegative, BookingType
      <4>2. starting' = [starting EXCEPT ![c] = start]
        BY <3>2 DEF StartCheck
      <4> HIDE DEF amount, deposit
      <4>3. start \in StartType /\ start.payment = {}
        BY <4>1 DEF StartType
      <4> HIDE DEF start
      <4>4. QED
        BY <4>2, <4>3
    <3>3. QED
      BY <1>4, <3>1, <3>2
  <2>2. Booked /\ UNCHANGED <<pay, session, handling>>
    BY <1>4 DEF StartCheck, StartDies
  <2>3. LedgerType'
    BY <2>1, <2>2 DEF LedgerType
  <2>4. AboutRows'
    <3>1. \A d \in Callers : starting'[d].payment \subseteq starting[d].payment
      BY <2>1 DEF LedgerType
    <3>2. QED
      BY <2>2, <3>1 DEF AboutRows
  <2>5. QED
    BY <1>1, <2>2, <2>3, <2>4
<1>5. ASSUME NEW p \in Payments, NEW c \in Callers, StartCreate(c, p)
      PROVE  TypeInv'
  <2> DEFINE row == [status |-> "pending", method |-> "gateway",
                     amount |-> starting[c].amount, deposit |-> starting[c].deposit]
             start == [starting[c] EXCEPT !.at = "call", !.payment = {p}]
  <2>1. starting[c].at = "create" /\ starting[c] \in StartType
    BY <1>5 DEF StartCreate, LedgerType
  <2>2. row \in RowType /\ row.status # "NONE"
    BY <2>1 DEF RowType, StartType
  <2>3. start \in StartType /\ start.payment = {p}
    BY <2>1 DEF StartType
  <2>4. starting' = [starting EXCEPT ![c] = start]
    <3>1. DOMAIN starting[c] = {"at", "amount", "deposit", "payment"}
      BY <2>1 DEF StartType
    <3>2. QED
      BY <1>5, <3>1 DEF StartCreate
  <2>5. /\ pay' = [pay EXCEPT ![p] = row] /\ pay[p].status = "NONE"
        /\ Booked /\ UNCHANGED <<session, handling>>
    BY <1>5 DEF StartCreate
  <2> HIDE DEF row, start
  <2>6. LedgerType'
    BY <2>2, <2>3, <2>4, <2>5 DEF LedgerType
  <2>7. AboutRows'
    <3>1. /\ pay'[p] = row /\ \A q \in Payments : q # p => pay'[q] = pay[q]
          /\ starting'[c] = start /\ \A d \in Callers : d # c => starting'[d] = starting[d]
      BY <2>4, <2>5 DEF LedgerType
    <3>2. session[p] = "none" /\ \A d \in Callers : p \notin starting[d].payment
      BY <2>5 DEF AboutRows, LedgerType
    <3>3. QED
      BY <2>2, <2>3, <2>5, <3>1, <3>2 DEF AboutRows
  <2>8. QED
    BY <1>1, <2>5, <2>6, <2>7
<1>6. ASSUME NEW c \in Callers, StartOpened(c)
      PROVE  TypeInv'
  <2>1. /\ starting' = [starting EXCEPT ![c] = NoStart]
        /\ session' = [p \in Payments |-> IF p \in starting[c].payment THEN "open" ELSE session[p]]
        /\ Booked /\ UNCHANGED <<pay, handling>>
    BY <1>6 DEF StartOpened
  <2>2. LedgerType'
    BY <1>2, <2>1 DEF LedgerType
  <2>3. AboutRows'
    <3>1. /\ starting'[c].payment = {} /\ \A d \in Callers : d # c => starting'[d] = starting[d]
      BY <1>2, <2>1 DEF LedgerType
    <3>2. \A p \in Payments : session[p] # "none" => session'[p] # "none"
      BY <2>1
    <3>3. QED
      BY <2>1, <3>1, <3>2 DEF AboutRows
  <2>4. QED
    BY <1>1, <2>1, <2>2, <2>3
<1>7. ASSUME NEW c \in Callers, StartFailed(c)
      PROVE  TypeInv'
  <2>1. /\ starting' = [starting EXCEPT ![c] = NoStart]
        /\ pay' = [p \in Payments |-> IF p \in starting[c].payment THEN NoPayment ELSE pay[p]]
        /\ Booked /\ UNCHANGED <<session, handling>>
    BY <1>7 DEF StartFailed
  <2>2. LedgerType'
    <3>1. NoPayment \in RowType
      BY DEF NoPayment, RowType
    <3>2. QED
      BY <1>2, <2>1, <3>1 DEF LedgerType
  <2>3. AboutRows'
    <3>1. /\ starting'[c].payment = {} /\ \A d \in Callers : d # c => starting'[d] = starting[d]
      BY <1>2, <2>1 DEF LedgerType
    <3>2. QED
      BY <2>1, <3>1 DEF AboutRows
  <2>4. QED
    BY <1>1, <2>1, <2>2, <2>3
<1>8. ASSUME NEW p \in Payments, Attempt(p)
      PROVE  TypeInv'
  <2>1. PICK result \in {"failed", "paid", "paid at last"} :
          session[p] # "none" /\ session' = [session EXCEPT ![p] = result]
    BY <1>8 DEF Attempt
  <2>2. Booked /\ UNCHANGED <<pay, starting, handling>>
    BY <1>8 DEF Attempt
  <2>3. LedgerType'
    BY <2>1, <2>2 DEF LedgerType
  <2>4. AboutRows'
    <3>1. \A q \in Payments : session'[q] = "none" <=> session[q] = "none"
      BY <2>1 DEF LedgerType
    <3>2. QED
      BY <2>2, <3>1 DEF AboutRows
  <2>5. QED
    BY <1>1, <2>2, <2>3, <2>4
<1>9. ASSUME NEW p \in Payments, NEW h \in Handlers, IpnRead(h, p)
      PROVE  TypeInv'
  <2>1. PICK kind \in Notices(p) :
          handling' = [handling EXCEPT ![h] =
             [kind |-> kind, payment |-> {p}, total |-> grandTotal, paid |-> totalPaid]]
    BY <1>9 DEF IpnRead
  <2> DEFINE notice == [kind |-> kind, payment |-> {p}, total |-> grandTotal, paid |-> totalPaid]
  <2>2. kind \in {"FAILED", "VALID"} /\ session[p] # "none"
    BY <2>1 DEF Notices
  <2>3. notice \in NoticeType /\ notice.payment = {p}
    BY <2>2 DEF NoticeType, BookingType
  <2>4. Booked /\ UNCHANGED <<pay, starting, session>>
    BY <1>9 DEF IpnRead
  <2>5. handling' = [handling EXCEPT ![h] = notice]
    BY <2>1
  <2> HIDE DEF notice
  <2>6. LedgerType'
    BY <2>3, <2>4, <2>5 DEF LedgerType
  <2>7. AboutRows'
    <3>1. /\ handling'[h].payment = {p} /\ \A g \in Handlers : g # h => handling'[g] = handling[g]
      BY <2>3, <2>5 DEF LedgerType
    <3>2. QED
      BY <2>2, <2>4, <3>1 DEF AboutRows
  <2>8. QED
    BY <1>1, <2>4, <2>6, <2>7
<1>10. ASSUME NEW h \in Handlers, IpnIgnored(h)
       PROVE  TypeInv'
  <2>1. handling' = [handling EXCEPT ![h] = NoNotice] /\ Booked /\ UNCHANGED <<pay, starting, session>>
    BY <1>10 DEF IpnIgnored
  <2>2. LedgerType'
    BY <1>2, <2>1 DEF LedgerType
  <2>3. \A g \in Handlers : handling'[g].payment \subseteq handling[g].payment
    BY <1>2, <2>1 DEF LedgerType
  <2>4. AboutRows'
    BY <2>1, <2>3 DEF AboutRows
  <2>5. QED
    BY <1>1, <2>1, <2>2, <2>4
<1>11. ASSUME NEW p \in Payments, NEW h \in Handlers, IpnVerify(h, p) \/ IpnFail(h, p)
       PROVE  TypeInv'
  <2>1. PICK st \in {"verified", "failed"} : pay' = [pay EXCEPT ![p].status = st]
    BY <1>11 DEF IpnVerify, IpnFail
  <2>2. handling[h].payment = {p} /\ handling' = [handling EXCEPT ![h] = NoNotice]
        /\ UNCHANGED <<starting, session>>
    BY <1>11 DEF IpnVerify, IpnFail
  <2>3. pay[p] \in RowType /\ pay[p].status # "NONE" /\ pay' = [pay EXCEPT ![p] = [pay[p] EXCEPT !.status = st]]
    <3>1. pay[p] \in RowType /\ DOMAIN pay[p] = {"status", "method", "amount", "deposit"}
      BY DEF LedgerType, RowType
    <3>2. QED
      BY <2>1, <2>2, <3>1 DEF AboutRows
  <2>4. [pay[p] EXCEPT !.status = st] \in RowType /\ [pay[p] EXCEPT !.status = st].status # "NONE"
    BY <2>3 DEF RowType
  <2>5. LedgerType' /\ AboutRows'
    BY <2>2, <2>3, <2>4, RowPut
  <2>6. CASE IpnFail(h, p)
    BY <1>1, <2>5, <2>6 DEF IpnFail
  <2>7. CASE IpnVerify(h, p)
    <3>1. totalPaid' = Paid(pay') /\ Paid(pay') \in Nat
      BY <2>5, <2>7, SumsAreNat DEF IpnVerify, PaidFromLedger, LedgerType
    <3>2. paymentStatus' \in {"unpaid", "partial", "paid"}
      BY <2>7 DEF IpnVerify, CalculatePaymentStatus
    <3>3. depositStatus' \in [Items -> {"pending", "collected", "held",
                                        "refunded", "partially_refunded", "forfeited"}]
      BY <2>7 DEF IpnVerify, UpdateDepositProjection, ProjectedDeposit, BookingType
    <3>4. BookingType'
      BY <2>7, <3>1, <3>2, <3>3 DEF IpnVerify, BookingType
    <3>5. QED
      BY <2>5, <3>4
  <2>8. QED
    BY <1>11, <2>6, <2>7
<1>12. QED
  BY <1>4, <1>5, <1>6, <1>7, <1>8, <1>9, <1>10, <1>11

LEMMA ChargeTypes ==
  ASSUME TypeInv,
         \/ \E amount \in CodAmounts : Dispatch(amount)
         \/ \E fee \in LateFees : CalculateLateFees(fee)
         \/ ChargeExtension \/ Substitute \/ Advance \/ Complete \/ UNCHANGED vars
         \/ \E i \in Items, how \in {"refunded", "partially_refunded", "forfeited"}, extra \in {0, 1} :
              SettleDeposit(i, how, extra)
  PROVE  TypeInv'
<1> USE LedgerAssumption DEF TypeInv
<1>1. UNCHANGED <<pay, starting, session, handling>>
  BY DEF Dispatch, CalculateLateFees, Recharge, ChargeExtension, Substitute, Advance, Complete, vars,
         SettleDeposit, gateway
<1>2. LedgerType' /\ AboutRows'
  BY <1>1 DEF LedgerType, AboutRows
<1>3. ASSUME NEW amount \in CodAmounts, Dispatch(amount)
      PROVE  BookingType'
  BY <1>3 DEF Dispatch, BookingType, booking
<1>4. ASSUME NEW total \in Int, Recharge(total)
      PROVE  /\ grandTotal' \in Nat /\ totalPaid' \in Nat
             /\ paymentStatus' \in {"unpaid", "partial", "paid"} /\ charges' \in 0..MaxCharges
  BY <1>4 DEF Recharge, BookingType, CalculatePaymentStatus
<1>5. ASSUME NEW fee \in LateFees, CalculateLateFees(fee)
      PROVE  BookingType'
  <2>1. grandTotal + fee - lateFee \in Int
    BY DEF BookingType
  <2>2. QED
    BY <1>4, <1>5, <2>1 DEF CalculateLateFees, BookingType
<1>6. CASE ChargeExtension \/ Substitute
  <2>1. \A n \in {-1, 1} : grandTotal + n \in Int
    BY DEF BookingType
  <2>2. QED
    BY <1>2, <1>4, <1>6, <2>1 DEF ChargeExtension, Substitute, BookingType
<1>7. CASE Advance \/ Complete \/ UNCHANGED vars
  <2>1. BookingType'
    BY <1>7 DEF Advance, Complete, vars, booking, BookingType
  <2>2. QED
    BY <1>2, <2>1
<1>8. ASSUME NEW i \in Items, NEW how \in {"refunded", "partially_refunded", "forfeited"},
             NEW extra \in {0, 1}, SettleDeposit(i, how, extra)
      PROVE  BookingType'
  <2>1. grandTotal + extra \in Int
    BY DEF BookingType
  <2>2. /\ grandTotal' \in Nat /\ totalPaid' \in Nat
        /\ paymentStatus' \in {"unpaid", "partial", "paid"} /\ charges' \in 0..MaxCharges
    BY <1>4, <1>8, <2>1 DEF SettleDeposit, BookingType
  <2>3. QED
    BY <1>8, <2>2 DEF SettleDeposit, BookingType
<1>9. QED
  BY <1>2, <1>3, <1>5, <1>6, <1>7, <1>8

LEMMA NextTypes == TypeInv /\ [Next]_vars => TypeInv'
BY StaffTypes, GatewayTypes, ChargeTypes DEF Next

LEMMA AlwaysTypes == Spec => []TypeInv
BY InitTypes, NextTypes, PTL DEF Spec

(* No total and no payment is ever negative, and no deposit part is more     *)
(* than its payment: with any payments, sessions, notifications and charges, *)
(* failed and repeated ones included.                                        *)
THEOREM TypeCorrect == Spec => []TypeOK
<1>1. ASSUME TypeInv
      PROVE  TypeOK
  <2>1. ASSUME NEW p \in Payments
        PROVE  /\ pay[p].amount \in Nat /\ pay[p].deposit \in 0..pay[p].amount
               /\ pay[p].status \in {"NONE", "pending", "verified", "failed"}
               /\ pay[p].method \in {"manual", "claim", "cod", "gateway"}
               /\ pay[p].status = "NONE" <=> pay[p].amount = 0
    <3>1. pay[p] \in RowType
      BY <1>1 DEF TypeInv, LedgerType
    <3>2. QED
      BY <3>1 DEF RowType
  <2>2. QED
    BY <1>1, <2>1 DEF TypeInv, LedgerType, BookingType, TypeOK
<1>2. QED
  BY <1>1, AlwaysTypes, PTL

-----------------------------------------------------------------------------
(* What is collected.  A payment that staff record, or a claim they approve,  *)
(* fits what is still due when it is verified; what a courier or the gateway *)
(* collects was fixed before, when less may have been paid.                  *)

LEMMA NextCollects ==
  ASSUME Method # "sslcommerz", CodAmounts = {}, TypeInv, NoOnline, [Next]_vars
  PROVE  Paid(pay') > Paid(pay) => Paid(pay') <= grandTotal'
<1> Paid(pay) \in Nat /\ grandTotal \in Nat
  BY SumsAreNat DEF TypeInv, LedgerType, BookingType
<1>1. ASSUME NEW p \in Payments, NEW row \in RowType, pay' = [pay EXCEPT ![p] = row],
             pay[p].status # "verified", row.status = "verified",
             row.amount <= grandTotal - Paid(pay), grandTotal' = grandTotal
      PROVE  Paid(pay') <= grandTotal'
  <2>1. Paid(pay') = Paid(pay) + row.amount
    BY <1>1, RowAdds DEF TypeInv, LedgerType
  <2>2. row.amount \in Nat
    BY DEF RowType
  <2>3. QED
    BY <1>1, <2>1, <2>2
<1>2. ASSUME NEW p \in Payments, NEW amount \in Amounts, NEW deposit \in 0..TotalDeposit,
             RecordPayment(p, amount, deposit)
      PROVE  Paid(pay') <= grandTotal'
  <2> DEFINE row == [status |-> "verified", method |-> "manual",
                     amount |-> amount, deposit |-> deposit]
  <2>1. amount \in Nat \ {0} /\ deposit \in Nat /\ deposit <= amount
    BY <1>2, DepositIsNat, LedgerAssumption DEF Amounts, RecordPayment, FitsBalance
  <2>2. row \in RowType /\ row.status = "verified" /\ row.amount = amount
    BY <2>1 DEF RowType
  <2>3. /\ pay' = [pay EXCEPT ![p] = row] /\ pay[p].status # "verified"
        /\ amount <= grandTotal - Paid(pay) /\ grandTotal' = grandTotal
    BY <1>2 DEF RecordPayment, Post, FitsBalance
  <2> HIDE DEF row
  <2>4. QED
    BY <1>1, <2>2, <2>3
<1>3. ASSUME NEW p \in Payments, ApproveClaim(p)
      PROVE  Paid(pay') <= grandTotal'
  <2> DEFINE row == [pay[p] EXCEPT !.status = "verified"]
  <2>1. /\ pay[p].status = "pending" /\ pay' = [pay EXCEPT ![p].status = "verified"]
        /\ pay[p].amount <= grandTotal - Paid(pay) /\ grandTotal' = grandTotal
    BY <1>3 DEF ApproveClaim, Post
  <2>2. pay[p] \in RowType /\ DOMAIN pay[p] = {"status", "method", "amount", "deposit"}
    BY DEF TypeInv, LedgerType, RowType
  <2>3. row \in RowType /\ row.status = "verified" /\ row.amount = pay[p].amount
    BY <2>1, <2>2 DEF RowType
  <2>4. pay' = [pay EXCEPT ![p] = row]
    BY <2>1, <2>2
  <2> HIDE DEF row
  <2>5. QED
    BY <1>1, <2>1, <2>3, <2>4
<1>4. ASSUME NEW p \in Payments, RejectClaim(p)
      PROVE  Paid(pay') = Paid(pay)
  <2>1. pay[p].status = "pending" /\ pay' = [pay EXCEPT ![p].status = "failed"]
    BY <1>4 DEF RejectClaim
  <2>2. pay'[p].status = "failed" /\ \A q \in Payments : q # p => pay'[q] = pay[q]
    BY <2>1 DEF NoOnline
  <2>3. QED
    BY <2>1, <2>2, UnverifiedChange
<1>5. \A p \in Payments : ~EnsureCodPayment(p)
  BY DEF EnsureCodPayment, TypeInv, BookingType
<1>6. ASSUME \/ \E p \in Payments : Attempt(p)
             \/ \E amount \in CodAmounts : Dispatch(amount)
             \/ \E fee \in LateFees : CalculateLateFees(fee)
             \/ ChargeExtension \/ Substitute \/ Advance \/ Complete \/ UNCHANGED vars
             \/ \E i \in Items, how \in {"refunded", "partially_refunded", "forfeited"}, extra \in {0, 1} :
                  SettleDeposit(i, how, extra)
      PROVE  pay' = pay
  BY <1>6 DEF Attempt, Dispatch, CalculateLateFees, Recharge, ChargeExtension, Substitute, Advance, Complete,
              SettleDeposit, vars
<1>7. QED
  BY <1>2, <1>3, <1>4, <1>5, <1>6, NothingOnline DEF Next

(* Where neither the gateway nor a courier collects: no payment takes what    *)
(* was collected beyond what is due, whatever is recorded, claimed, reviewed  *)
(* and charged in between.                                                   *)
THEOREM NothingOvercollected ==
  ASSUME Method # "sslcommerz", CodAmounts = {}
  PROVE  Spec => NeverOvercollected
<1>1. Spec => [](NoOnline /\ PaymentStatusCurrent)
  <2>1. Init => NoOnline /\ PaymentStatusCurrent
    BY InitRows DEF Init, NoOnline, PaymentStatusCurrent, NoStart, NoNotice
  <2>2. NoOnline /\ PaymentStatusCurrent /\ [Next]_vars => NoOnline' /\ PaymentStatusCurrent'
    BY NextCurrent
  <2>3. QED
    BY <2>1, <2>2, PTL DEF Spec
<1>2. TypeInv /\ NoOnline /\ [Next]_vars
        => [Paid(pay') > Paid(pay) => Paid(pay') <= grandTotal']_vars
  BY NextCollects
<1>3. QED
  BY <1>1, <1>2, AlwaysTypes, PTL DEF Spec, NeverOvercollected

(* Staff and couriers' cash each take what is still open of the deposits.    *)
LEMMA NextDepositOnce ==
  ASSUME Method = "cod", TypeInv, NoOnline, \A p \in Payments : pay[p].method # "claim",
         DepositsCollectedOnce, [Next]_vars
  PROVE  DepositsCollectedOnce' /\ \A p \in Payments : pay'[p].method # "claim"
<1> DepositPaid(pay) \in Nat /\ TotalDeposit \in Nat /\ DepositPaid(pay) <= TotalDeposit
  BY SumsAreNat, DepositIsNat DEF TypeInv, LedgerType, DepositsCollectedOnce
<1>1. ASSUME NEW p \in Payments, NEW row \in RowType, pay' = [pay EXCEPT ![p] = row],
             pay[p].status # "verified", row.status = "verified", row.method # "claim",
             row.deposit <= TotalDeposit - DepositPaid(pay)
      PROVE  DepositsCollectedOnce' /\ \A q \in Payments : pay'[q].method # "claim"
  <2>1. DepositPaid(pay') = DepositPaid(pay) + row.deposit
    BY <1>1, RowAdds DEF TypeInv, LedgerType
  <2>2. row.deposit \in Nat
    BY DEF RowType
  <2>3. \A q \in Payments : pay'[q] = IF q = p THEN row ELSE pay[q]
    BY <1>1 DEF NoOnline
  <2>4. QED
    BY <1>1, <2>1, <2>2, <2>3 DEF DepositsCollectedOnce, TotalDeposit
<1>2. ASSUME NEW p \in Payments, NEW amount \in Amounts, NEW deposit \in 0..TotalDeposit,
             RecordPayment(p, amount, deposit)
      PROVE  DepositsCollectedOnce' /\ \A q \in Payments : pay'[q].method # "claim"
  <2> DEFINE row == [status |-> "verified", method |-> "manual",
                     amount |-> amount, deposit |-> deposit]
  <2>1. amount \in Nat \ {0} /\ deposit \in Nat /\ deposit <= amount
    BY <1>2, LedgerAssumption DEF Amounts, RecordPayment, FitsBalance
  <2>2. row \in RowType /\ row.status = "verified" /\ row.deposit = deposit /\ row.method # "claim"
    BY <2>1 DEF RowType
  <2>3. /\ pay' = [pay EXCEPT ![p] = row] /\ pay[p].status # "verified"
        /\ deposit <= TotalDeposit - DepositPaid(pay)
    BY <1>2 DEF RecordPayment, Post, FitsBalance
  <2> HIDE DEF row
  <2>4. QED
    BY <1>1, <2>2, <2>3
<1>3. ASSUME NEW p \in Payments, EnsureCodPayment(p)
      PROVE  DepositsCollectedOnce' /\ \A q \in Payments : pay'[q].method # "claim"
  <2> DEFINE row == [status |-> "verified", method |-> "cod",
                     amount |-> cod.expected, deposit |-> CodDeposit]
  <2>1. cod.expected \in Nat \ {0}
    BY <1>3, LedgerAssumption DEF EnsureCodPayment, TypeInv, BookingType
  <2>2. /\ CodDeposit \in Nat /\ CodDeposit <= cod.expected
        /\ CodDeposit <= TotalDeposit - DepositPaid(pay)
    BY <2>1 DEF CodDeposit, LeastOf, NotNegative
  <2>3. row \in RowType /\ row.status = "verified" /\ row.deposit = CodDeposit /\ row.method # "claim"
    BY <2>1, <2>2 DEF RowType
  <2>4. pay' = [pay EXCEPT ![p] = row] /\ pay[p].status # "verified"
    BY <1>3 DEF EnsureCodPayment
  <2> HIDE DEF row
  <2>5. QED
    BY <1>1, <2>2, <2>3, <2>4
<1>4. \A p \in Payments : ~(ApproveClaim(p) \/ RejectClaim(p))
  BY DEF ApproveClaim, RejectClaim
<1>5. CASE pay' = pay
  BY <1>5 DEF DepositsCollectedOnce, TotalDeposit
<1>6. ASSUME \/ \E p \in Payments : Attempt(p)
             \/ \E amount \in CodAmounts : Dispatch(amount)
             \/ \E fee \in LateFees : CalculateLateFees(fee)
             \/ ChargeExtension \/ Substitute \/ Advance \/ Complete \/ UNCHANGED vars
             \/ \E i \in Items, how \in {"refunded", "partially_refunded", "forfeited"}, extra \in {0, 1} :
                  SettleDeposit(i, how, extra)
      PROVE  pay' = pay
  BY <1>6 DEF Attempt, Dispatch, CalculateLateFees, Recharge, ChargeExtension, Substitute, Advance, Complete,
              SettleDeposit, vars
<1>7. QED
  BY <1>2, <1>3, <1>4, <1>5, <1>6, NothingOnline DEF Next

(* A booking to be paid on delivery: the deposit part of what is collected   *)
(* never exceeds the booking's deposits, in any order of payments staff      *)
(* record, cash and charges.                                                 *)
THEOREM DepositsCollectedOnDelivery ==
  ASSUME Method = "cod"
  PROVE  Spec => []DepositsCollectedOnce
<1> DEFINE NoClaims == \A p \in Payments : pay[p].method # "claim"
<1>1. Init => NoOnline /\ PaymentStatusCurrent /\ NoClaims /\ DepositsCollectedOnce
  <2> SUFFICES ASSUME Init
               PROVE  NoOnline /\ PaymentStatusCurrent /\ NoClaims /\ DepositsCollectedOnce
    OBVIOUS
  <2>1. NoOnline /\ PaymentStatusCurrent /\ NoClaims
    BY InitRows DEF Init, NoOnline, PaymentStatusCurrent, NoStart, NoNotice
  <2>2. DepositPaid(pay) <= TotalDeposit
    BY CreatedWithinDeposit
  <2>3. QED
    BY <2>1, <2>2 DEF DepositsCollectedOnce
<1>2. TypeInv /\ NoOnline /\ PaymentStatusCurrent /\ NoClaims /\ DepositsCollectedOnce /\ [Next]_vars
        => NoOnline' /\ PaymentStatusCurrent' /\ NoClaims' /\ DepositsCollectedOnce'
  BY NextCurrent, NextDepositOnce
<1>3. QED
  BY <1>1, <1>2, AlwaysTypes, PTL DEF Spec

-----------------------------------------------------------------------------
(* The books.  A step verifies one payment and recomputes the total, or it   *)
(* leaves the verified payments and the total as they were.                  *)

VerifiesOne ==
  /\ totalPaid' = Paid(pay')
  /\ UNCHANGED <<status, grandTotal, settled>>
  /\ \E p \in Payments, row \in RowType :
       /\ pay' = [pay EXCEPT ![p] = row]
       /\ pay[p].status # "verified" /\ row.status = "verified"

VerifiesNone ==
  /\ totalPaid' = totalPaid
  /\ \A p \in Payments : \/ pay'[p] = pay[p]
                         \/ pay[p].status # "verified" /\ pay'[p].status # "verified"

LEMMA TypeRows == TypeInv => Rows
<1> SUFFICES ASSUME TypeInv
             PROVE  Rows
  OBVIOUS
<1>1. ASSUME NEW p \in Payments
      PROVE  DOMAIN pay[p] = {"status", "method", "amount", "deposit"}
  <2>1. pay[p] \in RowType
    BY DEF TypeInv, LedgerType
  <2>2. QED
    BY <2>1 DEF RowType
<1>2. ASSUME NEW c \in Callers
      PROVE  DOMAIN starting[c] = {"at", "amount", "deposit", "payment"}
  <2>1. starting[c] \in StartType
    BY DEF TypeInv, LedgerType
  <2>2. QED
    BY <2>1 DEF StartType
<1>3. QED
  BY <1>1, <1>2 DEF TypeInv, LedgerType, Rows

LEMMA StaffRows ==
  ASSUME TypeInv, NEW p \in Payments,
         \/ \E amount \in Amounts, deposit \in 0..TotalDeposit : RecordPayment(p, amount, deposit)
         \/ ApproveClaim(p) \/ EnsureCodPayment(p)
  PROVE  VerifiesOne
<1> USE LedgerAssumption, DepositIsNat DEF TypeInv
<1>1. /\ totalPaid' = Paid(pay') /\ UNCHANGED <<status, grandTotal, settled>>
      /\ pay[p].status # "verified"
  BY DEF RecordPayment, ApproveClaim, EnsureCodPayment, Post
<1>2. ASSUME NEW amount \in Amounts, NEW deposit \in 0..TotalDeposit,
             RecordPayment(p, amount, deposit)
      PROVE  VerifiesOne
  <2> DEFINE row == [status |-> "verified", method |-> "manual",
                     amount |-> amount, deposit |-> deposit]
  <2>1. amount \in Nat \ {0} /\ deposit \in Nat /\ deposit <= amount
    BY <1>2 DEF Amounts, RecordPayment, FitsBalance
  <2>2. row \in RowType /\ row.status = "verified"
    BY <2>1 DEF RowType
  <2>3. pay' = [pay EXCEPT ![p] = row]
    BY <1>2 DEF RecordPayment, Post
  <2> HIDE DEF row
  <2>4. QED
    BY <1>1, <2>2, <2>3 DEF VerifiesOne
<1>3. ASSUME EnsureCodPayment(p)
      PROVE  VerifiesOne
  <2> DEFINE row == [status |-> "verified", method |-> "cod",
                     amount |-> cod.expected, deposit |-> CodDeposit]
  <2>1. cod.expected \in Nat \ {0}
    BY <1>3 DEF EnsureCodPayment, BookingType
  <2>2. DepositPaid(pay) \in Nat
    BY SumsAreNat DEF LedgerType
  <2>3. CodDeposit \in Nat /\ CodDeposit <= cod.expected
    BY <2>1, <2>2 DEF CodDeposit, LeastOf, NotNegative
  <2>4. row \in RowType /\ row.status = "verified"
    BY <2>1, <2>3 DEF RowType
  <2>5. pay' = [pay EXCEPT ![p] = row]
    BY <1>3 DEF EnsureCodPayment
  <2> HIDE DEF row
  <2>6. QED
    BY <1>1, <2>4, <2>5 DEF VerifiesOne
<1>4. ASSUME ApproveClaim(p)
      PROVE  VerifiesOne
  <2> DEFINE row == [pay[p] EXCEPT !.status = "verified"]
  <2>1. pay[p].status = "pending" /\ pay' = [pay EXCEPT ![p].status = "verified"]
    BY <1>4 DEF ApproveClaim, Post
  <2>2. pay[p] \in RowType /\ DOMAIN pay[p] = {"status", "method", "amount", "deposit"}
    BY DEF LedgerType, RowType
  <2>3. row \in RowType /\ row.status = "verified" /\ pay' = [pay EXCEPT ![p] = row]
    BY <2>1, <2>2 DEF RowType
  <2> HIDE DEF row
  <2>4. QED
    BY <1>1, <2>3 DEF VerifiesOne
<1>5. QED
  BY <1>2, <1>3, <1>4

LEMMA NotificationRows ==
  ASSUME TypeInv, NEW h \in Handlers, NEW p \in Payments, IpnVerify(h, p)
  PROVE  VerifiesOne
<1> DEFINE row == [pay[p] EXCEPT !.status = "verified"]
<1>1. /\ pay[p].status = "pending" /\ pay' = [pay EXCEPT ![p].status = "verified"]
      /\ totalPaid' = Paid(pay') /\ UNCHANGED <<status, grandTotal, settled>>
  BY DEF IpnVerify, PaidFromLedger
<1>2. pay[p] \in RowType /\ DOMAIN pay[p] = {"status", "method", "amount", "deposit"}
  BY DEF TypeInv, LedgerType, RowType
<1>3. row \in RowType /\ row.status = "verified" /\ pay' = [pay EXCEPT ![p] = row]
  BY <1>1, <1>2 DEF RowType
<1> HIDE DEF row
<1>4. QED
  BY <1>1, <1>3 DEF VerifiesOne

(* The gateway's other steps, and a claim rejected.                          *)
LEMMA UnverifiedRows ==
  ASSUME TypeInv, StartsPending, SparesVerified,
         \/ \E p \in Payments :
              \/ RejectClaim(p) \/ Attempt(p)
              \/ \E c \in Callers : StartCreate(c, p)
              \/ \E h \in Handlers : IpnRead(h, p) \/ IpnFail(h, p)
         \/ \E c \in Callers : StartCheck(c) \/ StartOpened(c) \/ StartFailed(c) \/ StartDies(c)
         \/ \E h \in Handlers : IpnIgnored(h)
  PROVE  VerifiesNone /\ UNCHANGED <<status, grandTotal, settled>>
<1> DEFINE Same == UNCHANGED <<totalPaid, status, grandTotal, settled>>
           Rest(q) == \/ pay'[q] = pay[q]
                      \/ pay[q].status # "verified" /\ pay'[q].status # "verified"
<1>1. /\ DOMAIN pay = Payments
      /\ \A p \in Payments : DOMAIN pay[p] = {"status", "method", "amount", "deposit"}
  BY TypeRows DEF Rows
<1>2. Same
  BY DEF RejectClaim, Attempt, StartCreate, IpnRead, IpnFail, StartCheck, StartOpened, StartFailed,
         StartDies, IpnIgnored, booking
<1>3. ASSUME NEW p \in Payments, NEW c \in Callers, StartCreate(c, p)
      PROVE  \A q \in Payments : Rest(q)
  <2>1. pay[p].status = "NONE" /\ pay'[p].status = "pending"
        /\ \A q \in Payments : q # p => pay'[q] = pay[q]
    BY <1>1, <1>3 DEF StartCreate
  <2>2. QED
    BY <2>1
<1>4. ASSUME NEW c \in Callers, StartFailed(c)
      PROVE  \A q \in Payments : Rest(q)
  <2>1. \A q \in Payments : pay'[q] = IF q \in starting[c].payment THEN NoPayment ELSE pay[q]
    BY <1>4 DEF StartFailed
  <2>2. \A q \in Payments : q \in starting[c].payment => pay[q].status = "pending"
    BY DEF StartsPending
  <2>3. QED
    BY <2>1, <2>2 DEF NoPayment
<1>5. ASSUME NEW p \in Payments, RejectClaim(p) \/ \E h \in Handlers : IpnFail(h, p)
      PROVE  \A q \in Payments : Rest(q)
  <2>1. pay' = [pay EXCEPT ![p].status = "failed"] /\ pay[p].status # "verified"
    BY <1>5 DEF RejectClaim, IpnFail, SparesVerified
  <2>2. pay'[p].status = "failed" /\ \A q \in Payments : q # p => pay'[q] = pay[q]
    BY <1>1, <2>1
  <2>3. QED
    BY <2>1, <2>2
<1>6. ASSUME \/ \E p \in Payments : Attempt(p) \/ \E h \in Handlers : IpnRead(h, p)
             \/ \E h \in Handlers : IpnIgnored(h)
             \/ \E c \in Callers : StartCheck(c) \/ StartOpened(c) \/ StartDies(c)
      PROVE  \A q \in Payments : Rest(q)
  <2>1. pay' = pay
    BY <1>6 DEF IpnRead, IpnIgnored, Attempt, StartCheck, StartOpened, StartDies
  <2>2. QED
    BY <2>1
<1>7. \A q \in Payments : Rest(q)
  BY <1>3, <1>4, <1>5, <1>6
<1>8. QED
  BY <1>2, <1>7 DEF VerifiesNone

(* What a payment being started keeps until the gateway has answered.        *)
LEMMA NextStartsPending ==
  ASSUME TypeInv, StartsPending, [Next]_vars
  PROVE  StartsPending'
<1> DEFINE Started(q) == \E c \in Callers : q \in starting[c].payment
<1>1. /\ Rows /\ \A p \in Payments : Started(p) => session[p] = "none"
      /\ \A c, d \in Callers, p \in Payments :
           p \in starting[c].payment /\ p \in starting[d].payment => c = d
      /\ \A p \in Payments : Started(p) => pay[p].status = "pending" /\ pay[p].method = "gateway"
      /\ \A h \in Handlers, p \in Payments : p \in handling[h].payment => session[p] # "none"
  BY TypeRows DEF TypeInv, AboutRows, StartsPending
<1>2. ASSUME NEW p \in Payments, ~Started(p), starting' = starting,
             \A q \in Payments : q # p => pay'[q] = pay[q]
      PROVE  StartsPending'
  BY <1>1, <1>2 DEF StartsPending
<1>3. ASSUME NEW p \in Payments, starting' = starting,
             \/ \E row : pay' = [pay EXCEPT ![p] = row]
             \/ \E st : pay' = [pay EXCEPT ![p].status = st],
             ~Started(p)
      PROVE  StartsPending'
  BY <1>1, <1>2, <1>3 DEF Rows
<1>4. ASSUME NEW p \in Payments,
             \/ \E amount \in Amounts, deposit \in 0..TotalDeposit : RecordPayment(p, amount, deposit)
             \/ ApproveClaim(p) \/ RejectClaim(p) \/ EnsureCodPayment(p)
      PROVE  StartsPending'
  <2>1. ~Started(p)
    BY <1>1, <1>4 DEF RecordPayment, ApproveClaim, RejectClaim, EnsureCodPayment
  <2>2. starting' = starting
    BY <1>4 DEF RecordPayment, ApproveClaim, RejectClaim, EnsureCodPayment, gateway
  <2>3. \/ \E row : pay' = [pay EXCEPT ![p] = row]
        \/ \E st : pay' = [pay EXCEPT ![p].status = st]
    BY <1>4 DEF RecordPayment, ApproveClaim, RejectClaim, EnsureCodPayment, Post
  <2>4. QED
    BY <1>3, <2>1, <2>2, <2>3
<1>5. ASSUME NEW h \in Handlers, NEW p \in Payments, IpnVerify(h, p) \/ IpnFail(h, p)
      PROVE  StartsPending'
  <2>1. handling[h].payment = {p} /\ starting' = starting
        /\ \E st : pay' = [pay EXCEPT ![p].status = st]
    BY <1>5 DEF IpnVerify, IpnFail
  <2>2. ~Started(p)
    BY <1>1, <2>1
  <2>3. QED
    BY <1>3, <2>1, <2>2
<1>6. ASSUME NEW c \in Callers, NEW p \in Payments, StartCreate(c, p)
      PROVE  StartsPending'
  <2>1. /\ pay'[p].status = "pending" /\ pay'[p].method = "gateway"
        /\ \A q \in Payments : q # p => pay'[q] = pay[q]
        /\ starting'[c].payment = {p} /\ \A d \in Callers : d # c => starting'[d] = starting[d]
    BY <1>1, <1>6 DEF StartCreate, Rows
  <2>2. ~Started(p)
    BY <1>1, <1>6 DEF StartCreate
  <2>3. QED
    BY <1>1, <2>1, <2>2 DEF StartsPending
<1>7. ASSUME NEW c \in Callers, StartFailed(c)
      PROVE  StartsPending'
  <2>1. /\ \A q \in Payments : pay'[q] = IF q \in starting[c].payment THEN NoPayment ELSE pay[q]
        /\ starting'[c].payment = {} /\ \A d \in Callers : d # c => starting'[d] = starting[d]
    BY <1>1, <1>7 DEF StartFailed, Rows, NoStart
  <2>2. QED
    BY <1>1, <2>1 DEF StartsPending
<1>8. ASSUME NEW c \in Callers, StartCheck(c) \/ StartOpened(c) \/ StartDies(c)
      PROVE  StartsPending'
  <2>1. pay' = pay /\ starting'[c].payment = {}
        /\ \A d \in Callers : d # c => starting'[d] = starting[d]
    BY <1>1, <1>8 DEF StartCheck, StartOpened, StartDies, Rows, NoStart
  <2>2. QED
    BY <1>1, <2>1 DEF StartsPending
<1>9. ASSUME UNCHANGED <<pay, starting>>
      PROVE  StartsPending'
  BY <1>9 DEF StartsPending
<1>10. ASSUME \/ \E p \in Payments : Attempt(p) \/ \E h \in Handlers : IpnRead(h, p)
              \/ \E h \in Handlers : IpnIgnored(h)
              \/ \E amount \in CodAmounts : Dispatch(amount)
              \/ \E fee \in LateFees : CalculateLateFees(fee)
              \/ ChargeExtension \/ Substitute \/ Advance \/ Complete \/ UNCHANGED vars
              \/ \E i \in Items, how \in {"refunded", "partially_refunded", "forfeited"}, extra \in {0, 1} :
                   SettleDeposit(i, how, extra)
       PROVE  UNCHANGED <<pay, starting>>
  BY <1>10 DEF Attempt, IpnRead, IpnIgnored, Dispatch, CalculateLateFees, Recharge, ChargeExtension, Substitute,
               Advance, Complete, SettleDeposit, vars, gateway
<1>11. QED
  BY <1>4, <1>5, <1>6, <1>7, <1>8, <1>9, <1>10 DEF Next

LEMMA SettledIsNat == TypeInv => SettledDeposits \in Nat
<1>1. \A i \in Items : ItemDeposit[i] \in Nat
  BY LedgerAssumption
<1>2. QED
  BY <1>1, SumGrows, LedgerAssumption DEF SettledDeposits, TypeInv, BookingType

LEMMA VerifiedIsEntered ==
  ASSUME TypeInv, LedgerExact, VerifiesOne
  PROVE  \E e \in Entries' \ Entries : Books!Enter(e)
<1>1. PICK p \in Payments, row \in RowType :
        /\ pay' = [pay EXCEPT ![p] = row]
        /\ pay[p].status # "verified" /\ row.status = "verified"
  BY DEF VerifiesOne
<1> DEFINE e == [payment |-> p, amount |-> row.amount, deposit |-> row.deposit]
<1>2. /\ pay'[p] = row /\ \A q \in Payments : q # p => pay'[q] = pay[q]
  BY <1>1 DEF TypeInv, LedgerType
<1>3. Verified(pay') = Verified(pay) \cup {p} /\ p \notin Verified(pay)
  BY <1>1, <1>2 DEF Verified
<1>4. \A f \in Entries : f.payment \in Verified(pay)
  BY DEF Entries
<1>5. Entries' = Entries \cup {e}
  <2>1. \A q \in Verified(pay) : q # p /\ pay'[q] = pay[q]
    BY <1>2, <1>3 DEF Verified
  <2>2. Entries' = {[payment |-> q, amount |-> pay'[q].amount, deposit |-> pay'[q].deposit] :
                     q \in Verified(pay')}
    BY DEF Entries, Verified
  <2>3. QED
    BY <1>2, <1>3, <2>1, <2>2 DEF Entries
<1>6. e \notin Entries /\ \A f \in Entries : f.payment # e.payment
  BY <1>3, <1>4
<1>7. /\ row.amount \in Nat \ {0} /\ row.deposit \in Nat /\ row.deposit <= row.amount
  BY <1>1 DEF RowType
<1>8. /\ Paid(pay') = Paid(pay) + row.amount
      /\ DepositPaid(pay') = DepositPaid(pay) + row.deposit
  BY <1>1, RowAdds DEF TypeInv, LedgerType
<1>9. totalPaid' = totalPaid + row.amount
  BY <1>8 DEF VerifiesOne, LedgerExact
<1>10. UNCHANGED <<status, grandTotal, settled>>
  BY DEF VerifiesOne
<1>11. DepositPaid(pay') - SettledDeposits' = DepositPaid(pay) - SettledDeposits + row.deposit
  <2>1. SettledDeposits' = SettledDeposits /\ SettledDeposits \in Nat /\ DepositPaid(pay) \in Nat
    BY <1>10, SumsAreNat, SettledIsNat DEF SettledDeposits, TypeInv, LedgerType
  <2>2. QED
    BY <1>7, <1>8, <2>1
<1>12. Books!Enter(e)
  BY <1>5, <1>6, <1>7, <1>9, <1>10, <1>11 DEF Books!Enter, Books!Entry
<1>13. QED
  BY <1>5, <1>6, <1>12

LEMMA UnverifiedIsUnseen ==
  ASSUME VerifiesNone
  PROVE  UNCHANGED <<Entries, totalPaid, DepositPaid(pay)>>
<1>1. Verified(pay') = Verified(pay) /\ \A p \in Verified(pay) : pay'[p] = pay[p]
  BY DEF VerifiesNone, Verified
<1>2. Entries' = {[payment |-> p, amount |-> pay'[p].amount, deposit |-> pay'[p].deposit] :
                   p \in Verified(pay')}
  BY DEF Entries, Verified
<1>3. Entries' = Entries
  BY <1>1, <1>2 DEF Entries
<1>4. QED
  BY <1>3, UnverifiedChange DEF VerifiesNone

LEMMA ChargeIsBooked ==
  ASSUME TypeInv,
         \/ \E amount \in CodAmounts : Dispatch(amount)
         \/ \E fee \in LateFees : CalculateLateFees(fee)
         \/ ChargeExtension \/ Substitute \/ Advance \/ Complete \/ UNCHANGED vars
         \/ \E i \in Items, how \in {"refunded", "partially_refunded", "forfeited"}, extra \in {0, 1} :
              SettleDeposit(i, how, extra),
         LedgerExact
  PROVE  [Books!Next]_(Books!bookVars)
<1>1. UNCHANGED <<pay, totalPaid>>
  BY DEF Dispatch, CalculateLateFees, Recharge, ChargeExtension, Substitute, Advance, Complete, SettleDeposit,
         vars, booking
<1>2. UNCHANGED <<Entries, totalPaid, DepositPaid(pay)>>
  BY <1>1 DEF Entries, Verified, DepositPaid
<1>3. TypeInv'
  BY ChargeTypes
<1>4. grandTotal \in Nat /\ grandTotal' \in Nat /\ totalPaid \in Nat
  BY <1>3 DEF TypeInv, BookingType
<1>5. ASSUME UNCHANGED <<settled, status>>
      PROVE  Books!Charge
  BY <1>2, <1>4, <1>5 DEF Books!Charge, SettledDeposits
<1>6. ASSUME \/ \E amount \in CodAmounts : Dispatch(amount)
             \/ \E fee \in LateFees : CalculateLateFees(fee)
             \/ ChargeExtension \/ Substitute \/ UNCHANGED vars
      PROVE  Books!Charge
  BY <1>5, <1>6 DEF Dispatch, CalculateLateFees, ChargeExtension, Substitute, vars
<1>7. CASE Advance
  <2>1. /\ status # "completed" /\ status' # "completed" /\ UNCHANGED <<settled, grandTotal>>
    BY <1>7 DEF Advance, booking
  <2>2. Books!Charge
    BY <1>2, <1>4, <2>1 DEF Books!Charge, SettledDeposits
  <2>3. QED
    BY <2>2 DEF Books!Next
<1>8. CASE Complete
  <2>1. /\ status # "completed" /\ status' = "completed" /\ UNCHANGED <<settled, grandTotal>>
        /\ settled = Items /\ totalPaid >= grandTotal
    BY <1>8 DEF Complete, Squared, booking
  <2>2. Books!Close
    BY <1>2, <2>1 DEF Books!Close, SettledDeposits
  <2>3. QED
    BY <2>2 DEF Books!Next
<1>9. ASSUME NEW i \in Items, NEW how, NEW extra \in {0, 1}, SettleDeposit(i, how, extra)
      PROVE  Books!Return(i)
  <2>1. /\ status # "completed" /\ status' # "completed" /\ i \notin settled
        /\ settled' = settled \cup {i}
        /\ ItemDeposit[i] <= DepositPaid(pay) - SettledDeposits
    BY <1>9 DEF SettleDeposit
  <2>2. grandTotal' = grandTotal + extra \/ grandTotal' = grandTotal
    BY <1>9 DEF SettleDeposit, Recharge
  <2>3. grandTotal' >= grandTotal
    BY <1>4, <2>2
  <2>4. /\ DepositPaid(pay) \in Nat /\ SettledDeposits \in Nat /\ ItemDeposit[i] \in Nat
        /\ DepositPaid(pay') = DepositPaid(pay)
    BY <1>2, SumsAreNat, SettledIsNat, LedgerAssumption DEF TypeInv, LedgerType
  <2>5. SettledDeposits' = ItemDeposit[i] + SettledDeposits
    <3>1. IsFiniteSet(settled) /\ \A j \in settled \cup {i} : ItemDeposit[j] \in Int
      BY FS_Subset, LedgerAssumption DEF TypeInv, BookingType
    <3>2. SumFunctionOnSet(ItemDeposit, settled \cup {i})
            = ItemDeposit[i] + SumFunctionOnSet(ItemDeposit, settled)
      BY <2>1, <3>1, OneMore
    <3>3. QED
      BY <2>1, <3>2 DEF SettledDeposits
  <2>6. DepositPaid(pay') - SettledDeposits' = DepositPaid(pay) - SettledDeposits - ItemDeposit[i]
    BY <2>4, <2>5
  <2>7. QED
    BY <1>2, <1>4, <2>1, <2>3, <2>6 DEF Books!Return
<1>10. QED
  BY <1>6, <1>7, <1>8, <1>9 DEF Books!Next

LEMMA NextBooks ==
  ASSUME TypeInv, LedgerExact, StartsPending, SparesVerified, [Next]_vars
  PROVE  [Books!Next]_(Books!bookVars)
<1>1. ASSUME VerifiesOne
      PROVE  Books!Next
  BY <1>1, VerifiedIsEntered DEF Books!Next
<1>2. ASSUME VerifiesNone, UNCHANGED <<status, grandTotal, settled>>
      PROVE  UNCHANGED Books!bookVars
  <2>1. UNCHANGED <<Entries, totalPaid, DepositPaid(pay)>>
    BY <1>2, UnverifiedIsUnseen
  <2>2. QED
    BY <1>2, <2>1 DEF Books!bookVars, SettledDeposits
<1>3. QED
  BY <1>1, <1>2, StaffRows, NotificationRows, UnverifiedRows, ChargeIsBooked DEF Next

LEMMA InitBooks == Init => Books!Init
<1> SUFFICES ASSUME Init
             PROVE  Books!Init
  OBVIOUS
<1>1. grandTotal \in Nat /\ settled = {} /\ status # "completed" /\ totalPaid = Paid(pay)
  BY InitTypes DEF TypeInv, BookingType, Init
<1>2. SettledDeposits = 0
  BY <1>1, EmptySum DEF SettledDeposits
<1>3. CASE Verified(pay) = {} /\ Paid(pay) = 0 /\ DepositPaid(pay) = 0
  <2>1. Entries = {}
    BY <1>3 DEF Entries
  <2>2. QED
    BY <1>1, <1>2, <1>3, <2>1 DEF Books!Init
<1>4. ASSUME NEW p \in Payments, Verified(pay) = {p}, pay[p] \in InitialPayments,
             Paid(pay) = pay[p].amount, DepositPaid(pay) = pay[p].deposit
      PROVE  Books!Init
  <2> DEFINE e == [payment |-> p, amount |-> pay[p].amount, deposit |-> pay[p].deposit]
  <2>1. Entries = {e}
    BY <1>4 DEF Entries
  <2>2. /\ pay[p].amount \in Nat \ {0} /\ pay[p].deposit \in 0..pay[p].amount
    BY <1>4, DepositIsNat, LedgerAssumption DEF InitialPayments
  <2>3. Books!Entry(e) /\ e.amount = totalPaid /\ e.deposit = DepositPaid(pay) - SettledDeposits
    BY <1>1, <1>2, <1>4, <2>2 DEF Books!Entry
  <2> HIDE DEF e
  <2>4. QED
    BY <1>1, <2>1, <2>3 DEF Books!Init
<1>5. QED
  BY <1>3, <1>4, InitSums

LEMMA InitStarts == Init => StartsPending
BY DEF Init, StartsPending, NoStart

(* A late notification of a failed attempt, written over a payment that was  *)
(* verified since, is the only way the total on the booking parts from its   *)
(* verified payments: while none is, they agree, also where a session can be  *)
(* paid after a failed attempt.                                              *)
THEOREM LedgerExactUnlessStruck == Spec /\ [][SparesVerified]_vars => []LedgerExact
<1>1. Init => LedgerExact
  BY DEF Init, LedgerExact
<1>2. TypeInv /\ StartsPending /\ SparesVerified /\ LedgerExact /\ [Next]_vars => LedgerExact'
  BY NextKinds, TypeRows DEF StepKinds, Posted, CashPosted, SumsKept, LedgerExact
<1>3. TypeInv /\ StartsPending /\ [Next]_vars => StartsPending'
  BY NextStartsPending
<1>4. LedgerExact /\ UNCHANGED vars => LedgerExact'
  BY DEF LedgerExact, vars, Paid, Verified
<1>5. QED
  BY AlwaysTypes, InitStarts, <1>1, <1>2, <1>3, <1>4, PTL DEF Spec

(* Then the ledger also implements its abstract books.                       *)
THEOREM BooksKeptUnlessStruck == Spec /\ [][SparesVerified]_vars => ImplementsOpenBooks
<1>1. Spec /\ [][SparesVerified]_vars => []LedgerExact
  BY LedgerExactUnlessStruck
<1>2. TypeInv /\ LedgerExact /\ StartsPending /\ SparesVerified /\ [Next]_vars
        => [Books!Next]_(Books!bookVars)
  BY NextBooks
<1>3. TypeInv /\ StartsPending /\ [Next]_vars => StartsPending'
  BY NextStartsPending
<1>4. UNCHANGED vars => UNCHANGED Books!bookVars
  BY DEF vars, Books!bookVars, Entries, Verified, DepositPaid, SettledDeposits
<1>5. QED
  BY AlwaysTypes, InitBooks, InitStarts, <1>1, <1>2, <1>3, <1>4, PTL
     DEF Spec, ImplementsOpenBooks, Books!Spec

(* When a session ends with its first attempt, no notification does that:    *)
(* for any number of payments, items, charges, session starts and repeated   *)
(* notifications at once, each verified payment is entered once with its own  *)
(* amount, deposits are returned once and out of deposit that was paid, and a *)
(* booking is closed with all that is due paid and no deposit open.          *)
THEOREM LedgerImplementsOpenBooks ==
  ASSUME ~RetryInSession
  PROVE  Spec => ImplementsOpenBooks
<1>1. SessionsInv /\ [Next]_vars => SessionsInv'
  BY NextSessions
<1>2. SessionsInv => SparesVerified
  BY SessionsSpare
<1>3. Spec => [][SparesVerified]_vars
  BY InitSessions, <1>1, <1>2, PTL DEF Spec
<1>4. QED
  BY <1>3, BooksKeptUnlessStruck, PTL

-----------------------------------------------------------------------------
(* What the code does not keep, and the one step each time that breaks it.   *)

(* A notification compares with the total that is still due.                 *)
NotifiedAsCharged ==
  \A h \in Handlers, p \in Payments : IpnVerify(h, p) => handling[h].total = grandTotal

LEMMA NextNotified ==
  ASSUME PaymentStatusCurrent, NotifiedAsCharged, [Next]_vars
  PROVE  PaymentStatusCurrent'
<1>1. ASSUME UNCHANGED <<totalPaid, paymentStatus, grandTotal>>
      PROVE  PaymentStatusCurrent'
  BY <1>1 DEF PaymentStatusCurrent, CalculatePaymentStatus
<1>2. ASSUME NEW total, Recharge(total)
      PROVE  PaymentStatusCurrent'
  BY <1>2 DEF Recharge, PaymentStatusCurrent, CalculatePaymentStatus
<1>3. ASSUME NEW p \in Payments,
             \/ \E amount \in Amounts, deposit \in 0..TotalDeposit : RecordPayment(p, amount, deposit)
             \/ ApproveClaim(p) \/ EnsureCodPayment(p)
      PROVE  PaymentStatusCurrent'
  BY <1>3 DEF RecordPayment, ApproveClaim, EnsureCodPayment, Post, PaymentStatusCurrent,
              CalculatePaymentStatus
<1>4. ASSUME NEW h \in Handlers, NEW p \in Payments, IpnVerify(h, p)
      PROVE  PaymentStatusCurrent'
  BY <1>4 DEF IpnVerify, NotifiedAsCharged, PaymentStatusCurrent, CalculatePaymentStatus
<1>5. ASSUME ChargeExtension \/ Substitute \/ \E fee \in LateFees : CalculateLateFees(fee)
      PROVE  \E total : Recharge(total)
  BY <1>5 DEF ChargeExtension, Substitute, CalculateLateFees
<1>6. ASSUME NEW i, NEW how, NEW extra, SettleDeposit(i, how, extra)
      PROVE  PaymentStatusCurrent'
  <2>1. \/ Recharge(grandTotal + extra)
        \/ UNCHANGED <<grandTotal, totalPaid, paymentStatus>>
    BY <1>6 DEF SettleDeposit
  <2>2. QED
    BY <1>1, <1>2, <2>1
<1>7. ASSUME \/ \E p \in Payments :
                  \/ RejectClaim(p) \/ Attempt(p) \/ \E c \in Callers : StartCreate(c, p)
                  \/ \E h \in Handlers : IpnRead(h, p) \/ IpnFail(h, p)
             \/ \E c \in Callers : StartCheck(c) \/ StartOpened(c) \/ StartFailed(c) \/ StartDies(c)
             \/ \E h \in Handlers : IpnIgnored(h)
             \/ \E amount \in CodAmounts : Dispatch(amount)
             \/ Advance \/ Complete \/ UNCHANGED vars
      PROVE  UNCHANGED <<totalPaid, paymentStatus, grandTotal>>
  BY <1>7 DEF RejectClaim, Attempt, StartCreate, IpnRead, IpnFail, StartCheck, StartOpened,
     StartFailed, StartDies, IpnIgnored, Dispatch, Advance, Complete, vars, booking
<1>8. QED
  BY <1>1, <1>2, <1>3, <1>4, <1>5, <1>6, <1>7 DEF Next

(* Nothing but a charge between a notification's first read and its write    *)
(* leaves the payment status behind the amounts: it is current, whatever the  *)
(* method, while each notification compares with what is still due - after    *)
(* failed attempts written over verified payments too.                       *)
THEOREM PaymentStatusCurrentUnlessRecharged ==
  Spec /\ [][NotifiedAsCharged]_vars => []PaymentStatusCurrent
<1>1. Init => PaymentStatusCurrent
  BY DEF Init, PaymentStatusCurrent
<1>2. PaymentStatusCurrent /\ NotifiedAsCharged /\ [Next]_vars => PaymentStatusCurrent'
  BY NextNotified
<1>3. PaymentStatusCurrent /\ UNCHANGED vars => PaymentStatusCurrent'
  BY DEF PaymentStatusCurrent, CalculatePaymentStatus, vars
<1>4. QED
  BY <1>1, <1>2, <1>3, PTL DEF Spec

(* Cash that is collected has no deposit in it.                              *)
CashTakesNoDeposit == \A p \in Payments : EnsureCodPayment(p) => CodDeposit = 0

LEMMA NextProjected ==
  ASSUME TypeInv, StartsPending, SparesVerified, CashTakesNoDeposit, DepositStatusCurrent,
         [Next]_vars
  PROVE  DepositStatusCurrent'
<1>1. DOMAIN depositStatus = Items /\ DepositPaid(pay) \in Nat
  BY SumsAreNat DEF TypeInv, BookingType, LedgerType
<1>2. CASE Posted
  <2>1. \A i \in Items \ settled : depositStatus[i] \in {"pending", "collected", "held"}
    BY DEF DepositStatusCurrent, ProjectedDeposit
  <2>2. \A i \in Items \ settled' : depositStatus'[i] = ProjectedDeposit(DepositPaid(pay'))
    BY <1>2, <2>1 DEF Posted, UpdateDepositProjection
  <2>3. QED
    BY <2>2 DEF DepositStatusCurrent, ProjectedDeposit
<1>3. CASE SumsKept /\ DepositsKept
  <2>1. /\ settled \subseteq settled'
        /\ \A i \in Items \ settled' : depositStatus'[i] = depositStatus[i]
    BY <1>1, <1>3 DEF DepositsKept
  <2>2. \A i \in Items \ settled' : depositStatus'[i] = ProjectedDeposit(DepositPaid(pay'))
    BY <1>3, <2>1 DEF SumsKept, DepositStatusCurrent
  <2>3. QED
    BY <2>2 DEF DepositStatusCurrent, ProjectedDeposit
<1>4. ASSUME NEW p \in Payments, EnsureCodPayment(p)
      PROVE  DepositStatusCurrent'
  <2> DEFINE row == [status |-> "verified", method |-> "cod",
                     amount |-> cod.expected, deposit |-> CodDeposit]
  <2>1. CodDeposit = 0
    BY <1>4 DEF CashTakesNoDeposit
  <2>2. cod.expected \in Nat \ {0}
    BY <1>4, LedgerAssumption DEF EnsureCodPayment, TypeInv, BookingType
  <2>3. row \in RowType /\ row.status = "verified" /\ row.deposit = 0
    BY <2>1, <2>2 DEF RowType
  <2>4. /\ pay' = [pay EXCEPT ![p] = row] /\ pay[p].status # "verified"
        /\ UNCHANGED <<depositStatus, settled>>
    BY <1>4 DEF EnsureCodPayment
  <2> HIDE DEF row
  <2>5. DepositPaid(pay') = DepositPaid(pay)
    <3>1. pay \in [Payments -> RowType]
      BY DEF TypeInv, LedgerType
    <3>2. DepositPaid([pay EXCEPT ![p] = row]) = DepositPaid(pay) + row.deposit
      BY <2>3, <2>4, <3>1, RowAdds
    <3>3. QED
      BY <1>1, <2>3, <2>4, <3>2
  <2>6. QED
    BY <2>4, <2>5 DEF DepositStatusCurrent, ProjectedDeposit
<1>5. QED
  BY <1>2, <1>3, <1>4, NextKinds, TypeRows DEF StepKinds, CashPosted

(* Cash with deposit in it, which is recorded without a look at the items,   *)
(* and a failed attempt over a verified payment are all that leaves a deposit *)
(* status behind: with neither, an unsettled deposit's status says how much   *)
(* deposit was collected, with couriers' cash and online payments mixed.     *)
THEOREM DepositStatusCurrentUnlessCash ==
  Spec /\ [][SparesVerified /\ CashTakesNoDeposit]_vars => []DepositStatusCurrent
<1>1. Init => DepositStatusCurrent
  BY DEF Init, DepositStatusCurrent
<1>2. TypeInv /\ StartsPending /\ SparesVerified /\ CashTakesNoDeposit /\ DepositStatusCurrent
        /\ [Next]_vars => DepositStatusCurrent'
  BY NextProjected
<1>3. TypeInv /\ StartsPending /\ [Next]_vars => StartsPending'
  BY NextStartsPending
<1>4. DepositStatusCurrent /\ UNCHANGED vars => DepositStatusCurrent'
  BY DEF DepositStatusCurrent, vars, ProjectedDeposit, DepositPaid, Verified
<1>5. QED
  BY AlwaysTypes, InitStarts, <1>1, <1>2, <1>3, <1>4, PTL DEF Spec

(* No session is being started while another one is between its check and    *)
(* its row.                                                                  *)
StartsAlone ==
  \A c \in Callers : StartCheck(c) => \A d \in Callers : starting[d].at # "create"

SessionsAlone ==
  /\ \A c, d \in Callers : starting[c].at = "create" /\ starting[d].at = "create" => c = d
  /\ (\E c \in Callers : starting[c].at = "create") => PendingOnline = {}
  /\ \A p, q \in PendingOnline : p = q

LEMMA AloneIsOne == SessionsAlone => OneSessionPending
<1> SUFFICES ASSUME SessionsAlone
             PROVE  Cardinality(PendingOnline) <= 1
  BY DEF OneSessionPending
<1>1. CASE PendingOnline = {}
  BY <1>1, FS_EmptySet
<1>2. CASE PendingOnline # {}
  <2>1. PICK p \in PendingOnline : TRUE
    BY <1>2
  <2>2. PendingOnline = {p}
    BY <2>1 DEF SessionsAlone
  <2>3. Cardinality({p}) = 1
    BY FS_Singleton
  <2>4. QED
    BY <2>2, <2>3
<1>3. QED
  BY <1>1, <1>2

LEMMA NextAlone ==
  ASSUME Rows, SessionsAlone, StartsAlone, [Next]_vars
  PROVE  SessionsAlone'
<1> DEFINE At(c) == starting[c].at = "create"
           Waits(p) == pay[p].method = "gateway" /\ pay[p].status = "pending"
<1>1. PendingOnline = {p \in Payments : Waits(p)}
      /\ PendingOnline' = {p \in Payments : pay'[p].method = "gateway" /\ pay'[p].status = "pending"}
  BY DEF PendingOnline
<1>2. ASSUME \A c \in Callers : At(c)' => At(c), PendingOnline' \subseteq PendingOnline
      PROVE  SessionsAlone'
  BY <1>2 DEF SessionsAlone
<1>3. ASSUME NEW c \in Callers, StartCheck(c)
      PROVE  SessionsAlone'
  <2>1. /\ PendingOnline = {} /\ pay' = pay /\ \A d \in Callers : ~At(d)
        /\ \A d \in Callers : d # c => starting'[d] = starting[d]
    BY <1>3 DEF StartCheck, StartsAlone, Rows
  <2>2. PendingOnline' = {}
    BY <1>1, <2>1
  <2>3. QED
    BY <2>1, <2>2 DEF SessionsAlone
<1>4. ASSUME NEW c \in Callers, NEW p \in Payments, StartCreate(c, p)
      PROVE  SessionsAlone'
  <2>1. /\ At(c) /\ starting'[c].at = "call"
        /\ \A d \in Callers : d # c => starting'[d] = starting[d]
        /\ \A q \in Payments : q # p => pay'[q] = pay[q]
    BY <1>4 DEF StartCreate, Rows
  <2>2. \A d \in Callers : ~At(d)'
    BY <2>1 DEF SessionsAlone
  <2>3. PendingOnline' \subseteq {p}
    BY <1>1, <2>1 DEF SessionsAlone
  <2>4. QED
    BY <2>2, <2>3 DEF SessionsAlone
<1>5. ASSUME NEW c \in Callers, StartOpened(c) \/ StartFailed(c) \/ StartDies(c)
      PROVE  SessionsAlone'
  <2>1. /\ starting'[c].at = "idle" /\ \A d \in Callers : d # c => starting'[d] = starting[d]
    BY <1>5 DEF StartOpened, StartFailed, StartDies, Rows, NoStart
  <2>2. \A p \in Payments : pay'[p] = pay[p] \/ pay'[p] = NoPayment
    BY <1>5 DEF StartOpened, StartFailed, StartDies
  <2>3. PendingOnline' \subseteq PendingOnline
    BY <1>1, <2>2 DEF NoPayment
  <2>4. QED
    BY <1>2, <2>1, <2>3
<1>6. ASSUME starting' = starting, PendingOnline' \subseteq PendingOnline
      PROVE  SessionsAlone'
  BY <1>2, <1>6
<1>7. ASSUME NEW p \in Payments,
             \/ \E amount \in Amounts, deposit \in 0..TotalDeposit : RecordPayment(p, amount, deposit)
             \/ ApproveClaim(p) \/ RejectClaim(p) \/ EnsureCodPayment(p)
             \/ \E h \in Handlers : IpnVerify(h, p) \/ IpnFail(h, p)
      PROVE  SessionsAlone'
  <2>1. starting' = starting
    BY <1>7 DEF RecordPayment, ApproveClaim, RejectClaim, EnsureCodPayment, IpnVerify, IpnFail, gateway
  <2>2. /\ pay'[p].status \in {"verified", "failed"}
        /\ \A q \in Payments : q # p => pay'[q] = pay[q]
    <3>1. /\ DOMAIN pay = Payments /\ DOMAIN pay[p] = {"status", "method", "amount", "deposit"}
      BY DEF Rows
    <3>2. CASE \/ \E amount \in Amounts, deposit \in 0..TotalDeposit : RecordPayment(p, amount, deposit)
               \/ EnsureCodPayment(p)
      <4>1. \E amount, deposit :
              \/ pay' = [pay EXCEPT ![p] = [status |-> "verified", method |-> "manual",
                                           amount |-> amount, deposit |-> deposit]]
              \/ pay' = [pay EXCEPT ![p] = [status |-> "verified", method |-> "cod",
                                           amount |-> amount, deposit |-> deposit]]
        BY <3>2 DEF RecordPayment, EnsureCodPayment, Post
      <4>2. QED
        BY <3>1, <4>1
    <3>3. CASE \/ ApproveClaim(p) \/ RejectClaim(p)
               \/ \E h \in Handlers : IpnVerify(h, p) \/ IpnFail(h, p)
      <4>1. PICK st \in {"verified", "failed"} : pay' = [pay EXCEPT ![p].status = st]
        BY <3>3 DEF ApproveClaim, RejectClaim, IpnVerify, IpnFail, Post
      <4>2. QED
        BY <3>1, <4>1
    <3>4. QED
      BY <1>7, <3>2, <3>3
  <2>3. PendingOnline' \subseteq PendingOnline
    BY <1>1, <2>2
  <2>4. QED
    BY <1>6, <2>1, <2>3
<1>8. ASSUME \/ \E p \in Payments : Attempt(p) \/ \E h \in Handlers : IpnRead(h, p)
             \/ \E h \in Handlers : IpnIgnored(h)
             \/ \E amount \in CodAmounts : Dispatch(amount)
             \/ \E fee \in LateFees : CalculateLateFees(fee)
             \/ ChargeExtension \/ Substitute \/ Advance \/ Complete \/ UNCHANGED vars
             \/ \E i \in Items, how \in {"refunded", "partially_refunded", "forfeited"}, extra \in {0, 1} :
                  SettleDeposit(i, how, extra)
      PROVE  SessionsAlone'
  <2>1. UNCHANGED <<pay, starting>>
    BY <1>8 DEF Attempt, IpnRead, IpnIgnored, Dispatch, CalculateLateFees, Recharge, ChargeExtension, Substitute,
                Advance, Complete, SettleDeposit, vars, gateway
  <2>2. PendingOnline' = PendingOnline
    BY <1>1, <2>1
  <2>3. QED
    BY <1>6, <2>1, <2>2
<1>9. QED
  BY <1>3, <1>4, <1>5, <1>7, <1>8 DEF Next

(* Two starts that both looked before either wrote its row are the only way  *)
(* to two sessions waiting for their payment at once: failed calls, dead     *)
(* processes, notifications and payments by staff add none.                  *)
THEOREM OneSessionUnlessTogether == Spec /\ [][StartsAlone]_vars => []OneSessionPending
<1>1. Init => SessionsAlone
  BY InitRows DEF Init, SessionsAlone, PendingOnline, NoStart
<1>2. Rows /\ SessionsAlone /\ StartsAlone /\ [Next]_vars => SessionsAlone'
  BY NextAlone
<1>3. SessionsAlone /\ UNCHANGED vars => SessionsAlone'
  BY DEF SessionsAlone, PendingOnline, vars
<1>4. QED
  BY AlwaysTypes, TypeRows, AloneIsOne, <1>1, <1>2, <1>3, PTL DEF Spec

-----------------------------------------------------------------------------
(* What is collected, once more.  A claim, a session and cash to collect are  *)
(* for an amount that was fixed when they began; nothing fixed is awaited     *)
(* after a step that adds to what was paid or lowers what is due.            *)

CashAwaited == cod.expected > 0 /\ ~cod.collected
NothingAwaited ==
  /\ \A p \in Payments : pay[p].status # "pending"
  /\ \A c \in Callers : starting[c].at # "create"
  /\ ~CashAwaited
OneAtATime == Paid(pay') > Paid(pay) \/ grandTotal' < grandTotal => NothingAwaited'

OpenFor(amount, deposit) ==
  amount <= grandTotal - Paid(pay) /\ deposit <= TotalDeposit - DepositPaid(pay)
AwaitedFits ==
  /\ \A p \in Payments : pay[p].status = "pending" => OpenFor(pay[p].amount, pay[p].deposit)
  /\ \A c \in Callers :
       starting[c].at = "create" => OpenFor(starting[c].amount, starting[c].deposit)
  /\ CashAwaited => cod.expected <= grandTotal - Paid(pay)

CollectsWithin == Paid(pay') > Paid(pay) => Paid(pay') <= grandTotal'
CollectsRight == AwaitedFits' /\ DepositsCollectedOnce' /\ CollectsWithin

LEMMA CashIsNat == \A n \in CodAmounts \cup {0} : n \in Nat
<1>1. CodAmounts \subseteq Nat
  BY LedgerAssumption
<1>2. QED
  BY <1>1

LEMMA SumTypes ==
  TypeInv => /\ Paid(pay) \in Nat /\ DepositPaid(pay) \in Nat /\ grandTotal \in Nat
             /\ TotalDeposit \in Nat /\ cod.expected \in Nat
<1> SUFFICES ASSUME TypeInv
             PROVE  /\ Paid(pay) \in Nat /\ DepositPaid(pay) \in Nat /\ grandTotal \in Nat
                    /\ TotalDeposit \in Nat /\ cod.expected \in Nat
  OBVIOUS
<1>1. Paid(pay) \in Nat /\ DepositPaid(pay) \in Nat
  BY SumsAreNat DEF TypeInv, LedgerType
<1>2. cod.expected \in CodAmounts \cup {0}
  BY DEF TypeInv, BookingType
<1>3. QED
  BY <1>1, <1>2, DepositIsNat, CashIsNat DEF TypeInv, BookingType

LEMMA VerifyingCollects ==
  ASSUME TypeInv, OneAtATime, NEW p \in Payments, NEW row \in RowType,
         pay' = [pay EXCEPT ![p] = row], pay[p].status # "verified", row.status = "verified",
         OpenFor(row.amount, row.deposit), grandTotal' = grandTotal
  PROVE  CollectsRight
<1>1. pay \in [Payments -> RowType]
  BY DEF TypeInv, LedgerType
<1>2. /\ Paid(pay') = Paid(pay) + row.amount
      /\ DepositPaid(pay') = DepositPaid(pay) + row.deposit
  BY <1>1, RowAdds
<1>3. row.amount \in Nat \ {0} /\ row.deposit \in Nat
  BY DEF RowType
<1>4. /\ Paid(pay) \in Nat /\ DepositPaid(pay) \in Nat /\ grandTotal \in Nat /\ TotalDeposit \in Nat
  BY SumTypes
<1>5. /\ Paid(pay') > Paid(pay) /\ Paid(pay') <= grandTotal'
      /\ DepositPaid(pay') <= TotalDeposit
  BY <1>2, <1>3, <1>4 DEF OpenFor
<1>6. NothingAwaited'
  BY <1>5 DEF OneAtATime
<1>7. DepositsCollectedOnce'
  BY <1>5 DEF DepositsCollectedOnce, TotalDeposit
<1>8. QED
  BY <1>5, <1>6, <1>7 DEF CollectsRight, CollectsWithin, AwaitedFits, NothingAwaited

LEMMA StaffCollects ==
  ASSUME TypeInv, OneAtATime, AwaitedFits, DepositsCollectedOnce, NEW p \in Payments,
         \/ \E amount \in Amounts, deposit \in 0..TotalDeposit : RecordPayment(p, amount, deposit)
         \/ ApproveClaim(p) \/ EnsureCodPayment(p)
         \/ \E h \in Handlers : IpnVerify(h, p)
  PROVE  CollectsRight
<1>1. /\ Paid(pay) \in Nat /\ DepositPaid(pay) \in Nat /\ grandTotal \in Nat /\ TotalDeposit \in Nat
      /\ cod.expected \in Nat
  BY SumTypes
<1>2. ASSUME NEW amount \in Amounts, NEW deposit \in 0..TotalDeposit,
             RecordPayment(p, amount, deposit)
      PROVE  CollectsRight
  <2> DEFINE row == [status |-> "verified", method |-> "manual",
                     amount |-> amount, deposit |-> deposit]
  <2>1. amount \in Nat \ {0} /\ deposit \in Nat /\ deposit <= amount
    BY <1>1, <1>2, LedgerAssumption DEF Amounts, RecordPayment, FitsBalance
  <2>2. row \in RowType /\ row.status = "verified" /\ row.amount = amount /\ row.deposit = deposit
    BY <2>1 DEF RowType
  <2>3. /\ pay' = [pay EXCEPT ![p] = row] /\ pay[p].status # "verified"
        /\ OpenFor(amount, deposit) /\ grandTotal' = grandTotal
    BY <1>2 DEF RecordPayment, Post, FitsBalance, OpenFor
  <2> HIDE DEF row
  <2>4. QED
    BY <2>2, <2>3, VerifyingCollects
<1>3. ASSUME EnsureCodPayment(p)
      PROVE  CollectsRight
  <2> DEFINE row == [status |-> "verified", method |-> "cod",
                     amount |-> cod.expected, deposit |-> CodDeposit]
  <2>1. cod.expected \in Nat \ {0} /\ cod.expected <= grandTotal - Paid(pay)
    BY <1>1, <1>3 DEF EnsureCodPayment, AwaitedFits, CashAwaited
  <2>2. /\ CodDeposit \in Nat /\ CodDeposit <= cod.expected
        /\ CodDeposit <= TotalDeposit - DepositPaid(pay)
    BY <1>1, <2>1 DEF CodDeposit, LeastOf, NotNegative, DepositsCollectedOnce
  <2>3. row \in RowType /\ row.status = "verified"
        /\ row.amount = cod.expected /\ row.deposit = CodDeposit
    BY <2>1, <2>2 DEF RowType
  <2>4. /\ pay' = [pay EXCEPT ![p] = row] /\ pay[p].status # "verified"
        /\ OpenFor(cod.expected, CodDeposit) /\ grandTotal' = grandTotal
    BY <1>3, <2>1, <2>2 DEF EnsureCodPayment, OpenFor
  <2> HIDE DEF row
  <2>5. QED
    BY <2>3, <2>4, VerifyingCollects
<1>4. ASSUME ApproveClaim(p) \/ \E h \in Handlers : IpnVerify(h, p)
      PROVE  CollectsRight
  <2> DEFINE row == [pay[p] EXCEPT !.status = "verified"]
  <2>1. /\ pay[p].status = "pending" /\ pay' = [pay EXCEPT ![p].status = "verified"]
        /\ grandTotal' = grandTotal
    BY <1>4 DEF ApproveClaim, IpnVerify, Post
  <2>2. OpenFor(pay[p].amount, pay[p].deposit)
    BY <2>1 DEF AwaitedFits
  <2>3. pay[p] \in RowType /\ DOMAIN pay[p] = {"status", "method", "amount", "deposit"}
    BY DEF TypeInv, LedgerType, RowType
  <2>4. row \in RowType /\ row.status = "verified"
        /\ row.amount = pay[p].amount /\ row.deposit = pay[p].deposit
    BY <2>1, <2>3 DEF RowType
  <2>5. pay' = [pay EXCEPT ![p] = row]
    BY <2>1, <2>3
  <2> HIDE DEF row
  <2>6. QED
    BY <2>1, <2>2, <2>4, <2>5, VerifyingCollects
<1>5. QED
  BY <1>2, <1>3, <1>4

(* No payment is verified, and what becomes awaited fits.                    *)
LEMMA AwaitingFits ==
  ASSUME TypeInv, TypeInv', OneAtATime, AwaitedFits, DepositsCollectedOnce, VerifiesNone,
         \A p \in Payments : \/ pay'[p] = pay[p] \/ pay'[p].status # "pending"
                            \/ OpenFor(pay'[p].amount, pay'[p].deposit),
         \A c \in Callers : \/ starting'[c] = starting[c] \/ starting'[c].at # "create"
                           \/ OpenFor(starting'[c].amount, starting'[c].deposit),
         cod' = cod \/ cod'.expected <= grandTotal - Paid(pay)
  PROVE  CollectsRight
<1>1. Paid(pay') = Paid(pay) /\ DepositPaid(pay') = DepositPaid(pay)
  BY UnverifiedChange DEF VerifiesNone
<1>2. /\ Paid(pay) \in Nat /\ DepositPaid(pay) \in Nat /\ grandTotal \in Nat /\ TotalDeposit \in Nat
      /\ grandTotal' \in Nat /\ cod'.expected \in Nat
  <2>1. grandTotal' \in Nat /\ cod'.expected \in Nat
    <3>1. grandTotal' \in Nat /\ cod'.expected \in CodAmounts \cup {0}
      BY DEF TypeInv, BookingType
    <3>2. QED
      BY <3>1, CashIsNat
  <2>2. QED
    BY <2>1, SumTypes
<1>3. CollectsWithin /\ DepositsCollectedOnce'
  BY <1>1, <1>2 DEF CollectsWithin, DepositsCollectedOnce, TotalDeposit
<1>4. CASE grandTotal' < grandTotal
  BY <1>3, <1>4 DEF OneAtATime, NothingAwaited, AwaitedFits, CollectsRight
<1>5. CASE grandTotal <= grandTotal'
  <2>1. ASSUME NEW amount \in Nat, NEW deposit \in Nat, OpenFor(amount, deposit)
        PROVE  OpenFor(amount, deposit)'
    BY <1>1, <1>2, <1>5, <2>1 DEF OpenFor, TotalDeposit
  <2>2. ASSUME NEW p \in Payments, pay'[p].status = "pending"
        PROVE  OpenFor(pay[p].amount, pay[p].deposit)'
    <3>1. OpenFor(pay'[p].amount, pay'[p].deposit)
      BY <2>2 DEF AwaitedFits
    <3>2. pay'[p] \in RowType
      BY DEF TypeInv, LedgerType
    <3>3. pay'[p].amount \in Nat /\ pay'[p].deposit \in Nat
      BY <3>2 DEF RowType
    <3>4. QED
      BY <1>1, <1>2, <1>5, <3>1, <3>3 DEF OpenFor, TotalDeposit
  <2>3. ASSUME NEW c \in Callers, starting'[c].at = "create"
        PROVE  OpenFor(starting[c].amount, starting[c].deposit)'
    <3>1. OpenFor(starting'[c].amount, starting'[c].deposit)
      BY <2>3 DEF AwaitedFits
    <3>2. starting'[c] \in StartType
      BY DEF TypeInv, LedgerType
    <3>3. starting'[c].amount \in Nat /\ starting'[c].deposit \in Nat
      BY <3>2 DEF StartType
    <3>4. QED
      BY <1>1, <1>2, <1>5, <3>1, <3>3 DEF OpenFor, TotalDeposit
  <2>4. CashAwaited' => cod'.expected <= grandTotal' - Paid(pay')
    BY <1>1, <1>2, <1>5 DEF AwaitedFits, CashAwaited
  <2>5. QED
    BY <1>3, <2>2, <2>3, <2>4 DEF AwaitedFits, CollectsRight
<1>6. QED
  BY <1>2, <1>4, <1>5

LEMMA OtherCollects ==
  ASSUME TypeInv, TypeInv', StartsPending, SparesVerified, LedgerExact, OneAtATime, AwaitedFits,
         DepositsCollectedOnce,
         \/ \E p \in Payments :
              \/ RejectClaim(p) \/ Attempt(p)
              \/ \E c \in Callers : StartCreate(c, p)
              \/ \E h \in Handlers : IpnRead(h, p) \/ IpnFail(h, p)
         \/ \E c \in Callers : StartCheck(c) \/ StartOpened(c) \/ StartFailed(c) \/ StartDies(c)
         \/ \E h \in Handlers : IpnIgnored(h)
         \/ \E amount \in CodAmounts : Dispatch(amount)
         \/ \E fee \in LateFees : CalculateLateFees(fee)
         \/ ChargeExtension \/ Substitute \/ Advance \/ Complete \/ UNCHANGED vars
         \/ \E i \in Items, how \in {"refunded", "partially_refunded", "forfeited"}, extra \in {0, 1} :
              SettleDeposit(i, how, extra)
  PROVE  CollectsRight
<1> DEFINE Rest(p) == \/ pay'[p] = pay[p] \/ pay'[p].status # "pending"
                      \/ OpenFor(pay'[p].amount, pay'[p].deposit)
           Calls(c) == \/ starting'[c] = starting[c] \/ starting'[c].at # "create"
                       \/ OpenFor(starting'[c].amount, starting'[c].deposit)
           Cash == cod' = cod \/ cod'.expected <= grandTotal - Paid(pay)
<1>1. ASSUME VerifiesNone, \A p \in Payments : Rest(p), \A c \in Callers : Calls(c), Cash
      PROVE  CollectsRight
  BY <1>1, AwaitingFits
<1>2. Rows /\ Paid(pay) \in Nat /\ DepositPaid(pay) \in Nat /\ grandTotal \in Nat /\ TotalDeposit \in Nat
  BY TypeRows, SumTypes
<1>3. ASSUME NEW p \in Payments, RejectClaim(p) \/ \E h \in Handlers : IpnFail(h, p)
      PROVE  CollectsRight
  <2>1. VerifiesNone
    BY <1>3, UnverifiedRows
  <2>2. pay' = [pay EXCEPT ![p].status = "failed"] /\ UNCHANGED <<starting, cod>>
    BY <1>3 DEF RejectClaim, IpnFail, gateway
  <2>3. pay'[p].status = "failed" /\ \A q \in Payments : q # p => pay'[q] = pay[q]
    BY <1>2, <2>2 DEF Rows
  <2>4. QED
    BY <1>1, <2>1, <2>2, <2>3
<1>4. ASSUME NEW p \in Payments, NEW c \in Callers, StartCreate(c, p)
      PROVE  CollectsRight
  <2>1. VerifiesNone
    BY <1>4, UnverifiedRows
  <2>2. /\ starting[c].at = "create" /\ starting'[c].at = "call"
        /\ \A d \in Callers : d # c => starting'[d] = starting[d]
        /\ pay'[p].amount = starting[c].amount /\ pay'[p].deposit = starting[c].deposit
        /\ \A q \in Payments : q # p => pay'[q] = pay[q]
        /\ cod' = cod
    BY <1>2, <1>4 DEF StartCreate, Rows
  <2>3. Rest(p)
    BY <2>2 DEF AwaitedFits
  <2>4. QED
    BY <1>1, <2>1, <2>2, <2>3
<1>5. ASSUME NEW c \in Callers, StartCheck(c)
      PROVE  CollectsRight
  <2>1. VerifiesNone
    BY <1>5, UnverifiedRows
  <2>2. /\ starting'[c].amount = grandTotal - Paid(pay)
        /\ starting'[c].deposit = NotNegative(TotalDeposit - DepositPaid(pay))
        /\ \A d \in Callers : d # c => starting'[d] = starting[d]
        /\ pay' = pay /\ cod' = cod
    BY <1>2, <1>5 DEF StartCheck, Rows
  <2>3. Calls(c)
    BY <1>2, <2>2 DEF OpenFor, NotNegative, DepositsCollectedOnce
  <2>4. QED
    BY <1>1, <2>1, <2>2, <2>3
<1>6. ASSUME NEW c \in Callers, StartOpened(c) \/ StartFailed(c) \/ StartDies(c)
      PROVE  CollectsRight
  <2>1. VerifiesNone
    BY <1>6, UnverifiedRows
  <2>2. /\ starting'[c].at = "idle" /\ \A d \in Callers : d # c => starting'[d] = starting[d]
        /\ \A q \in Payments : pay'[q] = pay[q] \/ pay'[q].status = "NONE"
        /\ cod' = cod
    BY <1>2, <1>6 DEF StartOpened, StartFailed, StartDies, Rows, NoStart, NoPayment
  <2>3. QED
    BY <1>1, <2>1, <2>2
<1>7. ASSUME UNCHANGED <<pay, starting, totalPaid>>, Cash
      PROVE  CollectsRight
  BY <1>1, <1>7 DEF VerifiesNone
<1>8. ASSUME NEW amount \in CodAmounts, Dispatch(amount)
      PROVE  CollectsRight
  <2>1. amount \in Nat \ {0} /\ amount <= NotNegative(grandTotal - Paid(pay))
    BY <1>8, LedgerAssumption DEF Dispatch, LedgerExact
  <2>2. cod'.expected = amount
    BY <1>8 DEF Dispatch, TypeInv, BookingType
  <2>3. Cash
    BY <1>2, <2>1, <2>2 DEF NotNegative
  <2>4. UNCHANGED <<pay, starting, totalPaid>>
    BY <1>8 DEF Dispatch, booking, gateway
  <2>5. QED
    BY <1>7, <2>3, <2>4
<1>9. ASSUME \/ \E p \in Payments : Attempt(p) \/ \E h \in Handlers : IpnRead(h, p)
             \/ \E h \in Handlers : IpnIgnored(h)
             \/ \E fee \in LateFees : CalculateLateFees(fee)
             \/ ChargeExtension \/ Substitute \/ Advance \/ Complete \/ UNCHANGED vars
             \/ \E i \in Items, how \in {"refunded", "partially_refunded", "forfeited"}, extra \in {0, 1} :
                  SettleDeposit(i, how, extra)
      PROVE  CollectsRight
  <2>1. UNCHANGED <<pay, starting, totalPaid, cod>>
    BY <1>9 DEF Attempt, IpnRead, IpnIgnored, CalculateLateFees, Recharge, ChargeExtension, Substitute,
                Advance, Complete, SettleDeposit, vars, gateway, booking
  <2>2. QED
    BY <1>7, <2>1
<1>10. QED
  BY <1>3, <1>4, <1>5, <1>6, <1>8, <1>9

LEMMA NextCollectsRight ==
  ASSUME TypeInv, StartsPending, SparesVerified, LedgerExact, OneAtATime, AwaitedFits,
         DepositsCollectedOnce, [Next]_vars
  PROVE  CollectsRight
<1>1. TypeInv'
  BY NextTypes
<1>2. QED
  BY <1>1, StaffCollects, OtherCollects DEF Next

(* Two amounts at once are the only way to collect too much: while no amount  *)
(* fixed earlier - a claim, a session, cash the courier was told to collect - *)
(* is still to come when a payment is verified or a late fee is lowered,      *)
(* nothing is collected beyond what is due and no deposit twice, whatever the *)
(* method and however the methods are mixed.                                 *)
THEOREM CollectedWithinDue ==
  Spec /\ [][SparesVerified /\ OneAtATime]_vars => NeverOvercollected /\ []DepositsCollectedOnce
<1>1. Init => AwaitedFits /\ DepositsCollectedOnce
  <2> SUFFICES ASSUME Init
               PROVE  AwaitedFits /\ DepositsCollectedOnce
    OBVIOUS
  <2>1. /\ TotalDeposit \in Nat /\ RentalTotal \in Nat /\ DepositPaid(pay) <= TotalDeposit
        /\ Paid(pay) \in Nat /\ DepositPaid(pay) \in Nat
        /\ \A p \in Payments : pay[p].status = "pending" => Paid(pay) = 0 /\ DepositPaid(pay) = 0
    BY CreatedWithinDeposit, OneCreated, DepositIsNat, LedgerAssumption
  <2>2. \A p \in Payments : pay[p].status = "pending" =>
          pay[p].amount = RentalTotal + TotalDeposit /\ pay[p].deposit = TotalDeposit
    BY InitRows DEF Claim
  <2>3. /\ \A c \in Callers : starting[c].at = "idle"
        /\ grandTotal = RentalTotal + TotalDeposit /\ cod.expected = 0
    BY DEF Init, NoStart
  <2>4. QED
    BY <2>1, <2>2, <2>3 DEF AwaitedFits, OpenFor, CashAwaited, DepositsCollectedOnce
<1>2. TypeInv /\ StartsPending /\ SparesVerified /\ LedgerExact /\ OneAtATime /\ AwaitedFits
        /\ DepositsCollectedOnce /\ [Next]_vars
        => AwaitedFits' /\ DepositsCollectedOnce'
           /\ [Paid(pay') > Paid(pay) => Paid(pay') <= grandTotal']_vars
  BY NextCollectsRight DEF CollectsRight, CollectsWithin
<1>3. TypeInv /\ StartsPending /\ [Next]_vars => StartsPending'
  BY NextStartsPending
<1>4. Spec /\ [][SparesVerified /\ OneAtATime]_vars => []LedgerExact
  BY LedgerExactUnlessStruck, PTL
<1>5. AwaitedFits /\ DepositsCollectedOnce /\ UNCHANGED vars
        => AwaitedFits' /\ DepositsCollectedOnce'
  BY DEF AwaitedFits, OpenFor, CashAwaited, DepositsCollectedOnce, TotalDeposit, Paid, DepositPaid,
         Verified, vars
<1>6. QED
  BY AlwaysTypes, InitStarts, <1>1, <1>2, <1>3, <1>4, <1>5, PTL DEF Spec, NeverOvercollected
=============================================================================
