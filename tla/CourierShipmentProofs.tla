------------------------ MODULE CourierShipmentProofs ------------------------
(***************************************************************************)
(* Dispatch keeps what an idempotency key promises, for any number of keys, *)
(* calls and parcels and however processes die: it implements OnceOnly, and  *)
(* a dispatch reported as done has its parcel and its remittance.  The       *)
(* argument: the call that recorded an attempt is the only one that works    *)
(* under its key, it knows the parcel it booked, and no attempt is started   *)
(* twice.  Then what only overlapping steps break: one parcel per shipment,  *)
(* statuses that never go back, no parcel of a cancelled shipment on its way. *)
(***************************************************************************)
EXTENDS CourierShipment, FiniteSetTheorems, TLAPS

(* A shipment's row; its status does not matter here.                        *)
ShipShaped == ship \in [status : {ship.status}, ref : SUBSET Parcels, cod : {ship.cod}]

Typed ==
  /\ ShipShaped /\ remit \in CodAmounts \cup {0}
  /\ attempt \in [Keys -> {"none", "STARTED", "SUCCEEDED", "FAILED"}]
  /\ parcel \in [Parcels -> ParcelRows]
  /\ caller \in [Callers -> CallerStates]

(* A call that works under its key.                                          *)
Works(c, k) == caller[c].at \in {"submit", "call"} /\ caller[c].key = {k}

CallersKeyed ==
  \A c \in Callers :
    /\ caller[c].at # "idle" => \E k \in Keys : caller[c].key = {k}
    /\ caller[c].at = "start" => caller[c].parcel = {}

OneWorks ==
  \A k \in Keys, c \in Callers : Works(c, k) =>
    /\ attempt[k] = "STARTED"
    /\ caller[c].at = "submit" => caller[c].parcel = {}
    /\ \A d \in Callers : Works(d, k) => d = c

ParcelsKeyed ==
  \A p \in Parcels : parcel[p].key # {} => \E k \in Keys : parcel[p].key = {k}

(* A parcel's key was used, and the call that works under it booked it.      *)
ParcelsOwned ==
  \A p \in Parcels, k \in Keys : parcel[p].key = {k} =>
    /\ attempt[k] # "none"
    /\ \A c \in Callers : Works(c, k) =>
         caller[c].parcel = {p} /\ caller[c].cod = parcel[p].cod
    /\ \A q \in Parcels : parcel[q].key = {k} => q = p

(* A call knows the parcel it booked.                                        *)
BookedIsKeyed ==
  \A c \in Callers : caller[c].at = "call" /\ caller[c].parcel # {} =>
    \E p \in Parcels : caller[c].parcel = {p} /\ parcel[p].key = caller[c].key

Inv == /\ Typed /\ CallersKeyed /\ OneWorks /\ ParcelsKeyed /\ ParcelsOwned
       /\ BookedIsKeyed /\ SucceededIsTracked

LEMMA SameShip ==
  ASSUME ShipShaped, ship' = ship
  PROVE  ShipShaped'
BY DEF ShipShaped

LEMMA StatusWritten ==
  ASSUME ShipShaped, NEW status, ship' = [ship EXCEPT !.status = status]
  PROVE  ShipShaped' /\ ship'.ref = ship.ref
BY DEF ShipShaped

LEMMA InitInv == Init => Inv
<1> SUFFICES ASSUME Init
             PROVE  Inv
  OBVIOUS
<1> USE DEF Init
<1>1. Typed
  BY DEF Typed, ShipShaped, ParcelRows, CallerStates, NoParcel, NoCall, Ended, CalledOff
<1>2. \A c \in Callers : caller[c].at = "idle"
  BY DEF NoCall
<1>3. \A p \in Parcels : parcel[p].key = {}
  BY DEF NoParcel
<1>4. CallersKeyed /\ OneWorks /\ BookedIsKeyed
  BY <1>2 DEF CallersKeyed, OneWorks, BookedIsKeyed, Works
<1>5. ParcelsKeyed /\ ParcelsOwned
  BY <1>3 DEF ParcelsKeyed, ParcelsOwned
<1>6. SucceededIsTracked
  BY DEF SucceededIsTracked
<1>7. QED
  BY <1>1, <1>4, <1>5, <1>6 DEF Inv

-----------------------------------------------------------------------------
(* One call moves, and neither attempts nor parcels change.                  *)
LEMMA CallerMoves ==
  ASSUME Inv, NEW c \in Callers, NEW state \in CallerStates,
         caller' = [caller EXCEPT ![c] = state],
         ShipShaped', ship'.ref = ship.ref,
         UNCHANGED <<attempt, parcel, remit>>,
         \/ state.at \in {"idle", "failed"}
         \/ state.at = "start" /\ state.parcel = {}
         \/ state.at = "call" /\ caller[c].at = "submit" /\ state.parcel = caller[c].parcel
            /\ state.cod = caller[c].cod,
         state.at # "idle" => \E k \in Keys : state.key = {k},
         state.at \in {"call", "failed"} => state.key = caller[c].key
  PROVE  Inv'
<1>1. \A d \in Callers : caller'[d] = IF d = c THEN state ELSE caller[d]
  BY DEF Inv, Typed
<1>2. Typed' /\ CallersKeyed'
  BY <1>1 DEF Inv, Typed, CallersKeyed
<1>3. \A k \in Keys, d \in Callers : Works(d, k)' =>
        Works(d, k) /\ caller'[d].parcel = caller[d].parcel /\ caller'[d].cod = caller[d].cod
  BY <1>1 DEF Works
<1>4. \A d \in Callers : caller'[d].at = "submit" => caller'[d] = caller[d]
  BY <1>1
<1>5. OneWorks'
  <2> SUFFICES ASSUME NEW k \in Keys, NEW d \in Callers, Works(d, k)'
               PROVE  /\ attempt'[k] = "STARTED"
                      /\ caller'[d].at = "submit" => caller'[d].parcel = {}
                      /\ \A e \in Callers : Works(e, k)' => e = d
    BY DEF OneWorks, Works
  <2>1. Works(d, k)
    BY <1>3
  <2>2. QED
    BY <1>3, <1>4, <2>1 DEF Inv, OneWorks
<1>6. ParcelsKeyed'
  BY DEF Inv, ParcelsKeyed
<1>7. ParcelsOwned'
  <2> SUFFICES ASSUME NEW p \in Parcels, NEW k \in Keys, parcel[p].key = {k}
               PROVE  /\ attempt[k] # "none"
                      /\ \A d \in Callers : Works(d, k)' =>
                           caller'[d].parcel = {p} /\ caller'[d].cod = parcel[p].cod
                      /\ \A q \in Parcels : parcel[q].key = {k} => q = p
    BY DEF ParcelsOwned, Works
  <2>1. QED
    BY <1>3 DEF Inv, ParcelsOwned
<1>8. BookedIsKeyed'
  <2> SUFFICES ASSUME NEW d \in Callers, caller'[d].at = "call", caller'[d].parcel # {}
               PROVE  \E p \in Parcels : caller'[d].parcel = {p} /\ parcel[p].key = caller'[d].key
    BY DEF BookedIsKeyed
  <2>1. CASE d = c
    <3>1. PICK k \in Keys : state.key = {k} /\ caller[c].key = {k}
      BY <1>1, <2>1
    <3>2. caller[c].at = "submit" /\ state.parcel = caller[c].parcel
      BY <1>1, <2>1
    <3>3. caller[c].parcel = {}
      BY <3>1, <3>2 DEF Inv, OneWorks, Works
    <3>4. QED
      BY <1>1, <2>1, <3>2, <3>3
  <2>2. CASE d # c
    BY <1>1, <2>2 DEF Inv, BookedIsKeyed
  <2>3. QED
    BY <2>1, <2>2
<1>9. SucceededIsTracked'
  BY DEF Inv, SucceededIsTracked
<1>10. QED
  BY <1>2, <1>5, <1>6, <1>7, <1>8, <1>9 DEF Inv
LEMMA Rows ==
  ASSUME Inv
  PROVE  /\ ShipShaped
         /\ \A p \in Parcels : parcel[p] \in ParcelRows
         /\ \A c \in Callers : caller[c] \in CallerStates
BY DEF Inv, Typed

LEMMA IdleCall == NoCall \in CallerStates /\ NoCall.at = "idle"
BY DEF NoCall, CallerStates

(* The steps of a call that change neither attempts nor parcels.             *)
LEMMA QuietDispatchInv ==
  ASSUME Inv, NEW c \in Callers,
         \/ \E k \in Keys, amount \in CodAmounts : DispatchCheck(c, k, amount)
         \/ DispatchSubmit(c) \/ DispatchError(c) \/ DispatchDies(c)
  PROVE  Inv'
<1>0. caller[c] \in CallerStates
  BY Rows
<1>1. ASSUME NEW k \in Keys, NEW amount \in CodAmounts, DispatchCheck(c, k, amount)
      PROVE  Inv'
  <2> DEFINE state == [at |-> "start", key |-> {k}, cod |-> amount, parcel |-> {}]
  <2>1. /\ state \in CallerStates /\ state.at = "start" /\ state.key = {k}
        /\ state.parcel = {}
    BY DEF CallerStates
  <2>2. /\ caller' = [caller EXCEPT ![c] = state] /\ UNCHANGED <<ship, attempt, parcel, remit>>
    BY <1>1 DEF DispatchCheck, money
  <2> HIDE DEF state
  <2>3. QED
    BY <2>1, <2>2, Rows, SameShip, CallerMoves
<1>2. CASE DispatchSubmit(c)
  <2> DEFINE state == [caller[c] EXCEPT !.at = "call"]
  <2>1. caller[c].at = "submit" /\ \E k \in Keys : caller[c].key = {k}
    BY <1>2 DEF DispatchSubmit, Inv, CallersKeyed
  <2>2. /\ state \in CallerStates /\ state.at = "call" /\ state.key = caller[c].key
        /\ state.parcel = caller[c].parcel /\ state.cod = caller[c].cod
    BY <1>0 DEF CallerStates
  <2>3. /\ caller' = [caller EXCEPT ![c] = state] /\ UNCHANGED <<attempt, parcel, remit>>
        /\ ship' = [ship EXCEPT !.status = "pickup_pending", !.cod = caller[c].cod]
    BY <1>2 DEF DispatchSubmit, money
  <2>4. ShipShaped' /\ ship'.ref = ship.ref
    BY <1>0, <2>3, Rows DEF ShipShaped, CallerStates, Statuses, Active
  <2> HIDE DEF state
  <2>5. QED
    BY <2>1, <2>2, <2>3, <2>4, CallerMoves
<1>3. CASE DispatchError(c) \/ DispatchDies(c)
  <2>1. /\ caller' = [caller EXCEPT ![c] = NoCall] /\ UNCHANGED <<attempt, parcel, remit>>
        /\ ship' = ship \/ ship' = [ship EXCEPT !.status = "error"]
    BY <1>3 DEF DispatchError, DispatchDies, money
  <2>2. ShipShaped' /\ ship'.ref = ship.ref
    BY <2>1, Rows DEF ShipShaped, Statuses, Dispatchable
  <2>3. QED
    BY <2>1, <2>2, IdleCall, CallerMoves
<1>4. QED
  BY <1>1, <1>2, <1>3

(* The key a starting call chose.                                            *)
LEMMA ChosenKey ==
  ASSUME Inv, NEW c \in Callers, caller[c].at # "idle"
  PROVE  /\ (CHOOSE k \in Keys : caller[c].key = {k}) \in Keys
         /\ caller[c].key = {CHOOSE k \in Keys : caller[c].key = {k}}
<1>1. \E k \in Keys : caller[c].key = {k}
  BY DEF Inv, CallersKeyed
<1>2. QED
  BY <1>1

(* The attempt is recorded once: no one works under the key, and no parcel   *)
(* has it.                                                                   *)
LEMMA StartInv ==
  ASSUME Inv, NEW c \in Callers, NEW k \in Keys, caller[c].at = "start", caller[c].key = {k},
         Unused(k), attempt' = [attempt EXCEPT ![k] = "STARTED"],
         caller' = [caller EXCEPT ![c].at = "submit"],
         caller[c].parcel = {}, UNCHANGED <<ship, parcel, remit>>
  PROVE  Inv'
<1>1. /\ \A d \in Callers : caller'[d] = IF d = c THEN [caller[c] EXCEPT !.at = "submit"]
                                                 ELSE caller[d]
      /\ \A j \in Keys : attempt'[j] = IF j = k THEN "STARTED" ELSE attempt[j]
      /\ attempt[k] = "none"
  BY DEF Inv, Typed, Unused
<1>2. /\ caller'[c].at = "submit" /\ caller'[c].key = {k} /\ caller'[c].parcel = {}
      /\ caller'[c] \in CallerStates
  BY <1>1, Rows DEF CallerStates
<1>3. Typed'
  BY <1>2, SameShip DEF Inv, Typed
<1>4. CallersKeyed'
  BY <1>1, <1>2 DEF Inv, CallersKeyed
<1>5. \A d \in Callers : ~Works(d, k)
  BY <1>1 DEF Inv, OneWorks
<1>6. \A j \in Keys, d \in Callers : Works(d, j)' <=> (IF d = c THEN j = k ELSE Works(d, j))
  BY <1>1, <1>2 DEF Works
<1>7. OneWorks'
  <2> SUFFICES ASSUME NEW j \in Keys, NEW d \in Callers, Works(d, j)'
               PROVE  /\ attempt'[j] = "STARTED"
                      /\ caller'[d].at = "submit" => caller'[d].parcel = {}
                      /\ \A e \in Callers : Works(e, j)' => e = d
    BY DEF OneWorks, Works
  <2>1. CASE d = c
    BY <1>1, <1>2, <1>5, <1>6, <2>1
  <2>2. CASE d # c
    <3>1. Works(d, j) /\ j # k
      BY <1>5, <1>6, <2>2
    <3>2. QED
      BY <1>1, <1>6, <2>2, <3>1 DEF Inv, OneWorks
  <2>3. QED
    BY <2>1, <2>2
<1>8. ParcelsKeyed'
  BY DEF Inv, ParcelsKeyed
<1>9. ParcelsOwned'
  <2> SUFFICES ASSUME NEW p \in Parcels, NEW j \in Keys, parcel[p].key = {j}
               PROVE  /\ attempt'[j] # "none"
                      /\ \A d \in Callers : Works(d, j)' =>
                           caller'[d].parcel = {p} /\ caller'[d].cod = parcel[p].cod
                      /\ \A q \in Parcels : parcel[q].key = {j} => q = p
    BY DEF ParcelsOwned, Works
  <2>1. j # k
    BY <1>1 DEF Inv, ParcelsOwned
  <2>2. QED
    BY <1>1, <1>6, <2>1 DEF Inv, ParcelsOwned
<1>10. BookedIsKeyed'
  BY <1>1, <1>2 DEF Inv, BookedIsKeyed
<1>11. SucceededIsTracked'
  BY <1>1 DEF Inv, SucceededIsTracked
<1>12. QED
  BY <1>3, <1>4, <1>7, <1>8, <1>9, <1>10, <1>11 DEF Inv

(* The courier books the first parcel under the key of the call.             *)
LEMMA NoParcelYet ==
  ASSUME Inv, NEW c \in Callers, caller[c].at = "call", caller[c].parcel = {}
  PROVE  \E k \in Keys : caller[c].key = {k} /\ \A p \in Parcels : parcel[p].key # {k}
<1>1. PICK k \in Keys : caller[c].key = {k}
  BY DEF Inv, CallersKeyed
<1>2. Works(c, k)
  BY <1>1 DEF Works
<1>3. QED
  BY <1>1, <1>2 DEF Inv, ParcelsOwned

LEMMA BooksInv ==
  ASSUME Inv, NEW c \in Callers, NEW p \in Parcels, NEW end \in Ends, CourierBooks(c, p, end)
  PROVE  Inv'
<1>1. /\ caller[c].at = "call" /\ caller[c].parcel = {} /\ parcel[p].key = {}
      /\ UNCHANGED <<ship, remit, attempt>>
  BY DEF CourierBooks, money
<1>2. PICK k \in Keys : caller[c].key = {k} /\ \A q \in Parcels : parcel[q].key # {k}
  BY <1>1, NoParcelYet
<1>3. Works(c, k) /\ attempt[k] = "STARTED"
  BY <1>1, <1>2 DEF Works, Inv, OneWorks
<1>4. \A d \in Callers : caller'[d] = IF d = c THEN [caller[c] EXCEPT !.parcel = {p}] ELSE caller[d]
  BY DEF CourierBooks, Inv, Typed
<1>5. /\ caller'[c] \in CallerStates /\ caller'[c].at = "call" /\ caller'[c].key = {k}
      /\ caller'[c].parcel = {p} /\ caller'[c].cod = caller[c].cod
  BY <1>1, <1>2, <1>4, Rows DEF CallerStates
<1>6. \A q \in Parcels : q # p => parcel'[q] = parcel[q]
  BY DEF CourierBooks, Inv, Typed
<1>7. /\ parcel'[p] \in ParcelRows /\ parcel'[p].key = {k} /\ parcel'[p].cod = caller[c].cod
  <2>1. parcel'[p] = [key |-> caller[c].key, cod |-> caller[c].cod, stage |-> 0, end |-> end]
    BY DEF CourierBooks, Inv, Typed
  <2>2. caller[c].cod \in CodAmounts \cup {0} /\ end \in {"delivered", "returned_to_sender"}
    BY Rows, ShipmentAssumption DEF CallerStates
  <2>3. QED
    BY <1>2, <2>1, <2>2 DEF ParcelRows, CalledOff
<1>8. Typed'
  <2>1. parcel' \in [Parcels -> ParcelRows]
    BY <1>7 DEF CourierBooks, Inv, Typed
  <2>2. caller' \in [Callers -> CallerStates]
    BY <1>5 DEF CourierBooks, Inv, Typed
  <2>3. QED
    BY <1>1, <2>1, <2>2, SameShip DEF Inv, Typed
<1>9. CallersKeyed' /\ ParcelsKeyed'
  BY <1>4, <1>5, <1>6, <1>7 DEF Inv, CallersKeyed, ParcelsKeyed
<1>10. \A j \in Keys, d \in Callers : Works(d, j)' <=> Works(d, j)
  BY <1>1, <1>2, <1>4, <1>5 DEF Works
<1>11. OneWorks'
  <2> SUFFICES ASSUME NEW j \in Keys, NEW d \in Callers, Works(d, j)'
               PROVE  /\ attempt'[j] = "STARTED"
                      /\ caller'[d].at = "submit" => caller'[d].parcel = {}
                      /\ \A e \in Callers : Works(e, j)' => e = d
    BY DEF OneWorks, Works
  <2>1. Works(d, j)
    BY <1>10
  <2>2. QED
    BY <1>1, <1>4, <1>5, <1>10, <2>1 DEF Inv, OneWorks
<1>12. ParcelsOwned'
  <2> SUFFICES ASSUME NEW q \in Parcels, NEW j \in Keys, parcel'[q].key = {j}
               PROVE  /\ attempt'[j] # "none"
                      /\ \A d \in Callers : Works(d, j)' =>
                           caller'[d].parcel = {q} /\ caller'[d].cod = parcel'[q].cod
                      /\ \A r \in Parcels : parcel'[r].key = {j} => r = q
    BY DEF ParcelsOwned, Works
  <2>1. CASE q = p
    <3>1. j = k
      BY <1>7, <2>1
    <3>2. \A d \in Callers : Works(d, j)' => d = c
      BY <1>3, <1>10, <3>1 DEF Inv, OneWorks
    <3>3. \A r \in Parcels : parcel'[r].key = {j} => r = q
      BY <1>2, <1>6, <2>1, <3>1
    <3>4. QED
      BY <1>1, <1>3, <1>5, <1>7, <2>1, <3>1, <3>2, <3>3
  <2>2. CASE q # p
    <3>1. parcel[q].key = {j} /\ j # k /\ parcel'[q] = parcel[q]
      BY <1>2, <1>6, <2>2
    <3>2. \A d \in Callers : Works(d, j)' => d # c /\ Works(d, j)
      BY <1>5, <1>10, <3>1 DEF Works
    <3>3. \A r \in Parcels : parcel'[r].key = {j} => r = q
      BY <1>6, <1>7, <3>1 DEF Inv, ParcelsOwned
    <3>4. QED
      BY <1>1, <1>4, <3>1, <3>2, <3>3 DEF Inv, ParcelsOwned
  <2>3. QED
    BY <2>1, <2>2
<1>13. BookedIsKeyed'
  <2> SUFFICES ASSUME NEW d \in Callers, caller'[d].at = "call", caller'[d].parcel # {}
               PROVE  \E q \in Parcels : caller'[d].parcel = {q} /\ parcel'[q].key = caller'[d].key
    BY DEF BookedIsKeyed
  <2>1. CASE d = c
    BY <1>5, <1>7, <2>1
  <2>2. CASE d # c
    <3>1. PICK q \in Parcels : caller[d].parcel = {q} /\ parcel[q].key = caller[d].key
      BY <1>4, <2>2 DEF Inv, BookedIsKeyed
    <3>2. \E j \in Keys : caller[d].key = {j}
      BY <1>4, <2>2 DEF Inv, CallersKeyed
    <3>3. q # p
      BY <1>1, <3>1, <3>2
    <3>4. QED
      BY <1>4, <1>6, <2>2, <3>1, <3>3
  <2>3. QED
    BY <2>1, <2>2
<1>14. SucceededIsTracked'
  <2> SUFFICES ASSUME NEW j \in Keys, attempt[j] = "SUCCEEDED"
               PROVE  /\ ship.ref # {}
                      /\ \A q \in Parcels : parcel'[q].key = {j} /\ parcel'[q].cod > 0 => remit > 0
    BY <1>1 DEF SucceededIsTracked
  <2>1. j # k
    BY <1>3
  <2>2. QED
    BY <1>6, <1>7, <2>1 DEF Inv, SucceededIsTracked
<1>15. QED
  BY <1>8, <1>9, <1>11, <1>12, <1>13, <1>14 DEF Inv

(* A call reports the attempt it recorded, and works no more.                *)
LEMMA Reports ==
  ASSUME Inv, NEW c \in Callers, NEW k \in Keys, Works(c, k), NEW state \in CallerStates,
         state.at \in {"idle", "failed"}, state.at = "failed" => state.key = {k},
         caller' = [caller EXCEPT ![c] = state], NEW result \in {"SUCCEEDED", "FAILED"},
         attempt' = [attempt EXCEPT ![k] = result],
         parcel' = parcel, ShipShaped', remit' \in CodAmounts \cup {0},
         SucceededIsTracked'
  PROVE  Inv'
<1>1. /\ \A d \in Callers : caller'[d] = IF d = c THEN state ELSE caller[d]
      /\ \A j \in Keys : attempt'[j] = IF j = k THEN result ELSE attempt[j]
  BY DEF Inv, Typed, Works
<1>2. Typed'
  <2>1. attempt' \in [Keys -> {"none", "STARTED", "SUCCEEDED", "FAILED"}]
    BY DEF Inv, Typed
  <2>2. QED
    BY <2>1 DEF Inv, Typed
<1>3. CallersKeyed'
  BY <1>1 DEF Inv, CallersKeyed
<1>4. \A j \in Keys, d \in Callers : Works(d, j)' => d # c /\ j # k /\ Works(d, j)
  <2> SUFFICES ASSUME NEW j \in Keys, NEW d \in Callers, Works(d, j)'
               PROVE  d # c /\ j # k /\ Works(d, j)
    OBVIOUS
  <2>1. d # c /\ Works(d, j)
    BY <1>1 DEF Works
  <2>2. QED
    BY <2>1 DEF Inv, OneWorks
<1>5. OneWorks'
  <2> SUFFICES ASSUME NEW j \in Keys, NEW d \in Callers, Works(d, j)'
               PROVE  /\ attempt'[j] = "STARTED"
                      /\ caller'[d].at = "submit" => caller'[d].parcel = {}
                      /\ \A e \in Callers : Works(e, j)' => e = d
    BY DEF OneWorks, Works
  <2>1. d # c /\ j # k /\ Works(d, j)
    BY <1>4
  <2>2. QED
    BY <1>1, <1>4, <2>1 DEF Inv, OneWorks
<1>6. ParcelsKeyed'
  BY DEF Inv, ParcelsKeyed
<1>7. ParcelsOwned'
  <2> SUFFICES ASSUME NEW p \in Parcels, NEW j \in Keys, parcel[p].key = {j}
               PROVE  /\ attempt'[j] # "none"
                      /\ \A d \in Callers : Works(d, j)' =>
                           caller'[d].parcel = {p} /\ caller'[d].cod = parcel[p].cod
                      /\ \A q \in Parcels : parcel[q].key = {j} => q = p
    BY DEF ParcelsOwned, Works
  <2>1. QED
    BY <1>1, <1>4 DEF Inv, ParcelsOwned
<1>8. BookedIsKeyed'
  BY <1>1 DEF Inv, BookedIsKeyed
<1>9. QED
  BY <1>2, <1>3, <1>5, <1>6, <1>7, <1>8 DEF Inv

(* Success is reported with the parcel and the cash it collects.             *)
LEMMA SucceedInv ==
  ASSUME Inv, NEW c \in Callers, DispatchSucceed(c)
  PROVE  Inv'
<1>1. /\ caller[c].at = "call" /\ caller[c].parcel # {} /\ parcel' = parcel
      /\ ship' = [ship EXCEPT !.ref = caller[c].parcel] /\ remit' = ExpectedAfter(caller[c].cod)
      /\ caller' = [caller EXCEPT ![c] = NoCall]
      /\ attempt' = [j \in Keys |-> IF j \in caller[c].key THEN "SUCCEEDED" ELSE attempt[j]]
  BY DEF DispatchSucceed
<1>2. PICK k \in Keys : caller[c].key = {k}
  BY <1>1 DEF Inv, CallersKeyed
<1>3. Works(c, k)
  BY <1>1, <1>2 DEF Works
<1>4. ShipShaped' /\ ship'.ref # {}
  BY <1>1, Rows DEF ShipShaped, CallerStates
<1>5. /\ remit' \in CodAmounts \cup {0}
      /\ remit > 0 => remit' > 0
      /\ caller[c].cod > 0 => remit' > 0
  BY <1>1, Rows DEF ExpectedAfter, CallerStates, Inv, Typed
<1>6. SucceededIsTracked'
  <2> SUFFICES ASSUME NEW j \in Keys, attempt'[j] = "SUCCEEDED", NEW p \in Parcels,
                      parcel[p].key = {j}, parcel[p].cod > 0
               PROVE  remit' > 0
    BY <1>1, <1>4 DEF SucceededIsTracked
  <2>1. CASE j = k
    <3>1. caller[c].cod = parcel[p].cod
      BY <1>3, <2>1 DEF Inv, ParcelsOwned
    <3>2. QED
      BY <1>5, <3>1
  <2>2. CASE j # k
    <3>1. attempt[j] = "SUCCEEDED"
      BY <1>1, <1>2, <2>2
    <3>2. QED
      BY <1>5, <3>1 DEF Inv, SucceededIsTracked
  <2>3. QED
    BY <2>1, <2>2
<1>7. /\ remit' \in CodAmounts \cup {0} /\ ShipShaped' /\ parcel' = parcel
      /\ attempt' = [attempt EXCEPT ![k] = "SUCCEEDED"]
  BY <1>1, <1>2, <1>4, <1>5 DEF Inv, Typed
<1>8. ASSUME NEW state, state = NoCall
      PROVE  Inv'
  <2>1. /\ state \in CallerStates /\ state.at \in {"idle", "failed"}
        /\ state.at # "failed" /\ caller' = [caller EXCEPT ![c] = state]
    BY <1>1, <1>8, IdleCall
  <2>2. QED
    BY <1>3, <1>6, <1>7, <2>1, Reports
<1>9. QED
  BY <1>8

LEMMA FailInv ==
  ASSUME Inv, NEW c \in Callers, DispatchFail(c)
  PROVE  Inv'
<1> DEFINE state == [caller[c] EXCEPT !.at = "failed"]
<1>1. /\ caller[c].at = "call" /\ UNCHANGED <<parcel, ship, remit>>
      /\ caller' = [caller EXCEPT ![c] = state]
      /\ attempt' = [j \in Keys |-> IF j \in caller[c].key THEN "FAILED" ELSE attempt[j]]
  BY DEF DispatchFail, money
<1>2. PICK k \in Keys : caller[c].key = {k}
  BY <1>1 DEF Inv, CallersKeyed
<1>3. Works(c, k)
  BY <1>1, <1>2 DEF Works
<1>4. state \in CallerStates /\ state.at = "failed" /\ state.key = {k}
  BY <1>2, Rows DEF CallerStates
<1> HIDE DEF state
<1>5. SucceededIsTracked'
  <2>1. \A j \in Keys : attempt'[j] = "SUCCEEDED" => attempt[j] = "SUCCEEDED"
    BY <1>1
  <2>2. QED
    BY <1>1, <2>1 DEF Inv, SucceededIsTracked
<1>6. /\ ShipShaped' /\ remit' \in CodAmounts \cup {0} /\ parcel' = parcel
      /\ caller' = [caller EXCEPT ![c] = state] /\ attempt' = [attempt EXCEPT ![k] = "FAILED"]
  BY <1>1, <1>2, SameShip DEF Inv, Typed
<1>7. QED
  BY <1>3, <1>4, <1>5, <1>6, Reports

-----------------------------------------------------------------------------
(* The courier moves what it booked; nothing else touches a dispatch.        *)
LEMMA MovesInv ==
  ASSUME Inv, NEW p \in Parcels, CourierMoves(p) \/ CallOff(p)
  PROVE  Inv'
<1>1. UNCHANGED <<ship, remit, attempt, caller>>
  BY DEF CourierMoves, CallOff, money, dispatch
<1>2. PICK stage \in 0..CalledOff : parcel' = [parcel EXCEPT ![p].stage = stage]
  <2>1. parcel[p].stage \in 0..CalledOff
    BY Rows DEF ParcelRows
  <2>2. QED
    BY <2>1 DEF CourierMoves, CallOff, Ended, CalledOff
<1>3. \A q \in Parcels : /\ parcel'[q] \in ParcelRows
                         /\ parcel'[q].key = parcel[q].key /\ parcel'[q].cod = parcel[q].cod
  BY <1>2, Rows DEF ParcelRows, Inv, Typed
<1>4. Typed'
  BY <1>1, <1>2, <1>3, SameShip DEF Inv, Typed
<1>5. CallersKeyed' /\ OneWorks' /\ ParcelsKeyed'
  BY <1>1, <1>3 DEF Inv, CallersKeyed, OneWorks, Works, ParcelsKeyed
<1>6. ParcelsOwned'
  BY <1>1, <1>3 DEF Inv, ParcelsOwned, Works
<1>7. BookedIsKeyed' /\ SucceededIsTracked'
  BY <1>1, <1>3 DEF Inv, BookedIsKeyed, SucceededIsTracked
<1>8. QED
  BY <1>4, <1>5, <1>6, <1>7 DEF Inv

LEMMA ElsewhereInv ==
  ASSUME Inv, UNCHANGED <<remit, attempt, parcel, caller>>, ShipShaped',
         ship'.ref = ship.ref
  PROVE  Inv'
BY DEF Inv, Typed, CallersKeyed, OneWorks, Works, ParcelsKeyed, ParcelsOwned, BookedIsKeyed,
   SucceededIsTracked

LEMMA HandlerElsewhere ==
  ASSUME Inv, NEW h \in Handlers, HandlerStep(h)
  PROVE  /\ UNCHANGED <<remit, attempt, parcel, caller>>
         /\ ship' = ship \/ \E status : ship' = [ship EXCEPT !.status = status]
BY DEF HandlerStep, PollSelects, PollAnswered, ReadCurrent, WriteStatus, DeliverBooking,
   RecordCash, UpdateDies, WebhookArrives, StaffSets, money, dispatch

LEMMA InitOnce == Init => Once!Init
<1> SUFFICES ASSUME Init
             PROVE  Once!Init
  OBVIOUS
<1>1. \A k \in Keys : {p \in Parcels : parcel[p].key = {k}} = {}
  BY DEF Init, NoParcel
<1>2. Effects = [k \in Keys |-> 0]
  BY <1>1, FS_EmptySet DEF Effects
<1>3. QED
  BY <1>2 DEF Init, Once!Init
(* A starting call records its attempt, or finds the key used.               *)
LEMMA DispatchStartInv ==
  ASSUME Inv, NEW c \in Callers, DispatchStart(c)
  PROVE  Inv'
<1> DEFINE k == CHOOSE k \in Keys : caller[c].key = {k}
<1>1. k \in Keys /\ caller[c].key = {k} /\ caller[c].at = "start" /\ caller[c].parcel = {}
  BY ChosenKey DEF DispatchStart, Inv, CallersKeyed
<1>2. /\ UNCHANGED <<ship, parcel, remit>>
      /\ IF Unused(k)
         THEN /\ attempt' = [attempt EXCEPT ![k] = "STARTED"]
              /\ caller' = [caller EXCEPT ![c].at = "submit"]
         ELSE caller' = [caller EXCEPT ![c] = NoCall] /\ attempt' = attempt
  BY DEF DispatchStart, money
<1> HIDE DEF k
<1>3. CASE Unused(k)
  BY <1>1, <1>2, <1>3, StartInv
<1>4. CASE ~Unused(k)
  <2>1. ShipShaped' /\ ship'.ref = ship.ref
    BY <1>2, Rows, SameShip
  <2>2. QED
    BY <1>2, <1>4, <2>1, IdleCall, CallerMoves
<1>5. QED
  BY <1>3, <1>4

LEMMA NextInv == Inv /\ [Next]_vars => Inv'
<1> SUFFICES ASSUME Inv, [Next]_vars
             PROVE  Inv'
  OBVIOUS
<1>1. ASSUME NEW c \in Callers, DispatchStep(c)
      PROVE  Inv'
  BY <1>1, QuietDispatchInv, DispatchStartInv, BooksInv, SucceedInv, FailInv DEF DispatchStep
<1>2. ASSUME NEW p \in Parcels, CourierMoves(p) \/ CallOff(p)
      PROVE  Inv'
  BY <1>2, MovesInv
<1>3. ASSUME UNCHANGED <<remit, attempt, parcel, caller>>,
             ship' = ship \/ \E status : ship' = [ship EXCEPT !.status = status]
      PROVE  Inv'
  <2>1. ShipShaped' /\ ship'.ref = ship.ref
    <3>1. CASE ship' = ship
      BY <3>1, Rows, SameShip
    <3>2. ASSUME NEW status, ship' = [ship EXCEPT !.status = status]
          PROVE  ShipShaped' /\ ship'.ref = ship.ref
      BY <3>2, Rows, StatusWritten
    <3>3. QED
      BY <1>3, <3>1, <3>2
  <2>2. QED
    BY <1>3, <2>1, ElsewhereInv
<1>4. ASSUME NEW h \in Handlers, HandlerStep(h)
      PROVE  Inv'
  BY <1>3, <1>4, HandlerElsewhere
<1>5. CASE PrepareShipment \/ HandOut \/ StaffDeliver \/ ThreeDaysPass \/ StuckSelect \/ StuckMark
           \/ UNCHANGED vars
  BY <1>3, <1>5 DEF PrepareShipment, HandOut, StaffDeliver, ThreeDaysPass, StuckSelect,
     StuckMark, vars, money, dispatch
<1>6. QED
  BY <1>1, <1>2, <1>4, <1>5 DEF Next

-----------------------------------------------------------------------------
(* Dispatch implements OnceOnly.                                             *)

LEMMA SameKeys ==
  ASSUME \A p \in Parcels : parcel'[p].key = parcel[p].key
  PROVE  Effects' = Effects
BY DEF Effects

LEMMA OnceStep == Inv /\ Inv' /\ [Next]_vars => [Once!Next]_Once!vars
<1> SUFFICES ASSUME Inv, [Next]_vars
             PROVE  [Once!Next]_Once!vars
  OBVIOUS
<1>1. CASE UNCHANGED <<attempt, parcel>>
  <2>1. Effects' = Effects
    BY <1>1, SameKeys
  <2>2. QED
    BY <1>1, <2>1 DEF Once!vars
<1>2. ASSUME NEW c \in Callers, DispatchStart(c)
      PROVE  [Once!Next]_Once!vars
  <2> DEFINE k == CHOOSE k \in Keys : caller[c].key = {k}
  <2>1. k \in Keys
    BY <1>2, ChosenKey DEF DispatchStart
  <2>2. /\ UNCHANGED parcel
        /\ \/ Unused(k) /\ attempt' = [attempt EXCEPT ![k] = "STARTED"]
           \/ UNCHANGED attempt
    BY <1>2 DEF DispatchStart
  <2> HIDE DEF k
  <2>3. Effects' = Effects
    BY <2>2, SameKeys
  <2>4. CASE Unused(k) /\ attempt' = [attempt EXCEPT ![k] = "STARTED"]
    <3>1. Once!Start(k)
      BY <2>3, <2>4 DEF Once!Start, Unused
    <3>2. QED
      BY <2>1, <3>1 DEF Once!Next
  <2>5. CASE UNCHANGED attempt
    BY <2>3, <2>5 DEF Once!vars
  <2>6. QED
    BY <2>2, <2>4, <2>5
<1>3. ASSUME NEW c \in Callers, NEW p \in Parcels, NEW end \in Ends, CourierBooks(c, p, end)
      PROVE  [Once!Next]_Once!vars
  <2>1. /\ caller[c].at = "call" /\ caller[c].parcel = {} /\ parcel[p].key = {}
        /\ UNCHANGED attempt
    BY <1>3 DEF CourierBooks
  <2>2. PICK k \in Keys : caller[c].key = {k} /\ \A q \in Parcels : parcel[q].key # {k}
    BY <2>1, NoParcelYet
  <2>3. attempt[k] = "STARTED"
    BY <2>1, <2>2 DEF Works, Inv, OneWorks
  <2>4. \A q \in Parcels : parcel'[q].key = IF q = p THEN {k} ELSE parcel[q].key
    <3>1. parcel'[p].key = caller[c].key /\ \A q \in Parcels : q # p => parcel'[q] = parcel[q]
      BY <1>3 DEF CourierBooks, Inv, Typed
    <3>2. QED
      BY <2>2, <3>1
  <2>5. Effects[k] = 0
    <3>1. {q \in Parcels : parcel[q].key = {k}} = {}
      BY <2>2
    <3>2. QED
      BY <3>1, FS_EmptySet DEF Effects
  <2>6. Cardinality({q \in Parcels : parcel'[q].key = {k}}) = 1
    <3>1. {q \in Parcels : parcel'[q].key = {k}} = {p}
      BY <2>2, <2>4
    <3>2. QED
      BY <3>1, FS_Singleton
  <2>7. \A j \in Keys : j # k =>
          {q \in Parcels : parcel'[q].key = {j}} = {q \in Parcels : parcel[q].key = {j}}
    BY <2>1, <2>2, <2>4
  <2>8. Effects' = [Effects EXCEPT ![k] = 1]
    BY <2>6, <2>7 DEF Effects
  <2>9. Once!TakeEffect(k)
    BY <2>1, <2>3, <2>5, <2>8 DEF Once!TakeEffect
  <2>10. QED
    BY <2>9 DEF Once!Next
<1>4. ASSUME NEW c \in Callers, DispatchSucceed(c) \/ DispatchFail(c)
      PROVE  [Once!Next]_Once!vars
  <2>1. caller[c].at = "call" /\ UNCHANGED parcel
    BY <1>4 DEF DispatchSucceed, DispatchFail
  <2>2. PICK k \in Keys : caller[c].key = {k}
    BY <2>1 DEF Inv, CallersKeyed
  <2>3. attempt[k] = "STARTED"
    BY <2>1, <2>2 DEF Works, Inv, OneWorks
  <2>4. Effects' = Effects
    BY <2>1, SameKeys
  <2>5. CASE DispatchSucceed(c)
    <3>1. attempt' = [attempt EXCEPT ![k] = "SUCCEEDED"]
      BY <2>2, <2>5 DEF DispatchSucceed, Inv, Typed
    <3>2. PICK p \in Parcels : parcel[p].key = {k}
      BY <2>1, <2>2, <2>5 DEF DispatchSucceed, Inv, BookedIsKeyed
    <3>3. {q \in Parcels : parcel[q].key = {k}} = {p}
      BY <3>2 DEF Inv, ParcelsOwned
    <3>4. Effects[k] = 1
      BY <3>3, FS_Singleton DEF Effects
    <3>5. Once!Report(k, "SUCCEEDED")
      BY <2>3, <2>4, <3>1, <3>4 DEF Once!Report
    <3>6. QED
      BY <3>5 DEF Once!Next
  <2>6. CASE DispatchFail(c)
    <3>1. attempt' = [attempt EXCEPT ![k] = "FAILED"]
      BY <2>2, <2>6 DEF DispatchFail, Inv, Typed
    <3>2. Once!Report(k, "FAILED")
      BY <2>3, <2>4, <3>1 DEF Once!Report
    <3>3. QED
      BY <3>2 DEF Once!Next
  <2>7. QED
    BY <1>4, <2>5, <2>6
<1>5. ASSUME NEW p \in Parcels, CourierMoves(p) \/ CallOff(p)
      PROVE  [Once!Next]_Once!vars
  <2>1. UNCHANGED attempt /\ \A q \in Parcels : parcel'[q].key = parcel[q].key
    BY <1>5, Rows DEF CourierMoves, CallOff, dispatch, ParcelRows, Inv, Typed
  <2>2. Effects' = Effects
    BY <2>1, SameKeys
  <2>3. QED
    BY <2>1, <2>2 DEF Once!vars
<1>6. ASSUME NEW h \in Handlers, HandlerStep(h)
      PROVE  UNCHANGED <<attempt, parcel>>
  BY <1>6, HandlerElsewhere
<1>7. QED
  BY <1>1, <1>2, <1>3, <1>4, <1>5, <1>6 DEF Next, vars, DispatchStep, PrepareShipment,
     DispatchCheck, DispatchSubmit, DispatchError, DispatchDies, HandOut, StaffDeliver,
     ThreeDaysPass, StuckSelect, StuckMark, dispatch
-----------------------------------------------------------------------------
(* For any number of keys, calls and parcels, and however processes die and  *)
(* answers are lost: under one key at most one parcel is booked, and only    *)
(* then is success reported.                                                 *)
THEOREM DispatchIsOnceOnly == Spec => DispatchOncePerKey
BY InitInv, NextInv, InitOnce, OnceStep, PTL DEF Spec, Once!Spec, DispatchOncePerKey

(* A dispatch reported as done left the shipment with a parcel, and with the *)
(* remittance of the cash its parcel collects.                               *)
THEOREM SucceededAlwaysTracked == Spec => []SucceededIsTracked
<1>1. Inv => SucceededIsTracked
  BY DEF Inv
<1>2. QED
  BY InitInv, NextInv, <1>1, PTL DEF Spec

(* A delivery's cash is recorded at most once, however many updates report it. *)
THEOREM CashAlwaysOnce == Spec => []CashRecordedOnce
<1> DEFINE Once0 == cash \in {0, 1}
<1>1. Init => Once0
  BY DEF Init
<1>2. Once0 /\ [Next]_vars => Once0'
  <2> SUFFICES ASSUME cash \in {0, 1}, [Next]_vars
               PROVE  cash' \in {0, 1}
    OBVIOUS
  <2>1. ASSUME NEW h \in Handlers, RecordCash(h)
        PROVE  cash' \in {0, 1}
    BY <2>1 DEF RecordCash, Outstanding
  <2>2. QED
    BY <2>1 DEF Next, vars, DispatchStep, HandlerStep, PrepareShipment, DispatchCheck,
       DispatchStart, DispatchSubmit, CourierBooks, DispatchSucceed, DispatchFail,
       DispatchError, DispatchDies, CourierMoves, CallOff, WebhookArrives, PollSelects,
       PollAnswered, ReadCurrent, WriteStatus, DeliverBooking, UpdateDies, StaffSets, HandOut,
       StaffDeliver, ThreeDaysPass, StuckSelect, StuckMark, money
<1>3. Once0 => CashRecordedOnce
  BY DEF CashRecordedOnce
<1>4. QED
  BY <1>1, <1>2, <1>3, PTL DEF Spec

-----------------------------------------------------------------------------
(* The shape of everything else.  An update is about a shipment that was     *)
(* prepared, so that the status it reads is one of the courier's.            *)

Prepared ==
  ship.status = "none" =>
    /\ ship.ref = {}
    /\ \A c \in Callers : caller[c].at = "idle"
    /\ \A h \in Handlers : handler[h].at = "idle"

ShopTyped ==
  /\ booking \in {"confirmed", "delivered"} /\ handedOut \in BOOLEAN
  /\ ship \in ShipRows /\ cash \in Nat
  /\ stuck \in PickupStates
UpdatesTyped ==
  /\ handler \in [Handlers -> HandlerStates]
  /\ receipts \subseteq Parcels \X (0..Ended)
  /\ byHand \in 0..MaxByHand

Shaped == ShopTyped /\ UpdatesTyped /\ Prepared

LEMMA InitShaped == Init => Shaped
<1> SUFFICES ASSUME Init
             PROVE  Shaped
  OBVIOUS
<1>1. ShopTyped
  BY DEF Init, ShopTyped, ShipRows, PickupStates
<1>2. UpdatesTyped
  <2>1. NoUpdate \in HandlerStates
    BY DEF NoUpdate, HandlerStates, Statuses, Terminal, Active, Dispatchable, CalledOff
  <2>2. QED
    BY <2>1, ShipmentAssumption DEF Init, UpdatesTyped
<1>3. Prepared
  BY DEF Init, Prepared, NoCall, NoUpdate
<1>4. QED
  BY <1>1, <1>2, <1>3 DEF Shaped

(* The statuses by name.                                                     *)
LEMMA StatusNames ==
  Statuses = {"delivered", "returned_to_sender", "cancelled", "pickup_pending", "in_transit",
              "unknown", "prepare_parcel", "error"}
BY DEF Statuses, Terminal, Active, Dispatchable

LEMMA DispatchShaped ==
  ASSUME Inv, Shaped, NEW c \in Callers, DispatchStep(c)
  PROVE  Shaped'
<1>1. /\ ship \in ShipRows /\ DOMAIN ship = {"status", "ref", "cod"} /\ caller[c] \in CallerStates
      /\ DOMAIN stuck = {"requested", "selected"}
      /\ DOMAIN caller = Callers
  BY DEF Inv, Typed, Shaped, ShopTyped, ShipRows, PickupStates
<1>2. UNCHANGED <<booking, handedOut, cash, handler, receipts, byHand>>
  BY DEF DispatchStep, DispatchCheck, DispatchStart, DispatchSubmit, CourierBooks, DispatchSucceed,
     DispatchFail, DispatchError, DispatchDies, money, updates
<1>3. /\ ship' \in ShipRows /\ stuck' \in PickupStates
      /\ ship'.status = "none" => ship.status = "none" /\ ship' = ship
  <2>1. CASE ship' = ship /\ stuck' = stuck
    BY <1>1, <2>1 DEF Shaped, ShopTyped
  <2>2. CASE DispatchSubmit(c)
    BY <1>1, <2>2, StatusNames DEF DispatchSubmit, ShipRows, PickupStates, CallerStates, Shaped,
       ShopTyped
  <2>3. CASE DispatchSucceed(c)
    <3>1. /\ ship'.status = ship.status /\ ship'.cod = ship.cod /\ ship'.ref = caller[c].parcel
          /\ ship' = [status |-> ship.status, ref |-> caller[c].parcel, cod |-> ship.cod]
      BY <1>1, <2>3 DEF DispatchSucceed, ShipRows
    <3>2. ship.status # "none" /\ stuck' = stuck
      BY <2>3 DEF DispatchSucceed, Shaped, Prepared
    <3>3. QED
      BY <1>1, <3>1, <3>2 DEF ShipRows, CallerStates, Shaped, ShopTyped
  <2>4. CASE DispatchError(c)
    BY <1>1, <2>4, StatusNames DEF DispatchError, ShipRows, Shaped, ShopTyped
  <2>5. QED
    BY <2>1, <2>2, <2>3, <2>4 DEF DispatchStep, DispatchCheck, DispatchStart, CourierBooks,
       DispatchFail, DispatchDies
<1>4. ship.status = "none" => \A d \in Callers : caller'[d].at = "idle"
  <2> SUFFICES ASSUME ship.status = "none"
               PROVE  FALSE
    OBVIOUS
  <2>1. caller[c].at = "idle" /\ ~(ship.status \in Dispatchable)
    BY DEF Shaped, Prepared, Dispatchable
  <2>2. QED
    BY <2>1 DEF DispatchStep, DispatchCheck, DispatchStart, DispatchSubmit, CourierBooks,
       DispatchSucceed, DispatchFail, DispatchError, DispatchDies
<1>5. QED
  BY <1>2, <1>3, <1>4 DEF Shaped, ShopTyped, UpdatesTyped, Prepared

(* A handler goes to a state an update can be in; what it is about was       *)
(* prepared.                                                                 *)
LEMMA HandlerShaped ==
  ASSUME Inv, Shaped, NEW h \in Handlers, HandlerStep(h)
  PROVE  Shaped'
<1> DEFINE Moved == \E state \in HandlerStates : handler' = [handler EXCEPT ![h] = state]
<1>1. /\ handler \in [Handlers -> HandlerStates] /\ handler[h] \in HandlerStates
      /\ DOMAIN handler[h] = {"at", "source", "status", "stage", "next", "parcel", "booking"}
      /\ ship \in ShipRows /\ DOMAIN ship = {"status", "ref", "cod"}
      /\ booking \in {"confirmed", "delivered"} /\ cash \in Nat /\ byHand \in 0..MaxByHand
      /\ receipts \subseteq Parcels \X (0..Ended)
  BY DEF Shaped, UpdatesTyped, ShopTyped, HandlerStates, ShipRows
<1>2. /\ NoUpdate \in HandlerStates /\ NoUpdate.source = "staff" /\ NoUpdate.stage = 0
      /\ NoUpdate.status = "error" /\ NoUpdate.next = "error" /\ NoUpdate.parcel = {}
      /\ DOMAIN NoUpdate = {"at", "source", "status", "stage", "next", "parcel", "booking"}
  BY StatusNames DEF NoUpdate, HandlerStates, CalledOff
<1>3. ship.status # "none"
  <2> SUFFICES ASSUME ship.status = "none"
               PROVE  FALSE
    OBVIOUS
  <2>1. handler[h].at = "idle" /\ ship.ref = {} /\ ship.status \notin Active
    BY DEF Shaped, Prepared, Active
  <2>2. QED
    BY <2>1 DEF HandlerStep, PollSelects, PollAnswered, ReadCurrent, WriteStatus, DeliverBooking,
       RecordCash, UpdateDies, WebhookArrives, StaffSets
<1>4. \A p \in Parcels : parcel[p].stage \in 0..CalledOff
                          /\ parcel[p].end \in {"delivered", "returned_to_sender"}
  BY DEF Inv, Typed, ParcelRows
<1>5. ASSUME NEW p \in Parcels, NEW stage \in 0..Ended, WebhookArrives(h, p, stage)
      PROVE  Moved
  <2>1. StatusAt(p, stage) \in Statuses
    BY <1>4, StatusNames DEF StatusAt
  <2>2. stage \in 0..CalledOff
    BY DEF Ended, CalledOff
  <2> DEFINE state == [NoUpdate EXCEPT !.at = "read", !.source = "webhook",
                         !.status = StatusAt(p, stage), !.stage = stage, !.parcel = {p},
                         !.booking = booking]
  <2>3. state \in HandlerStates
    BY <1>1, <1>2, <2>1, <2>2 DEF HandlerStates
  <2>4. QED
    BY <1>5, <2>3 DEF WebhookArrives
<1>6. ASSUME PollSelects(h)
      PROVE  Moved
  <2>1. ship.status \in Statuses /\ ship.ref \subseteq Parcels
    BY <1>1, <1>3 DEF ShipRows
  <2> DEFINE state == [NoUpdate EXCEPT !.at = "ask", !.source = "poll", !.next = ship.status,
                                       !.parcel = ship.ref, !.booking = booking]
  <2>2. state \in HandlerStates
    BY <1>1, <1>2, <2>1 DEF HandlerStates
  <2>3. QED
    BY <1>6, <2>2 DEF PollSelects
<1>7. ASSUME PollAnswered(h)
      PROVE  Moved
  <2>1. PICK p \in handler[h].parcel :
          handler' = [handler EXCEPT ![h] =
            IF PolledStatus(p) = @.next THEN NoUpdate
            ELSE [@ EXCEPT !.at = "read", !.status = PolledStatus(p), !.stage = parcel[p].stage]]
    BY <1>7 DEF PollAnswered
  <2>2. p \in Parcels
    BY <1>1 DEF HandlerStates
  <2>3. PolledStatus(p) \in Statuses
    BY <1>4, <2>2, StatusNames DEF PolledStatus
  <2> DEFINE state == [handler[h] EXCEPT !.at = "read", !.status = PolledStatus(p),
                                         !.stage = parcel[p].stage]
  <2>4. state \in HandlerStates
    BY <1>1, <1>4, <2>2, <2>3 DEF HandlerStates
  <2>5. QED
    BY <1>1, <1>2, <2>1, <2>4
<1>8. ASSUME ReadCurrent(h)
      PROVE  Moved
  <2>1. ship.status \in Statuses
    BY <1>1, <1>3 DEF ShipRows
  <2>2. /\ [handler[h] EXCEPT !.at = "ignore", !.next = ship.status] \in HandlerStates
        /\ [handler[h] EXCEPT !.at = "write", !.next = handler[h].status] \in HandlerStates
    BY <1>1, <2>1 DEF HandlerStates
  <2>3. QED
    BY <1>1, <1>8, <2>2 DEF ReadCurrent
<1>9. ASSUME WriteStatus(h)
      PROVE  Moved
  <2>1. [NoUpdate EXCEPT !.at = "deliver", !.booking = handler[h].booking] \in HandlerStates
    BY <1>1, <1>2 DEF HandlerStates
  <2>2. QED
    BY <1>1, <1>2, <1>9, <2>1 DEF WriteStatus
<1>10. ASSUME DeliverBooking(h) \/ RecordCash(h) \/ UpdateDies(h)
       PROVE  Moved
  <2>1. [handler[h] EXCEPT !.at = "cash"] \in HandlerStates
    BY <1>1 DEF HandlerStates
  <2>2. QED
    BY <1>2, <1>10, <2>1 DEF DeliverBooking, RecordCash, UpdateDies
<1>11. ASSUME NEW status \in ByHand, StaffSets(h, status)
       PROVE  Moved
  <2>1. status \in Statuses
    BY ShipmentAssumption, StatusNames
  <2> DEFINE state == [NoUpdate EXCEPT !.at = "write", !.status = status, !.next = status,
                                       !.booking = booking]
  <2>2. state \in HandlerStates
    BY <1>1, <1>2, <2>1 DEF HandlerStates
  <2>3. QED
    BY <1>11, <2>2 DEF StaffSets
<1>12. Moved
  BY <1>5, <1>6, <1>7, <1>8, <1>9, <1>10, <1>11 DEF HandlerStep
<1>13. handler' \in [Handlers -> HandlerStates]
  BY <1>1, <1>12
<1>14. ship' \in ShipRows /\ ship'.status # "none" /\ UNCHANGED <<caller, handedOut, stuck>>
  <2>1. handler[h].next \in Statuses
    BY <1>1 DEF HandlerStates
  <2>2. ship' = ship \/ ship' = [ship EXCEPT !.status = handler[h].next]
    BY DEF HandlerStep, PollSelects, PollAnswered, ReadCurrent, WriteStatus, DeliverBooking,
       RecordCash, UpdateDies, WebhookArrives, StaffSets
  <2>3. ship' \in ShipRows /\ ship'.status # "none"
    BY <1>1, <1>3, <2>1, <2>2, StatusNames DEF ShipRows
  <2>4. UNCHANGED <<caller, handedOut, stuck>>
    BY DEF HandlerStep, PollSelects, PollAnswered, ReadCurrent, WriteStatus, DeliverBooking,
       RecordCash, UpdateDies, WebhookArrives, StaffSets, dispatch
  <2>5. QED
    BY <2>3, <2>4
<1>15. /\ booking' \in {"confirmed", "delivered"} /\ cash' \in Nat /\ byHand' \in 0..MaxByHand
       /\ receipts' \subseteq Parcels \X (0..Ended)
  <2>1. booking' = booking \/ booking' = "delivered"
    BY DEF HandlerStep, PollSelects, PollAnswered, ReadCurrent, WriteStatus, DeliverBooking,
       RecordCash, UpdateDies, WebhookArrives, StaffSets
  <2>2. cash' = cash \/ cash' = cash + 1
    BY DEF HandlerStep, PollSelects, PollAnswered, ReadCurrent, WriteStatus, DeliverBooking,
       RecordCash, UpdateDies, WebhookArrives, StaffSets, money
  <2>3. byHand' = byHand \/ (byHand < MaxByHand /\ byHand' = byHand + 1)
    BY DEF HandlerStep, PollSelects, PollAnswered, ReadCurrent, WriteStatus, DeliverBooking,
       RecordCash, UpdateDies, WebhookArrives, StaffSets
  <2>4. \/ receipts' = receipts
        \/ \E p \in Parcels, stage \in 0..Ended : receipts' = receipts \cup {<<p, stage>>}
    BY DEF HandlerStep, PollSelects, PollAnswered, ReadCurrent, WriteStatus, DeliverBooking,
       RecordCash, UpdateDies, WebhookArrives, StaffSets
  <2>5. receipts' \subseteq Parcels \X (0..Ended)
    BY <1>1, <2>4
  <2>6. byHand' \in 0..MaxByHand
    BY <1>1, <2>3, ShipmentAssumption
  <2>7. QED
    BY <1>1, <2>1, <2>2, <2>5, <2>6
<1>16. QED
  BY <1>13, <1>14, <1>15 DEF Shaped, ShopTyped, UpdatesTyped, Prepared

LEMMA NextShaped == Inv /\ Shaped /\ [Next]_vars => Shaped'
<1> SUFFICES ASSUME Inv, Shaped, [Next]_vars
             PROVE  Shaped'
  OBVIOUS
<1>1. CASE \E c \in Callers : DispatchStep(c)
  BY <1>1, DispatchShaped
<1>2. CASE \E h \in Handlers : HandlerStep(h)
  BY <1>2, HandlerShaped
<1>3. ASSUME PrepareShipment \/ StuckMark
      PROVE  Shaped'
  <2>1. /\ ship \in ShipRows /\ DOMAIN ship = {"status", "ref", "cod"}
        /\ DOMAIN stuck = {"requested", "selected"} /\ stuck \in PickupStates
    BY DEF Shaped, ShopTyped, ShipRows, PickupStates
  <2>2. ship' \in ShipRows /\ ship'.status # "none"
    BY <1>3, <2>1, StatusNames DEF PrepareShipment, StuckMark, ShipRows
  <2>3. stuck' \in PickupStates
    BY <1>3, <2>1 DEF PrepareShipment, StuckMark, PickupStates
  <2>4. UNCHANGED <<booking, handedOut, cash, handler, receipts, byHand>>
    BY <1>3 DEF PrepareShipment, StuckMark, money, updates
  <2>5. QED
    BY <2>2, <2>3, <2>4 DEF Shaped, ShopTyped, UpdatesTyped, Prepared
<1>4. ASSUME \/ \E p \in Parcels : CourierMoves(p) \/ CallOff(p)
             \/ HandOut \/ StaffDeliver \/ ThreeDaysPass \/ StuckSelect
             \/ UNCHANGED vars
      PROVE  Shaped'
  <2>1. UNCHANGED <<ship, caller, cash, handler, receipts, byHand>>
    BY <1>4 DEF CourierMoves, CallOff, HandOut, StaffDeliver, ThreeDaysPass, StuckSelect, vars,
       dispatch, updates, money
  <2>2. DOMAIN stuck = {"requested", "selected"} /\ stuck \in PickupStates
    BY DEF Shaped, ShopTyped, PickupStates
  <2>3. stuck' \in PickupStates
    BY <1>4, <2>2 DEF CourierMoves, CallOff, HandOut, StaffDeliver, ThreeDaysPass, StuckSelect,
       PickupStates, vars
  <2>4. booking' \in {"confirmed", "delivered"} /\ handedOut' \in BOOLEAN
    BY <1>4 DEF Shaped, ShopTyped, CourierMoves, CallOff, HandOut, StaffDeliver, ThreeDaysPass,
       StuckSelect, vars
  <2>5. QED
    BY <2>1, <2>3, <2>4 DEF Shaped, ShopTyped, UpdatesTyped, Prepared
<1>5. QED
  BY <1>1, <1>2, <1>3, <1>4 DEF Next

(* Every variable of the shipment keeps its type, and an update always finds *)
(* a shipment with a status to compare with.                                 *)
THEOREM TypeCorrect == Spec => []TypeOK
<1>1. Inv /\ Shaped => TypeOK
  BY DEF Inv, Typed, Shaped, ShopTyped, UpdatesTyped, TypeOK
<1>2. QED
  BY InitInv, NextInv, InitShaped, NextShaped, <1>1, PTL DEF Spec

-----------------------------------------------------------------------------
(* What the commands lose by not being one transaction, and by that alone.   *)
(*                                                                           *)
(* Two parcels: dispatches that overlap, or one whose answer was lost.       *)

(* A dispatch begins while no other is in progress, and none that booked a   *)
(* parcel ends without recording it.                                         *)
AnsweredAlone ==
  \A c \in Callers :
    /\ \A k \in Keys, amount \in CodAmounts :
         DispatchCheck(c, k, amount) => \A d \in Callers : caller[d].at = "idle"
    /\ DispatchFail(c) \/ DispatchDies(c) => caller[c].parcel = {}

(* Who booked the only parcel there is: the dispatch in progress, or one     *)
(* that recorded it.                                                         *)
AllIdle == \A c \in Callers : caller[c].at = "idle"
OneDispatch ==
  /\ \A c, d \in Callers : caller[c].at # "idle" /\ caller[d].at # "idle" => c = d
  /\ ~AllIdle => ship.ref = {}
  /\ \A p \in Parcels : parcel[p].key # {} =>
       \/ AllIdle /\ ship.ref = {p}
       \/ \E c \in Callers : caller[c].at = "call" /\ caller[c].parcel = {p}

LEMMA OneDispatchStep ==
  ASSUME Inv, OneDispatch, AnsweredAlone, NEW c \in Callers, DispatchStep(c)
  PROVE  OneDispatch'
<1>1. /\ DOMAIN caller = Callers /\ DOMAIN parcel = Parcels /\ caller[c] \in CallerStates
      /\ DOMAIN caller[c] = {"at", "key", "cod", "parcel"}
      /\ DOMAIN ship = {"status", "ref", "cod"}
      /\ NoCall.at = "idle"
  BY DEF Inv, Typed, ShipShaped, CallerStates, NoCall
<1>2. ASSUME NEW k \in Keys, NEW amount \in CodAmounts, DispatchCheck(c, k, amount)
      PROVE  OneDispatch'
  <2>1. AllIdle /\ ship.ref = {}
    BY <1>2 DEF AnsweredAlone, AllIdle, DispatchCheck
  <2>2. \A p \in Parcels : parcel[p].key = {}
    BY <2>1 DEF OneDispatch, AllIdle
  <2>3. UNCHANGED <<ship, parcel>> /\ \A d \in Callers : d # c => caller'[d] = caller[d]
    BY <1>1, <1>2 DEF DispatchCheck
  <2>4. QED
    BY <2>1, <2>2, <2>3 DEF OneDispatch, AllIdle
<1>3. ASSUME DispatchStart(c) \/ DispatchSubmit(c)
      PROVE  OneDispatch'
  <2>1. /\ caller[c].at \in {"start", "submit"} /\ ship'.ref = ship.ref /\ parcel' = parcel
        /\ \A d \in Callers : d # c => caller'[d] = caller[d]
    BY <1>1, <1>3 DEF DispatchStart, DispatchSubmit
  <2>2. ship.ref = {} /\ \A d \in Callers : d # c => caller[d].at = "idle"
    BY <2>1 DEF OneDispatch, AllIdle
  <2>3. \A p \in Parcels : parcel[p].key = {}
    BY <2>1, <2>2 DEF OneDispatch, AllIdle
  <2>4. QED
    BY <2>1, <2>2, <2>3 DEF OneDispatch, AllIdle
<1>4. ASSUME NEW p \in Parcels, NEW end \in Ends, CourierBooks(c, p, end)
      PROVE  OneDispatch'
  <2>1. caller[c].at = "call" /\ caller[c].parcel = {} /\ ship' = ship
    BY <1>4 DEF CourierBooks
  <2>2. ship.ref = {} /\ \A d \in Callers : d # c => caller[d].at = "idle"
    BY <2>1 DEF OneDispatch, AllIdle
  <2>3. \A q \in Parcels : parcel[q].key = {}
    BY <2>1, <2>2 DEF OneDispatch, AllIdle
  <2>4. /\ \A q \in Parcels : q # p => parcel'[q] = parcel[q]
        /\ \A d \in Callers : d # c => caller'[d] = caller[d]
        /\ caller'[c].at = "call" /\ caller'[c].parcel = {p}
    BY <1>1, <1>4 DEF CourierBooks
  <2>5. QED
    BY <2>1, <2>2, <2>3, <2>4 DEF OneDispatch, AllIdle
<1>5. ASSUME DispatchSucceed(c)
      PROVE  OneDispatch'
  <2>1. /\ caller[c].at = "call" /\ parcel' = parcel /\ ship'.ref = caller[c].parcel
        /\ \A d \in Callers : d # c => caller'[d] = caller[d]
        /\ caller'[c].at = "idle"
    BY <1>1, <1>5 DEF DispatchSucceed
  <2>2. \A d \in Callers : caller'[d].at = "idle"
    BY <2>1 DEF OneDispatch
  <2>3. \A q \in Parcels : parcel[q].key # {} => caller[c].parcel = {q}
    BY <2>1 DEF OneDispatch, AllIdle
  <2>4. QED
    BY <2>1, <2>2, <2>3 DEF OneDispatch, AllIdle
<1>6. ASSUME DispatchFail(c) \/ DispatchError(c) \/ DispatchDies(c)
      PROVE  OneDispatch'
  <2>1. /\ caller[c].at # "idle" /\ parcel' = parcel /\ ship'.ref = ship.ref
        /\ \A d \in Callers : d # c => caller'[d] = caller[d]
        /\ caller[c].at = "call" => caller[c].parcel = {}
    BY <1>1, <1>6 DEF DispatchFail, DispatchError, DispatchDies, AnsweredAlone
  <2>2. ship.ref = {} /\ \A d \in Callers : d # c => caller[d].at = "idle"
    BY <2>1 DEF OneDispatch, AllIdle
  <2>3. \A q \in Parcels : parcel[q].key = {}
    BY <2>1, <2>2 DEF OneDispatch, AllIdle
  <2>4. QED
    BY <2>1, <2>2, <2>3 DEF OneDispatch, AllIdle
<1>7. QED
  BY <1>2, <1>3, <1>4, <1>5, <1>6 DEF DispatchStep

(* A shipment gets one parcel when no two dispatches overlap and every        *)
(* courier's answer arrives: the checks of sendPickupNow, outside any         *)
(* transaction, miss nothing else.                                           *)
THEOREM OneParcelWhenAnswered == Spec /\ [][AnsweredAlone]_vars => []OneParcel
<1>1. Init => OneDispatch
  BY DEF Init, OneDispatch, AllIdle, NoCall, NoParcel
<1>2. Inv /\ OneDispatch /\ [Next]_vars /\ [AnsweredAlone]_vars => OneDispatch'
  <2> SUFFICES ASSUME Inv, OneDispatch, [Next]_vars, [AnsweredAlone]_vars
               PROVE  OneDispatch'
    OBVIOUS
  <2>1. ASSUME NEW c \in Callers, DispatchStep(c)
        PROVE  OneDispatch'
    <3>1. CASE AnsweredAlone
      BY <2>1, <3>1, OneDispatchStep
    <3>2. CASE UNCHANGED vars
      BY <3>2 DEF OneDispatch, AllIdle, vars
    <3>3. QED
      BY <3>1, <3>2
  <2>2. ASSUME UNCHANGED caller, ship'.ref = ship.ref, \A p \in Parcels : parcel'[p].key = parcel[p].key
        PROVE  OneDispatch'
    BY <2>2 DEF OneDispatch, AllIdle
  <2>3. ASSUME NEW h \in Handlers, HandlerStep(h)
        PROVE  OneDispatch'
    <3>1. UNCHANGED <<caller, parcel>> /\ ship'.ref = ship.ref
      BY <2>3, HandlerElsewhere DEF HandlerStep, PollSelects, PollAnswered, ReadCurrent,
         WriteStatus, DeliverBooking, RecordCash, UpdateDies, WebhookArrives, StaffSets, dispatch,
         Inv, Typed, ShipShaped
    <3>2. QED
      BY <2>2, <3>1
  <2>4. ASSUME \/ PrepareShipment \/ HandOut \/ StaffDeliver \/ ThreeDaysPass \/ StuckSelect
               \/ StuckMark \/ UNCHANGED vars
        PROVE  OneDispatch'
    <3>1. UNCHANGED <<caller, parcel>> /\ ship'.ref = ship.ref
      BY <2>4 DEF PrepareShipment, HandOut, StaffDeliver, ThreeDaysPass, StuckSelect, StuckMark,
         vars, dispatch, Inv, Typed, ShipShaped
    <3>2. QED
      BY <2>2, <3>1
  <2>5. ASSUME NEW p \in Parcels, CourierMoves(p) \/ CallOff(p)
        PROVE  OneDispatch'
    <3>1. UNCHANGED <<caller, ship>> /\ \A q \in Parcels : parcel'[q].key = parcel[q].key
      BY <2>5, Rows DEF CourierMoves, CallOff, dispatch, ParcelRows, Inv, Typed
    <3>2. QED
      BY <2>2, <3>1
  <2>6. QED
    BY <2>1, <2>3, <2>4, <2>5 DEF Next
<1>3. OneDispatch => OneParcel
  <2> SUFFICES ASSUME OneDispatch
               PROVE  OneParcel
    OBVIOUS
  <2> DEFINE booked == {p \in Parcels : parcel[p].key # {}}
  <2>1. \A p, q \in booked : p = q
    BY DEF OneDispatch, AllIdle
  <2>2. CASE booked = {}
    BY <2>2, FS_EmptySet DEF OneParcel
  <2>3. ASSUME NEW p \in booked
        PROVE  OneParcel
    <3>1. booked = {p}
      BY <2>1
    <3>2. Cardinality({p}) = 1
      BY FS_Singleton
    <3>3. QED
      BY <3>1, <3>2 DEF OneParcel
  <2>4. QED
    BY <2>2, <2>3
<1>4. QED
  BY InitInv, NextInv, <1>1, <1>2, <1>3, PTL DEF Spec

-----------------------------------------------------------------------------
(* A status moved back: a status that changes between an update's reading it *)
(* and its writing.                                                          *)

(* A courier's update that compared the status and has not written it.       *)
Settled(h) == handler[h].at \in {"write", "ignore"} /\ handler[h].source # "staff"
ReadsStillTrue == \A h \in Handlers : Settled(h) /\ Settled(h)' => ship'.status = ship.status

ComparesWell ==
  \A h \in Handlers : Settled(h) =>
    handler[h].next = ship.status \/ ~Regresses(ship.status, handler[h].next)

LEMMA NoWayBackToItself == \A status : ~Regresses(status, status)
BY DEF Regresses, Rank

LEMMA HandlersElsewhere ==
  ASSUME Shaped, NEW h \in Handlers, HandlerStep(h), NEW g \in Handlers, g # h
  PROVE  handler'[g] = handler[g]
BY DEF Shaped, UpdatesTyped, HandlerStep, PollSelects, PollAnswered, ReadCurrent, WriteStatus,
   DeliverBooking, RecordCash, UpdateDies, WebhookArrives, StaffSets

LEMMA NextComparesWell ==
  ASSUME Inv, Shaped, ComparesWell, [Next]_vars, [ReadsStillTrue]_vars
  PROVE  ComparesWell'
<1> SUFFICES ASSUME NEW h \in Handlers, Settled(h)'
             PROVE  handler'[h].next = ship'.status \/ ~Regresses(ship'.status, handler'[h].next)
  BY DEF ComparesWell, Settled
<1>1. CASE handler'[h] = handler[h]
  <2>1. Settled(h) /\ handler'[h].next = handler[h].next
    BY <1>1 DEF Settled
  <2>2. ship'.status = ship.status
    BY <2>1 DEF ReadsStillTrue, vars
  <2>3. QED
    BY <2>1, <2>2 DEF ComparesWell
<1>2. CASE handler'[h] # handler[h]
  <2>1. HandlerStep(h)
    <3>1. handler' # handler
      BY <1>2
    <3>2. PICK g \in Handlers : HandlerStep(g)
      BY <3>1 DEF Next, vars, DispatchStep, PrepareShipment, DispatchCheck, DispatchStart,
         DispatchSubmit, CourierBooks, DispatchSucceed, DispatchFail, DispatchError, DispatchDies,
         CourierMoves, CallOff, HandOut, StaffDeliver, ThreeDaysPass, StuckSelect, StuckMark, updates
    <3>3. QED
      BY <1>2, <3>2, HandlersElsewhere
  <2>2. DOMAIN handler = Handlers /\ handler[h] \in HandlerStates
        /\ DOMAIN handler[h] = {"at", "source", "status", "stage", "next", "parcel", "booking"}
        /\ NoUpdate.at = "idle" /\ NoUpdate.source = "staff"
        /\ DOMAIN NoUpdate = {"at", "source", "status", "stage", "next", "parcel", "booking"}
    BY DEF Shaped, UpdatesTyped, HandlerStates, NoUpdate
  <2>3. ReadCurrent(h)
    <3>1. ~WriteStatus(h) /\ ~PollSelects(h) /\ ~PollAnswered(h) /\ ~DeliverBooking(h)
          /\ ~RecordCash(h) /\ ~UpdateDies(h)
      BY <2>2 DEF Settled, WriteStatus, PollSelects, PollAnswered, DeliverBooking, RecordCash, UpdateDies
    <3>2. ASSUME NEW p \in Parcels, NEW stage \in 0..Ended, WebhookArrives(h, p, stage)
          PROVE  FALSE
      BY <2>2, <3>2 DEF Settled, WebhookArrives
    <3>3. ASSUME NEW status \in ByHand, StaffSets(h, status)
          PROVE  FALSE
      BY <2>2, <3>3 DEF Settled, StaffSets
    <3>4. QED
      BY <2>1, <3>1, <3>2, <3>3 DEF HandlerStep
  <2>4. ship' = ship
    BY <2>3 DEF ReadCurrent
  <2>5. CASE Ignored(h)
    BY <2>2, <2>3, <2>4, <2>5 DEF ReadCurrent
  <2>6. CASE ~Ignored(h)
    <3>1. handler'[h].next = handler[h].status /\ ~Regresses(ship.status, handler[h].status)
      BY <2>2, <2>3, <2>6 DEF ReadCurrent, Ignored
    <3>2. QED
      BY <2>4, <3>1
  <2>7. QED
    BY <2>5, <2>6
<1>3. QED
  BY <1>1, <1>2

(* The courier's updates never move a shipment back while the status that     *)
(* applyProviderStatus compared is still the shipment's when                  *)
(* transitionShipment writes: comparing within that transaction would do.    *)
THEOREM NoRegressionWhileTrue == Spec /\ [][ReadsStillTrue]_vars => NoRegression
<1> DEFINE Forward == \A h \in Handlers :
             handler[h].source # "staff" /\ WriteStatus(h) => ~Regresses(ship.status, ship'.status)
<1>1. Init => ComparesWell
  BY DEF Init, ComparesWell, Settled, NoUpdate
<1>2. Inv /\ Shaped /\ ComparesWell => Forward
  <2> SUFFICES ASSUME Shaped, ComparesWell, NEW h \in Handlers,
                      handler[h].source # "staff", WriteStatus(h)
               PROVE  ~Regresses(ship.status, ship'.status)
    OBVIOUS
  <2>1. Settled(h) /\ DOMAIN ship = {"status", "ref", "cod"}
    BY DEF Settled, WriteStatus, Shaped, ShopTyped, ShipRows
  <2>2. ship'.status \in {ship.status, handler[h].next}
    BY <2>1 DEF WriteStatus
  <2>3. QED
    BY <2>1, <2>2, NoWayBackToItself DEF ComparesWell
<1>3. Inv /\ Shaped /\ ComparesWell /\ [Next]_vars /\ [ReadsStillTrue]_vars => ComparesWell'
  BY NextComparesWell
<1>4. QED
  BY InitInv, NextInv, InitShaped, NextShaped, <1>1, <1>2, <1>3, PTL DEF Spec, NoRegression

-----------------------------------------------------------------------------
(* A cancelled parcel on its way: a cancellation that a dispatch overlaps.   *)

CancelsAlone ==
  /\ \A h \in Handlers : StaffSets(h, "cancelled") => AllIdle
  /\ \A c \in Callers, k \in Keys, amount \in CodAmounts :
       DispatchCheck(c, k, amount) =>
         \A h \in Handlers : handler[h].at # "idle" => handler[h].next # "cancelled"

(* The shipment is cancelled, or an update is about to say so.               *)
Cancelling ==
  \/ ship.status = "cancelled"
  \/ \E h \in Handlers : handler[h].at # "idle" /\ handler[h].next = "cancelled"

NothingOnItsWay ==
  /\ Cancelling => AllIdle /\ \A p \in ship.ref : parcel[p].stage = CalledOff
  /\ \A h \in Handlers : handler[h].at = "read" => handler[h].status # "cancelled"

(* The only updates that set out to cancel are staff's.                      *)
LEMMA UpdatesCancel ==
  ASSUME Inv, Shaped, NothingOnItsWay, NEW h \in Handlers, HandlerStep(h)
  PROVE  /\ handler'[h].at = "read" => handler'[h].status # "cancelled"
         /\ \/ Cancelling
            \/ StaffSets(h, "cancelled")
            \/ handler'[h].at = "idle" \/ handler'[h].next # "cancelled"
<1>1. /\ DOMAIN handler = Handlers /\ handler[h] \in HandlerStates
      /\ DOMAIN handler[h] = {"at", "source", "status", "stage", "next", "parcel", "booking"}
      /\ NoUpdate.at = "idle" /\ NoUpdate.next = "error"
      /\ DOMAIN NoUpdate = {"at", "source", "status", "stage", "next", "parcel", "booking"}
      /\ \A p \in Parcels : parcel[p].end \in {"delivered", "returned_to_sender"}
  BY DEF Shaped, UpdatesTyped, HandlerStates, NoUpdate, Inv, Typed, ParcelRows
<1> DEFINE Fine == /\ handler'[h].at = "read" => handler'[h].status # "cancelled"
                   /\ \/ Cancelling \/ StaffSets(h, "cancelled")
                      \/ handler'[h].at = "idle" \/ handler'[h].next # "cancelled"
<1>2. ASSUME NEW p \in Parcels, NEW stage \in 0..Ended, WebhookArrives(h, p, stage)
      PROVE  Fine
  <2>1. StatusAt(p, stage) # "cancelled"
    BY <1>1 DEF StatusAt
  <2>2. handler'[h].next = "error" /\ handler'[h].status = StatusAt(p, stage)
    BY <1>1, <1>2 DEF WebhookArrives
  <2>3. QED
    BY <2>1, <2>2
<1>3. ASSUME PollSelects(h)
      PROVE  Fine
  <2>1. handler'[h].next = ship.status /\ ship.status # "cancelled" /\ handler'[h].at = "ask"
    BY <1>1, <1>3 DEF PollSelects, Active
  <2>2. QED
    BY <2>1
<1>4. ASSUME PollAnswered(h)
      PROVE  Fine
  <2>1. PICK p \in handler[h].parcel :
          handler' = [handler EXCEPT ![h] =
            IF PolledStatus(p) = @.next THEN NoUpdate
            ELSE [@ EXCEPT !.at = "read", !.status = PolledStatus(p), !.stage = parcel[p].stage]]
    BY <1>4 DEF PollAnswered
  <2>2. PolledStatus(p) # "cancelled"
    BY <1>1 DEF PolledStatus, HandlerStates
  <2>3. \/ handler'[h].at = "idle"
        \/ handler'[h].next = handler[h].next /\ handler'[h].status = PolledStatus(p)
    BY <1>1, <2>1
  <2>4. handler[h].at # "idle"
    BY <1>4 DEF PollAnswered
  <2>5. QED
    BY <2>2, <2>3, <2>4 DEF Cancelling
<1>5. ASSUME ReadCurrent(h)
      PROVE  Fine
  <2>1. handler[h].at = "read" /\ handler[h].status # "cancelled"
    BY <1>5 DEF ReadCurrent, NothingOnItsWay
  <2>2. /\ handler'[h].at \in {"ignore", "write"}
        /\ handler'[h].next \in {ship.status, handler[h].status}
    BY <1>1, <1>5 DEF ReadCurrent
  <2>3. QED
    BY <2>1, <2>2 DEF Cancelling
<1>6. ASSUME WriteStatus(h)
      PROVE  Fine
  <2>1. handler'[h].next = "error" /\ handler'[h].at # "read"
    BY <1>1, <1>6 DEF WriteStatus
  <2>2. QED
    BY <2>1
<1>7. ASSUME DeliverBooking(h) \/ RecordCash(h) \/ UpdateDies(h)
      PROVE  Fine
  <2>1. /\ handler[h].at # "idle"
        /\ \/ handler'[h] = NoUpdate
           \/ handler'[h] = [handler[h] EXCEPT !.at = "cash"]
    BY <1>1, <1>7 DEF DeliverBooking, RecordCash, UpdateDies
  <2>2. \/ handler'[h].at = "idle"
        \/ handler'[h].at = "cash" /\ handler'[h].next = handler[h].next
    BY <1>1, <2>1
  <2>3. QED
    BY <2>1, <2>2 DEF Cancelling
<1>8. ASSUME NEW status \in ByHand, StaffSets(h, status)
      PROVE  Fine
  <2>1. handler'[h].next = status /\ handler'[h].at = "write"
    BY <1>1, <1>8 DEF StaffSets
  <2>2. QED
    BY <1>8, <2>1
<1>9. QED
  BY <1>2, <1>3, <1>4, <1>5, <1>6, <1>7, <1>8 DEF HandlerStep

LEMMA NextNothingOnItsWay ==
  ASSUME Inv, Shaped, NothingOnItsWay, [Next]_vars, [CancelsAlone]_vars
  PROVE  NothingOnItsWay'
<1>1. DOMAIN ship = {"status", "ref", "cod"} /\ DOMAIN caller = Callers
  BY DEF Shaped, ShopTyped, ShipRows, Inv, Typed
<1>2. ASSUME NEW c \in Callers, DispatchStep(c)
      PROVE  NothingOnItsWay'
  <2>1. UNCHANGED handler
    BY <1>2 DEF DispatchStep, DispatchCheck, DispatchStart, DispatchSubmit, CourierBooks,
       DispatchSucceed, DispatchFail, DispatchError, DispatchDies, updates
  <2>2. CASE UNCHANGED vars
    BY <2>2 DEF NothingOnItsWay, Cancelling, AllIdle, vars
  <2>3. CASE ~(UNCHANGED vars)
    <3>1. ~Cancelling
      <4> SUFFICES ASSUME Cancelling
                   PROVE  FALSE
        OBVIOUS
      <4>1. caller[c].at = "idle"
        BY DEF NothingOnItsWay, AllIdle
      <4>2. PICK k \in Keys, amount \in CodAmounts : DispatchCheck(c, k, amount)
        BY <1>2, <4>1 DEF DispatchStep, DispatchStart, DispatchSubmit, CourierBooks,
           DispatchSucceed, DispatchFail, DispatchError, DispatchDies
      <4>3. ship.status # "cancelled"
        BY <4>2 DEF DispatchCheck, Dispatchable
      <4>4. QED
        BY <2>3, <4>2, <4>3 DEF Cancelling, CancelsAlone
    <3>2. ship'.status # "cancelled"
      <4>1. ship.status # "cancelled"
        BY <3>1 DEF Cancelling
      <4>2. QED
        BY <1>1, <1>2, <4>1 DEF DispatchStep, DispatchCheck, DispatchStart, DispatchSubmit,
           CourierBooks, DispatchSucceed, DispatchFail, DispatchError, DispatchDies
    <3>3. QED
      BY <2>1, <3>1, <3>2 DEF NothingOnItsWay, Cancelling
  <2>4. QED
    BY <2>2, <2>3
<1>3. ASSUME NEW h \in Handlers, HandlerStep(h)
      PROVE  NothingOnItsWay'
  <2>1. UNCHANGED <<caller, parcel>> /\ ship'.ref = ship.ref
    BY <1>1, <1>3, HandlerElsewhere DEF HandlerStep, PollSelects, PollAnswered, ReadCurrent,
       WriteStatus, DeliverBooking, RecordCash, UpdateDies, WebhookArrives, StaffSets, dispatch
  <2>2. \A g \in Handlers : g # h => handler'[g] = handler[g]
    BY <1>3, HandlersElsewhere
  <2>3. ship'.status = "cancelled" => Cancelling
    BY <1>1, <1>3 DEF Cancelling, HandlerStep, PollSelects, PollAnswered, ReadCurrent, WriteStatus,
       DeliverBooking, RecordCash, UpdateDies, WebhookArrives, StaffSets
  <2>4. Cancelling' => Cancelling \/ StaffSets(h, "cancelled")
    BY <1>3, <2>2, <2>3, UpdatesCancel DEF Cancelling
  <2>5. StaffSets(h, "cancelled") => AllIdle /\ \A p \in ship.ref : parcel[p].stage = CalledOff
    <3> SUFFICES ASSUME StaffSets(h, "cancelled")
                 PROVE  AllIdle /\ \A p \in ship.ref : parcel[p].stage = CalledOff
      OBVIOUS
    <3>1. \A p \in ship.ref : parcel[p].stage = CalledOff
      BY DEF StaffSets
    <3>2. CASE CancelsAlone
      BY <3>1, <3>2 DEF CancelsAlone
    <3>3. CASE UNCHANGED vars
      <4>1. byHand' = byHand + 1 /\ byHand \in Nat /\ byHand' = byHand
        BY <3>3, ShipmentAssumption DEF StaffSets, vars, Shaped, UpdatesTyped
      <4>2. QED
        BY <4>1
    <3>4. QED
      BY <3>1, <3>2, <3>3
  <2>6. Cancelling' => (AllIdle /\ \A p \in ship.ref : parcel[p].stage = CalledOff)'
    BY <2>1, <2>4, <2>5 DEF NothingOnItsWay, AllIdle
  <2>7. \A g \in Handlers : handler'[g].at = "read" => handler'[g].status # "cancelled"
    BY <1>3, <2>2, UpdatesCancel DEF NothingOnItsWay
  <2>8. QED
    BY <2>6, <2>7 DEF NothingOnItsWay
<1>4. ASSUME UNCHANGED <<handler, caller>>, ship'.ref = ship.ref,
             ship'.status = ship.status \/ ship'.status # "cancelled",
             \A p \in ship.ref : parcel[p].stage = CalledOff => parcel'[p].stage = CalledOff
      PROVE  NothingOnItsWay'
  BY <1>4 DEF NothingOnItsWay, Cancelling, AllIdle
<1>5. ASSUME \/ PrepareShipment \/ HandOut \/ StaffDeliver \/ ThreeDaysPass \/ StuckSelect
             \/ StuckMark \/ UNCHANGED vars
      PROVE  NothingOnItsWay'
  <2>1. /\ UNCHANGED <<handler, caller, parcel>> /\ ship'.ref = ship.ref
        /\ ship'.status = ship.status \/ ship'.status # "cancelled"
    BY <1>1, <1>5 DEF PrepareShipment, HandOut, StaffDeliver, ThreeDaysPass, StuckSelect, StuckMark,
       vars, dispatch, updates
  <2>2. QED
    BY <1>4, <2>1
<1>6. ASSUME NEW p \in Parcels, CourierMoves(p) \/ CallOff(p)
      PROVE  NothingOnItsWay'
  <2>1. DOMAIN parcel = Parcels /\ DOMAIN parcel[p] = {"key", "cod", "stage", "end"}
        /\ ship.ref \subseteq Parcels
    BY DEF Inv, Typed, ParcelRows, ShipShaped
  <2>2. \A q \in Parcels : parcel[q].stage = CalledOff => parcel'[q].stage = CalledOff
    BY <1>6, <2>1 DEF CourierMoves, CallOff, Ended, CalledOff
  <2>3. UNCHANGED <<handler, caller, ship>>
    BY <1>6 DEF CourierMoves, CallOff, dispatch, updates
  <2>4. QED
    BY <1>4, <2>1, <2>2, <2>3
<1>7. QED
  BY <1>2, <1>3, <1>5, <1>6 DEF Next

(* No parcel of a cancelled shipment is on its way when no dispatch runs from *)
(* the check in cancelShipment to its write: nothing but a dispatch that      *)
(* overlaps a cancellation gets past that check.                             *)
THEOREM CancelledAloneIsNotCarried == Spec /\ [][CancelsAlone]_vars => []CancelledIsNotCarried
<1>1. Init => NothingOnItsWay
  BY DEF Init, NothingOnItsWay, Cancelling, NoUpdate
<1>2. Inv /\ Shaped /\ NothingOnItsWay /\ [Next]_vars /\ [CancelsAlone]_vars => NothingOnItsWay'
  BY NextNothingOnItsWay
<1>3. NothingOnItsWay => CancelledIsNotCarried
  BY DEF NothingOnItsWay, Cancelling, CancelledIsNotCarried
<1>4. QED
  BY InitInv, NextInv, InitShaped, NextShaped, <1>1, <1>2, <1>3, PTL DEF Spec

-----------------------------------------------------------------------------
(* A delivery whose cash is not recorded: an update that stops halfway, or a *)
(* dispatch that is answered after the delivery.                             *)

(* An update about to write a delivered status that it read as the           *)
(* shipment's own, and one that reports a delivery.                          *)
Repeats(h) == handler[h].at = "ignore" /\ handler[h].next = "delivered"
Pays(h) == handler[h].at \in {"deliver", "cash"}
DeliveryKnown == ship.status = "delivered" \/ \E h \in Handlers : Repeats(h)

(* An update that reports a delivery neither dies with the cash outstanding  *)
(* nor is refused by updateStatus, which ends it in the same way.            *)
ReportsCompletely ==
  \A h \in Handlers :
    handler[h].at = "deliver" \/ (handler[h].at = "cash" /\ Outstanding) => ~UpdateDies(h)

(* What a courier is to collect is recorded before anyone knows of the       *)
(* delivery.                                                                 *)
AnsweredBeforeDelivery ==
  \A c \in Callers : DispatchSucceed(c) /\ caller[c].cod > 0 => ~DeliveryKnown

PaidOrPaying ==
  /\ \A h \in Handlers : handler[h].at = "write" => handler[h].next = handler[h].status
  /\ DeliveryKnown /\ Outstanding => \E h \in Handlers : Pays(h)

(* One step of an update, of the handler that takes it.                      *)
LEMMA UpdatePays ==
  ASSUME Shaped, PaidOrPaying, NEW h \in Handlers, HandlerStep(h)
  PROVE  /\ handler'[h].at = "write" => handler'[h].next = handler'[h].status
         /\ Repeats(h)' => DeliveryKnown
         /\ ship'.status = "delivered" => DeliveryKnown \/ Pays(h)'
         /\ remit' = remit /\ (cash' = cash \/ ~Outstanding')
         /\ Pays(h) => Pays(h)' \/ ~Outstanding' \/ UpdateDies(h)
<1>1. /\ handler \in [Handlers -> HandlerStates] /\ DOMAIN handler = Handlers
      /\ DOMAIN handler[h] = {"at", "source", "status", "stage", "next", "parcel", "booking"}
      /\ NoUpdate.at = "idle"
      /\ DOMAIN NoUpdate = {"at", "source", "status", "stage", "next", "parcel", "booking"}
      /\ DOMAIN ship = {"status", "ref", "cod"}
  BY DEF Shaped, UpdatesTyped, ShopTyped, HandlerStates, ShipRows, NoUpdate
<1>2. CASE ReadCurrent(h)
  BY <1>1, <1>2 DEF ReadCurrent, Repeats, Pays, DeliveryKnown, money
<1>3. CASE WriteStatus(h)
  <2>1. handler[h].at = "write" => handler[h].next = handler[h].status
    BY DEF PaidOrPaying
  <2>2. handler'[h].at \in {"idle", "deliver"} /\ UNCHANGED <<remit, cash>>
    BY <1>1, <1>3 DEF WriteStatus, money
  <2>3. ship'.status = ship.status \/ ship'.status = handler[h].next
    BY <1>1, <1>3 DEF WriteStatus
  <2>4. handler[h].at = "write" /\ handler[h].next = "delivered" => handler'[h].at = "deliver"
    BY <1>1, <1>3, <2>1 DEF WriteStatus
  <2>5. handler[h].at \in {"write", "ignore"}
    BY <1>3 DEF WriteStatus
  <2>6. QED
    BY <2>2, <2>3, <2>4, <2>5 DEF Repeats, Pays, DeliveryKnown
<1>4. CASE DeliverBooking(h)
  <2>1. UNCHANGED <<ship, remit, cash, handedOut, dispatch, parcel, receipts, events, stuck, byHand>>
    BY <1>4 DEF DeliverBooking, money
  <2>2. \/ handler' = [handler EXCEPT ![h].at = "cash"]
        \/ handler' = [handler EXCEPT ![h] = NoUpdate] /\ booking' = booking
    BY <1>4 DEF DeliverBooking
  <2>3. CASE handler' = [handler EXCEPT ![h].at = "cash"]
    BY <1>1, <2>1, <2>3 DEF Repeats, Pays, DeliveryKnown
  <2>4. CASE handler' = [handler EXCEPT ![h] = NoUpdate] /\ booking' = booking
    <3>1. UpdateDies(h)
      BY <1>4, <2>1, <2>4 DEF DeliverBooking, UpdateDies, money
    <3>2. QED
      BY <1>1, <2>1, <2>4, <3>1 DEF Repeats, Pays, DeliveryKnown
  <2>5. QED
    BY <2>2, <2>3, <2>4
<1>5. CASE RecordCash(h)
  <2>1. cash \in Nat /\ remit' = remit /\ ship' = ship
    BY <1>5 DEF RecordCash, Shaped, ShopTyped
  <2>2. cash' = cash + 1 \/ (cash' = cash /\ ~Outstanding)
    BY <1>5 DEF RecordCash
  <2>3. ~Outstanding'
    BY <2>1, <2>2 DEF Outstanding
  <2>4. handler'[h] = NoUpdate
    BY <1>1, <1>5 DEF RecordCash
  <2>5. QED
    BY <1>1, <2>1, <2>3, <2>4 DEF Repeats, DeliveryKnown
<1>6. CASE UpdateDies(h)
  BY <1>1, <1>6 DEF UpdateDies, Repeats, Pays, DeliveryKnown, money
<1>7. CASE \/ PollSelects(h) \/ PollAnswered(h)
           \/ \E p \in Parcels, stage \in 0..Ended : WebhookArrives(h, p, stage)
  <2>1. handler[h].at \in {"idle", "ask"} /\ UNCHANGED <<ship, remit, cash>>
    BY <1>7 DEF PollSelects, PollAnswered, WebhookArrives, money
  <2>2. handler'[h].at \in {"idle", "ask", "read"}
    <3>1. CASE PollSelects(h)
      BY <1>1, <3>1 DEF PollSelects
    <3>2. CASE PollAnswered(h)
      <4>1. PICK p \in handler[h].parcel :
              handler' = [handler EXCEPT ![h] =
                IF PolledStatus(p) = @.next THEN NoUpdate
                ELSE [@ EXCEPT !.at = "read", !.status = PolledStatus(p), !.stage = parcel[p].stage]]
        BY <3>2 DEF PollAnswered
      <4>2. QED
        BY <1>1, <4>1
    <3>3. ASSUME NEW p \in Parcels, NEW stage \in 0..Ended, WebhookArrives(h, p, stage)
          PROVE  handler'[h].at = "read"
      BY <1>1, <3>3 DEF WebhookArrives
    <3>4. QED
      BY <1>7, <3>1, <3>2, <3>3
  <2>3. QED
    BY <2>1, <2>2 DEF Repeats, Pays, DeliveryKnown
<1>8. CASE \E status \in ByHand : StaffSets(h, status)
  BY <1>1, <1>8 DEF StaffSets, Repeats, Pays, DeliveryKnown, money
<1>9. QED
  BY <1>2, <1>3, <1>4, <1>5, <1>6, <1>7, <1>8 DEF HandlerStep

LEMMA NextPaidOrPaying ==
  ASSUME Inv, Shaped, PaidOrPaying, [Next]_vars, [ReportsCompletely /\ AnsweredBeforeDelivery]_vars
  PROVE  PaidOrPaying'
<1>1. ASSUME UNCHANGED <<handler, cash>>, ship'.status = "delivered" => ship.status = "delivered",
             remit' = remit \/ (ship' = [ship EXCEPT !.ref = ship'.ref] /\ ~DeliveryKnown)
      PROVE  PaidOrPaying'
  <2>1. DeliveryKnown' => DeliveryKnown
    BY <1>1 DEF DeliveryKnown, Repeats
  <2>2. CASE remit' = remit
    BY <1>1, <2>1, <2>2 DEF PaidOrPaying, Outstanding, Pays
  <2>3. CASE ~DeliveryKnown
    BY <1>1, <2>1, <2>3 DEF PaidOrPaying
  <2>4. QED
    BY <1>1, <2>2, <2>3
<1>2. CASE UNCHANGED vars
  BY <1>1, <1>2 DEF vars
<1>3. ASSUME NEW h \in Handlers, HandlerStep(h), ReportsCompletely
      PROVE  PaidOrPaying'
  <2>1. \A g \in Handlers : g # h => handler'[g] = handler[g]
    BY <1>3, HandlersElsewhere
  <2>2. \A g \in Handlers : handler'[g].at = "write" => handler'[g].next = handler'[g].status
    BY <1>3, <2>1, UpdatePays DEF PaidOrPaying
  <2>3. ASSUME DeliveryKnown', Outstanding'
        PROVE  \E g \in Handlers : Pays(g)'
    <3>1. DeliveryKnown \/ Pays(h)'
      <4>1. \A g \in Handlers : Repeats(g)' => DeliveryKnown
        BY <1>3, <2>1, UpdatePays DEF Repeats, DeliveryKnown
      <4>2. QED
        BY <1>3, <2>3, <4>1, UpdatePays DEF DeliveryKnown
    <3>2. Outstanding
      BY <1>3, <2>3, UpdatePays DEF Outstanding
    <3>3. CASE DeliveryKnown
      <4>1. PICK g \in Handlers : Pays(g)
        BY <3>2, <3>3 DEF PaidOrPaying
      <4>2. CASE g # h
        BY <2>1, <4>1, <4>2 DEF Pays
      <4>3. CASE g = h
        <5>1. ~UpdateDies(h)
          BY <1>3, <3>2, <4>1, <4>3 DEF ReportsCompletely, Pays
        <5>2. QED
          BY <1>3, <2>3, <4>1, <4>3, <5>1, UpdatePays
      <4>4. QED
        BY <4>2, <4>3
    <3>4. QED
      BY <3>1, <3>3
  <2>4. QED
    BY <2>2, <2>3 DEF PaidOrPaying
<1>4. ASSUME NEW c \in Callers, DispatchStep(c), AnsweredBeforeDelivery
      PROVE  PaidOrPaying'
  <2>1. DOMAIN ship = {"status", "ref", "cod"}
    BY DEF Shaped, ShopTyped, ShipRows
  <2>2. CASE DispatchSucceed(c)
    <3>1. UNCHANGED <<handler, cash>> /\ ship' = [ship EXCEPT !.ref = caller[c].parcel]
      BY <2>2 DEF DispatchSucceed, updates
    <3>2. remit' = remit \/ caller[c].cod > 0
      BY <2>2 DEF DispatchSucceed, ExpectedAfter
    <3>3. QED
      BY <1>1, <1>4, <2>1, <2>2, <3>1, <3>2 DEF AnsweredBeforeDelivery
  <2>3. CASE ~DispatchSucceed(c)
    <3>1. UNCHANGED <<handler, cash, remit>> /\ (ship'.status = "delivered" => ship.status = "delivered")
      BY <1>4, <2>1, <2>3 DEF DispatchStep, DispatchCheck, DispatchStart, DispatchSubmit,
         CourierBooks, DispatchFail, DispatchError, DispatchDies, money, updates
    <3>2. QED
      BY <1>1, <3>1
  <2>4. QED
    BY <2>2, <2>3
<1>5. CASE \/ PrepareShipment \/ HandOut \/ StaffDeliver \/ ThreeDaysPass \/ StuckSelect \/ StuckMark
  <2>1. DOMAIN ship = {"status", "ref", "cod"}
    BY DEF Shaped, ShopTyped, ShipRows
  <2>2. UNCHANGED <<handler, cash, remit>> /\ (ship'.status = "delivered" => ship.status = "delivered")
    BY <1>5, <2>1 DEF PrepareShipment, HandOut, StaffDeliver, ThreeDaysPass, StuckSelect,
       StuckMark, money, updates
  <2>3. QED
    BY <1>1, <2>2
<1>6. ASSUME NEW p \in Parcels, CourierMoves(p) \/ CallOff(p)
      PROVE  PaidOrPaying'
  BY <1>1, <1>6 DEF CourierMoves, CallOff, money, updates
<1>7. QED
  BY <1>2, <1>3, <1>4, <1>5, <1>6 DEF Next

(* The cash of a delivered shipment is recorded once nothing is in progress, *)
(* unless an update stops between the status it wrote and the cash, or the   *)
(* dispatch is answered when the shipment was already set delivered.         *)
THEOREM PaidWhenReported ==
  Spec /\ [][ReportsCompletely /\ AnsweredBeforeDelivery]_vars => []DeliveredIsPaid
<1>1. Init => PaidOrPaying
  BY DEF Init, PaidOrPaying, DeliveryKnown, Repeats, Outstanding, NoUpdate
<1>2. Inv /\ Shaped /\ PaidOrPaying /\ [Next]_vars
        /\ [ReportsCompletely /\ AnsweredBeforeDelivery]_vars => PaidOrPaying'
  BY NextPaidOrPaying
<1>3. Shaped /\ PaidOrPaying => DeliveredIsPaid
  <2> SUFFICES ASSUME Shaped, PaidOrPaying, \A h \in Handlers : handler[h].at = "idle",
                      ship.status = "delivered", remit > 0
               PROVE  cash > 0
    BY DEF DeliveredIsPaid
  <2>1. ~Outstanding
    BY DEF PaidOrPaying, DeliveryKnown, Pays
  <2>2. cash \in Nat
    BY DEF Shaped, ShopTyped
  <2>3. QED
    BY <2>1, <2>2 DEF Outstanding
<1>4. QED
  BY InitInv, NextInv, InitShaped, NextShaped, <1>1, <1>2, <1>3, PTL DEF Spec
===============================================================================
