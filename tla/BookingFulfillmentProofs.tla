---------------------- MODULE BookingFulfillmentProofs ----------------------
(***************************************************************************)
(* Theorems about BookingFulfillment, for every set of bookings,            *)
(* requirements and units and every calendar.                               *)
(***************************************************************************)
EXTENDS BookingFulfillment, SumTheorems, FiniteSetTheorems, TLAPS

-----------------------------------------------------------------------------
(* Finite sets.                                                             *)

(* A set with a function onto it from a finite set is finite.               *)
LEMMA FiniteImage ==
  ASSUME NEW S, IsFiniteSet(S), NEW T, NEW f \in [S -> T],
         \A y \in T : \E x \in S : f[x] = y
  PROVE  IsFiniteSet(T)
<1>1. f \in Surjection(S, T)
  BY DEF Surjection
<1>2. QED
  BY <1>1, FS_Surjection

(* The units of a request are finitely many.                                *)
LEMMA SubsetOfUnits ==
  ASSUME NEW us \in SUBSET Units
  PROVE  IsFiniteSet(us) /\ Cardinality(us) \in Nat
BY FiniteAssumption, FS_Subset, FS_CardinalityType

(* Taking a part out of a finite set.                                       *)
LEMMA CardinalityMinus ==
  ASSUME NEW S, IsFiniteSet(S), NEW T \in SUBSET S
  PROVE  /\ Cardinality(S \ T) \in Nat /\ Cardinality(T) \in Nat
         /\ Cardinality(S) = Cardinality(S \ T) + Cardinality(T)
<1>1. IsFiniteSet(S \ T) /\ IsFiniteSet(T)
  BY FS_Subset
<1>2. Cardinality(S \ T) \in Nat /\ Cardinality(T) \in Nat
  BY <1>1, FS_CardinalityType
<1>3. (S \ T) \cup T = S /\ (S \ T) \cap T = {}
  OBVIOUS
<1>4. Cardinality((S \ T) \cup T)
        = Cardinality(S \ T) + Cardinality(T) - Cardinality((S \ T) \cap T)
  BY <1>1, FS_Union
<1>5. Cardinality((S \ T) \cap T) = 0
  BY <1>3, FS_EmptySet
<1>6. QED
  BY <1>2, <1>3, <1>4, <1>5

-----------------------------------------------------------------------------
(* Types.                                                                   *)

(* The type invariant, with what makes counting assignments meaningful.     *)
TypeInv == TypeOK /\ IsFiniteSet(asg)

LEMMA InitTypeInv == Init => TypeInv
BY FS_EmptySet, IndexAssumption, BoundAssumption
   DEF Init, TypeInv, TypeOK, NoReservation, NoRequirement, Rentable, Days,
       BookingStatuses, ReservationStatuses, RequirementStatuses, RequirementRecords,
       UnitStates, Dispositions, OperationalStates

LEMMA CountAssignments ==
  ASSUME IsFiniteSet(asg), NEW r
  PROVE  IsFiniteSet(AssignmentsOf(r)) /\ Cardinality(AssignmentsOf(r)) \in Nat
BY FS_Subset, FS_CardinalityType DEF AssignmentsOf

(* Changing the status of a record keeps it a record.                       *)
LEMMA RequirementStatus ==
  ASSUME NEW x \in RequirementRecords, NEW s \in RequirementStatuses
  PROVE  [x EXCEPT !.status = s] \in RequirementRecords
BY DEF RequirementRecords

ReservationRecords == [status : ReservationStatuses, sku : Skus, from : Days, to : Days]

LEMMA ReservationStatus ==
  ASSUME NEW x \in ReservationRecords, NEW s \in ReservationStatuses
  PROVE  [x EXCEPT !.status = s] \in ReservationRecords
BY DEF ReservationRecords

LEMMA PairsOfAssignments ==
  ASSUME NEW as \in SUBSET Assignments
  PROVE  Pairs(as) \subseteq Reqs \X Units
<1>1. \A a \in as : a.req \in Reqs /\ a.unit \in Units
  BY DEF Assignments
<1>2. \A a \in as : <<a.req, a.unit>> \in Reqs \X Units
  BY <1>1
<1>3. QED
  BY <1>2 DEF Pairs

(* What closing a booking's inventory leaves is of the right type.          *)
LEMMA TypeInvClose ==
  ASSUME TypeInv, NEW b, NEW s \in ReservationStatuses, CloseInventory(b, s)
  PROVE  /\ asg' \subseteq Assignments /\ IsFiniteSet(asg')
         /\ unchecked' \subseteq Reqs \X Units
         /\ resv' \in [Reqs -> ReservationRecords]
<1> USE DEF TypeInv, TypeOK
<1>1. asg' \subseteq asg
  BY DEF CloseInventory
<1>2. Released(AssignmentsOfBooking(b)) \subseteq Reqs \X Units
  BY PairsOfAssignments DEF Released, AssignmentsOfBooking
<1>3. resv' \in [Reqs -> ReservationRecords]
  BY ReservationStatus DEF CloseInventory, ReservationRecords
<1>4. QED
  BY <1>1, <1>2, <1>3, FS_Subset DEF CloseInventory

LEMMA TypeInvCancelRequirements ==
  ASSUME TypeInv, NEW S, CancelRequirements(S)
  PROVE  req' \in [Reqs -> RequirementRecords]
BY RequirementStatus DEF TypeInv, TypeOK, CancelRequirements, RequirementStatuses

LEMMA TypeInvRequest ==
  ASSUME TypeInv, NEW b \in Bookings, RequestStep(b)
  PROVE  TypeInv'
<1> USE DEF TypeInv, TypeOK
<1>1. CASE \E f, t \in Days : f <= t /\ CreateBooking(b, f, t)
  <2> PICK f \in Days, t \in Days : CreateBooking(b, f, t)
    BY <1>1
  <2>1. req' \in [Reqs -> RequirementRecords]
    BY RequirementStatus DEF CreateBooking, RequirementStatuses
  <2>2. resv' \in [Reqs -> ReservationRecords]
    BY IndexAssumption DEF CreateBooking, ReservationRecords, ReservationStatuses
  <2>3. status' \in [Bookings -> BookingStatuses]
    BY DEF CreateBooking, BookingStatuses
  <2>4. QED
    BY <2>1, <2>2, <2>3 DEF CreateBooking, ReservationRecords
<1>2. CASE HoldLapses(b)
  BY <1>2 DEF HoldLapses
<1>3. CASE RenewHold(b)
  BY <1>3 DEF RenewHold
<1>4. CASE ApproveAndReserve(b)
  <2>1. resv' \in [Reqs -> ReservationRecords]
    BY <1>4, ReservationStatus DEF ApproveAndReserve, ReservationRecords, ReservationStatuses
  <2>2. QED
    BY <1>4, <2>1 DEF ApproveAndReserve, ReservationRecords, BookingStatuses
<1>5. CASE RejectRequest(b)
  BY <1>5, TypeInvClose, TypeInvCancelRequirements
  DEF RejectRequest, BookingStatuses, ReservationStatuses, ReservationRecords
<1>6. CASE CancelRequest(b)
  BY <1>6 DEF CancelRequest
<1>7. CASE CancelCommit(b)
  BY <1>7, TypeInvClose, TypeInvCancelRequirements
  DEF CancelCommit, BookingStatuses, ReservationStatuses, ReservationRecords
<1>8. CASE CancelFail(b)
  BY <1>8 DEF CancelFail
<1>9. CASE \E end \in Days : Extend(b, end)
  <2> PICK end \in Days : Extend(b, end)
    BY <1>9
  <2>1. resv' \in [Reqs -> ReservationRecords]
    BY DEF Extend, ReservationRecords
  <2>2. req' \in [Reqs -> RequirementRecords]
    <3> DEFINE next(r) == IF req[r].status # "OVERDUE" THEN req[r].status
                          ELSE IF req[r].handedOut = Quantity[r] THEN "HANDED_OUT" ELSE "RESERVED"
    <3>1. \A r \in Reqs : next(r) \in RequirementStatuses
      BY DEF RequirementStatuses, RequirementRecords
    <3>2. \A r \in Reqs : [req[r] EXCEPT !.status = next(r)] \in RequirementRecords
      BY <3>1, RequirementStatus
    <3>3. QED
      BY <3>2 DEF Extend
  <2>3. QED
    BY <2>1, <2>2 DEF Extend, ReservationRecords
<1>10. CASE \E new \in {"delivered", "returned", "inspected"} : UpdateStatus(b, new)
  BY <1>10 DEF UpdateStatus, BookingStatuses
<1>11. CASE MarkOverdue(b)
  <2>1. req' \in [Reqs -> RequirementRecords]
    BY <1>11, RequirementStatus DEF MarkOverdue, RequirementStatuses
  <2>2. QED
    BY <1>11, <2>1 DEF MarkOverdue, BookingStatuses
<1>12. CASE Complete(b)
  <2>1. revenue' \subseteq Reqs \X Units
    BY <1>12, PairsOfAssignments DEF Complete, AssignmentsOfBooking
  <2>2. QED
    BY <1>12, <2>1, TypeInvClose
    DEF Complete, BookingStatuses, ReservationStatuses, ReservationRecords
<1>13. QED
  BY <1>1, <1>2, <1>3, <1>4, <1>5, <1>6, <1>7, <1>8, <1>9, <1>10, <1>11, <1>12
  DEF RequestStep

LEMMA TypeInvAssign ==
  ASSUME TypeInv, NEW r \in Reqs, NEW us \in SUBSET Units, Assign(r, us)
  PROVE  TypeInv'
<1> USE DEF TypeInv, TypeOK
<1> DEFINE made == [u \in us |-> [req |-> r, unit |-> u, from |-> resv[r].from,
                                  to |-> resv[r].to, checked |-> FALSE]]
           added == {[req |-> r, unit |-> u, from |-> resv[r].from, to |-> resv[r].to,
                      checked |-> FALSE] : u \in us}
<1>1. /\ made \in [us -> added]
      /\ \A y \in added : \E u \in us : made[u] = y
  OBVIOUS
<1>2. IsFiniteSet(added)
  <2> HIDE DEF made, added
  <2>1. QED
    BY <1>1, SubsetOfUnits, FiniteImage
<1>3. added \subseteq Assignments
  <2>1. resv[r].from \in Days /\ resv[r].to \in Days
    OBVIOUS
  <2>2. \A u \in us : u \in Units
    OBVIOUS
  <2>3. ASSUME NEW u \in us
        PROVE  [req |-> r, unit |-> u, from |-> resv[r].from, to |-> resv[r].to,
                checked |-> FALSE] \in Assignments
    BY <2>1, <2>2 DEF Assignments
  <2>4. QED
    BY <2>3
<1>4. AssignedTotal(r, us) \in Nat
  BY SubsetOfUnits, CountAssignments DEF AssignedTotal
<1>5. req' \in [Reqs -> RequirementRecords]
  <2> DEFINE n == AssignedTotal(r, us)
             s == IF n = Quantity[r] THEN "ASSIGNED" ELSE "PARTIALLY_ASSIGNED"
  <2>1. s \in RequirementStatuses
    BY DEF RequirementStatuses
  <2>2. req' = [req EXCEPT ![r].assigned = n, ![r].status = s]
    BY DEF Assign
  <2> HIDE DEF n, s
  <2>3. QED
    BY <1>4, <2>1, <2>2 DEF n, RequirementRecords
<1>6. asg' = asg \cup added
  BY DEF Assign
<1>7. IsFiniteSet(asg') /\ asg' \subseteq Assignments
  BY <1>2, <1>3, <1>6, FS_Union
<1>8. QED
  BY <1>5, <1>7 DEF Assign

LEMMA TypeInvTakeBack ==
  ASSUME TypeInv, NEW r \in Reqs, NEW us \in SUBSET Units,
         NEW returned \in Nat, NEW lost \in Nat, TakeBack(r, us, returned, lost)
  PROVE  /\ asg' \subseteq Assignments /\ IsFiniteSet(asg')
         /\ unchecked' \subseteq Reqs \X Units
         /\ out' \in [Reqs -> SUBSET Units]
         /\ req' \in [Reqs -> RequirementRecords]
<1> USE DEF TypeInv, TypeOK
<1> DEFINE done == {a \in AssignmentsOf(r) : a.unit \in us}
<1>1. asg' = asg \ done /\ done \subseteq asg
  BY DEF TakeBack, AssignmentsOf
<1>2. Released(done) \subseteq Reqs \X Units
  BY <1>1, PairsOfAssignments DEF Released
<1>3. unchecked' = unchecked \cup Released(done)
  BY DEF TakeBack
<1>4. MaxZero(req[r].assigned - Cardinality(us)) \in Nat
  BY SubsetOfUnits DEF MaxZero, RequirementRecords
<1>5. req' \in [Reqs -> RequirementRecords]
  <2> DEFINE n == MaxZero(req[r].assigned - Cardinality(us))
             s == IF returned + lost # Quantity[r] THEN "PARTIALLY_RETURNED"
                  ELSE IF lost > 0 THEN "LOST" ELSE "RETURNED"
  <2>1. s \in RequirementStatuses
    BY DEF RequirementStatuses
  <2>2. req' = [req EXCEPT ![r].returned = returned, ![r].lost = lost,
                           ![r].assigned = n, ![r].status = s]
    BY DEF TakeBack
  <2> HIDE DEF n, s
  <2>3. QED
    <3> DEFINE f == [req EXCEPT ![r].returned = returned, ![r].lost = lost]
    <3>1. f \in [Reqs -> RequirementRecords]
      BY DEF RequirementRecords
    <3>2. req' = [f EXCEPT ![r].assigned = n, ![r].status = s]
      BY <2>2
    <3> HIDE DEF f
    <3>3. QED
      BY <1>4, <2>1, <3>1, <3>2 DEF n, RequirementRecords
<1>6. out' \in [Reqs -> SUBSET Units]
  BY DEF TakeBack
<1>7. QED
  BY <1>1, <1>2, <1>3, <1>5, <1>6, FS_Subset

LEMMA TypeInvRequirement ==
  ASSUME TypeInv, NEW r \in Reqs, RequirementStep(r)
  PROVE  TypeInv'
<1> USE DEF TypeInv, TypeOK
<1>1. CASE \E us \in SUBSET Units : Assign(r, us)
  BY <1>1, TypeInvAssign
<1>2. CASE \E sku \in Skus : Substitute(r, sku)
  <2> PICK sku \in Skus : Substitute(r, sku)
    BY <1>2
  <2>1. resv' \in [Reqs -> ReservationRecords]
    BY DEF Substitute, ReservationRecords
  <2>2. req' \in [Reqs -> RequirementRecords]
    <3>1. req' = [req EXCEPT ![r].status = "RESERVED", ![r].prep = "OPEN"]
      BY DEF Substitute
    <3>2. "RESERVED" \in RequirementStatuses
      BY DEF RequirementStatuses
    <3>3. QED
      BY <3>1, <3>2 DEF RequirementRecords
  <2>3. QED
    BY <2>1, <2>2 DEF Substitute, ReservationRecords
<1>3. CASE \E prep \in {"OPEN", "READY"} : Prepare(r, prep)
  <2>1. req' \in [Reqs -> RequirementRecords]
    BY <1>3 DEF Prepare, RequirementRecords
  <2>2. QED
    BY <1>3, <2>1 DEF Prepare
<1>4. ASSUME NEW us \in SUBSET Units, NEW today \in Today, HandOut(r, us, today)
      PROVE  TypeInv'
  <2>1. req' \in [Reqs -> RequirementRecords]
    <3> DEFINE n == req[r].handedOut + Cardinality(us)
               s == IF n = Quantity[r] THEN "HANDED_OUT" ELSE "PARTIALLY_HANDED_OUT"
    <3>1. s \in RequirementStatuses
      BY DEF RequirementStatuses
    <3>2. n \in Nat
      BY SubsetOfUnits DEF RequirementRecords
    <3>3. req' = [req EXCEPT ![r].handedOut = n, ![r].status = s]
      BY <1>4 DEF HandOut
    <3> HIDE DEF n, s
    <3>4. QED
      BY <3>1, <3>2, <3>3 DEF RequirementRecords
  <2>2. unit' \in [Units -> UnitStates]
    BY <1>4 DEF HandOut, UnitStates, OperationalStates
  <2>3. out' \in [Reqs -> SUBSET Units]
    BY <1>4 DEF HandOut
  <2>4. QED
    BY <1>4, <2>1, <2>2, <2>3 DEF HandOut
<1>5. ASSUME NEW us \in SUBSET Units, NEW today \in Today, ReturnItems(r, us, today)
      PROVE  TypeInv'
  <2>1. req[r].returned + Cardinality(us) \in Nat /\ req[r].lost \in Nat
    BY SubsetOfUnits DEF RequirementRecords
  <2>2. TakeBack(r, us, req[r].returned + Cardinality(us), req[r].lost)
    BY <1>5 DEF ReturnItems
  <2>3. unit' \in [Units -> UnitStates]
    BY <1>5 DEF ReturnItems, UnitStates, OperationalStates
  <2>4. /\ asg' \subseteq Assignments /\ IsFiniteSet(asg')
        /\ unchecked' \subseteq Reqs \X Units
        /\ out' \in [Reqs -> SUBSET Units]
        /\ req' \in [Reqs -> RequirementRecords]
    BY <2>1, <2>2, TypeInvTakeBack
  <2>5. QED
    BY <1>5, <2>2, <2>3, <2>4 DEF ReturnItems, TakeBack
<1>6. ASSUME NEW us \in SUBSET Units, NEW today \in Today, MarkLost(r, us, today)
      PROVE  TypeInv'
  <2>1. req[r].lost + Cardinality(us) \in Nat /\ req[r].returned \in Nat
    BY SubsetOfUnits DEF RequirementRecords
  <2>2. TakeBack(r, us, req[r].returned, req[r].lost + Cardinality(us))
    BY <1>6 DEF MarkLost
  <2>3. unit' \in [Units -> UnitStates]
    BY <1>6 DEF MarkLost, UnitStates, Dispositions
  <2>4. lossIssues' \subseteq Reqs \X Units
    BY <1>6 DEF MarkLost
  <2>5. /\ asg' \subseteq Assignments /\ IsFiniteSet(asg')
        /\ unchecked' \subseteq Reqs \X Units
        /\ out' \in [Reqs -> SUBSET Units]
        /\ req' \in [Reqs -> RequirementRecords]
    BY <2>1, <2>2, TypeInvTakeBack
  <2>6. QED
    BY <2>2, <2>3, <2>4, <2>5 DEF TakeBack
<1>7. QED
  BY <1>1, <1>2, <1>3, <1>4, <1>5, <1>6 DEF RequirementStep

LEMMA TypeInvUnit ==
  ASSUME TypeInv, NEW u \in Units, UnitStep(u)
  PROVE  TypeInv'
<1> USE DEF TypeInv, TypeOK
<1>1. \A decision \in Decisions : LifecycleTarget[decision] \in UnitStates
  BY BoundAssumption DEF LifecycleTarget, InspectionDecisions, UnitStates, Rentable,
     Dispositions, OperationalStates
<1>2. ASSUME NEW to \in UnitStates, NEW today \in Today, NEW given,
             StaffTransition(u, to, today, given)
      PROVE  TypeInv'
  BY <1>2 DEF StaffTransition, SetUnit
<1>3. ASSUME NEW decision \in Decisions, NEW today \in Today,
             CompleteOtherInspection(u, decision, today)
      PROVE  TypeInv'
  BY <1>1, <1>3 DEF CompleteOtherInspection, SetUnit
<1>4. ASSUME NEW decision \in Decisions, NEW today \in Today, NEW r \in Reqs,
             CompleteReturnInspection(<<r, u>>, decision, today)
      PROVE  TypeInv'
  <2> DEFINE marked == [a \in asg |-> IF <<a.req, a.unit>> = <<r, u>>
                                      THEN [a EXCEPT !.checked = TRUE] ELSE a]
  <2>1. asg' = {marked[a] : a \in asg}
    BY <1>4 DEF CompleteReturnInspection
  <2>2. IsFiniteSet(asg')
    <3>1. marked \in [asg -> asg'] /\ \A y \in asg' : \E a \in asg : marked[a] = y
      BY <2>1
    <3> HIDE DEF marked
    <3>2. QED
      BY <3>1, FiniteImage
  <2>3. \A a \in asg : marked[a] \in Assignments
    <3>1. \A a \in Assignments : [a EXCEPT !.checked = TRUE] \in Assignments
      BY DEF Assignments
    <3>2. QED
      BY <3>1
  <2>4. asg' \subseteq Assignments
    BY <2>1, <2>3
  <2>5. unit' \in [Units -> UnitStates]
    BY <1>1, <1>4 DEF CompleteReturnInspection, SetUnit
  <2>6. QED
    BY <1>4, <2>2, <2>4, <2>5 DEF CompleteReturnInspection, SetUnit
<1>5. \A op \in StaffTargets : [unit[u] EXCEPT !.op = op] \in UnitStates
  BY BoundAssumption DEF UnitStates
<1>6. \A disp \in DispositionTargets : [unit[u] EXCEPT !.disp = disp] \in UnitStates
  BY BoundAssumption DEF UnitStates
<1>7. QED
  BY <1>2, <1>3, <1>4, <1>5, <1>6 DEF UnitStep

LEMMA TypeInvRelease ==
  ASSUME TypeInv, NEW a \in asg, ReleaseAssignment(a)
  PROVE  TypeInv'
<1> USE DEF TypeInv, TypeOK
<1>1. a \in Assignments /\ a.req \in Reqs
  BY DEF Assignments
<1>2. Released({a}) \subseteq Reqs \X Units
  BY <1>1, PairsOfAssignments DEF Released
<1>3. req' \in [Reqs -> RequirementRecords]
  <2> DEFINE r == a.req
             n == MaxZero(req[r].assigned - 1)
             s == IF n > 0 THEN "PARTIALLY_ASSIGNED" ELSE "RESERVED"
  <2>1. s \in RequirementStatuses
    BY DEF RequirementStatuses
  <2>2. n \in Nat
    BY <1>1 DEF MaxZero, RequirementRecords
  <2>3. req' = [req EXCEPT ![r].assigned = n, ![r].status = s]
    BY DEF ReleaseAssignment
  <2> HIDE DEF n, s
  <2>4. QED
    BY <1>1, <2>1, <2>2, <2>3 DEF RequirementRecords
<1>4. asg' = asg \ {a} /\ unchecked' = unchecked \cup Released({a})
  BY DEF ReleaseAssignment
<1>5. QED
  BY <1>2, <1>3, <1>4, FS_Subset DEF ReleaseAssignment

LEMMA TypeInvSweep ==
  ASSUME TypeInv, ExpirePending
  PROVE  TypeInv'
<1> USE DEF TypeInv, TypeOK
<1>1. resv' \in [Reqs -> ReservationRecords]
  BY ReservationStatus DEF ExpirePending, ReservationRecords, ReservationStatuses
<1>2. req' \in [Reqs -> RequirementRecords]
  BY RequirementStatus DEF ExpirePending, RequirementStatuses
<1>3. status' \in [Bookings -> BookingStatuses]
  BY DEF ExpirePending, BookingStatuses
<1>4. QED
  BY <1>1, <1>2, <1>3 DEF ExpirePending, ReservationRecords

LEMMA NextTypeInv == TypeInv /\ [Next]_vars => TypeInv'
<1> SUFFICES ASSUME TypeInv, [Next]_vars PROVE TypeInv'
  OBVIOUS
<1> USE DEF TypeInv, TypeOK
<1>1. CASE \E p \in Reqs \X Units : StartReturnInspection(p)
  <2> PICK p \in Reqs \X Units : StartReturnInspection(p)
    BY <1>1
  <2>1. unit' \in [Units -> UnitStates]
    BY DEF StartReturnInspection, SetUnit, UnitStates, OperationalStates
  <2>2. QED
    BY <2>1 DEF StartReturnInspection, SetUnit
<1>2. CASE \E p \in lossIssues : ResolveIssue(p)
  BY <1>2 DEF ResolveIssue
<1>3. CASE UNCHANGED vars
  BY <1>3 DEF vars
<1>4. QED
  BY <1>1, <1>2, <1>3, TypeInvRequest, TypeInvRequirement, TypeInvUnit, TypeInvRelease,
     TypeInvSweep DEF Next

LEMMA InductiveTypes == Spec => []TypeInv
BY InitTypeInv, NextTypeInv, PTL DEF Spec

(* The state always has the shape the database gives it.                    *)
THEOREM TypeCorrect == Spec => []TypeOK
<1>1. TypeInv => TypeOK
  BY DEF TypeInv
<1>2. QED
  BY <1>1, InductiveTypes, PTL

-----------------------------------------------------------------------------
(* Double assignment.                                                       *)

(* Only assign and a completed return inspection do more to the active      *)
(* assignments than end some of them.                                       *)
LEMMA AssignmentsOnlyEnd ==
  ASSUME [Next]_vars
  PROVE  \/ asg' \subseteq asg
         \/ \E r \in Reqs, us \in SUBSET Units : Assign(r, us)
         \/ \E p \in Reqs \X Units, decision \in Decisions, today \in Today :
              CompleteReturnInspection(p, decision, today)
<1>1. ASSUME NEW b \in Bookings, RequestStep(b)
      PROVE  asg' \subseteq asg
  BY <1>1 DEF RequestStep, CreateBooking, HoldLapses, RenewHold, ApproveAndReserve,
     RejectRequest, CancelRequest, CancelCommit, CancelFail, CloseInventory, Extend,
     UpdateStatus, MarkOverdue, Complete
<1>2. ASSUME NEW r \in Reqs, RequirementStep(r)
      PROVE  asg' \subseteq asg \/ \E us \in SUBSET Units : Assign(r, us)
  BY <1>2 DEF RequirementStep, Substitute, Prepare, HandOut, ReturnItems, MarkLost, TakeBack
<1>3. ASSUME NEW u \in Units, UnitStep(u)
      PROVE  \/ asg' \subseteq asg
             \/ \E p \in Reqs \X Units, decision \in Decisions, today \in Today :
                  CompleteReturnInspection(p, decision, today)
  BY <1>3 DEF UnitStep, StaffTransition, CompleteOtherInspection
<1>4. ASSUME NEW a \in asg, ReleaseAssignment(a)
      PROVE  asg' \subseteq asg
  BY <1>4 DEF ReleaseAssignment
<1>5. ASSUME NEW p, StartReturnInspection(p) \/ ResolveIssue(p)
      PROVE  asg' \subseteq asg
  BY <1>5 DEF StartReturnInspection, ResolveIssue
<1>6. ExpirePending => asg' \subseteq asg
  BY DEF ExpirePending
<1>7. UNCHANGED vars => asg' \subseteq asg
  BY DEF vars
<1>8. QED
  BY <1>1, <1>2, <1>3, <1>4, <1>5, <1>6, <1>7 DEF Next

LEMMA NextNoDoubleAssignment ==
  TypeInv /\ NoDoubleAssignment /\ [Next]_vars => NoDoubleAssignment'
<1> SUFFICES ASSUME TypeInv, NoDoubleAssignment, [Next]_vars
             PROVE  NoDoubleAssignment'
  OBVIOUS
<1>1. CASE asg' \subseteq asg
  BY <1>1 DEF NoDoubleAssignment, Overlap
<1>2. ASSUME NEW r \in Reqs, NEW us \in SUBSET Units, Assign(r, us)
      PROVE  NoDoubleAssignment'
  <2> DEFINE added == {[req |-> r, unit |-> u, from |-> resv[r].from, to |-> resv[r].to,
                        checked |-> FALSE] : u \in us}
  <2>1. asg' = asg \cup added
    BY <1>2 DEF Assign
  <2>2. \A u \in us : Free(u, resv[r].from, resv[r].to)
    BY <1>2 DEF Assign
  <2>3. \A n \in added : n.unit \in us /\ n.from = resv[r].from /\ n.to = resv[r].to
    OBVIOUS
  <2>4. \A n, m \in added : n.unit = m.unit => n = m
    <3>1. \A n \in added : n = [req |-> r, unit |-> n.unit, from |-> resv[r].from,
                               to |-> resv[r].to, checked |-> FALSE]
      OBVIOUS
    <3> HIDE DEF added
    <3>2. QED
      BY <3>1
  <2>5. \A a \in asg, n \in added :
          a.unit = n.unit => ~Overlap(a.from, a.to, n.from, n.to)
    BY <2>2, <2>3 DEF Free
  <2>6. \A a \in asg' : a.from \in Int /\ a.to \in Int
    BY <1>2, TypeInvAssign, BoundAssumption DEF TypeInv, TypeOK, Assignments, Days
  <2> HIDE DEF added
  <2>7. \A a \in asg, n \in added :
          a.unit = n.unit => ~Overlap(n.from, n.to, a.from, a.to)
    BY <2>1, <2>5, <2>6 DEF Overlap
  <2>8. QED
    BY <2>1, <2>4, <2>5, <2>7 DEF NoDoubleAssignment, Overlap
<1>3. ASSUME NEW p \in Reqs \X Units, NEW decision \in Decisions, NEW today \in Today,
             CompleteReturnInspection(p, decision, today)
      PROVE  NoDoubleAssignment'
  <2>1. \A n \in asg' : \E a \in asg :
          /\ a.unit = n.unit /\ a.from = n.from /\ a.to = n.to
          /\ n = IF <<a.req, a.unit>> = p THEN [a EXCEPT !.checked = TRUE] ELSE a
    BY <1>3 DEF CompleteReturnInspection, TypeInv, TypeOK, Assignments
  <2> SUFFICES ASSUME NEW n \in asg', NEW m \in asg', n # m, n.unit = m.unit
               PROVE  ~Overlap(n.from, n.to, m.from, m.to)
    BY DEF NoDoubleAssignment, Overlap
  <2>2. PICK a \in asg :
          /\ a.unit = n.unit /\ a.from = n.from /\ a.to = n.to
          /\ n = IF <<a.req, a.unit>> = p THEN [a EXCEPT !.checked = TRUE] ELSE a
    BY <2>1
  <2>3. PICK c \in asg :
          /\ c.unit = m.unit /\ c.from = m.from /\ c.to = m.to
          /\ m = IF <<c.req, c.unit>> = p THEN [c EXCEPT !.checked = TRUE] ELSE c
    BY <2>1
  <2>4. a # c
    BY <2>2, <2>3
  <2>5. QED
    BY <2>2, <2>3, <2>4 DEF NoDoubleAssignment
<1>4. QED
  BY <1>1, <1>2, <1>3, AssignmentsOnlyEnd

(* Two active assignments never hold the same unit on the same day.         *)
THEOREM NeverDoubleAssigned == Spec => []NoDoubleAssignment
<1>1. Init => NoDoubleAssignment
  BY DEF Init, NoDoubleAssignment
<1>2. QED
  BY <1>1, NextNoDoubleAssignment, InductiveTypes, PTL DEF Spec

-----------------------------------------------------------------------------
(* Reservations.                                                            *)

LEMMA UnchangedReservations ==
  ASSUME ReservationsFollowBooking, status' = status,
         \A r \in Reqs : resv'[r].status = resv[r].status
  PROVE  ReservationsFollowBooking'
BY DEF ReservationsFollowBooking, LiveResv

(* Closing a booking's inventory leaves none of its reservations live and   *)
(* touches no other booking's.                                              *)
LEMMA CloseReservations ==
  ASSUME TypeInv, NEW b, NEW s \in {"CANCELLED", "RELEASED"}, CloseInventory(b, s)
  PROVE  /\ \A r \in ReqsOf(b) : resv'[r].status \notin {"PENDING", "CONFIRMED"}
         /\ \A r \in Reqs \ ReqsOf(b) : resv'[r] = resv[r]
BY DEF TypeInv, TypeOK, CloseInventory, LiveResv, ReqsOf

LEMMA CloseFollowsBooking ==
  ASSUME TypeInv, ReservationsFollowBooking, NEW b \in Bookings,
         NEW s \in {"CANCELLED", "RELEASED"}, CloseInventory(b, s),
         NEW closed \in {"cancelled", "completed"},
         status' = [status EXCEPT ![b] = closed]
  PROVE  ReservationsFollowBooking'
BY CloseReservations, IndexAssumption
DEF TypeInv, TypeOK, ReservationsFollowBooking, LiveResv, ReqsOf

LEMMA FollowsBookingRequest ==
  ASSUME TypeInv, ReservationsFollowBooking, NEW b \in Bookings, RequestStep(b)
  PROVE  ReservationsFollowBooking'
<1> USE IndexAssumption DEF TypeInv, TypeOK, ReqsOf
<1>1. CASE \E f, t \in Days : f <= t /\ CreateBooking(b, f, t)
  BY <1>1 DEF CreateBooking, ReservationsFollowBooking, LiveResv
<1>2. CASE HoldLapses(b) \/ RenewHold(b) \/ CancelRequest(b) \/ CancelFail(b)
  BY <1>2, UnchangedReservations DEF HoldLapses, RenewHold, CancelRequest, CancelFail
<1>3. CASE ApproveAndReserve(b)
  BY <1>3 DEF ApproveAndReserve, ReservationsFollowBooking, LiveResv
<1>4. CASE RejectRequest(b)
  BY <1>4, CloseFollowsBooking DEF RejectRequest
<1>5. CASE CancelCommit(b)
  BY <1>5, CloseFollowsBooking DEF CancelCommit
<1>6. CASE \E end \in Days : Extend(b, end)
  BY <1>6, UnchangedReservations DEF Extend
<1>7. CASE \E new \in {"delivered", "returned", "inspected"} : UpdateStatus(b, new)
  BY <1>7 DEF UpdateStatus, StatusAllowed, VALID_TRANSITIONS, BookingStatuses,
     ReservationsFollowBooking, LiveResv
<1>8. CASE MarkOverdue(b)
  BY <1>8 DEF MarkOverdue, StatusAllowed, VALID_TRANSITIONS, BookingStatuses,
     ReservationsFollowBooking, LiveResv
<1>9. CASE Complete(b)
  BY <1>9, CloseFollowsBooking DEF Complete
<1>10. QED
  BY <1>1, <1>2, <1>3, <1>4, <1>5, <1>6, <1>7, <1>8, <1>9 DEF RequestStep

(* A sweep takes all holds of a request or none, so it closes the requests  *)
(* whose holds it takes.                                                    *)
LEMMA SweepTakesWholeRequests ==
  ASSUME TypeInv, ReservationsFollowBooking, ExpirePending
  PROVE  \A r \in LapsedHolds :
           status[BookingOf[r]] = "pending" => BookingOf[r] \in Emptied(LapsedHolds)
BY IndexAssumption DEF TypeInv, TypeOK, ReservationsFollowBooking, LapsedHolds,
   Emptied, ReqsOf

LEMMA FollowsBookingSweep ==
  ASSUME TypeInv, ReservationsFollowBooking, ExpirePending
  PROVE  ReservationsFollowBooking'
<1> USE IndexAssumption DEF TypeInv, TypeOK, ReqsOf
<1> DEFINE swept == LapsedHolds
           emptied == Emptied(swept)
<1>1. /\ \A r \in Reqs : resv'[r].status = IF r \in swept THEN "EXPIRED" ELSE resv[r].status
      /\ \A b \in Bookings : status'[b] = IF b \in emptied THEN "cancelled" ELSE status[b]
  BY DEF ExpirePending
<1>2. \A r \in swept : status[BookingOf[r]] = "pending" => BookingOf[r] \in emptied
  BY SweepTakesWholeRequests
<1>3. \A r \in swept : r \in Reqs /\ resv[r].status = "PENDING"
  BY DEF LapsedHolds
<1>4. \A r \in Reqs : BookingOf[r] \in emptied =>
        status[BookingOf[r]] = "pending" /\ (LiveResv(r) => r \in swept)
  BY DEF Emptied
<1> HIDE DEF swept, emptied
<1>5. \A r \in Reqs : BookingOf[r] \in Bookings
  OBVIOUS
<1>6. QED
  BY <1>1, <1>2, <1>3, <1>4, <1>5 DEF ReservationsFollowBooking, LiveResv

LEMMA NextFollowsBooking ==
  TypeInv /\ ReservationsFollowBooking /\ [Next]_vars => ReservationsFollowBooking'
<1> SUFFICES ASSUME TypeInv, ReservationsFollowBooking, [Next]_vars
             PROVE  ReservationsFollowBooking'
  OBVIOUS
<1> USE DEF TypeInv, TypeOK
<1>1. ASSUME NEW r \in Reqs, RequirementStep(r)
      PROVE  ReservationsFollowBooking'
  <2>1. status' = status /\ \A q \in Reqs : resv'[q].status = resv[q].status
    <3>1. CASE \E sku \in Skus : Substitute(r, sku)
      BY <3>1 DEF Substitute
    <3>2. CASE UNCHANGED <<status, resv>>
      BY <3>2
    <3>3. QED
      BY <1>1, <3>1, <3>2 DEF RequirementStep, Assign, Prepare, HandOut, ReturnItems,
         MarkLost, TakeBack
  <2>2. QED
    BY <2>1, UnchangedReservations
<1>2. ASSUME NEW u \in Units, UnitStep(u)
      PROVE  ReservationsFollowBooking'
  BY <1>2, UnchangedReservations DEF UnitStep, StaffTransition, CompleteOtherInspection,
     CompleteReturnInspection, SetUnit
<1>3. ASSUME NEW a \in asg, ReleaseAssignment(a)
      PROVE  ReservationsFollowBooking'
  BY <1>3, UnchangedReservations DEF ReleaseAssignment
<1>4. ASSUME NEW p, StartReturnInspection(p) \/ ResolveIssue(p)
      PROVE  ReservationsFollowBooking'
  BY <1>4, UnchangedReservations DEF StartReturnInspection, ResolveIssue, SetUnit
<1>5. CASE UNCHANGED vars
  BY <1>5, UnchangedReservations DEF vars
<1>6. QED
  BY <1>1, <1>2, <1>3, <1>4, <1>5, FollowsBookingRequest, FollowsBookingSweep DEF Next

(* A booking's reservations are where its status says.                      *)
THEOREM ReservationsAlwaysFollow == Spec => []ReservationsFollowBooking
<1>1. Init => ReservationsFollowBooking
  BY IndexAssumption DEF Init, ReservationsFollowBooking
<1>2. QED
  BY <1>1, NextFollowsBooking, InductiveTypes, PTL DEF Spec

-----------------------------------------------------------------------------
(* The units a customer has.                                                *)

(* OutItemsAccountedFor for one requirement, and what makes it inductive:   *)
(* no more units leave than the requirement needs, and a requirement units  *)
(* left for exists.                                                         *)
ItemsOf(r) ==
  /\ out[r] \subseteq Held(r)
  /\ Cardinality(out[r]) + req[r].returned + req[r].lost = req[r].handedOut
  /\ req[r].handedOut <= Quantity[r]
  /\ out[r] # {} => /\ status[BookingOf[r]] \in {"confirmed", "delivered", "overdue"}
                    /\ req[r].status \notin {"NONE", "CANCELLED"}
ItemsInv == \A r \in Reqs : ItemsOf(r)

(* The inductive invariant of the rental core.                              *)
CoreInv == TypeInv /\ ReservationsFollowBooking /\ ItemsInv

LEMMA ItemsCounts ==
  ASSUME TypeInv, NEW r \in Reqs
  PROVE  /\ IsFiniteSet(out[r]) /\ Cardinality(out[r]) \in Nat
         /\ Cardinality(out[r]) = 0 <=> out[r] = {}
         /\ req[r].returned \in Nat /\ req[r].lost \in Nat /\ req[r].handedOut \in Nat
         /\ Quantity[r] \in Nat
         /\ BookingOf[r] \in Bookings
<1>1. out[r] \in SUBSET Units
  BY DEF TypeInv, TypeOK
<1>2. QED
  BY <1>1, SubsetOfUnits, FS_EmptySet, QuantityAssumption, IndexAssumption
  DEF TypeInv, TypeOK, RequirementRecords

(* A requirement whose counters, units out and assignments a step leaves    *)
(* alone, and whose booking it does not close over units that are out.      *)
LEMMA ItemsUntouched ==
  ASSUME TypeInv, NEW r \in Reqs, ItemsOf(r),
         out'[r] = out[r], out[r] \subseteq Held(r)',
         req'[r].handedOut = req[r].handedOut,
         req'[r].returned = req[r].returned, req'[r].lost = req[r].lost,
         out[r] # {} => /\ status'[BookingOf[r]] \in {"confirmed", "delivered", "overdue"}
                        /\ req'[r].status \notin {"NONE", "CANCELLED"}
  PROVE  ItemsOf(r)'
BY DEF ItemsOf

LEMMA SameAssignmentsSameHeld ==
  ASSUME NEW r, \A a \in AssignmentsOf(r) : a \in asg'
  PROVE  Held(r) \subseteq Held(r)'
BY DEF Held, AssignmentsOf

(* No unit of a booking is out when it is closed or closing is allowed.     *)
LEMMA NothingOut ==
  ASSUME CoreInv, NEW b \in Bookings,
         \/ status[b] \notin {"confirmed", "delivered", "overdue"}
         \/ ~CancelRefused(b)
         \/ \A r \in LiveReqs(b) : Resolved(r)
  PROVE  \A r \in ReqsOf(b) : out[r] = {}
<1> SUFFICES ASSUME NEW r \in Reqs, BookingOf[r] = b, out[r] # {}
             PROVE  FALSE
  BY DEF ReqsOf
<1>1. ItemsOf(r)
  BY DEF CoreInv, ItemsInv
<1>2. r \in LiveReqs(b)
  BY <1>1 DEF ItemsOf, LiveReqs, ReqsOf
<1>3. Cardinality(out[r]) > 0 /\ Cardinality(out[r]) \in Nat
  BY ItemsCounts DEF CoreInv
<1>4. req[r].handedOut > req[r].returned + req[r].lost
  BY <1>1, <1>3, ItemsCounts DEF ItemsOf, CoreInv
<1>5. Outstanding(r) /\ ~Resolved(r)
  BY <1>1, <1>4, ItemsCounts DEF ItemsOf, CoreInv, Outstanding, Resolved
<1>6. QED
  BY <1>1, <1>2, <1>5 DEF ItemsOf, CancelRefused

(* Closing a booking that has no unit out.                                  *)
LEMMA ItemsClose ==
  ASSUME CoreInv, NEW b \in Bookings, NEW s,
         CloseInventory(b, s), out' = out,
         \A r \in Reqs : /\ req'[r].handedOut = req[r].handedOut
                         /\ req'[r].returned = req[r].returned
                         /\ req'[r].lost = req[r].lost,
         \A r \in Reqs \ ReqsOf(b) : /\ req'[r].status = req[r].status
                                     /\ status'[BookingOf[r]] = status[BookingOf[r]],
         \A r \in ReqsOf(b) : out[r] = {}
  PROVE  ItemsInv'
<1> SUFFICES ASSUME NEW r \in Reqs
             PROVE  ItemsOf(r)'
  BY DEF ItemsInv
<1>1. ItemsOf(r)
  BY DEF CoreInv, ItemsInv
<1>2. CASE r \in ReqsOf(b)
  BY <1>1, <1>2, ItemsUntouched DEF CoreInv
<1>3. CASE r \notin ReqsOf(b)
  <2>1. Held(r) \subseteq Held(r)'
    BY <1>3, SameAssignmentsSameHeld
    DEF CloseInventory, AssignmentsOfBooking, AssignmentsOf, ReqsOf
  <2>2. out[r] \subseteq Held(r)'
    BY <1>1, <2>1 DEF ItemsOf
  <2>3. out[r] # {} => /\ status'[BookingOf[r]] \in {"confirmed", "delivered", "overdue"}
                       /\ req'[r].status \notin {"NONE", "CANCELLED"}
    BY <1>1, <1>3 DEF ItemsOf
  <2>4. QED
    BY <1>1, <2>2, <2>3, ItemsUntouched DEF CoreInv
<1>4. QED
  BY <1>2, <1>3

(* Steps that leave the assignments and the units out alone.                *)
LEMMA ItemsKept ==
  ASSUME CoreInv, asg' = asg, out' = out,
         \A r \in Reqs : /\ req'[r].handedOut = req[r].handedOut
                         /\ req'[r].returned = req[r].returned
                         /\ req'[r].lost = req[r].lost,
         \A r \in Reqs : out[r] # {} =>
           /\ status'[BookingOf[r]] \in {"confirmed", "delivered", "overdue"}
           /\ req'[r].status \notin {"NONE", "CANCELLED"}
  PROVE  ItemsInv'
<1> SUFFICES ASSUME NEW r \in Reqs
             PROVE  ItemsOf(r)'
  BY DEF ItemsInv
<1>1. ItemsOf(r)
  BY DEF CoreInv, ItemsInv
<1>2. Held(r)' = Held(r)
  BY DEF Held, AssignmentsOf
<1>3. QED
  BY <1>1, <1>2, ItemsUntouched DEF CoreInv, ItemsOf

LEMMA ItemsRequest ==
  ASSUME CoreInv, NEW b \in Bookings, RequestStep(b)
  PROVE  ItemsInv'
<1> USE DEF TypeInv, TypeOK
<1>0. /\ TypeInv
      /\ \A r \in Reqs : out[r] # {} =>
           /\ status[BookingOf[r]] \in {"confirmed", "delivered", "overdue"}
           /\ req[r].status \notin {"NONE", "CANCELLED"}
      /\ \A r \in Reqs : BookingOf[r] \in Bookings
      /\ \A r \in Reqs : r \in ReqsOf(b) <=> BookingOf[r] = b
  BY IndexAssumption DEF CoreInv, ItemsInv, ItemsOf, ReqsOf
<1>1. CASE \E f, t \in Days : f <= t /\ CreateBooking(b, f, t)
  <2>1. status[b] = "NONE"
    BY <1>1 DEF CreateBooking
  <2>2. \A r \in Reqs : /\ req'[r].handedOut = req[r].handedOut
                        /\ req'[r].returned = req[r].returned
                        /\ req'[r].lost = req[r].lost
    BY <1>0, <1>1 DEF CreateBooking, RequirementRecords
  <2>3. \A r \in Reqs : out[r] # {} =>
           /\ status'[BookingOf[r]] \in {"confirmed", "delivered", "overdue"}
           /\ req'[r].status \notin {"NONE", "CANCELLED"}
    BY <1>0, <1>1, <2>1 DEF CreateBooking
  <2>4. asg' = asg /\ out' = out
    BY <1>1 DEF CreateBooking
  <2>5. QED
    BY <2>2, <2>3, <2>4, ItemsKept
<1>2. CASE HoldLapses(b) \/ RenewHold(b) \/ CancelRequest(b) \/ CancelFail(b)
  <2>1. asg' = asg /\ out' = out /\ req' = req /\ status' = status
    BY <1>2 DEF HoldLapses, RenewHold, CancelRequest, CancelFail
  <2>2. QED
    BY <1>0, <2>1, ItemsKept
<1>3. CASE ApproveAndReserve(b)
  <2>1. asg' = asg /\ out' = out /\ req' = req /\ status' = [status EXCEPT ![b] = "confirmed"]
    BY <1>3 DEF ApproveAndReserve
  <2>2. QED
    BY <1>0, <2>1, ItemsKept
<1>4. CASE RejectRequest(b)
  <2>1. \A r \in ReqsOf(b) : out[r] = {}
    BY <1>4, NothingOut DEF RejectRequest
  <2>2. \A r \in Reqs : /\ req'[r].handedOut = req[r].handedOut
                        /\ req'[r].returned = req[r].returned
                        /\ req'[r].lost = req[r].lost
    BY <1>0, <1>4 DEF RejectRequest, CancelRequirements, RequirementRecords
  <2>3. \A r \in Reqs \ ReqsOf(b) : /\ req'[r].status = req[r].status
                                    /\ status'[BookingOf[r]] = status[BookingOf[r]]
    BY <1>0, <1>4 DEF RejectRequest, CancelRequirements, ActiveReqs
  <2>4. QED
    BY <1>4, <2>1, <2>2, <2>3, ItemsClose DEF RejectRequest
<1>5. CASE CancelCommit(b)
  <2>1. \A r \in ReqsOf(b) : out[r] = {}
    BY <1>5, NothingOut DEF CancelCommit
  <2>2. \A r \in Reqs : /\ req'[r].handedOut = req[r].handedOut
                        /\ req'[r].returned = req[r].returned
                        /\ req'[r].lost = req[r].lost
    BY <1>0, <1>5 DEF CancelCommit, CancelRequirements, RequirementRecords
  <2>3. \A r \in Reqs \ ReqsOf(b) : /\ req'[r].status = req[r].status
                                    /\ status'[BookingOf[r]] = status[BookingOf[r]]
    BY <1>0, <1>5 DEF CancelCommit, CancelRequirements, LiveReqs
  <2>4. QED
    BY <1>5, <2>1, <2>2, <2>3, ItemsClose DEF CancelCommit
<1>6. CASE \E end \in Days : Extend(b, end)
  <2>1. asg' = asg /\ out' = out /\ status' = status
    BY <1>6 DEF Extend
  <2>2. \A r \in Reqs :
          /\ req'[r].handedOut = req[r].handedOut
          /\ req'[r].returned = req[r].returned
          /\ req'[r].lost = req[r].lost
          /\ req'[r].status \in {req[r].status, "HANDED_OUT", "RESERVED"}
    BY <1>0, <1>6 DEF Extend, RequirementRecords
  <2>3. QED
    BY <1>0, <2>1, <2>2, ItemsKept
<1>7. CASE \E new \in {"delivered", "returned", "inspected"} : UpdateStatus(b, new)
  <2> PICK new \in {"delivered", "returned", "inspected"} : UpdateStatus(b, new)
    BY <1>7
  <2>1. asg' = asg /\ out' = out /\ req' = req /\ status' = [status EXCEPT ![b] = new]
    BY DEF UpdateStatus
  <2>2. new = "delivered" \/ \A r \in ReqsOf(b) : out[r] = {}
    BY NothingOut DEF UpdateStatus, StatusAllowed
  <2>3. QED
    BY <1>0, <2>1, <2>2, ItemsKept
<1>8. CASE MarkOverdue(b)
  <2>1. asg' = asg /\ out' = out /\ status' = [status EXCEPT ![b] = "overdue"]
    BY <1>8 DEF MarkOverdue
  <2>2. \A r \in Reqs :
          /\ req'[r].handedOut = req[r].handedOut
          /\ req'[r].returned = req[r].returned
          /\ req'[r].lost = req[r].lost
          /\ req'[r].status \in {req[r].status, "OVERDUE"}
    BY <1>0, <1>8 DEF MarkOverdue, RequirementRecords
  <2>3. QED
    BY <1>0, <2>1, <2>2, ItemsKept
<1>9. CASE Complete(b)
  <2>1. \A r \in ReqsOf(b) : out[r] = {}
    BY <1>9, NothingOut DEF Complete, StatusAllowed
  <2>2. req' = req /\ out' = out
    BY <1>9 DEF Complete
  <2>3. \A r \in Reqs \ ReqsOf(b) : status'[BookingOf[r]] = status[BookingOf[r]]
    BY <1>0, <1>9 DEF Complete
  <2>4. QED
    BY <1>9, <2>1, <2>2, <2>3, ItemsClose DEF Complete
<1>10. QED
  BY <1>1, <1>2, <1>3, <1>4, <1>5, <1>6, <1>7, <1>8, <1>9 DEF RequestStep

(* Hand-out adds units of the requirement's own assignments.                *)
LEMMA ItemsHandOut ==
  ASSUME CoreInv, NEW r \in Reqs, NEW us \in SUBSET Units, NEW today,
         HandOut(r, us, today)
  PROVE  ItemsInv'
<1> USE DEF TypeInv, TypeOK
<1> SUFFICES ASSUME NEW q \in Reqs
             PROVE  ItemsOf(q)'
  BY DEF ItemsInv
<1>0. TypeInv /\ ItemsOf(q) /\ req \in [Reqs -> RequirementRecords] /\ out \in [Reqs -> SUBSET Units]
  BY DEF CoreInv, ItemsInv
<1>1. Held(q)' = Held(q) /\ status' = status
  BY DEF HandOut, Held, AssignmentsOf
<1>2. CASE q # r
  BY <1>0, <1>1, <1>2 DEF HandOut, ItemsOf
<1>3. CASE q = r
  <2> DEFINE n == req[r].handedOut + Cardinality(us)
             s == IF n = Quantity[r] THEN "HANDED_OUT" ELSE "PARTIALLY_HANDED_OUT"
  <2>1. /\ req' = [req EXCEPT ![r].handedOut = n, ![r].status = s]
        /\ out' = [out EXCEPT ![r] = @ \cup us]
        /\ us \subseteq Held(r) \ out[r]
        /\ n <= Quantity[r]
        /\ status[BookingOf[r]] = "confirmed"
    BY DEF HandOut
  <2>2. s \notin {"NONE", "CANCELLED"}
    OBVIOUS
  <2> HIDE DEF s
  <2>3. /\ req'[r].handedOut = n /\ req'[r].returned = req[r].returned
        /\ req'[r].lost = req[r].lost /\ req'[r].status = s
    BY <1>0, <2>1 DEF RequirementRecords
  <2>4. out'[r] = out[r] \cup us
    BY <1>0, <2>1
  <2>5. Cardinality(out'[r]) = Cardinality(out[r]) + Cardinality(us)
    <3>1. out[r] \cap us = {}
      BY <2>1
    <3>2. IsFiniteSet(out[r]) /\ IsFiniteSet(us)
      BY <1>0, ItemsCounts, SubsetOfUnits
    <3>3. Cardinality(out[r] \cap us) = 0
      BY <3>1, FS_EmptySet
    <3>4. Cardinality(out[r]) \in Nat /\ Cardinality(us) \in Nat
      BY <1>0, ItemsCounts, SubsetOfUnits
    <3>5. Cardinality(out[r] \cup us)
            = Cardinality(out[r]) + Cardinality(us) - Cardinality(out[r] \cap us)
      BY <3>2, FS_Union
    <3>6. QED
      BY <2>4, <3>3, <3>4, <3>5
  <2>6. Cardinality(us) \in Nat
    BY SubsetOfUnits
  <2>7. Cardinality(out'[r]) + req'[r].returned + req'[r].lost = req'[r].handedOut
    BY <1>0, <1>3, <2>3, <2>5, <2>6, ItemsCounts DEF ItemsOf
  <2>8. out'[r] \subseteq Held(r)'
    BY <1>0, <1>1, <1>3, <2>1, <2>4 DEF ItemsOf
  <2>9. QED
    BY <1>1, <1>3, <2>1, <2>2, <2>3, <2>7, <2>8 DEF ItemsOf
<1>4. QED
  BY <1>2, <1>3

(* Return and loss take units off the requirement and count each once.      *)
LEMMA ItemsTakeBack ==
  ASSUME CoreInv, NEW r \in Reqs, NEW us \in SUBSET Units,
         NEW returned \in Nat, NEW lost \in Nat, TakeBack(r, us, returned, lost),
         returned + lost = req[r].returned + req[r].lost + Cardinality(us)
  PROVE  ItemsInv'
<1> USE DEF TypeInv, TypeOK
<1> SUFFICES ASSUME NEW q \in Reqs
             PROVE  ItemsOf(q)'
  BY DEF ItemsInv
<1>0. TypeInv /\ ItemsOf(q) /\ req \in [Reqs -> RequirementRecords] /\ out \in [Reqs -> SUBSET Units]
  BY DEF CoreInv, ItemsInv
<1> DEFINE done == {a \in AssignmentsOf(r) : a.unit \in us}
           n == MaxZero(req[r].assigned - Cardinality(us))
           s == IF returned + lost # Quantity[r] THEN "PARTIALLY_RETURNED"
                ELSE IF lost > 0 THEN "LOST" ELSE "RETURNED"
<1>1. /\ status' = status
      /\ asg' = asg \ done
      /\ out' = [out EXCEPT ![r] = @ \ us]
      /\ us \subseteq out[r]
      /\ status[BookingOf[r]] \in {"delivered", "overdue"}
      /\ req' = [req EXCEPT ![r].returned = returned, ![r].lost = lost,
                            ![r].assigned = n, ![r].status = s]
  BY DEF TakeBack
<1>2. s \notin {"NONE", "CANCELLED"}
  OBVIOUS
<1> HIDE DEF s, n
<1>3. CASE q # r
  <2>1. Held(q) \subseteq Held(q)'
    BY <1>1, <1>3, SameAssignmentsSameHeld DEF AssignmentsOf
  <2>2. req'[q] = req[q] /\ out'[q] = out[q]
    BY <1>0, <1>1, <1>3
  <2>3. QED
    BY <1>0, <1>1, <2>1, <2>2 DEF ItemsOf
<1>4. CASE q = r
  <2>1. /\ req'[r].returned = returned /\ req'[r].lost = lost /\ req'[r].status = s
        /\ req'[r].handedOut = req[r].handedOut
    <3> DEFINE f == [req EXCEPT ![r].returned = returned, ![r].lost = lost]
    <3>1. /\ f[r].returned = returned /\ f[r].lost = lost
          /\ f[r].handedOut = req[r].handedOut
          /\ f \in [Reqs -> RequirementRecords]
      BY <1>0 DEF RequirementRecords
    <3>2. req' = [f EXCEPT ![r].assigned = n, ![r].status = s]
      BY <1>1
    <3> HIDE DEF f
    <3>3. QED
      BY <3>1, <3>2 DEF RequirementRecords
  <2>2. out'[r] = out[r] \ us
    BY <1>0, <1>1
  <2>3. out'[r] \subseteq Held(r)'
    BY <1>0, <1>1, <1>4, <2>2 DEF ItemsOf, Held, AssignmentsOf
  <2>4. Cardinality(out[r]) = Cardinality(out'[r]) + Cardinality(us)
    BY <1>0, <1>1, <2>2, ItemsCounts, CardinalityMinus
  <2>5. Cardinality(us) \in Nat /\ Cardinality(out'[r]) \in Nat
    BY <1>0, <2>2, ItemsCounts, SubsetOfUnits, FS_Subset, FS_CardinalityType
  <2>6. Cardinality(out'[r]) + req'[r].returned + req'[r].lost = req'[r].handedOut
    <3>1. Cardinality(out[r]) + req[r].returned + req[r].lost = req[r].handedOut
      BY <1>0, <1>4 DEF ItemsOf
    <3>2. req[r].returned \in Nat /\ req[r].lost \in Nat /\ req[r].handedOut \in Nat
      BY <1>0, ItemsCounts
    <3>3. (Cardinality(out'[r]) + Cardinality(us)) + req[r].returned + req[r].lost
            = req[r].handedOut
      BY <2>4, <3>1
    <3>4. Cardinality(out'[r]) + returned + lost = req[r].handedOut
      BY <2>5, <3>2, <3>3
    <3>5. QED
      BY <2>1, <3>4
  <2>7. QED
    BY <1>0, <1>1, <1>2, <1>4, <2>1, <2>3, <2>6 DEF ItemsOf
<1>5. QED
  BY <1>3, <1>4

LEMMA ItemsRequirement ==
  ASSUME CoreInv, NEW r \in Reqs, RequirementStep(r)
  PROVE  ItemsInv'
<1> USE DEF TypeInv, TypeOK
<1>0. /\ TypeInv
      /\ \A q \in Reqs : ItemsOf(q)
      /\ req \in [Reqs -> RequirementRecords]
  BY DEF CoreInv, ItemsInv
<1>1. ASSUME NEW us \in SUBSET Units, Assign(r, us)
      PROVE  ItemsInv'
  <2> SUFFICES ASSUME NEW q \in Reqs
               PROVE  ItemsOf(q)'
    BY DEF ItemsInv
  <2> DEFINE n == AssignedTotal(r, us)
             s == IF n = Quantity[r] THEN "ASSIGNED" ELSE "PARTIALLY_ASSIGNED"
  <2>1. /\ asg \subseteq asg' /\ out' = out /\ status' = status
        /\ req' = [req EXCEPT ![r].assigned = n, ![r].status = s]
    BY <1>1 DEF Assign
  <2>2. s \notin {"NONE", "CANCELLED"}
    OBVIOUS
  <2> HIDE DEF n, s
  <2>3. /\ req'[q].handedOut = req[q].handedOut /\ req'[q].returned = req[q].returned
        /\ req'[q].lost = req[q].lost /\ req'[q].status \in {req[q].status, s}
    BY <1>0, <2>1 DEF RequirementRecords
  <2>4. Held(q) \subseteq Held(q)'
    BY <2>1, SameAssignmentsSameHeld DEF AssignmentsOf
  <2>5. QED
    BY <1>0, <2>1, <2>2, <2>3, <2>4, ItemsUntouched DEF ItemsOf
<1>2. CASE \E sku \in Skus : Substitute(r, sku)
  <2>1. asg' = asg /\ out' = out /\ status' = status
    BY <1>2 DEF Substitute
  <2>2. \A q \in Reqs :
          /\ req'[q].handedOut = req[q].handedOut /\ req'[q].returned = req[q].returned
          /\ req'[q].lost = req[q].lost /\ req'[q].status \in {req[q].status, "RESERVED"}
    BY <1>0, <1>2 DEF Substitute, RequirementRecords
  <2>3. QED
    BY <1>0, <2>1, <2>2, ItemsKept DEF ItemsOf
<1>3. CASE \E prep \in {"OPEN", "READY"} : Prepare(r, prep)
  <2>1. asg' = asg /\ out' = out /\ status' = status
    BY <1>3 DEF Prepare
  <2>2. \A q \in Reqs :
          /\ req'[q].handedOut = req[q].handedOut /\ req'[q].returned = req[q].returned
          /\ req'[q].lost = req[q].lost /\ req'[q].status = req[q].status
    BY <1>0, <1>3 DEF Prepare, RequirementRecords
  <2>3. QED
    BY <1>0, <2>1, <2>2, ItemsKept DEF ItemsOf
<1>4. ASSUME NEW us \in SUBSET Units, NEW today \in Today, ReturnItems(r, us, today)
      PROVE  ItemsInv'
  <2>1. req[r].returned + Cardinality(us) \in Nat /\ req[r].lost \in Nat
    BY <1>0, SubsetOfUnits DEF RequirementRecords
  <2>2. (req[r].returned + Cardinality(us)) + req[r].lost
          = req[r].returned + req[r].lost + Cardinality(us)
    BY <1>0, SubsetOfUnits DEF RequirementRecords
  <2>3. QED
    BY <1>4, <2>1, <2>2, ItemsTakeBack DEF ReturnItems
<1>5. ASSUME NEW us \in SUBSET Units, NEW today \in Today, MarkLost(r, us, today)
      PROVE  ItemsInv'
  <2>1. req[r].lost + Cardinality(us) \in Nat /\ req[r].returned \in Nat
    BY <1>0, SubsetOfUnits DEF RequirementRecords
  <2>2. req[r].returned + (req[r].lost + Cardinality(us))
          = req[r].returned + req[r].lost + Cardinality(us)
    BY <1>0, SubsetOfUnits DEF RequirementRecords
  <2>3. QED
    BY <1>5, <2>1, <2>2, ItemsTakeBack DEF MarkLost
<1>6. QED
  BY <1>1, <1>2, <1>3, <1>4, <1>5, ItemsHandOut DEF RequirementStep

(* An inspection marks an assignment; a unit's step ends none.              *)
LEMMA ItemsUnit ==
  ASSUME CoreInv, NEW u \in Units, UnitStep(u)
  PROVE  ItemsInv'
<1>0. TypeInv /\ \A q \in Reqs : ItemsOf(q)
  BY DEF CoreInv, ItemsInv
<1>1. CASE asg' = asg
  <2>1. out' = out /\ req' = req /\ status' = status
    BY DEF UnitStep, StaffTransition, CompleteOtherInspection, CompleteReturnInspection, SetUnit
  <2>2. QED
    BY <1>0, <1>1, <2>1, ItemsKept DEF ItemsOf
<1>2. ASSUME NEW decision \in Decisions, NEW today \in Today, NEW r \in Reqs,
             CompleteReturnInspection(<<r, u>>, decision, today)
      PROVE  ItemsInv'
  <2> SUFFICES ASSUME NEW q \in Reqs
               PROVE  ItemsOf(q)'
    BY DEF ItemsInv
  <2>1. out' = out /\ req' = req /\ status' = status
    BY <1>2 DEF CompleteReturnInspection, SetUnit
  <2>2. \A a \in asg : \E n \in asg' : n.req = a.req /\ n.unit = a.unit
    <3>1. \A a \in Assignments : LET n == [a EXCEPT !.checked = TRUE]
                                 IN  n.req = a.req /\ n.unit = a.unit
      BY DEF Assignments
    <3>2. asg \subseteq Assignments
      BY <1>0 DEF TypeInv, TypeOK
    <3>3. \A a \in asg : (IF <<a.req, a.unit>> = <<r, u>>
                         THEN [a EXCEPT !.checked = TRUE] ELSE a) \in asg'
      BY <1>2 DEF CompleteReturnInspection
    <3>4. QED
      BY <3>1, <3>2, <3>3
  <2>3. Held(q) \subseteq Held(q)'
    BY <2>2 DEF Held, AssignmentsOf
  <2>4. QED
    BY <1>0, <2>1, <2>3 DEF ItemsOf
<1>3. QED
  BY <1>1, <1>2 DEF UnitStep, StaffTransition, CompleteOtherInspection

LEMMA ItemsRelease ==
  ASSUME CoreInv, NEW a \in asg, ReleaseAssignment(a)
  PROVE  ItemsInv'
<1> USE DEF TypeInv, TypeOK
<1> SUFFICES ASSUME NEW q \in Reqs
             PROVE  ItemsOf(q)'
  BY DEF ItemsInv
<1>0. TypeInv /\ ItemsOf(q) /\ req \in [Reqs -> RequirementRecords]
  BY DEF CoreInv, ItemsInv
<1>1. a.req \in Reqs
  BY <1>0 DEF Assignments
<1> DEFINE n == MaxZero(req[a.req].assigned - 1)
           s == IF n > 0 THEN "PARTIALLY_ASSIGNED" ELSE "RESERVED"
<1>2. /\ out' = out /\ status' = status /\ asg' = asg \ {a}
      /\ req[a.req].handedOut = 0
      /\ req' = [req EXCEPT ![a.req].assigned = n, ![a.req].status = s]
  BY DEF ReleaseAssignment
<1>3. s \notin {"NONE", "CANCELLED"}
  OBVIOUS
<1> HIDE DEF n, s
<1>4. /\ req'[q].handedOut = req[q].handedOut /\ req'[q].returned = req[q].returned
      /\ req'[q].lost = req[q].lost /\ req'[q].status \in {req[q].status, s}
  BY <1>0, <1>1, <1>2 DEF RequirementRecords
<1>5. CASE q = a.req
  <2>1. out[q] = {}
    <3>1. Cardinality(out[q]) + req[q].returned + req[q].lost = 0
      BY <1>0, <1>2, <1>5 DEF ItemsOf
    <3>2. /\ Cardinality(out[q]) \in Nat /\ req[q].returned \in Nat /\ req[q].lost \in Nat
          /\ Cardinality(out[q]) = 0 <=> out[q] = {}
      BY <1>0, ItemsCounts
    <3>3. Cardinality(out[q]) = 0
      BY <3>1, <3>2
    <3>4. QED
      BY <3>2, <3>3
  <2>2. QED
    BY <1>0, <1>2, <1>4, <2>1, ItemsUntouched
<1>6. CASE q # a.req
  <2>1. Held(q) \subseteq Held(q)'
    BY <1>2, <1>6, SameAssignmentsSameHeld DEF AssignmentsOf
  <2>2. QED
    BY <1>0, <1>2, <1>3, <1>4, <2>1, ItemsUntouched DEF ItemsOf
<1>7. QED
  BY <1>5, <1>6

(* A sweep cancels only requirements whose reservation is still a hold, and *)
(* units leave only under confirmed reservations.                           *)
LEMMA ItemsSweep ==
  ASSUME CoreInv, ExpirePending
  PROVE  ItemsInv'
<1> USE DEF TypeInv, TypeOK
<1>0. TypeInv /\ ReservationsFollowBooking /\ \A q \in Reqs : ItemsOf(q)
  BY DEF CoreInv, ItemsInv
<1>1. \A r \in Reqs : out[r] # {} => resv[r].status = "CONFIRMED"
  BY <1>0 DEF ItemsOf, ReservationsFollowBooking
<1>2. \A r \in LapsedHolds : r \in Reqs /\ resv[r].status = "PENDING"
  BY DEF LapsedHolds
<1>3. \A b \in Emptied(LapsedHolds) : status[b] = "pending"
  BY DEF Emptied
<1>4. asg' = asg /\ out' = out
  BY DEF ExpirePending
<1>5. \A r \in Reqs :
        /\ req'[r].handedOut = req[r].handedOut /\ req'[r].returned = req[r].returned
        /\ req'[r].lost = req[r].lost
        /\ r \notin LapsedHolds => req'[r] = req[r]
  BY <1>0 DEF ExpirePending, RequirementRecords
<1>6. \A b \in Bookings : b \notin Emptied(LapsedHolds) => status'[b] = status[b]
  BY DEF ExpirePending
<1>7. \A r \in Reqs : out[r] # {} =>
        /\ status'[BookingOf[r]] \in {"confirmed", "delivered", "overdue"}
        /\ req'[r].status \notin {"NONE", "CANCELLED"}
  BY <1>0, <1>1, <1>2, <1>3, <1>5, <1>6, IndexAssumption DEF ItemsOf
<1>8. QED
  BY <1>4, <1>5, <1>7, ItemsKept

LEMMA InitItems == Init => ItemsInv
<1> SUFFICES ASSUME Init, NEW r \in Reqs
             PROVE  ItemsOf(r)
  BY DEF ItemsInv
<1>1. out[r] = {} /\ req[r] = NoRequirement
  BY DEF Init
<1>2. QED
  BY <1>1, FS_EmptySet, QuantityAssumption DEF ItemsOf, NoRequirement

LEMMA NextItems == CoreInv /\ [Next]_vars => ItemsInv'
<1> SUFFICES ASSUME CoreInv, [Next]_vars
             PROVE  ItemsInv'
  OBVIOUS
<1>1. CASE \/ \E p \in Reqs \X Units : StartReturnInspection(p)
           \/ \E p \in lossIssues : ResolveIssue(p)
           \/ UNCHANGED vars
  <2>1. asg' = asg /\ out' = out /\ req' = req /\ status' = status
    BY <1>1 DEF StartReturnInspection, ResolveIssue, SetUnit, vars
  <2>2. QED
    BY <2>1, ItemsKept DEF CoreInv, ItemsInv, ItemsOf
<1>2. QED
  BY <1>1, ItemsRequest, ItemsRequirement, ItemsUnit, ItemsRelease, ItemsSweep DEF Next

LEMMA InductiveCore == Spec => []CoreInv
<1>1. Init => CoreInv
  BY InitTypeInv, InitItems, IndexAssumption
  DEF CoreInv, Init, ReservationsFollowBooking
<1>2. CoreInv /\ [Next]_vars => CoreInv'
  BY NextTypeInv, NextFollowsBooking, NextItems DEF CoreInv
<1>3. QED
  BY <1>1, <1>2, PTL DEF Spec

(* The units a customer has are always accounted for: no cancellation,      *)
(* sweep or status change closes a booking over them.                       *)
THEOREM OutItemsAlwaysAccountedFor == Spec => []OutItemsAccountedFor
<1>1. CoreInv => OutItemsAccountedFor
  BY DEF CoreInv, ItemsInv, ItemsOf, OutItemsAccountedFor
<1>2. QED
  BY <1>1, InductiveCore, PTL

-----------------------------------------------------------------------------
(* The life of a reservation.                                               *)

(* A booking that was never placed has no reservation to write over.        *)
Unplaced == \A r \in Reqs : status[BookingOf[r]] = "NONE" => resv[r].status = "NONE"

(* What the steps of the core do to bookings that are not placed and to the *)
(* statuses of reservations.                                                *)
StatusesStep ==
  /\ \A b \in Bookings : status'[b] = "NONE" => status[b] = "NONE"
  /\ \A r \in Reqs :
       \/ resv'[r].status = resv[r].status
       \/ status[BookingOf[r]] = "NONE" /\ status'[BookingOf[r]] = "pending"
       \/ /\ status'[BookingOf[r]] # "NONE"
          /\ \/ resv[r].status = "PENDING"
             \/ /\ resv[r].status = "CONFIRMED"
                /\ resv'[r].status \in {"CANCELLED", "RELEASED"}
       \/ resv[r].status = "PENDING" /\ resv'[r].status = "EXPIRED"

LEMMA UnchangedStatuses ==
  ASSUME status' = status, \A r \in Reqs : resv'[r].status = resv[r].status
  PROVE  StatusesStep
BY DEF StatusesStep

LEMMA StatusesClose ==
  ASSUME TypeInv, NEW b \in Bookings, NEW s \in {"CANCELLED", "RELEASED"},
         CloseInventory(b, s), NEW closed \in {"cancelled", "completed"},
         status' = [status EXCEPT ![b] = closed]
  PROVE  StatusesStep
BY DEF TypeInv, TypeOK, StatusesStep, CloseInventory, LiveResv, ReqsOf

LEMMA NextStatuses == TypeInv /\ [Next]_vars => StatusesStep
<1> SUFFICES ASSUME TypeInv, [Next]_vars
             PROVE  StatusesStep
  OBVIOUS
<1> USE IndexAssumption DEF TypeInv, TypeOK
<1>1. ASSUME NEW b \in Bookings, RequestStep(b)
      PROVE  StatusesStep
  <2>1. CASE \E f, t \in Days : f <= t /\ CreateBooking(b, f, t)
    BY <2>1 DEF CreateBooking, ReqsOf, StatusesStep
  <2>2. CASE HoldLapses(b) \/ RenewHold(b) \/ CancelRequest(b) \/ CancelFail(b)
    BY <2>2, UnchangedStatuses DEF HoldLapses, RenewHold, CancelRequest, CancelFail
  <2>3. CASE ApproveAndReserve(b)
    BY <2>3 DEF ApproveAndReserve, ReqsOf, StatusesStep
  <2>4. CASE RejectRequest(b)
    BY <2>4, StatusesClose DEF RejectRequest
  <2>5. CASE CancelCommit(b)
    BY <2>5, StatusesClose DEF CancelCommit
  <2>6. CASE \E end \in Days : Extend(b, end)
    BY <2>6, UnchangedStatuses DEF Extend
  <2>7. CASE \E new \in {"delivered", "returned", "inspected"} : UpdateStatus(b, new)
    BY <2>7 DEF UpdateStatus, StatusesStep
  <2>8. CASE MarkOverdue(b)
    BY <2>8 DEF MarkOverdue, StatusesStep
  <2>9. CASE Complete(b)
    BY <2>9, StatusesClose DEF Complete
  <2>10. QED
    BY <1>1, <2>1, <2>2, <2>3, <2>4, <2>5, <2>6, <2>7, <2>8, <2>9 DEF RequestStep
<1>2. ASSUME NEW r \in Reqs, RequirementStep(r)
      PROVE  StatusesStep
  <2>1. CASE \E sku \in Skus : Substitute(r, sku)
    BY <2>1, UnchangedStatuses DEF Substitute
  <2>2. CASE UNCHANGED <<status, resv>>
    BY <2>2, UnchangedStatuses
  <2>3. QED
    BY <1>2, <2>1, <2>2 DEF RequirementStep, Assign, Prepare, HandOut, ReturnItems,
       MarkLost, TakeBack
<1>3. ASSUME NEW u \in Units, UnitStep(u)
      PROVE  StatusesStep
  BY <1>3, UnchangedStatuses DEF UnitStep, StaffTransition, CompleteOtherInspection,
     CompleteReturnInspection, SetUnit
<1>4. ASSUME NEW a \in asg, ReleaseAssignment(a)
      PROVE  StatusesStep
  BY <1>4, UnchangedStatuses DEF ReleaseAssignment
<1>5. ASSUME NEW p, StartReturnInspection(p) \/ ResolveIssue(p)
      PROVE  StatusesStep
  BY <1>5, UnchangedStatuses DEF StartReturnInspection, ResolveIssue, SetUnit
<1>6. CASE ExpirePending
  BY <1>6 DEF ExpirePending, LapsedHolds, Emptied, StatusesStep
<1>7. CASE UNCHANGED vars
  BY <1>7, UnchangedStatuses DEF vars
<1>8. QED
  BY <1>1, <1>2, <1>3, <1>4, <1>5, <1>6, <1>7 DEF Next

LEMMA InductiveUnplaced == Spec => []Unplaced
<1>1. Init => Unplaced
  BY DEF Init, Unplaced, NoReservation
<1>2. TypeInv /\ Unplaced /\ [Next]_vars => Unplaced'
  BY NextStatuses, IndexAssumption DEF StatusesStep, Unplaced
<1>3. QED
  BY <1>1, <1>2, InductiveTypes, PTL DEF Spec

(* A reservation that was given up is never taken back into use, and a      *)
(* confirmed one is only ever given up by cancelling or completing.         *)
THEOREM ReservationsNeverComeBack == Spec => ReservationsOnlyMoveOn
<1>1. TypeInv /\ Unplaced /\ [Next]_vars => \A r \in Reqs : ReservationStep(r)
  BY NextStatuses DEF StatusesStep, Unplaced, ReservationStep
<1>2. TypeInv /\ Unplaced /\ [Next]_vars => [\A r \in Reqs : ReservationStep(r)]_vars
  BY <1>1
<1>3. QED
  BY <1>2, InductiveTypes, InductiveUnplaced, PTL DEF Spec, ReservationsOnlyMoveOn

-----------------------------------------------------------------------------
(* Losses.                                                                  *)

(* What the lifecycle service accepts does not make a unit rentable again   *)
(* while a loss of it is open.                                              *)
LEMMA LostStaysUnrentable ==
  ASSUME NEW u \in Units, unit[u] # Rentable, LossOpen(u),
         NEW to, NEW inspected, NEW today, NEW given,
         CanMove(u, to, inspected, today, given)
  PROVE  to # Rentable
BY DEF CanMove, TransitionAllowed

(* A step that opens no loss, moves a unit with an open one to no rentable  *)
(* state and completes no booking with an open one.                         *)
LEMMA LossKept ==
  ASSUME LossNeverForgotten, lossIssues' \subseteq lossIssues,
         \A p \in lossIssues : /\ unit'[p[2]] # Rentable
                               /\ status'[BookingOf[p[1]]] # "completed"
  PROVE  LossNeverForgotten'
BY DEF LossNeverForgotten

LEMMA LossRequest ==
  ASSUME TypeInv, LossNeverForgotten, NEW b \in Bookings, RequestStep(b)
  PROVE  LossNeverForgotten'
<1>1. unit' = unit /\ lossIssues' = lossIssues
  BY DEF RequestStep, CreateBooking, HoldLapses, RenewHold, ApproveAndReserve,
     RejectRequest, CancelRequest, CancelCommit, CancelFail, Extend, UpdateStatus,
     MarkOverdue, Complete
<1>2. CASE Complete(b)
  <2>1. \A p \in lossIssues : BookingOf[p[1]] # b
    BY <1>2 DEF Complete, StatusAllowed
  <2>2. \A p \in lossIssues : status'[BookingOf[p[1]]] = status[BookingOf[p[1]]]
    BY <1>2, <2>1 DEF Complete, TypeInv, TypeOK
  <2>3. QED
    BY <1>1, <2>2, LossKept DEF LossNeverForgotten
<1>3. CASE ~Complete(b)
  <2>1. \A p \in lossIssues : BookingOf[p[1]] \in Bookings
    BY IndexAssumption DEF TypeInv, TypeOK
  <2>2. \A c \in Bookings : status'[c] = "completed" => status[c] = "completed"
    BY <1>3 DEF TypeInv, TypeOK, RequestStep, CreateBooking, HoldLapses, RenewHold,
       ApproveAndReserve, RejectRequest, CancelRequest, CancelCommit, CancelFail, Extend,
       UpdateStatus, MarkOverdue
  <2>3. QED
    BY <1>1, <2>1, <2>2, LossKept DEF LossNeverForgotten
<1>4. QED
  BY <1>2, <1>3

(* Units that are handed out or come back are not rentable; a lost one is   *)
(* not either, and its booking is not complete.                             *)
LEMMA LossRequirement ==
  ASSUME TypeInv, LossNeverForgotten, NEW r \in Reqs, RequirementStep(r)
  PROVE  LossNeverForgotten'
<1>1. unit \in [Units -> UnitStates] /\ lossIssues \subseteq Reqs \X Units
  BY DEF TypeInv, TypeOK
<1>2. CASE \/ \E us \in SUBSET Units : Assign(r, us)
           \/ \E sku \in Skus : Substitute(r, sku)
           \/ \E prep \in {"OPEN", "READY"} : Prepare(r, prep)
  <2>1. UNCHANGED <<status, unit, lossIssues>>
    BY <1>2 DEF Assign, Substitute, Prepare
  <2>2. QED
    BY <2>1, LossKept DEF LossNeverForgotten
<1>3. ASSUME NEW us \in SUBSET Units, NEW op \in {"OUT_FOR_RENTAL", "AWAITING_INSPECTION"},
             unit' = [u \in Units |-> IF u \in us THEN [unit[u] EXCEPT !.op = op] ELSE unit[u]],
             UNCHANGED <<status, lossIssues>>
      PROVE  LossNeverForgotten'
  <2>1. \A u \in Units : [unit[u] EXCEPT !.op = op] # Rentable
    BY <1>1 DEF UnitStates, Rentable
  <2>2. QED
    BY <1>1, <1>3, <2>1, LossKept DEF LossNeverForgotten
<1>4. ASSUME NEW us \in SUBSET Units, NEW today \in Today, MarkLost(r, us, today)
      PROVE  LossNeverForgotten'
  <2>1. \A u \in Units : [unit[u] EXCEPT !.disp = "LOST"] # Rentable
    BY <1>1 DEF UnitStates, Rentable
  <2>2. /\ unit' = [u \in Units |-> IF u \in us THEN [unit[u] EXCEPT !.disp = "LOST"] ELSE unit[u]]
        /\ lossIssues' = lossIssues \cup {<<r, u>> : u \in us}
        /\ status' = status /\ status[BookingOf[r]] # "completed"
    BY <1>4 DEF MarkLost, TakeBack
  <2>3. \A p \in lossIssues : unit'[p[2]] # Rentable
    BY <1>1, <2>1, <2>2 DEF LossNeverForgotten
  <2>4. \A u \in us : unit'[u] # Rentable
    BY <2>1, <2>2
  <2>5. ASSUME NEW p \in lossIssues'
        PROVE  unit'[p[2]] # Rentable /\ status'[BookingOf[p[1]]] # "completed"
    <3>1. CASE p \in lossIssues
      BY <2>2, <2>3, <3>1 DEF LossNeverForgotten
    <3>2. CASE p \notin lossIssues
      <4>1. PICK u \in us : p = <<r, u>>
        BY <2>2, <3>2
      <4>2. QED
        BY <2>2, <2>4, <4>1
    <3>3. QED
      BY <3>1, <3>2
  <2>6. QED
    BY <2>5 DEF LossNeverForgotten
<1>5. ASSUME NEW us \in SUBSET Units, NEW today \in Today,
             HandOut(r, us, today) \/ ReturnItems(r, us, today)
      PROVE  LossNeverForgotten'
  BY <1>3, <1>5 DEF HandOut, ReturnItems, TakeBack
<1>6. QED
  BY <1>2, <1>4, <1>5 DEF RequirementStep

LEMMA LossUnit ==
  ASSUME TypeInv, LossNeverForgotten, NEW u \in Units, UnitStep(u)
  PROVE  LossNeverForgotten'
<1>1. unit \in [Units -> UnitStates] /\ lossIssues \subseteq Reqs \X Units
  BY DEF TypeInv, TypeOK
<1>2. ASSUME NEW to, NEW inspected, NEW today, NEW given,
             CanMove(u, to, inspected, today, given), SetUnit(u, to)
      PROVE  LossNeverForgotten'
  <2>1. LossOpen(u) => to # Rentable
    <3>1. LossOpen(u) => unit[u] # Rentable
      BY DEF LossOpen, LossNeverForgotten
    <3>2. QED
      BY <1>2, <3>1, LostStaysUnrentable
  <2>2. ASSUME NEW p \in lossIssues
        PROVE  unit'[p[2]] # Rentable
    <3>1. CASE p[2] = u
      <4>1. p = <<p[1], u>> /\ p[1] \in Reqs
        BY <1>1, <3>1
      <4>2. LossOpen(u)
        BY <4>1 DEF LossOpen
      <4>3. QED
        BY <1>1, <1>2, <2>1, <3>1, <4>2 DEF SetUnit
    <3>2. CASE p[2] # u
      BY <1>1, <1>2, <3>2 DEF SetUnit, LossNeverForgotten
    <3>3. QED
      BY <3>1, <3>2
  <2>3. QED
    BY <1>2, <2>2, LossKept DEF SetUnit, LossNeverForgotten
<1>3. QED
  BY <1>2 DEF UnitStep, StaffTransition, CompleteOtherInspection, CompleteReturnInspection

LEMMA NextLoss == TypeInv /\ LossNeverForgotten /\ [Next]_vars => LossNeverForgotten'
<1> SUFFICES ASSUME TypeInv, LossNeverForgotten, [Next]_vars
             PROVE  LossNeverForgotten'
  OBVIOUS
<1>1. unit \in [Units -> UnitStates] /\ lossIssues \subseteq Reqs \X Units
  BY DEF TypeInv, TypeOK
<1>2. ASSUME NEW p \in Reqs \X Units, StartReturnInspection(p)
      PROVE  LossNeverForgotten'
  <2> DEFINE to == IF unit[p[2]].op = "OUT_FOR_RENTAL"
                   THEN [unit[p[2]] EXCEPT !.op = "AWAITING_INSPECTION"] ELSE unit[p[2]]
  <2>1. to = unit[p[2]] \/ to # Rentable
    BY <1>1 DEF UnitStates, Rentable
  <2>2. /\ unit' = [unit EXCEPT ![p[2]] = to]
        /\ UNCHANGED <<status, lossIssues>>
    BY <1>2 DEF StartReturnInspection, SetUnit
  <2> HIDE DEF to
  <2>3. QED
    BY <1>1, <2>1, <2>2, LossKept DEF LossNeverForgotten
<1>3. ASSUME NEW p, ResolveIssue(p)
      PROVE  LossNeverForgotten'
  BY <1>3, LossKept DEF ResolveIssue, LossNeverForgotten
<1>4. ASSUME NEW a, ReleaseAssignment(a)
      PROVE  LossNeverForgotten'
  BY <1>4, LossKept DEF ReleaseAssignment, LossNeverForgotten
<1>5. CASE ExpirePending
  <2>1. unit' = unit /\ lossIssues' = lossIssues
    BY <1>5 DEF ExpirePending
  <2>2. \A p \in lossIssues : BookingOf[p[1]] \in Bookings
    BY <1>1, IndexAssumption
  <2>3. \A c \in Bookings : status'[c] \in {status[c], "cancelled"}
    BY <1>5 DEF ExpirePending
  <2>4. QED
    BY <2>1, <2>2, <2>3, LossKept DEF LossNeverForgotten
<1>6. CASE UNCHANGED vars
  BY <1>6, LossKept DEF vars, LossNeverForgotten
<1>7. QED
  BY <1>2, <1>3, <1>4, <1>5, <1>6, LossRequest, LossRequirement, LossUnit DEF Next

(* A lost unit cannot become rentable, nor its booking complete, while the  *)
(* loss is open.                                                            *)
THEOREM LossIsNeverForgotten == Spec => []LossNeverForgotten
<1>1. Init => LossNeverForgotten
  BY DEF Init, LossNeverForgotten
<1>2. QED
  BY <1>1, NextLoss, InductiveTypes, PTL DEF Spec

-----------------------------------------------------------------------------
(* What is assigned is what is reserved.                                    *)

(* An assignment belongs to a placed booking; it is of the reservation's    *)
(* SKU and begins on the reservation's first day.                           *)
AlignedInv ==
  /\ \A r \in Reqs : resv[r].from <= resv[r].to
  /\ \A a \in asg : /\ status[BookingOf[a.req]] # "NONE"
                    /\ SkuOf[a.unit] = resv[a.req].sku
                    /\ a.from = resv[a.req].from /\ a.from <= a.to

(* A reservation's SKU and days change when nothing is assigned to it, or   *)
(* its end moves to a later day.                                            *)
ReservedStep ==
  \A r \in Reqs :
    \/ /\ resv'[r].sku = resv[r].sku /\ resv'[r].from = resv[r].from
       /\ resv[r].to <= resv'[r].to
    \/ /\ AssignmentsOf(r) = {} /\ status'[BookingOf[r]] = status[BookingOf[r]]
       /\ resv'[r].from = resv[r].from /\ resv'[r].to = resv[r].to
    \/ status[BookingOf[r]] = "NONE" /\ resv'[r].from <= resv'[r].to

LEMMA SameReserved ==
  ASSUME TypeInv,
         \A r \in Reqs : /\ resv'[r].sku = resv[r].sku /\ resv'[r].from = resv[r].from
                         /\ resv'[r].to = resv[r].to
  PROVE  ReservedStep
BY BoundAssumption DEF ReservedStep, TypeInv, TypeOK, Days

LEMMA ReservedRequest ==
  ASSUME TypeInv, NEW b \in Bookings, RequestStep(b)
  PROVE  ReservedStep
<1>1. /\ resv \in [Reqs -> ReservationRecords]
      /\ \A r \in Reqs : resv[r].to \in Int /\ resv[r].from \in Int
      /\ \A d \in Days : d \in Int
  BY BoundAssumption DEF TypeInv, TypeOK, ReservationRecords, Days
<1>2. CASE \E f, t \in Days : f <= t /\ CreateBooking(b, f, t)
  BY <1>1, <1>2 DEF CreateBooking, ReservedStep, ReqsOf
<1>3. CASE \E end \in Days : Extend(b, end)
  <2> PICK end \in Days : Extend(b, end)
    BY <1>3
  <2> DEFINE open == {r \in LiveReqs(b) : req[r].status \notin {"RETURNED", "LOST"}}
  <2>1. /\ \A r \in open : end > resv[r].to
        /\ resv' = [r \in Reqs |-> IF r \in open THEN [resv[r] EXCEPT !.to = end] ELSE resv[r]]
    BY DEF Extend
  <2> HIDE DEF open
  <2>2. \A r \in Reqs : /\ resv'[r].sku = resv[r].sku /\ resv'[r].from = resv[r].from
                        /\ resv[r].to <= resv'[r].to
    BY <1>1, <2>1 DEF ReservationRecords
  <2>3. QED
    BY <2>2 DEF ReservedStep
<1>4. CASE ~\E f, t \in Days : f <= t /\ CreateBooking(b, f, t)
  <2>1. CASE \/ HoldLapses(b) \/ RenewHold(b) \/ CancelRequest(b) \/ CancelFail(b)
             \/ MarkOverdue(b)
             \/ \E new \in {"delivered", "returned", "inspected"} : UpdateStatus(b, new)
    <3>1. resv' = resv
      BY <2>1 DEF HoldLapses, RenewHold, CancelRequest, CancelFail, MarkOverdue, UpdateStatus
    <3>2. QED
      BY <3>1, SameReserved
  <2>2. CASE ApproveAndReserve(b)
    <3>1. \A r \in Reqs : /\ resv'[r].sku = resv[r].sku /\ resv'[r].from = resv[r].from
                          /\ resv'[r].to = resv[r].to
      BY <1>1, <2>2 DEF ApproveAndReserve, ReservationRecords
    <3>2. QED
      BY <3>1, SameReserved
  <2>3. CASE RejectRequest(b) \/ CancelCommit(b) \/ Complete(b)
    <3>1. PICK s : CloseInventory(b, s)
      BY <2>3 DEF RejectRequest, CancelCommit, Complete
    <3>2. \A r \in Reqs : /\ resv'[r].sku = resv[r].sku /\ resv'[r].from = resv[r].from
                          /\ resv'[r].to = resv[r].to
      BY <1>1, <3>1 DEF CloseInventory, ReservationRecords
    <3>3. QED
      BY <3>2, SameReserved
  <2>4. QED
    BY <1>3, <1>4, <2>1, <2>2, <2>3 DEF RequestStep
<1>5. QED
  BY <1>2, <1>4

LEMMA NextReserved == TypeInv /\ [Next]_vars => ReservedStep
<1> SUFFICES ASSUME TypeInv, [Next]_vars
             PROVE  ReservedStep
  OBVIOUS
<1>1. resv \in [Reqs -> ReservationRecords]
  BY DEF TypeInv, TypeOK, ReservationRecords
<1>2. CASE resv' = resv
  BY <1>2, SameReserved
<1>3. ASSUME NEW r \in Reqs, NEW sku \in Skus, Substitute(r, sku)
      PROVE  ReservedStep
  <2>1. /\ AssignmentsOf(r) = {} /\ status' = status
        /\ resv' = [resv EXCEPT ![r].sku = sku]
    BY <1>3 DEF Substitute, Substitutable
  <2>2. \A q \in Reqs : /\ resv'[q].from = resv[q].from /\ resv'[q].to = resv[q].to
                        /\ q # r => resv'[q] = resv[q]
    BY <1>1, <2>1 DEF ReservationRecords
  <2>3. \A q \in Reqs : resv[q].to <= resv[q].to
    BY BoundAssumption DEF TypeInv, TypeOK, Days
  <2>4. QED
    BY <2>1, <2>2, <2>3 DEF ReservedStep
<1>4. CASE ExpirePending
  <2>1. \A r \in Reqs : /\ resv'[r].sku = resv[r].sku /\ resv'[r].from = resv[r].from
                        /\ resv'[r].to = resv[r].to
    BY <1>1, <1>4 DEF ExpirePending, ReservationRecords
  <2>2. QED
    BY <2>1, SameReserved
<1>5. ASSUME NEW r \in Reqs, RequirementStep(r)
      PROVE  ReservedStep
  <2>1. CASE \E sku \in Skus : Substitute(r, sku)
    BY <1>3, <2>1
  <2>2. CASE resv' = resv
    BY <1>2, <2>2
  <2>3. QED
    BY <1>5, <2>1, <2>2 DEF RequirementStep, Assign, Prepare, HandOut, ReturnItems,
       MarkLost, TakeBack
<1>6. ASSUME NEW u \in Units, UnitStep(u)
      PROVE  resv' = resv
  BY <1>6 DEF UnitStep, StaffTransition, CompleteOtherInspection, CompleteReturnInspection,
     SetUnit
<1>7. ASSUME NEW x, ReleaseAssignment(x) \/ StartReturnInspection(x) \/ ResolveIssue(x)
      PROVE  resv' = resv
  BY <1>7 DEF ReleaseAssignment, StartReturnInspection, ResolveIssue, SetUnit
<1>8. UNCHANGED vars => resv' = resv
  BY DEF vars
<1>9. QED
  BY <1>2, <1>4, <1>5, <1>6, <1>7, <1>8, ReservedRequest DEF Next

LEMMA NextAligned ==
  TypeInv /\ Unplaced /\ AlignedInv /\ [Next]_vars => AlignedInv'
<1> SUFFICES ASSUME TypeInv, Unplaced, AlignedInv, [Next]_vars
             PROVE  AlignedInv'
  OBVIOUS
<1>1. /\ \A r \in Reqs : resv[r].from \in Int /\ resv[r].to \in Int
      /\ \A r \in Reqs : resv'[r].from \in Int /\ resv'[r].to \in Int
      /\ \A a \in asg : a.req \in Reqs /\ a.unit \in Units
      /\ \A r \in Reqs : BookingOf[r] \in Bookings
  BY NextTypeInv, IndexAssumption, BoundAssumption DEF TypeInv, TypeOK, Assignments, Days
<1>2. ReservedStep /\ StatusesStep
  BY NextReserved, NextStatuses
<1>3. \A r \in Reqs : resv'[r].from <= resv'[r].to
  BY <1>1, <1>2 DEF ReservedStep, AlignedInv
<1>4. ASSUME NEW a \in asg
      PROVE  /\ status'[BookingOf[a.req]] # "NONE"
             /\ SkuOf[a.unit] = resv'[a.req].sku
             /\ a.from = resv'[a.req].from /\ a.from <= a.to
  <2>1. AssignmentsOf(a.req) # {}
    BY DEF AssignmentsOf
  <2>2. status[BookingOf[a.req]] # "NONE"
    BY DEF AlignedInv
  <2>3. resv'[a.req].sku = resv[a.req].sku /\ resv'[a.req].from = resv[a.req].from
    BY <1>1, <1>2, <2>1, <2>2 DEF ReservedStep
  <2>4. status'[BookingOf[a.req]] # "NONE"
    BY <1>1, <1>2, <2>2 DEF StatusesStep
  <2>5. QED
    BY <2>3, <2>4 DEF AlignedInv
<1>5. CASE asg' \subseteq asg
  BY <1>3, <1>4, <1>5 DEF AlignedInv
<1>6. ASSUME NEW r \in Reqs, NEW us \in SUBSET Units, Assign(r, us)
      PROVE  AlignedInv'
  <2> DEFINE added == {[req |-> r, unit |-> u, from |-> resv[r].from, to |-> resv[r].to,
                        checked |-> FALSE] : u \in us}
  <2>1. /\ asg' = asg \cup added /\ resv' = resv /\ status' = status
        /\ \A u \in us : SkuOf[u] = resv[r].sku
        /\ LiveResv(r)
    BY <1>6 DEF Assign
  <2>2. status[BookingOf[r]] # "NONE"
    BY <2>1 DEF LiveResv, Unplaced
  <2>3. \A n \in added : /\ n.req = r /\ n.unit \in us
                         /\ n.from = resv[r].from /\ n.to = resv[r].to
    OBVIOUS
  <2>4. \A n \in added : /\ status'[BookingOf[n.req]] # "NONE"
                         /\ SkuOf[n.unit] = resv'[n.req].sku
                         /\ n.from = resv'[n.req].from /\ n.from <= n.to
    <3> HIDE DEF added
    <3>1. QED
      BY <2>1, <2>2, <2>3 DEF AlignedInv
  <2> HIDE DEF added
  <2>5. QED
    BY <1>3, <1>4, <2>1, <2>4 DEF AlignedInv
<1>7. ASSUME NEW p \in Reqs \X Units, NEW decision \in Decisions, NEW today \in Today,
             CompleteReturnInspection(p, decision, today)
      PROVE  AlignedInv'
  <2>1. \A n \in asg' : \E a \in asg :
          n.req = a.req /\ n.unit = a.unit /\ n.from = a.from /\ n.to = a.to
    BY <1>7 DEF CompleteReturnInspection, TypeInv, TypeOK, Assignments
  <2>2. QED
    BY <1>3, <1>4, <2>1 DEF AlignedInv
<1>8. QED
  BY <1>5, <1>6, <1>7, AssignmentsOnlyEnd

LEMMA InductiveAligned == Spec => []AlignedInv
<1>1. Init => AlignedInv
  BY DEF Init, AlignedInv, NoReservation
<1>2. QED
  BY <1>1, NextAligned, InductiveTypes, InductiveUnplaced, PTL DEF Spec

(* The units assigned to a requirement are of the SKU it reserves, whatever *)
(* is substituted, extended and released in between.                        *)
THEOREM AssignmentsAlwaysMatchSku == Spec => []AssignmentsMatchSku
<1>1. AlignedInv => AssignmentsMatchSku
  BY DEF AlignedInv, AssignmentsMatchSku
<1>2. QED
  BY <1>1, InductiveAligned, PTL

-----------------------------------------------------------------------------
(* Counting assignments.                                                    *)

(* A unit is assigned to a requirement once: its assignments begin on the   *)
(* same day, so two of one unit would overlap.                              *)
LEMMA UnitAssignedOnce ==
  ASSUME TypeInv, NoDoubleAssignment, AlignedInv, NEW r \in Reqs,
         NEW a \in AssignmentsOf(r), NEW c \in AssignmentsOf(r), a.unit = c.unit
  PROVE  a = c
<1>1. a \in asg /\ c \in asg /\ a.req = r /\ c.req = r
  BY DEF AssignmentsOf
<1>2. a.from = c.from /\ a.from <= c.to /\ c.from <= a.to
  BY <1>1 DEF AlignedInv
<1>3. QED
  BY <1>1, <1>2 DEF NoDoubleAssignment, Overlap

(* A set told apart by a function onto T is as large as T.                  *)
LEMMA SameSize ==
  ASSUME NEW S, IsFiniteSet(S), NEW T, NEW f \in [S -> T],
         \A y \in T : \E x \in S : f[x] = y,
         \A x, y \in S : f[x] = f[y] => x = y
  PROVE  IsFiniteSet(T) /\ Cardinality(T) = Cardinality(S)
<1>1. f \in Bijection(S, T)
  BY DEF Bijection, Injection, Surjection, IsInjective
<1>2. QED
  BY <1>1, FS_Bijection DEF ExistsBijection

Assigned(r) == Cardinality(AssignmentsOf(r))

LEMMA AssignedNat ==
  ASSUME TypeInv, NEW r
  PROVE  IsFiniteSet(AssignmentsOf(r)) /\ Assigned(r) \in Nat
         /\ (Assigned(r) = 0 <=> AssignmentsOf(r) = {})
BY CountAssignments, FS_EmptySet DEF TypeInv, Assigned

(* Assigning us to r adds that many assignments to it and none to others.   *)
LEMMA AssignCounts ==
  ASSUME TypeInv, AlignedInv, NEW r \in Reqs, NEW us \in SUBSET Units, Assign(r, us)
  PROVE  /\ Assigned(r)' = Assigned(r) + Cardinality(us)
         /\ \A q \in Reqs : q # r => Assigned(q)' = Assigned(q)
<1> DEFINE new(u) == [req |-> r, unit |-> u, from |-> resv[r].from, to |-> resv[r].to,
                      checked |-> FALSE]
           made == [u \in us |-> new(u)]
           added == {new(u) : u \in us}
<1>1. asg' = asg \cup added /\ \A u \in us : Free(u, resv[r].from, resv[r].to)
  BY DEF Assign
<1>2. IsFiniteSet(us) /\ Cardinality(us) \in Nat
  BY SubsetOfUnits
<1>3. IsFiniteSet(added) /\ Cardinality(added) = Cardinality(us)
  <2>1. \A u, v \in us : made[u] = made[v] => u = v
    OBVIOUS
  <2>2. made \in [us -> added] /\ \A y \in added : \E u \in us : made[u] = y
    OBVIOUS
  <2> HIDE DEF made, added
  <2>3. QED
    BY <1>2, <2>1, <2>2, SameSize
<1>4. \A n \in added : n.req = r /\ n.unit \in us /\ n.from = resv[r].from /\ n.to = resv[r].to
  OBVIOUS
<1> HIDE DEF added
<1>5. added \cap AssignmentsOf(r) = {}
  <2> SUFFICES ASSUME NEW n \in added, n \in asg
               PROVE  FALSE
    BY DEF AssignmentsOf
  <2>1. ~Overlap(n.from, n.to, resv[r].from, resv[r].to)
    BY <1>1, <1>4 DEF Free
  <2>2. resv[r].from <= resv[r].to
    BY DEF AlignedInv
  <2>3. QED
    BY <1>4, <2>1, <2>2 DEF Overlap
<1>6. AssignmentsOf(r)' = AssignmentsOf(r) \cup added
  BY <1>1, <1>4 DEF AssignmentsOf
<1>7. Cardinality(AssignmentsOf(r) \cup added)
        = Cardinality(AssignmentsOf(r)) + Cardinality(added)
            - Cardinality(AssignmentsOf(r) \cap added)
  BY <1>3, AssignedNat, FS_Union
<1>8. AssignmentsOf(r) \cap added = {} /\ Cardinality({}) = 0
  BY <1>5, FS_EmptySet
<1>9. Assigned(r)' = Assigned(r) + Cardinality(us)
  BY <1>2, <1>3, <1>6, <1>7, <1>8, AssignedNat DEF Assigned
<1>10. \A q \in Reqs : q # r => AssignmentsOf(q)' = AssignmentsOf(q)
  BY <1>1, <1>4 DEF AssignmentsOf
<1>11. QED
  BY <1>9, <1>10 DEF Assigned

(* Taking us back ends one assignment of r for each unit.                   *)
LEMMA TakeBackCounts ==
  ASSUME TypeInv, NoDoubleAssignment, AlignedInv, NEW r \in Reqs, NEW us \in SUBSET Units,
         us \subseteq Held(r), asg' = asg \ {a \in AssignmentsOf(r) : a.unit \in us}
  PROVE  /\ Assigned(r) = Assigned(r)' + Cardinality(us)
         /\ Assigned(r)' \in Nat
         /\ \A q \in Reqs : q # r => Assigned(q)' = Assigned(q)
<1> DEFINE done == {a \in AssignmentsOf(r) : a.unit \in us}
           unitOf == [a \in done |-> a.unit]
<1>1. done \in SUBSET AssignmentsOf(r) /\ IsFiniteSet(AssignmentsOf(r))
  BY AssignedNat
<1>2. IsFiniteSet(done)
  BY <1>1, FS_Subset
<1>3. Cardinality(us) = Cardinality(done)
  <2>1. unitOf \in [done -> us]
    OBVIOUS
  <2>2. \A u \in us : \E a \in done : unitOf[a] = u
    BY DEF Held
  <2>3. \A a, c \in done : unitOf[a] = unitOf[c] => a = c
    BY UnitAssignedOnce
  <2> HIDE DEF unitOf, done
  <2>4. QED
    BY <1>2, <2>1, <2>2, <2>3, SameSize
<1>4. AssignmentsOf(r)' = AssignmentsOf(r) \ done
  BY DEF AssignmentsOf
<1> HIDE DEF done
<1>5. /\ Cardinality(AssignmentsOf(r)) = Cardinality(AssignmentsOf(r) \ done) + Cardinality(done)
      /\ Cardinality(AssignmentsOf(r) \ done) \in Nat
  BY <1>1, CardinalityMinus
<1>6. \A q \in Reqs : q # r => AssignmentsOf(q)' = AssignmentsOf(q)
  BY DEF AssignmentsOf
<1>7. QED
  BY <1>3, <1>4, <1>5, <1>6 DEF Assigned

(* Releasing an assignment ends that one.                                   *)
LEMMA ReleaseCounts ==
  ASSUME TypeInv, NEW a \in asg, asg' = asg \ {a}
  PROVE  /\ Assigned(a.req)' = Assigned(a.req) - 1
         /\ Assigned(a.req) \in Nat \ {0}
         /\ \A q \in Reqs : q # a.req => Assigned(q)' = Assigned(q)
<1>1. /\ a \in AssignmentsOf(a.req)
      /\ AssignmentsOf(a.req)' = AssignmentsOf(a.req) \ {a}
      /\ \A q \in Reqs : q # a.req => AssignmentsOf(q)' = AssignmentsOf(q)
  BY DEF AssignmentsOf
<1>2. QED
  BY <1>1, AssignedNat, FS_RemoveElement DEF Assigned

(* A completed inspection marks assignments and ends none.                  *)
LEMMA InspectionCounts ==
  ASSUME TypeInv, NoDoubleAssignment, AlignedInv, NEW p,
         asg' = {IF <<a.req, a.unit>> = p THEN [a EXCEPT !.checked = TRUE] ELSE a : a \in asg},
         NEW r \in Reqs
  PROVE  Assigned(r)' = Assigned(r)
<1> DEFINE mark(a) == IF <<a.req, a.unit>> = p THEN [a EXCEPT !.checked = TRUE] ELSE a
           marked == [a \in AssignmentsOf(r) |-> mark(a)]
<1>1. \A a \in asg : mark(a).req = a.req /\ mark(a).unit = a.unit
  BY DEF TypeInv, TypeOK, Assignments
<1>2. AssignmentsOf(r)' = {mark(a) : a \in AssignmentsOf(r)}
  BY <1>1 DEF AssignmentsOf
<1>3. \A a \in AssignmentsOf(r) : mark(a).unit = a.unit
  BY <1>1 DEF AssignmentsOf
<1>4. \A a, c \in AssignmentsOf(r) : marked[a] = marked[c] => a = c
  <2> HIDE DEF mark
  <2>1. \A a, c \in AssignmentsOf(r) : marked[a] = marked[c] => a.unit = c.unit
    BY <1>3
  <2>2. QED
    BY <2>1, UnitAssignedOnce
<1>5. /\ marked \in [AssignmentsOf(r) -> AssignmentsOf(r)']
      /\ \A y \in AssignmentsOf(r)' : \E a \in AssignmentsOf(r) : marked[a] = y
  <2> HIDE DEF mark
  <2>1. QED
    BY <1>2
<1> HIDE DEF marked
<1>6. QED
  BY <1>4, <1>5, AssignedNat, SameSize DEF Assigned

-----------------------------------------------------------------------------
(* Counters, preparation and the booking's status.                          *)

RunningStatuses == {"delivered", "overdue", "returned", "inspected", "completed"}
OverStatuses == {"returned", "inspected", "completed"}

(* Where a requirement is, given where its booking is.                      *)
StageOf(r) ==
  LET s == status[BookingOf[r]]
      q == req[r]
  IN
  /\ s = "NONE" <=> q.status = "NONE"
  /\ s = "pending" => q.status \in ACTIVE_REQUIREMENT_STATUSES
  /\ q.status = "CANCELLED" => s = "cancelled"
  /\ s \in {"NONE", "pending", "confirmed"} => q.returned = 0 /\ q.lost = 0
  /\ s \in RunningStatuses => q.handedOut = Quantity[r]
  /\ s \in OverStatuses => Assigned(r) = 0
  /\ q.status \in ACTIVE_REQUIREMENT_STATUSES \cup {"NONE"} => q.handedOut = 0
  /\ q.status = "OVERDUE" => q.handedOut = Quantity[r] /\ q.handedOut > q.returned + q.lost
  /\ q.handedOut > 0 => q.prep = "READY"

(* The counter of assignments is exact while the requirement lives; what    *)
(* was prepared is assigned, returned or lost, and never more than that.    *)
CountsOf(r) ==
  LET q == req[r] IN
  /\ q.assigned = Assigned(r) \/ (q.status = "CANCELLED" /\ Assigned(r) = 0)
  /\ Assigned(r) + q.returned + q.lost <= Quantity[r]
  /\ q.prep = "READY" /\ q.status # "CANCELLED" =>
       Assigned(r) + q.returned + q.lost = Quantity[r]

PackOf(r) == StageOf(r) /\ CountsOf(r)

(* The inductive invariant behind the counters of the core.                 *)
PackInv == \A r \in Reqs : PackOf(r)
WholeInv == CoreInv /\ Unplaced /\ NoDoubleAssignment /\ AlignedInv /\ PackInv

LEMMA PackNumbers ==
  ASSUME WholeInv, NEW r \in Reqs
  PROVE  /\ PackOf(r) /\ ItemsOf(r)
         /\ req[r] \in RequirementRecords
         /\ Assigned(r) \in Nat
         /\ Quantity[r] \in Nat \ {0}
         /\ Cardinality(out[r]) \in Nat
         /\ BookingOf[r] \in Bookings
         /\ status[BookingOf[r]] \in BookingStatuses
         /\ req[r].assigned \in Nat /\ req[r].handedOut \in Nat
         /\ req[r].returned \in Nat /\ req[r].lost \in Nat
<1>1. TypeInv /\ ItemsOf(r) /\ PackOf(r)
  BY DEF WholeInv, CoreInv, ItemsInv, PackInv
<1>2. BookingOf[r] \in Bookings /\ Quantity[r] \in Nat \ {0}
  BY IndexAssumption, QuantityAssumption
<1>3. QED
  BY <1>1, <1>2, AssignedNat, ItemsCounts DEF TypeInv, TypeOK, RequirementRecords

(* A step that leaves a requirement, its assignments and the status of its  *)
(* booking alone.                                                           *)
LEMMA PackSame ==
  ASSUME NEW r, PackOf(r), req'[r] = req[r], Assigned(r)' = Assigned(r),
         status'[BookingOf[r]] = status[BookingOf[r]]
  PROVE  PackOf(r)'
BY DEF PackOf, StageOf, CountsOf

LEMMA SameAssigned ==
  ASSUME asg' = asg, NEW r
  PROVE  Assigned(r)' = Assigned(r)
BY DEF Assigned, AssignmentsOf

(* A requirement of a placed booking that is cancelled, whether its         *)
(* assignments end or not.                                                  *)
LEMMA PackCancelled ==
  ASSUME WholeInv, NEW r \in Reqs,
         status[BookingOf[r]] # "NONE", status'[BookingOf[r]] = "cancelled",
         req'[r].status = "CANCELLED",
         req'[r].assigned = req[r].assigned, req'[r].handedOut = req[r].handedOut,
         req'[r].returned = req[r].returned, req'[r].lost = req[r].lost,
         req'[r].prep = req[r].prep,
         Assigned(r)' = 0 \/ (Assigned(r)' = Assigned(r) /\ req[r].status # "CANCELLED")
  PROVE  PackOf(r)'
<1>1. StageOf(r)'
  BY PackNumbers DEF PackOf, StageOf, ACTIVE_REQUIREMENT_STATUSES, RunningStatuses, OverStatuses
<1>2. CountsOf(r)'
  BY PackNumbers DEF PackOf, CountsOf
<1>3. QED
  BY <1>1, <1>2 DEF PackOf

LEMMA CloseCounts ==
  ASSUME NEW b, NEW s, CloseInventory(b, s), NEW r \in Reqs
  PROVE  Assigned(r)' = IF r \in ReqsOf(b) THEN 0 ELSE Assigned(r)
<1>1. AssignmentsOf(r)' = IF r \in ReqsOf(b) THEN {} ELSE AssignmentsOf(r)
  BY DEF CloseInventory, AssignmentsOf, AssignmentsOfBooking, ReqsOf
<1>2. QED
  BY <1>1, FS_EmptySet DEF Assigned

LEMMA PackReject ==
  ASSUME WholeInv, NEW b \in Bookings, RejectRequest(b) \/ CancelCommit(b)
  PROVE  PackInv'
<1> SUFFICES ASSUME NEW r \in Reqs
             PROVE  PackOf(r)'
  BY DEF PackInv
<1>1. /\ status \in [Bookings -> BookingStatuses] /\ req \in [Reqs -> RequirementRecords]
      /\ BookingOf[r] \in Bookings
  BY IndexAssumption DEF WholeInv, CoreInv, TypeInv, TypeOK
<1>2. status' = [status EXCEPT ![b] = "cancelled"]
  BY DEF RejectRequest, CancelCommit
<1>3. PICK S : /\ CancelRequirements(S) /\ S \subseteq ReqsOf(b)
               /\ \A q \in ReqsOf(b) : q \in S \/ req[q].status \in {"NONE", "CANCELLED"}
  <2>1. CASE RejectRequest(b)
    <3>1. \A q \in ReqsOf(b) : q \in ActiveReqs(b)
      BY <2>1, PackNumbers DEF RejectRequest, PackOf, StageOf, ActiveReqs, ReqsOf
    <3>2. QED
      BY <2>1, <3>1 DEF RejectRequest, ActiveReqs
  <2>2. CASE CancelCommit(b)
    BY <2>2 DEF CancelCommit, LiveReqs
  <2>3. QED
    BY <2>1, <2>2
<1>4. status[b] # "NONE"
  <2>1. CASE RejectRequest(b)
    BY <2>1 DEF RejectRequest
  <2>2. CASE CancelCommit(b)
    <3>1. PICK q \in LiveReqs(b) : TRUE
      BY <2>2 DEF CancelCommit, CancelRefused
    <3>2. q \in Reqs /\ BookingOf[q] = b /\ req[q].status # "NONE"
      BY DEF LiveReqs, ReqsOf
    <3>3. QED
      BY <3>2, PackNumbers DEF PackOf, StageOf
  <2>3. QED
    BY <2>1, <2>2
<1>5. Assigned(r)' = IF r \in ReqsOf(b) THEN 0 ELSE Assigned(r)
  BY CloseCounts DEF RejectRequest, CancelCommit
<1>6. CASE r \notin ReqsOf(b)
  <2>1. req'[r] = req[r] /\ status'[BookingOf[r]] = status[BookingOf[r]]
    BY <1>1, <1>2, <1>3, <1>6 DEF CancelRequirements, ReqsOf
  <2>2. QED
    BY <1>5, <1>6, <2>1, PackNumbers, PackSame
<1>7. CASE r \in ReqsOf(b)
  <2>1. BookingOf[r] = b /\ status'[b] = "cancelled"
    BY <1>1, <1>2, <1>7 DEF ReqsOf
  <2>2. /\ req'[r].assigned = req[r].assigned /\ req'[r].handedOut = req[r].handedOut
        /\ req'[r].returned = req[r].returned /\ req'[r].lost = req[r].lost
        /\ req'[r].prep = req[r].prep
    BY <1>1, <1>3 DEF CancelRequirements, RequirementRecords
  <2>3. req[r].status # "NONE"
    BY <1>4, <2>1, PackNumbers DEF PackOf, StageOf
  <2>4. req'[r].status = "CANCELLED"
    BY <1>1, <1>3, <1>7, <2>3 DEF CancelRequirements, RequirementRecords
  <2>5. QED
    BY <1>4, <1>5, <1>7, <2>1, <2>2, <2>4, PackCancelled
<1>8. QED
  BY <1>6, <1>7

LEMMA PackCreate ==
  ASSUME WholeInv, NEW b \in Bookings, NEW f, NEW t, CreateBooking(b, f, t)
  PROVE  PackInv'
<1> SUFFICES ASSUME NEW r \in Reqs
             PROVE  PackOf(r)'
  BY DEF PackInv
<1>1. /\ status \in [Bookings -> BookingStatuses] /\ req \in [Reqs -> RequirementRecords]
      /\ BookingOf[r] \in Bookings
  BY IndexAssumption DEF WholeInv, CoreInv, TypeInv, TypeOK
<1>2. /\ status' = [status EXCEPT ![b] = "pending"] /\ status[b] = "NONE" /\ asg' = asg
      /\ req' = [q \in Reqs |-> IF q \in ReqsOf(b) THEN [req[q] EXCEPT !.status = "RESERVED"]
                                ELSE req[q]]
  BY DEF CreateBooking
<1>3. Assigned(r)' = Assigned(r)
  BY <1>2, SameAssigned
<1>4. CASE r \notin ReqsOf(b)
  <2>1. req'[r] = req[r] /\ status'[BookingOf[r]] = status[BookingOf[r]]
    BY <1>1, <1>2, <1>4 DEF ReqsOf
  <2>2. QED
    BY <1>3, <2>1, PackNumbers, PackSame
<1>5. CASE r \in ReqsOf(b)
  <2>1. status[BookingOf[r]] = "NONE" /\ status'[BookingOf[r]] = "pending"
    BY <1>1, <1>2, <1>5 DEF ReqsOf
  <2>2. /\ req'[r].assigned = req[r].assigned /\ req'[r].handedOut = req[r].handedOut
        /\ req'[r].returned = req[r].returned /\ req'[r].lost = req[r].lost
        /\ req'[r].prep = req[r].prep /\ req'[r].status = "RESERVED"
    BY <1>1, <1>2, <1>5 DEF RequirementRecords
  <2>3. StageOf(r)'
    BY <2>1, <2>2, PackNumbers
    DEF PackOf, StageOf, ACTIVE_REQUIREMENT_STATUSES, RunningStatuses, OverStatuses
  <2>4. CountsOf(r)'
    BY <1>3, <2>1, <2>2, PackNumbers DEF PackOf, StageOf, CountsOf
  <2>5. QED
    BY <2>3, <2>4 DEF PackOf
<1>6. QED
  BY <1>4, <1>5

(* A requirement that is not cancelled, whose counters stay and whose       *)
(* status and booking move where StageOf allows.                            *)
LEMMA PackMoved ==
  ASSUME NEW r, CountsOf(r), StageOf(r)', req[r].status # "CANCELLED",
         Assigned(r)' = Assigned(r),
         req'[r].assigned = req[r].assigned, req'[r].returned = req[r].returned,
         req'[r].lost = req[r].lost, req'[r].prep = req[r].prep
  PROVE  PackOf(r)'
BY DEF PackOf, CountsOf

LEMMA PackExtend ==
  ASSUME WholeInv, NEW b \in Bookings, NEW end, Extend(b, end)
  PROVE  PackInv'
<1> SUFFICES ASSUME NEW r \in Reqs
             PROVE  PackOf(r)'
  BY DEF PackInv
<1>1. req \in [Reqs -> RequirementRecords]
  BY DEF WholeInv, CoreInv, TypeInv, TypeOK
<1> DEFINE open == {q \in LiveReqs(b) : req[q].status \notin {"RETURNED", "LOST"}}
           next == IF req[r].status # "OVERDUE" THEN req[r].status
                   ELSE IF req[r].handedOut = Quantity[r] THEN "HANDED_OUT" ELSE "RESERVED"
<1>2. /\ status' = status /\ asg' = asg
      /\ req'[r] = IF r \in open THEN [req[r] EXCEPT !.status = next] ELSE req[r]
  BY DEF Extend
<1>3. Assigned(r)' = Assigned(r)
  BY <1>2, SameAssigned
<1>4. next = IF req[r].status # "OVERDUE" THEN req[r].status ELSE "HANDED_OUT"
  BY PackNumbers DEF PackOf, StageOf
<1>5. CASE r \notin open \/ next = req[r].status
  <2>1. [req[r] EXCEPT !.status = req[r].status] = req[r]
    BY <1>1 DEF RequirementRecords
  <2>2. req'[r] = req[r]
    BY <1>2, <1>5, <2>1
  <2>3. QED
    BY <1>2, <1>3, <2>2, PackNumbers, PackSame
<1>6. CASE r \in open /\ next # req[r].status
  <2>1. next = "HANDED_OUT" /\ req[r].status = "OVERDUE"
    BY <1>4, <1>6
  <2>2. /\ req'[r].assigned = req[r].assigned /\ req'[r].handedOut = req[r].handedOut
        /\ req'[r].returned = req[r].returned /\ req'[r].lost = req[r].lost
        /\ req'[r].prep = req[r].prep /\ req'[r].status = "HANDED_OUT"
    BY <1>1, <1>2, <1>6, <2>1 DEF RequirementRecords
  <2>3. StageOf(r)'
    BY <1>2, <1>3, <2>1, <2>2, PackNumbers
    DEF PackOf, StageOf, ACTIVE_REQUIREMENT_STATUSES
  <2>4. QED
    BY <1>3, <2>1, <2>2, <2>3, PackNumbers, PackMoved DEF PackOf
<1>7. QED
  BY <1>5, <1>6

(* Every requirement of a placed booking that is not cancelled lives.       *)
LEMMA AllLive ==
  ASSUME WholeInv, NEW b \in Bookings, status[b] \notin {"NONE", "cancelled"},
         NEW r \in ReqsOf(b)
  PROVE  r \in LiveReqs(b) /\ r \in Reqs /\ BookingOf[r] = b
<1>1. r \in Reqs /\ BookingOf[r] = b
  BY DEF ReqsOf
<1>2. req[r].status \notin {"NONE", "CANCELLED"}
  BY <1>1, PackNumbers DEF PackOf, StageOf
<1>3. QED
  BY <1>1, <1>2 DEF LiveReqs

LEMMA PackStatus ==
  ASSUME WholeInv, NEW b \in Bookings,
         \/ ApproveAndReserve(b) \/ MarkOverdue(b) \/ Complete(b)
         \/ \E new \in {"delivered", "returned", "inspected"} : UpdateStatus(b, new)
  PROVE  PackInv'
<1> SUFFICES ASSUME NEW r \in Reqs
             PROVE  PackOf(r)'
  BY DEF PackInv
<1>1. /\ status \in [Bookings -> BookingStatuses] /\ req \in [Reqs -> RequirementRecords]
      /\ BookingOf[r] \in Bookings
      /\ \A s \in BookingStatuses : \A new :
           new \in VALID_TRANSITIONS[s] =>
             /\ s \notin {"NONE", "completed", "cancelled"}
             /\ new = "delivered" => s = "confirmed"
             /\ new = "overdue" => s = "delivered"
             /\ new = "returned" => s \in {"delivered", "overdue"}
             /\ new = "inspected" => s = "returned"
             /\ new = "completed" => s = "inspected"
  BY IndexAssumption
  DEF WholeInv, CoreInv, TypeInv, TypeOK, VALID_TRANSITIONS, BookingStatuses
<1>2. PICK new \in {"confirmed", "overdue", "completed", "delivered", "returned", "inspected"} :
        /\ status' = [status EXCEPT ![b] = new]
        /\ new = "confirmed" => ApproveAndReserve(b)
        /\ new = "overdue" => MarkOverdue(b)
        /\ new = "completed" => Complete(b)
        /\ new \in {"delivered", "returned", "inspected"} => UpdateStatus(b, new)
  BY DEF ApproveAndReserve, MarkOverdue, Complete, UpdateStatus
<1>3. CASE r \notin ReqsOf(b)
  <2>1. status'[BookingOf[r]] = status[BookingOf[r]]
    BY <1>1, <1>2, <1>3 DEF ReqsOf
  <2>2. req'[r] = req[r]
    BY <1>1, <1>2, <1>3 DEF ApproveAndReserve, MarkOverdue, Complete, UpdateStatus, LiveReqs
  <2>3. Assigned(r)' = Assigned(r)
    <3>1. CASE new = "completed"
      BY <1>2, <1>3, <3>1, CloseCounts DEF Complete
    <3>2. CASE new # "completed"
      BY <1>2, <3>2, SameAssigned DEF ApproveAndReserve, MarkOverdue, UpdateStatus
    <3>3. QED
      BY <3>1, <3>2
  <2>4. QED
    BY <2>1, <2>2, <2>3, PackNumbers, PackSame
<1>4. CASE r \in ReqsOf(b)
  <2>1. BookingOf[r] = b /\ status'[b] = new
    BY <1>1, <1>2, <1>4 DEF ReqsOf
  <2>2. CASE new = "confirmed"
    <3>1. req' = req /\ asg' = asg /\ status[b] = "pending"
      BY <1>2, <2>2 DEF ApproveAndReserve
    <3>2. Assigned(r)' = Assigned(r)
      BY <3>1, SameAssigned
    <3>3. StageOf(r)'
      BY <2>1, <2>2, <3>1, <3>2, PackNumbers
      DEF PackOf, StageOf, ACTIVE_REQUIREMENT_STATUSES, RunningStatuses, OverStatuses
    <3>4. QED
      BY <3>1, <3>2, <3>3, PackNumbers DEF PackOf, CountsOf
  <2>3. CASE new # "confirmed"
    <3>1. StatusAllowed(b, new)
      BY <1>2, <2>3 DEF MarkOverdue, Complete, UpdateStatus
    <3>2. /\ status[b] \notin {"NONE", "completed", "cancelled"}
          /\ new = "delivered" => status[b] = "confirmed"
          /\ new = "overdue" => status[b] = "delivered"
          /\ new = "returned" => status[b] \in {"delivered", "overdue"}
          /\ new = "inspected" => status[b] = "returned"
          /\ new = "completed" => status[b] = "inspected"
      BY <1>1, <3>1 DEF StatusAllowed
    <3>3. r \in LiveReqs(b)
      BY <1>4, <3>2, AllLive
    <3>4. /\ new = "delivered" => req[r].handedOut = Quantity[r]
          /\ new = "returned" => req[r].returned + req[r].lost = Quantity[r]
      BY <3>1, <3>3 DEF StatusAllowed, Resolved
    <3>5. new \in OverStatuses => Assigned(r) = 0
      BY <2>1, <3>2, <3>4, PackNumbers DEF PackOf, StageOf, CountsOf, OverStatuses
    <3>6. Assigned(r)' = Assigned(r)
      <4>1. CASE new = "completed"
        BY <1>2, <1>4, <3>5, <4>1, CloseCounts DEF Complete, OverStatuses
      <4>2. CASE new # "completed"
        BY <1>2, <2>3, <4>2, SameAssigned DEF MarkOverdue, UpdateStatus
      <4>3. QED
        BY <4>1, <4>2
    <3>7. CASE req'[r] = req[r]
      <4>1. StageOf(r)'
        BY <2>1, <2>3, <3>2, <3>4, <3>5, <3>6, <3>7, PackNumbers
        DEF PackOf, StageOf, RunningStatuses, OverStatuses
      <4>2. QED
        BY <3>6, <3>7, <4>1, PackNumbers DEF PackOf, CountsOf
    <3>8. CASE req'[r] # req[r]
      <4>1. new = "overdue" /\ Outstanding(r) /\ req'[r] = [req[r] EXCEPT !.status = "OVERDUE"]
        BY <1>2, <2>3, <3>8 DEF MarkOverdue, Complete, UpdateStatus
      <4>2. /\ req'[r].assigned = req[r].assigned /\ req'[r].handedOut = req[r].handedOut
            /\ req'[r].returned = req[r].returned /\ req'[r].lost = req[r].lost
            /\ req'[r].prep = req[r].prep /\ req'[r].status = "OVERDUE"
        BY <1>1, <4>1 DEF RequirementRecords
      <4>3. StageOf(r)'
        BY <2>1, <3>2, <4>1, <4>2, PackNumbers
        DEF PackOf, StageOf, Outstanding, RunningStatuses, OverStatuses,
            ACTIVE_REQUIREMENT_STATUSES
      <4>4. req[r].status # "CANCELLED"
        BY <3>3 DEF LiveReqs
      <4>5. QED
        BY <3>6, <4>2, <4>3, <4>4, PackNumbers, PackMoved DEF PackOf
    <3>9. QED
      BY <3>7, <3>8
  <2>4. QED
    BY <2>2, <2>3
<1>5. QED
  BY <1>3, <1>4

(* Only a requirement that is not locked takes assignments, and nothing of  *)
(* it has left: a unit leaves only once it is locked.                       *)
LEMMA PackAssign ==
  ASSUME WholeInv, NEW r \in Reqs, NEW us \in SUBSET Units, Assign(r, us)
  PROVE  PackInv'
<1> SUFFICES ASSUME NEW q \in Reqs
             PROVE  PackOf(q)'
  BY DEF PackInv
<1>1. TypeInv /\ AlignedInv /\ req \in [Reqs -> RequirementRecords]
  BY DEF WholeInv, CoreInv, TypeInv, TypeOK
<1> DEFINE n == AssignedTotal(r, us)
           s == IF n = Quantity[r] THEN "ASSIGNED" ELSE "PARTIALLY_ASSIGNED"
<1>2. /\ req' = [req EXCEPT ![r].assigned = n, ![r].status = s]
      /\ status' = status /\ LiveResv(r) /\ req[r].prep # "READY" /\ n <= Quantity[r]
  BY DEF Assign, PreparationLocked
<1>3. s \in ACTIVE_REQUIREMENT_STATUSES /\ s \notin {"NONE", "CANCELLED", "OVERDUE"}
  BY DEF ACTIVE_REQUIREMENT_STATUSES
<1>4. n = Assigned(r) + Cardinality(us) /\ n \in Nat
  BY PackNumbers, SubsetOfUnits DEF AssignedTotal, Assigned
<1> HIDE DEF n, s
<1>5. /\ Assigned(r)' = n
      /\ \A p \in Reqs : p # r => Assigned(p)' = Assigned(p)
  BY <1>1, <1>4, AssignCounts
<1>6. CASE q # r
  BY <1>1, <1>2, <1>5, <1>6, PackNumbers, PackSame
<1>7. CASE q = r
  <2>1. /\ req'[r].assigned = n /\ req'[r].handedOut = req[r].handedOut
        /\ req'[r].returned = req[r].returned /\ req'[r].lost = req[r].lost
        /\ req'[r].prep = req[r].prep /\ req'[r].status = s
    BY <1>1, <1>2 DEF RequirementRecords
  <2>2. req[r].handedOut = 0 /\ req[r].returned = 0 /\ req[r].lost = 0
    <3>1. req[r].handedOut = 0
      BY <1>2, PackNumbers DEF PackOf, StageOf
    <3>2. Cardinality(out[r]) + req[r].returned + req[r].lost = 0
      BY <3>1, PackNumbers DEF ItemsOf
    <3>3. Cardinality(out[r]) \in Nat /\ req[r].returned \in Nat /\ req[r].lost \in Nat
      BY PackNumbers
    <3>4. QED
      BY <3>1, <3>2, <3>3
  <2>3. status[BookingOf[r]] \notin RunningStatuses
    BY <2>2, PackNumbers DEF PackOf, StageOf
  <2>4. status[BookingOf[r]] # "NONE"
    BY <1>2 DEF LiveResv, WholeInv, Unplaced
  <2>5. StageOf(r)'
    BY <1>2, <1>3, <2>1, <2>2, <2>3, <2>4 DEF StageOf, RunningStatuses, OverStatuses
  <2>6. CountsOf(r)'
    BY <1>2, <1>4, <1>5, <2>1, <2>2 DEF CountsOf
  <2>7. QED
    BY <1>7, <2>5, <2>6 DEF PackOf
<1>8. QED
  BY <1>6, <1>7

(* With nothing assigned nothing is out, so a requirement that can be       *)
(* substituted never had anything handed out.                               *)
LEMMA PackSubstitute ==
  ASSUME WholeInv, NEW r \in Reqs, NEW sku, Substitute(r, sku)
  PROVE  PackInv'
<1> SUFFICES ASSUME NEW q \in Reqs
             PROVE  PackOf(q)'
  BY DEF PackInv
<1>1. TypeInv /\ req \in [Reqs -> RequirementRecords]
  BY DEF WholeInv, CoreInv, TypeInv, TypeOK
<1>2. /\ req' = [req EXCEPT ![r].status = "RESERVED", ![r].prep = "OPEN"]
      /\ status' = status /\ asg' = asg /\ AssignmentsOf(r) = {}
      /\ req[r].status \in {"RESERVED", "PARTIALLY_ASSIGNED", "ASSIGNED", "OVERDUE"}
  BY DEF Substitute, Substitutable
<1>3. Assigned(q)' = Assigned(q)
  BY <1>2, SameAssigned
<1>4. CASE q # r
  BY <1>1, <1>2, <1>3, <1>4, PackNumbers, PackSame
<1>5. CASE q = r
  <2>1. /\ req'[r].assigned = req[r].assigned /\ req'[r].handedOut = req[r].handedOut
        /\ req'[r].returned = req[r].returned /\ req'[r].lost = req[r].lost
        /\ req'[r].prep = "OPEN" /\ req'[r].status = "RESERVED"
    BY <1>1, <1>2 DEF RequirementRecords
  <2>2. Cardinality(out[r]) = 0
    <3>1. out[r] = {}
      BY <1>2, PackNumbers DEF ItemsOf, Held
    <3>2. QED
      BY <3>1, FS_EmptySet
  <2>3. req[r].status # "OVERDUE"
    BY <2>2, PackNumbers DEF PackOf, StageOf, ItemsOf
  <2>4. req[r].handedOut = 0
    BY <1>2, <2>3, PackNumbers DEF PackOf, StageOf, ACTIVE_REQUIREMENT_STATUSES
  <2>5. StageOf(r)'
    BY <1>2, <1>3, <1>5, <2>1, <2>4, PackNumbers
    DEF PackOf, StageOf, ACTIVE_REQUIREMENT_STATUSES, RunningStatuses, OverStatuses
  <2>6. CountsOf(r)'
    BY <1>2, <1>3, <1>5, <2>1, PackNumbers DEF PackOf, CountsOf
  <2>7. QED
    BY <1>5, <2>5, <2>6 DEF PackOf
<1>6. QED
  BY <1>4, <1>5

LEMMA PackPrepare ==
  ASSUME WholeInv, NEW r \in Reqs, NEW prep \in {"OPEN", "READY"}, Prepare(r, prep)
  PROVE  PackInv'
<1> SUFFICES ASSUME NEW q \in Reqs
             PROVE  PackOf(q)'
  BY DEF PackInv
<1>1. TypeInv /\ req \in [Reqs -> RequirementRecords]
  BY DEF WholeInv, CoreInv, TypeInv, TypeOK
<1>2. /\ req' = [req EXCEPT ![r].prep = prep]
      /\ status' = status /\ asg' = asg /\ status[BookingOf[r]] = "confirmed"
      /\ req[r].handedOut = 0
      /\ prep = "READY" => req[r].assigned = Quantity[r]
  BY DEF Prepare
<1>3. Assigned(q)' = Assigned(q)
  BY <1>2, SameAssigned
<1>4. CASE q # r
  BY <1>1, <1>2, <1>3, <1>4, PackNumbers, PackSame
<1>5. CASE q = r
  <2>1. /\ req'[r].assigned = req[r].assigned /\ req'[r].handedOut = req[r].handedOut
        /\ req'[r].returned = req[r].returned /\ req'[r].lost = req[r].lost
        /\ req'[r].prep = prep /\ req'[r].status = req[r].status
    BY <1>1, <1>2 DEF RequirementRecords
  <2>2. StageOf(r)'
    BY <1>2, <1>3, <1>5, <2>1, PackNumbers DEF PackOf, StageOf, RunningStatuses, OverStatuses
  <2>3. req[r].status # "CANCELLED" /\ req[r].returned = 0 /\ req[r].lost = 0
    BY <1>2, PackNumbers DEF PackOf, StageOf
  <2>4. CountsOf(r)'
    BY <1>2, <1>3, <1>5, <2>1, <2>3, PackNumbers DEF PackOf, CountsOf
  <2>5. QED
    BY <1>5, <2>2, <2>4 DEF PackOf
<1>6. QED
  BY <1>4, <1>5

LEMMA PackHandOut ==
  ASSUME WholeInv, NEW r \in Reqs, NEW us \in SUBSET Units, NEW today, HandOut(r, us, today)
  PROVE  PackInv'
<1> SUFFICES ASSUME NEW q \in Reqs
             PROVE  PackOf(q)'
  BY DEF PackInv
<1>1. TypeInv /\ req \in [Reqs -> RequirementRecords]
  BY DEF WholeInv, CoreInv, TypeInv, TypeOK
<1> DEFINE n == req[r].handedOut + Cardinality(us)
           s == IF n = Quantity[r] THEN "HANDED_OUT" ELSE "PARTIALLY_HANDED_OUT"
<1>2. /\ req' = [req EXCEPT ![r].handedOut = n, ![r].status = s]
      /\ status' = status /\ asg' = asg /\ status[BookingOf[r]] = "confirmed"
      /\ req[r].prep = "READY"
  BY DEF HandOut
<1>3. s \in {"HANDED_OUT", "PARTIALLY_HANDED_OUT"}
  OBVIOUS
<1> HIDE DEF n, s
<1>4. Assigned(q)' = Assigned(q)
  BY <1>2, SameAssigned
<1>5. CASE q # r
  BY <1>1, <1>2, <1>4, <1>5, PackNumbers, PackSame
<1>6. CASE q = r
  <2>1. /\ req'[r].assigned = req[r].assigned /\ req'[r].handedOut = n
        /\ req'[r].returned = req[r].returned /\ req'[r].lost = req[r].lost
        /\ req'[r].prep = req[r].prep /\ req'[r].status = s
    BY <1>1, <1>2 DEF RequirementRecords
  <2>2. StageOf(r)'
    BY <1>2, <1>3, <1>4, <1>6, <2>1, PackNumbers
    DEF PackOf, StageOf, ACTIVE_REQUIREMENT_STATUSES, RunningStatuses, OverStatuses
  <2>3. req[r].status # "CANCELLED"
    BY <1>2, PackNumbers DEF PackOf, StageOf
  <2>4. QED
    BY <1>4, <1>6, <2>1, <2>2, <2>3, PackNumbers, PackMoved DEF PackOf
<1>7. QED
  BY <1>5, <1>6

LEMMA PackTakeBack ==
  ASSUME WholeInv, NEW r \in Reqs, NEW us \in SUBSET Units,
         NEW returned \in Nat, NEW lost \in Nat, TakeBack(r, us, returned, lost),
         returned + lost = req[r].returned + req[r].lost + Cardinality(us)
  PROVE  PackInv'
<1> SUFFICES ASSUME NEW q \in Reqs
             PROVE  PackOf(q)'
  BY DEF PackInv
<1>1. TypeInv /\ NoDoubleAssignment /\ AlignedInv /\ req \in [Reqs -> RequirementRecords]
  BY DEF WholeInv, CoreInv, TypeInv, TypeOK
<1> DEFINE n == MaxZero(req[r].assigned - Cardinality(us))
           s == IF returned + lost # Quantity[r] THEN "PARTIALLY_RETURNED"
                ELSE IF lost > 0 THEN "LOST" ELSE "RETURNED"
<1>2. /\ status' = status
      /\ us \subseteq Held(r)
      /\ asg' = asg \ {a \in AssignmentsOf(r) : a.unit \in us}
      /\ status[BookingOf[r]] \in {"delivered", "overdue"}
      /\ req' = [req EXCEPT ![r].returned = returned, ![r].lost = lost,
                            ![r].assigned = n, ![r].status = s]
  BY DEF TakeBack
<1>3. s \in {"PARTIALLY_RETURNED", "LOST", "RETURNED"}
  OBVIOUS
<1>4. /\ Assigned(r) = Assigned(r)' + Cardinality(us)
      /\ Assigned(r)' \in Nat
      /\ \A p \in Reqs : p # r => Assigned(p)' = Assigned(p)
  BY <1>1, <1>2, TakeBackCounts
<1>5. Cardinality(us) \in Nat
  BY SubsetOfUnits
<1>6. req[r].status # "CANCELLED" /\ req[r].assigned = Assigned(r)
  BY <1>2, PackNumbers DEF PackOf, StageOf, CountsOf
<1>7. n = Assigned(r)'
  BY <1>4, <1>5, <1>6 DEF MaxZero
<1> HIDE DEF n, s
<1>8. CASE q # r
  BY <1>1, <1>2, <1>4, <1>8, PackNumbers, PackSame
<1>9. CASE q = r
  <2>1. /\ req'[r].assigned = n /\ req'[r].handedOut = req[r].handedOut
        /\ req'[r].returned = returned /\ req'[r].lost = lost
        /\ req'[r].prep = req[r].prep /\ req'[r].status = s
    <3> DEFINE f == [req EXCEPT ![r].returned = returned, ![r].lost = lost]
    <3>1. /\ f[r].returned = returned /\ f[r].lost = lost
          /\ f[r].handedOut = req[r].handedOut /\ f[r].prep = req[r].prep
          /\ f \in [Reqs -> RequirementRecords]
      BY <1>1 DEF RequirementRecords
    <3>2. req' = [f EXCEPT ![r].assigned = n, ![r].status = s]
      BY <1>2
    <3> HIDE DEF f
    <3>3. QED
      BY <3>1, <3>2 DEF RequirementRecords
  <2>2. StageOf(r)'
    BY <1>2, <1>3, <2>1, PackNumbers
    DEF PackOf, StageOf, ACTIVE_REQUIREMENT_STATUSES, RunningStatuses, OverStatuses
  <2>3. Assigned(r)' + returned + lost = Assigned(r) + req[r].returned + req[r].lost
    BY <1>4, <1>5, PackNumbers
  <2>4. CountsOf(r)'
    BY <1>3, <1>6, <1>7, <2>1, <2>3, PackNumbers DEF PackOf, CountsOf
  <2>5. QED
    BY <1>9, <2>2, <2>4 DEF PackOf
<1>10. QED
  BY <1>8, <1>9

LEMMA PackRequirement ==
  ASSUME WholeInv, NEW r \in Reqs, RequirementStep(r)
  PROVE  PackInv'
<1>1. /\ req[r].returned \in Nat /\ req[r].lost \in Nat
      /\ \A us \in SUBSET Units : Cardinality(us) \in Nat
  BY PackNumbers, SubsetOfUnits
<1>2. ASSUME NEW us \in SUBSET Units, NEW today \in Today, ReturnItems(r, us, today)
      PROVE  PackInv'
  <2>1. /\ req[r].returned + Cardinality(us) \in Nat
        /\ (req[r].returned + Cardinality(us)) + req[r].lost
             = req[r].returned + req[r].lost + Cardinality(us)
    BY <1>1
  <2>2. QED
    BY <1>1, <1>2, <2>1, PackTakeBack DEF ReturnItems
<1>3. ASSUME NEW us \in SUBSET Units, NEW today \in Today, MarkLost(r, us, today)
      PROVE  PackInv'
  <2>1. /\ req[r].lost + Cardinality(us) \in Nat
        /\ req[r].returned + (req[r].lost + Cardinality(us))
             = req[r].returned + req[r].lost + Cardinality(us)
    BY <1>1
  <2>2. QED
    BY <1>1, <1>3, <2>1, PackTakeBack DEF MarkLost
<1>4. QED
  BY <1>2, <1>3, PackAssign, PackSubstitute, PackPrepare, PackHandOut DEF RequirementStep

LEMMA PackRelease ==
  ASSUME WholeInv, NEW a \in asg, ReleaseAssignment(a)
  PROVE  PackInv'
<1> SUFFICES ASSUME NEW q \in Reqs
             PROVE  PackOf(q)'
  BY DEF PackInv
<1>1. /\ TypeInv /\ req \in [Reqs -> RequirementRecords] /\ a.req \in Reqs
      /\ status[BookingOf[a.req]] # "NONE"
  BY DEF WholeInv, CoreInv, TypeInv, TypeOK, Assignments, AlignedInv
<1> DEFINE n == MaxZero(req[a.req].assigned - 1)
           s == IF n > 0 THEN "PARTIALLY_ASSIGNED" ELSE "RESERVED"
<1>2. /\ status' = status /\ asg' = asg \ {a}
      /\ req[a.req].handedOut = 0 /\ req[a.req].prep # "READY"
      /\ req' = [req EXCEPT ![a.req].assigned = n, ![a.req].status = s]
  BY DEF ReleaseAssignment, PreparationLocked
<1>3. s \in ACTIVE_REQUIREMENT_STATUSES /\ s \notin {"NONE", "CANCELLED", "OVERDUE"}
  BY DEF ACTIVE_REQUIREMENT_STATUSES
<1>4. /\ Assigned(a.req)' = Assigned(a.req) - 1
      /\ Assigned(a.req) \in Nat \ {0}
      /\ \A p \in Reqs : p # a.req => Assigned(p)' = Assigned(p)
  BY <1>1, <1>2, ReleaseCounts
<1>5. n = Assigned(a.req)'
  <2>1. req[a.req].assigned = Assigned(a.req)
    BY <1>1, <1>4, PackNumbers DEF PackOf, CountsOf
  <2>2. QED
    BY <1>4, <2>1 DEF MaxZero
<1> HIDE DEF n, s
<1>6. CASE q # a.req
  BY <1>1, <1>2, <1>4, <1>6, PackNumbers, PackSame
<1>7. CASE q = a.req
  <2>1. /\ req'[q].assigned = n /\ req'[q].handedOut = req[q].handedOut
        /\ req'[q].returned = req[q].returned /\ req'[q].lost = req[q].lost
        /\ req'[q].prep = req[q].prep /\ req'[q].status = s
    BY <1>1, <1>2, <1>7 DEF RequirementRecords
  <2>2. status[BookingOf[q]] \notin RunningStatuses
    BY <1>2, <1>7, PackNumbers DEF PackOf, StageOf
  <2>3. StageOf(q)'
    BY <1>1, <1>2, <1>3, <1>7, <2>1, <2>2, PackNumbers
    DEF PackOf, StageOf, RunningStatuses, OverStatuses
  <2>4. CountsOf(q)'
    BY <1>2, <1>4, <1>5, <1>7, <2>1, PackNumbers DEF PackOf, CountsOf
  <2>5. QED
    BY <2>3, <2>4 DEF PackOf
<1>8. QED
  BY <1>6, <1>7

(* A sweep cancels requests as a whole; their assignments stay, and stay    *)
(* counted.                                                                 *)
LEMMA PackSweep ==
  ASSUME WholeInv, ExpirePending
  PROVE  PackInv'
<1> SUFFICES ASSUME NEW r \in Reqs
             PROVE  PackOf(r)'
  BY DEF PackInv
<1>1. /\ TypeInv /\ ReservationsFollowBooking /\ Unplaced
      /\ status \in [Bookings -> BookingStatuses] /\ req \in [Reqs -> RequirementRecords]
      /\ BookingOf[r] \in Bookings
  BY IndexAssumption DEF WholeInv, CoreInv, TypeInv, TypeOK
<1>2. /\ asg' = asg
      /\ req'[r] = IF r \in LapsedHolds THEN [req[r] EXCEPT !.status = "CANCELLED"] ELSE req[r]
      /\ status'[BookingOf[r]] = IF BookingOf[r] \in Emptied(LapsedHolds) THEN "cancelled"
                                 ELSE status[BookingOf[r]]
  BY <1>1 DEF ExpirePending
<1>3. Assigned(r)' = Assigned(r)
  BY <1>2, SameAssigned
<1>4. CASE r \in LapsedHolds
  <2>1. resv[r].status = "PENDING"
    BY <1>4 DEF LapsedHolds
  <2>2. status[BookingOf[r]] = "pending"
    BY <1>1, <2>1 DEF ReservationsFollowBooking, Unplaced, LiveResv, BookingStatuses
  <2>3. BookingOf[r] \in Emptied(LapsedHolds)
    BY <1>1, <1>4, <2>2, SweepTakesWholeRequests
  <2>4. /\ req'[r].assigned = req[r].assigned /\ req'[r].handedOut = req[r].handedOut
        /\ req'[r].returned = req[r].returned /\ req'[r].lost = req[r].lost
        /\ req'[r].prep = req[r].prep /\ req'[r].status = "CANCELLED"
    BY <1>1, <1>2, <1>4 DEF RequirementRecords
  <2>5. req[r].status # "CANCELLED"
    BY <2>2, PackNumbers DEF PackOf, StageOf
  <2>6. QED
    BY <1>2, <1>3, <2>2, <2>3, <2>4, <2>5, PackCancelled
<1>5. CASE r \notin LapsedHolds
  <2>1. BookingOf[r] \notin Emptied(LapsedHolds)
    BY <1>1, <1>5 DEF Emptied, ReqsOf, LiveResv, ReservationsFollowBooking
  <2>2. QED
    BY <1>2, <1>3, <1>5, <2>1, PackNumbers, PackSame
<1>6. QED
  BY <1>4, <1>5

LEMMA NextPack == WholeInv /\ [Next]_vars => PackInv'
<1> SUFFICES ASSUME WholeInv, [Next]_vars
             PROVE  PackInv'
  OBVIOUS
<1>1. TypeInv /\ NoDoubleAssignment /\ AlignedInv
  BY DEF WholeInv, CoreInv
<1>2. ASSUME req' = req, status' = status, \A r \in Reqs : Assigned(r)' = Assigned(r)
      PROVE  PackInv'
  BY <1>2, PackNumbers, PackSame DEF PackInv
<1>3. CASE req' = req /\ status' = status /\ asg' = asg
  BY <1>2, <1>3, SameAssigned
<1>4. ASSUME NEW b \in Bookings, RequestStep(b)
      PROVE  PackInv'
  <2>1. CASE HoldLapses(b) \/ RenewHold(b) \/ CancelRequest(b) \/ CancelFail(b)
    BY <1>3, <2>1 DEF HoldLapses, RenewHold, CancelRequest, CancelFail
  <2>2. QED
    BY <1>4, <2>1, PackCreate, PackReject, PackExtend, PackStatus DEF RequestStep
<1>5. ASSUME NEW u \in Units, UnitStep(u)
      PROVE  PackInv'
  <2>1. ASSUME NEW decision \in Decisions, NEW today \in Today, NEW r \in Reqs,
               CompleteReturnInspection(<<r, u>>, decision, today)
        PROVE  PackInv'
    <3>1. req' = req /\ status' = status
      BY <2>1 DEF CompleteReturnInspection, SetUnit
    <3>2. \A q \in Reqs : Assigned(q)' = Assigned(q)
      BY <1>1, <2>1, InspectionCounts DEF CompleteReturnInspection
    <3>3. QED
      BY <1>2, <3>1, <3>2
  <2>2. QED
    BY <1>3, <1>5, <2>1 DEF UnitStep, StaffTransition, CompleteOtherInspection, SetUnit
<1>6. ASSUME NEW x, StartReturnInspection(x) \/ ResolveIssue(x)
      PROVE  PackInv'
  BY <1>3, <1>6 DEF StartReturnInspection, ResolveIssue, SetUnit
<1>7. CASE UNCHANGED vars
  BY <1>3, <1>7 DEF vars
<1>8. QED
  BY <1>4, <1>5, <1>6, <1>7, PackRequirement, PackRelease, PackSweep DEF Next

LEMMA InitPack == Init => PackInv
<1> SUFFICES ASSUME Init, NEW r \in Reqs
             PROVE  PackOf(r)
  BY DEF PackInv
<1>1. req[r] = NoRequirement /\ status[BookingOf[r]] = "NONE" /\ AssignmentsOf(r) = {}
  BY IndexAssumption DEF Init, AssignmentsOf
<1>2. Assigned(r) = 0 /\ Quantity[r] \in Nat
  BY <1>1, FS_EmptySet, QuantityAssumption DEF Assigned
<1>3. StageOf(r)
  BY <1>1, <1>2
  DEF StageOf, NoRequirement, RunningStatuses, OverStatuses, ACTIVE_REQUIREMENT_STATUSES
<1>4. CountsOf(r)
  BY <1>1, <1>2 DEF CountsOf, NoRequirement
<1>5. QED
  BY <1>3, <1>4 DEF PackOf

LEMMA InductiveWhole == Spec => []WholeInv
<1>1. PackInv /\ CoreInv /\ Unplaced /\ NoDoubleAssignment /\ AlignedInv => WholeInv
  BY DEF WholeInv
<1>2. Spec => [](CoreInv /\ Unplaced /\ NoDoubleAssignment /\ AlignedInv)
  BY InductiveCore, InductiveUnplaced, NeverDoubleAssigned, InductiveAligned, PTL
<1>3. QED
  BY <1>1, <1>2, InitPack, NextPack, PTL DEF Spec

(* assignedQuantity is the number of active assignments, although some      *)
(* operations update it incrementally and others leave it alone.            *)
THEOREM AssignedQuantityAlwaysExact == Spec => []AssignedQuantityExact
<1>1. WholeInv => AssignedQuantityExact
  BY PackNumbers DEF AssignedQuantityExact, PackOf, CountsOf, Assigned
<1>2. QED
  BY <1>1, InductiveWhole, PTL

(* What was marked ready to hand over stays complete.                       *)
THEOREM PreparedAlwaysPacked == Spec => []PreparedStaysPacked
<1>1. WholeInv => PreparedStaysPacked
  BY PackNumbers DEF PreparedStaysPacked, PackOf, CountsOf, Assigned
<1>2. QED
  BY <1>1, InductiveWhole, PTL

(* A running rental was handed out in full; one that is over holds no unit. *)
THEOREM StatusAlwaysMatchesItems == Spec => []StatusMatchesItems
<1>1. ASSUME WholeInv, NEW b \in Bookings, status[b] \in {"delivered", "overdue"}
      PROVE  \A r \in LiveReqs(b) : req[r].handedOut = Quantity[r]
  BY <1>1, PackNumbers DEF LiveReqs, ReqsOf, PackOf, StageOf, RunningStatuses
<1>2. ASSUME WholeInv, NEW b \in Bookings, status[b] \in OverStatuses
      PROVE  AssignmentsOfBooking(b) = {}
  <2>1. \A a \in asg : a.req \in Reqs
    BY <1>2 DEF WholeInv, CoreInv, TypeInv, TypeOK, Assignments
  <2>2. \A r \in Reqs : BookingOf[r] = b => AssignmentsOf(r) = {}
    BY <1>2, PackNumbers, AssignedNat DEF PackOf, StageOf, WholeInv, CoreInv
  <2>3. QED
    BY <2>1, <2>2 DEF AssignmentsOfBooking, AssignmentsOf
<1>3. WholeInv => StatusMatchesItems
  BY <1>1, <1>2 DEF StatusMatchesItems, OverStatuses
<1>4. QED
  BY <1>3, InductiveWhole, PTL

(* Units leave only under a confirmed booking whose requirement holds every *)
(* unit it needs.                                                           *)
THEOREM HandedOutComplete == Spec => HandOutComplete
<1> DEFINE Leaves(r) == out'[r] # {} /\ ~(out'[r] \subseteq out[r])
           Packed(r) == /\ status[BookingOf[r]] = "confirmed"
                        /\ resv[r].status = "CONFIRMED"
                        /\ Cardinality(AssignmentsOf(r)) = Quantity[r]
<1>1. ASSUME WholeInv, NEW r \in Reqs, NEW us \in SUBSET Units, NEW today, HandOut(r, us, today)
      PROVE  Packed(r)
  <2>1. status[BookingOf[r]] = "confirmed" /\ req[r].prep = "READY"
    BY <1>1 DEF HandOut
  <2>2. resv[r].status = "CONFIRMED"
    BY <1>1, <2>1 DEF WholeInv, CoreInv, ReservationsFollowBooking
  <2>3. Assigned(r) = Quantity[r]
    BY <1>1, <2>1, PackNumbers DEF PackOf, StageOf, CountsOf
  <2>4. QED
    BY <2>1, <2>2, <2>3 DEF Assigned
<1>2. ASSUME WholeInv, [Next]_vars, NEW r \in Reqs, Leaves(r)
      PROVE  \E us \in SUBSET Units, today \in Today : HandOut(r, us, today)
  <2>1. out \in [Reqs -> SUBSET Units]
    BY <1>2 DEF WholeInv, CoreInv, TypeInv, TypeOK
  <2>2. out' # out
    BY <1>2
  <2>3. PICK q \in Reqs : RequirementStep(q)
    BY <1>2, <2>2 DEF Next, vars, RequestStep, CreateBooking, HoldLapses, RenewHold,
       ApproveAndReserve, RejectRequest, CancelRequest, CancelCommit, CancelFail, Extend,
       UpdateStatus, MarkOverdue, Complete, UnitStep, StaffTransition,
       CompleteOtherInspection, CompleteReturnInspection, StartReturnInspection, SetUnit,
       ReleaseAssignment, ResolveIssue, ExpirePending
  <2>4. PICK us \in SUBSET Units, today \in Today :
          HandOut(q, us, today) \/ ReturnItems(q, us, today) \/ MarkLost(q, us, today)
    BY <2>2, <2>3 DEF RequirementStep, Assign, Substitute, Prepare
  <2>5. HandOut(q, us, today) => q = r
    BY <1>2, <2>1 DEF HandOut
  <2>6. ~ReturnItems(q, us, today) /\ ~MarkLost(q, us, today)
    <3>1. ReturnItems(q, us, today) \/ MarkLost(q, us, today)
            => out' = [out EXCEPT ![q] = @ \ us]
      BY DEF ReturnItems, MarkLost, TakeBack
    <3>2. QED
      BY <1>2, <2>1, <3>1
  <2>7. QED
    BY <2>4, <2>5, <2>6
<1>3. WholeInv /\ [Next]_vars =>
        \A r \in Reqs : out'[r] # {} /\ ~(out'[r] \subseteq out[r]) =>
          /\ status[BookingOf[r]] = "confirmed" /\ resv[r].status = "CONFIRMED"
          /\ Cardinality(AssignmentsOf(r)) = Quantity[r]
  BY <1>1, <1>2
<1>4. QED
  BY <1>3, InductiveWhole, PTL DEF Spec, HandOutComplete

-----------------------------------------------------------------------------
(* Capacity.                                                                *)

(* What is reserved of a SKU on a day, and the units there are of it.       *)
Load(s, d) ==
  {r \in Reqs : /\ resv[r].sku = s /\ Counted(r)
                /\ Overlap(resv[r].from, resv[r].to, d, d)}
Stock(s) == Cardinality({u \in Units : SkuOf[u] = s})

(* The requirements of a booking begin on one day.                          *)
OneStart ==
  \A r, q \in Reqs : BookingOf[r] = BookingOf[q] => resv[r].from = resv[q].from

LEMMA QuantitiesGrow ==
  ASSUME NEW T \in SUBSET Reqs, NEW S \in SUBSET T
  PROVE  TotalQuantity(S) \in Nat /\ TotalQuantity(T) \in Nat
         /\ TotalQuantity(S) <= TotalQuantity(T)
<1>1. IsFiniteSet(T) /\ \A r \in T : Quantity[r] \in Nat
  BY FiniteAssumption, QuantityAssumption, FS_Subset
<1>2. QED
  BY <1>1, SumGrows DEF TotalQuantity

LEMMA QuantitiesAdd ==
  ASSUME NEW S \in SUBSET Reqs, NEW T \in SUBSET Reqs, S \cap T = {}
  PROVE  TotalQuantity(S \cup T) = TotalQuantity(S) + TotalQuantity(T)
<1>1. IsFiniteSet(S) /\ IsFiniteSet(T) /\ \A r \in Reqs : Quantity[r] \in Int
  BY FiniteAssumption, QuantityAssumption, FS_Subset
<1>2. QED
  BY <1>1, SumOfBoth DEF TotalQuantity

LEMMA OneQuantity ==
  ASSUME NEW r \in Reqs, NEW S \in SUBSET Reqs, r \in S
  PROVE  TotalQuantity(S) = Quantity[r] + TotalQuantity(S \ {r})
<1>1. IsFiniteSet(S) /\ \A q \in S : Quantity[q] \in Int
  BY FiniteAssumption, QuantityAssumption, FS_Subset
<1>2. QED
  BY <1>1, OneOut DEF TotalQuantity

(* Capacity counts eligible units of the SKU only.                          *)
LEMMA CapacityWithinStock ==
  ASSUME NEW s
  PROVE  Capacity(s) \in Nat /\ Stock(s) \in Nat /\ Capacity(s) <= Stock(s)
<1> DEFINE all == {u \in Units : SkuOf[u] = s}
           some == {u \in Units : SkuOf[u] = s /\ Eligible(u)}
<1>1. IsFiniteSet(all) /\ some \in SUBSET all
  BY FiniteAssumption, FS_Subset
<1>2. IsFiniteSet(some) /\ Cardinality(some) <= Cardinality(all)
  BY <1>1, FS_Subset
<1>3. QED
  BY <1>1, <1>2, FS_CardinalityType DEF Capacity, Stock

LEMMA FitsMeans ==
  /\ NoOverbooking <=> \A d \in Days, s \in Skus : TotalQuantity(Load(s, d)) <= Stock(s)
  /\ NoOverbooking' <=> \A d \in Days, s \in Skus : TotalQuantity(Load(s, d)') <= Stock(s)
<1>1. \A s, d : ReservedQuantity(s, d, d, {}) = TotalQuantity(Load(s, d))
  <2>1. Reqs \ {} = Reqs
    OBVIOUS
  <2>2. QED
    BY <2>1 DEF ReservedQuantity, Load
<1>2. \A s, d : ReservedQuantity(s, d, d, {})' = TotalQuantity(Load(s, d)')
  <2>1. Reqs \ {} = Reqs
    OBVIOUS
  <2>2. QED
    BY <2>1 DEF ReservedQuantity, Load, TotalQuantity
<1>3. QED
  BY <1>1, <1>2 DEF NoOverbooking, Stock

(* Nothing is counted that was not, on no new day and for no other SKU.     *)
LEMMA FitsFewer ==
  ASSUME NoOverbooking,
         \A r \in Reqs : Counted(r)' => /\ Counted(r) /\ resv'[r].sku = resv[r].sku
                                        /\ resv'[r].from = resv[r].from
                                        /\ resv'[r].to = resv[r].to
  PROVE  NoOverbooking'
<1>1. \A s, d : Load(s, d)' \in SUBSET Load(s, d) /\ Load(s, d) \in SUBSET Reqs
  BY DEF Load
<1>2. ASSUME NEW d \in Days, NEW s \in Skus
      PROVE  TotalQuantity(Load(s, d)') <= Stock(s)
  <2> DEFINE was == Load(s, d)
             now == Load(s, d)'
  <2>1. TotalQuantity(was) <= Stock(s) /\ Stock(s) \in Nat
    BY FitsMeans, CapacityWithinStock
  <2>2. was \in SUBSET Reqs /\ now \in SUBSET was
    BY <1>1
  <2> HIDE DEF was, now
  <2>3. TotalQuantity(was) \in Nat /\ TotalQuantity(now) \in Nat
        /\ TotalQuantity(now) <= TotalQuantity(was)
    BY <2>2, QuantitiesGrow
  <2>4. QED
    BY <2>1, <2>3 DEF now
<1>3. QED
  BY <1>2, FitsMeans

(* What an availability check that succeeded says of every day it covers.   *)
LEMMA CheckedFits ==
  ASSUME NEW s, NEW f, NEW t, NEW q \in Nat, NEW given, Available(s, f, t, q, given),
         NEW S \in SUBSET Reqs,
         \A r \in S : /\ r \notin given /\ resv[r].sku = s /\ Counted(r)
                      /\ Overlap(resv[r].from, resv[r].to, f, t)
  PROVE  q + TotalQuantity(S) <= Stock(s)
<1> DEFINE there == {r \in Reqs \ given : /\ resv[r].sku = s /\ Counted(r)
                                          /\ Overlap(resv[r].from, resv[r].to, f, t)}
<1>1. q + TotalQuantity(there) <= Capacity(s)
  BY DEF Available, ReservedQuantity
<1>2. there \in SUBSET Reqs /\ S \in SUBSET there
  OBVIOUS
<1> HIDE DEF there
<1>3. TotalQuantity(S) \in Nat /\ TotalQuantity(there) \in Nat
      /\ TotalQuantity(S) <= TotalQuantity(there)
  BY <1>2, QuantitiesGrow
<1>4. QED
  BY <1>1, <1>3, CapacityWithinStock

LEMMA FitsCreate ==
  ASSUME TypeInv, NoOverbooking, NEW b \in Bookings, NEW f \in Days, NEW t \in Days, f <= t,
         CreateBooking(b, f, t)
  PROVE  NoOverbooking'
<1>1. /\ resv' = [r \in Reqs |->
                IF r \in ReqsOf(b)
                THEN [status |-> "PENDING", sku |-> WantedSku[r], from |-> f, to |-> t]
                ELSE resv[r]]
      /\ lapsed' = lapsed
  BY DEF CreateBooking
<1>2. ASSUME NEW d \in Days, NEW s \in Skus
      PROVE  TotalQuantity(Load(s, d)') <= Stock(s)
  <2> DEFINE wanted == {r \in ReqsOf(b) : WantedSku[r] = s}
             others == Load(s, d) \ ReqsOf(b)
             now == Load(s, d)'
  <2>1. now \subseteq wanted \cup others
    BY <1>1 DEF Load, Counted, ReqsOf
  <2>2. /\ wanted \in SUBSET Reqs /\ others \in SUBSET Reqs /\ wanted \cap others = {}
        /\ others \in SUBSET Load(s, d) /\ Load(s, d) \in SUBSET Reqs
    BY DEF Load, ReqsOf
  <2>3. TotalQuantity(Load(s, d)) <= Stock(s) /\ Stock(s) \in Nat
    BY FitsMeans, CapacityWithinStock
  <2>4. CASE now \subseteq others
    <3> HIDE DEF now, others
    <3>1. now \in SUBSET Load(s, d)
      BY <2>2, <2>4
    <3>2. /\ TotalQuantity(now) \in Nat /\ TotalQuantity(Load(s, d)) \in Nat
          /\ TotalQuantity(now) <= TotalQuantity(Load(s, d))
      BY <2>2, <3>1, QuantitiesGrow
    <3>3. QED
      BY <2>3, <3>2 DEF now
  <2>5. CASE ~(now \subseteq others)
    <3>1. PICK r \in now : r \in wanted
      BY <2>1, <2>5
    <3>2. f <= d /\ d <= t
      BY <1>1, <3>1 DEF Load, Overlap, ReqsOf
    <3>3. Available(s, f, t, TotalQuantity(wanted), {})
      BY <3>1 DEF CreateBooking
    <3>4. \A x \in others : /\ x \notin {} /\ resv[x].sku = s /\ Counted(x)
                            /\ Overlap(resv[x].from, resv[x].to, f, t)
      <4>1. \A x \in Reqs : resv[x].from \in Int /\ resv[x].to \in Int
        BY BoundAssumption DEF TypeInv, TypeOK, Days
      <4>2. f \in Int /\ d \in Int /\ t \in Int
        BY BoundAssumption DEF Days
      <4>3. QED
        BY <3>2, <4>1, <4>2 DEF Load, Overlap
    <3> HIDE DEF wanted, others, now
    <3>5. TotalQuantity(wanted) \in Nat /\ TotalQuantity(others) \in Nat
      BY <2>2, QuantitiesGrow
    <3>6. TotalQuantity(wanted) + TotalQuantity(others) <= Stock(s)
      BY <2>2, <3>3, <3>4, <3>5, CheckedFits
    <3>7. TotalQuantity(wanted \cup others) = TotalQuantity(wanted) + TotalQuantity(others)
      BY <2>2, QuantitiesAdd
    <3>8. /\ TotalQuantity(now) \in Nat /\ TotalQuantity(wanted \cup others) \in Nat
          /\ TotalQuantity(now) <= TotalQuantity(wanted \cup others)
      BY <2>1, <2>2, QuantitiesGrow
    <3>9. QED
      BY <2>3, <3>6, <3>7, <3>8 DEF now
  <2>6. QED
    BY <2>4, <2>5
<1>3. QED
  BY <1>2, FitsMeans

(* One reservation takes new days, or another SKU, that were checked for it *)
(* against all others of its SKU, and every other that gains a day overlaps *)
(* those days already.                                                      *)
LEMMA FitsMoved ==
  ASSUME TypeInv, TypeInv', NoOverbooking, lapsed' = lapsed,
         NEW S \in SUBSET Reqs,
         \A r \in Reqs : resv'[r].status = resv[r].status,
         \A r \in Reqs \ S : resv'[r] = resv[r],
         \A r \in S : Counted(r) =>
           /\ Available(resv'[r].sku, resv'[r].from, resv'[r].to, Quantity[r], {r})
           /\ \A x \in S \ {r} :
                /\ resv'[x].sku = resv[x].sku
                /\ Overlap(resv[x].from, resv[x].to, resv'[r].from, resv'[r].to)
  PROVE  NoOverbooking'
<1>1. \A r \in Reqs : Counted(r)' <=> Counted(r)
  BY DEF Counted
<1>2. /\ \A r \in Reqs : resv[r].from \in Int /\ resv[r].to \in Int
      /\ \A d \in Days : d \in Int
  BY BoundAssumption DEF TypeInv, TypeOK, Days
<1>3. ASSUME NEW d \in Days, NEW s \in Skus
      PROVE  TotalQuantity(Load(s, d)') <= Stock(s)
  <2> DEFINE now == Load(s, d)'
  <2>1. /\ TotalQuantity(Load(s, d)) <= Stock(s) /\ Stock(s) \in Nat
        /\ Load(s, d) \in SUBSET Reqs
    BY FitsMeans, CapacityWithinStock DEF Load
  <2>2. \A x \in now : /\ x \in Reqs /\ resv'[x].sku = s /\ Counted(x)
                       /\ Overlap(resv'[x].from, resv'[x].to, d, d)
    BY <1>1 DEF Load
  <2>3. CASE now \cap S = {}
    <3>1. now \in SUBSET Load(s, d)
      BY <2>2, <2>3 DEF Load
    <3> HIDE DEF now
    <3>2. /\ TotalQuantity(now) \in Nat /\ TotalQuantity(Load(s, d)) \in Nat
          /\ TotalQuantity(now) <= TotalQuantity(Load(s, d))
      BY <2>1, <3>1, QuantitiesGrow
    <3>3. QED
      BY <2>1, <3>2 DEF now
  <2>4. ASSUME NEW r \in now, r \in S
        PROVE  TotalQuantity(now) <= Stock(s)
    <3>1. /\ Available(s, resv'[r].from, resv'[r].to, Quantity[r], {r})
          /\ resv'[r].from <= d /\ d <= resv'[r].to /\ Counted(r) /\ r \in Reqs
      BY <2>2, <2>4 DEF Overlap
    <3>2. ASSUME NEW x \in now \ {r}
          PROVE  /\ x \notin {r} /\ resv[x].sku = s /\ Counted(x)
                 /\ Overlap(resv[x].from, resv[x].to, resv'[r].from, resv'[r].to)
      <4>1. CASE x \in S
        BY <2>2, <2>4, <3>1, <3>2, <4>1
      <4>2. CASE x \notin S
        <5>1. resv'[x] = resv[x] /\ resv[x].from <= d /\ d <= resv[x].to
          BY <2>2, <3>2, <4>2 DEF Overlap
        <5>2. resv'[r].from \in Int /\ resv'[r].to \in Int
          BY <3>1, BoundAssumption DEF TypeInv, TypeOK, Days
        <5>3. QED
          BY <1>2, <2>2, <3>1, <3>2, <5>1, <5>2 DEF Overlap
      <4>3. QED
        BY <4>1, <4>2
    <3> HIDE DEF now
    <3>3. Quantity[r] \in Nat /\ now \ {r} \in SUBSET Reqs /\ now \in SUBSET Reqs
      BY <2>2, <3>1, QuantityAssumption
    <3>4. Quantity[r] + TotalQuantity(now \ {r}) <= Stock(s)
      BY <3>1, <3>2, <3>3, CheckedFits
    <3>5. TotalQuantity(now) = Quantity[r] + TotalQuantity(now \ {r})
      BY <3>1, <3>3, OneQuantity
    <3>6. QED
      BY <3>4, <3>5
  <2>5. QED
    BY <2>3, <2>4
<1>4. QED
  BY <1>3, FitsMeans

(* Only a new booking moves the day a reservation begins, and only it and   *)
(* an extension the day it ends.                                            *)
LEMMA DaysMove ==
  ASSUME TypeInv, [Next]_vars
  PROVE  \/ \A r \in Reqs : resv'[r].from = resv[r].from /\ resv'[r].to = resv[r].to
         \/ \E b \in Bookings, f, t \in Days : f <= t /\ CreateBooking(b, f, t)
         \/ \E b \in Bookings, end \in Days : Extend(b, end)
<1> USE DEF TypeInv, TypeOK
<1>1. ASSUME NEW b \in Bookings, RequestStep(b),
             ~\E f, t \in Days : f <= t /\ CreateBooking(b, f, t),
             ~\E end \in Days : Extend(b, end)
      PROVE  \A r \in Reqs : resv'[r].from = resv[r].from /\ resv'[r].to = resv[r].to
  <2>1. CASE \E s : CloseInventory(b, s)
    BY <2>1 DEF CloseInventory
  <2>2. CASE ApproveAndReserve(b)
    BY <2>2 DEF ApproveAndReserve
  <2>3. CASE UNCHANGED resv
    BY <2>3
  <2>4. QED
    BY <1>1, <2>1, <2>2, <2>3 DEF RequestStep, HoldLapses, RenewHold,
       RejectRequest, CancelRequest, CancelCommit, CancelFail, UpdateStatus, MarkOverdue, Complete
<1>2. ASSUME NEW r \in Reqs, RequirementStep(r)
      PROVE  \A q \in Reqs : resv'[q].from = resv[q].from /\ resv'[q].to = resv[q].to
  <2>1. CASE \E sku \in Skus : Substitute(r, sku)
    BY <2>1 DEF Substitute
  <2>2. CASE UNCHANGED resv
    BY <2>2
  <2>3. QED
    BY <1>2, <2>1, <2>2 DEF RequirementStep, Assign, Prepare, HandOut, ReturnItems,
       MarkLost, TakeBack
<1>3. CASE ExpirePending
  BY <1>3 DEF ExpirePending
<1>4. ASSUME NEW u \in Units, UnitStep(u)
      PROVE  UNCHANGED resv
  BY <1>4 DEF UnitStep, StaffTransition, CompleteOtherInspection,
     CompleteReturnInspection, SetUnit
<1>5. ASSUME NEW x, ReleaseAssignment(x) \/ StartReturnInspection(x) \/ ResolveIssue(x)
      PROVE  UNCHANGED resv
  BY <1>5 DEF ReleaseAssignment, StartReturnInspection, ResolveIssue, SetUnit
<1>6. CASE UNCHANGED resv
  BY <1>6
<1>7. QED
  BY <1>1, <1>2, <1>3, <1>4, <1>5, <1>6 DEF Next, vars

(* What an extension changes.                                               *)
LEMMA ExtendMoves ==
  ASSUME TypeInv, NEW b \in Bookings, NEW end \in Days, Extend(b, end), NEW r \in Reqs
  PROVE  /\ resv'[r].from = resv[r].from
         /\ BookingOf[r] # b => resv'[r] = resv[r]
BY DEF Extend, TypeInv, TypeOK, LiveReqs, ReqsOf

LEMMA NextOneStart == TypeInv /\ OneStart /\ [Next]_vars => OneStart'
<1> SUFFICES ASSUME TypeInv, OneStart, [Next]_vars
             PROVE  OneStart'
  OBVIOUS
<1>1. CASE \A r \in Reqs : resv'[r].from = resv[r].from
  BY <1>1 DEF OneStart
<1>2. ASSUME NEW b \in Bookings, NEW f \in Days, NEW t \in Days, CreateBooking(b, f, t)
      PROVE  OneStart'
  BY <1>2 DEF CreateBooking, OneStart, ReqsOf
<1>3. ASSUME NEW b \in Bookings, NEW end \in Days, Extend(b, end)
      PROVE  OneStart'
  BY <1>1, <1>3, ExtendMoves
<1>4. QED
  BY <1>1, <1>2, <1>3, DaysMove

LEMMA InductiveOneStart == Spec => []OneStart
<1>1. Init => OneStart
  BY DEF Init, OneStart, NoReservation
<1>2. QED
  BY <1>1, NextOneStart, InductiveTypes, PTL DEF Spec

(* The requirements of a booking grow together: each one's days meet the    *)
(* new days of every other before they grow.                                *)
LEMMA FitsExtend ==
  ASSUME TypeInv, TypeInv', AlignedInv, OneStart, NoOverbooking,
         NEW b \in Bookings, NEW end \in Days, Extend(b, end)
  PROVE  NoOverbooking'
<1> DEFINE open == {r \in LiveReqs(b) : req[r].status \notin {"RETURNED", "LOST"}}
<1>1. /\ lapsed' = lapsed
      /\ \A r \in open : /\ r \in Reqs /\ BookingOf[r] = b /\ end > resv[r].to
                         /\ Available(resv[r].sku, resv[r].from, end, Quantity[r], {r})
      /\ resv' = [r \in Reqs |-> IF r \in open THEN [resv[r] EXCEPT !.to = end] ELSE resv[r]]
  BY DEF Extend, LiveReqs, ReqsOf
<1> HIDE DEF open
<1>2. open \in SUBSET Reqs
  BY <1>1
<1>3. \A r \in Reqs : resv[r] \in ReservationRecords
  BY DEF TypeInv, TypeOK, ReservationRecords
<1>4. \A r \in open : /\ resv'[r].sku = resv[r].sku /\ resv'[r].from = resv[r].from
                      /\ resv'[r].to = end /\ resv'[r].status = resv[r].status
  BY <1>1, <1>2, <1>3 DEF ReservationRecords
<1>5. \A r \in Reqs \ open : resv'[r] = resv[r]
  BY <1>1
<1>6. \A r, x \in open : Overlap(resv[x].from, resv[x].to, resv'[r].from, resv'[r].to)
  <2> SUFFICES ASSUME NEW r \in open, NEW x \in open
               PROVE  resv[x].from <= end /\ resv[r].from <= resv[x].to
    BY <1>4 DEF Overlap
  <2>1. resv[x].from = resv[r].from /\ resv[x].from <= resv[x].to /\ end > resv[x].to
    <3>1. /\ x \in Reqs /\ r \in Reqs /\ BookingOf[x] = BookingOf[r] /\ end > resv[x].to
      BY <1>1
    <3>2. QED
      BY <3>1 DEF OneStart, AlignedInv
  <2>2. resv[x].from \in Int /\ resv[x].to \in Int /\ end \in Int
    BY <1>2, <1>3, BoundAssumption DEF ReservationRecords, Days
  <2>3. QED
    BY <2>1, <2>2
<1>7. \A r \in Reqs : resv'[r].status = resv[r].status
  BY <1>4, <1>5
<1>8. \A r \in open :
        /\ Available(resv'[r].sku, resv'[r].from, resv'[r].to, Quantity[r], {r})
        /\ \A x \in open \ {r} :
             /\ resv'[x].sku = resv[x].sku
             /\ Overlap(resv[x].from, resv[x].to, resv'[r].from, resv'[r].to)
  BY <1>1, <1>4, <1>6
<1>9. QED
  BY <1>1, <1>2, <1>5, <1>7, <1>8, FitsMoved

LEMMA FitsSubstitute ==
  ASSUME TypeInv, TypeInv', NoOverbooking, NEW r \in Reqs, NEW sku \in Skus, Substitute(r, sku)
  PROVE  NoOverbooking'
<1>1. /\ lapsed' = lapsed
      /\ Available(sku, resv[r].from, resv[r].to, Quantity[r], {r})
      /\ resv' = [resv EXCEPT ![r].sku = sku]
  BY DEF Substitute
<1>2. /\ resv'[r].sku = sku /\ resv'[r].from = resv[r].from /\ resv'[r].to = resv[r].to
      /\ resv'[r].status = resv[r].status
      /\ \A q \in Reqs \ {r} : resv'[q] = resv[q]
  BY <1>1 DEF TypeInv, TypeOK
<1>3. \A q \in Reqs : resv'[q].status = resv[q].status
  BY <1>2
<1>4. {r} \in SUBSET Reqs /\ {r} \ {r} = {}
  OBVIOUS
<1>5. \A q \in {r} : /\ Available(resv'[q].sku, resv'[q].from, resv'[q].to, Quantity[q], {q})
                      /\ {r} \ {q} = {}
  BY <1>1, <1>2
<1>6. \A q \in Reqs \ {r} : resv'[q] = resv[q]
  BY <1>2
<1>7. QED
  BY <1>1, <1>3, <1>4, <1>5, <1>6, FitsMoved

(* A request whose hold has lapsed cannot be approved.                      *)
LEMMA FitsApprove ==
  ASSUME TypeInv, ReservationsFollowBooking, NoOverbooking,
         NEW b \in Bookings, ApproveAndReserve(b)
  PROVE  NoOverbooking'
<1>1. PICK r \in ActiveReqs(b) : Counted(r)
  BY DEF ApproveAndReserve, ReviewBlocked
<1>2. status[b] = "pending" /\ BookingOf[r] = b /\ r \in Reqs
  BY <1>1 DEF ApproveAndReserve, ActiveReqs, ReqsOf
<1>3. resv[r].status = "PENDING"
  BY <1>2 DEF ReservationsFollowBooking
<1>4. ~lapsed[b]
  BY <1>1, <1>2, <1>3 DEF Counted
<1>5. /\ lapsed' = lapsed
      /\ resv' = [q \in Reqs |->
                    IF q \in ReqsOf(b) /\ resv[q].status = "PENDING"
                    THEN [resv[q] EXCEPT !.status = "CONFIRMED"] ELSE resv[q]]
  BY DEF ApproveAndReserve
<1>6. \A q \in Reqs : resv[q] \in ReservationRecords
  BY DEF TypeInv, TypeOK, ReservationRecords
<1>7. ASSUME NEW q \in Reqs, Counted(q)'
      PROVE  /\ Counted(q) /\ resv'[q].sku = resv[q].sku /\ resv'[q].from = resv[q].from
             /\ resv'[q].to = resv[q].to
  <2>1. CASE q \in ReqsOf(b) /\ resv[q].status = "PENDING"
    BY <1>4, <1>5, <1>6, <2>1 DEF Counted, ReqsOf, ReservationRecords
  <2>2. CASE ~(q \in ReqsOf(b) /\ resv[q].status = "PENDING")
    BY <1>5, <1>7, <2>2 DEF Counted
  <2>3. QED
    BY <2>1, <2>2
<1>8. QED
  BY <1>7, FitsFewer

LEMMA FitsClose ==
  ASSUME TypeInv, NoOverbooking, NEW b, NEW s \in {"CANCELLED", "RELEASED"},
         CloseInventory(b, s), lapsed' = lapsed
  PROVE  NoOverbooking'
<1>1. \A q \in Reqs : Counted(q)' => resv'[q] = resv[q]
  BY CloseReservations DEF Counted
<1>2. QED
  BY <1>1, FitsFewer DEF Counted

(* Holds renewed before they lapse.                                         *)
RenewedInTime == \A b \in Bookings : RenewHold(b) => ~lapsed[b]

LEMMA FitsRequest ==
  ASSUME TypeInv, TypeInv', ReservationsFollowBooking, AlignedInv, OneStart, NoOverbooking,
         RenewedInTime, NEW b \in Bookings, RequestStep(b)
  PROVE  NoOverbooking'
<1>1. CASE \E f, t \in Days : f <= t /\ CreateBooking(b, f, t)
  BY <1>1, FitsCreate
<1>2. CASE HoldLapses(b)
  <2>1. resv' = resv /\ \A r \in Reqs : lapsed[BookingOf[r]] => lapsed'[BookingOf[r]]
    BY <1>2 DEF HoldLapses, TypeInv, TypeOK
  <2>2. QED
    BY <2>1, FitsFewer DEF Counted
<1>3. CASE RenewHold(b)
  <2>1. resv' = resv /\ lapsed' = lapsed
    BY <1>3 DEF RenewHold, RenewedInTime, TypeInv, TypeOK
  <2>2. QED
    BY <2>1, FitsFewer DEF Counted
<1>4. CASE ApproveAndReserve(b)
  BY <1>4, FitsApprove
<1>5. CASE RejectRequest(b) \/ CancelCommit(b) \/ Complete(b)
  BY <1>5, FitsClose DEF RejectRequest, CancelCommit, Complete
<1>6. CASE \E end \in Days : Extend(b, end)
  BY <1>6, FitsExtend
<1>7. CASE UNCHANGED <<resv, lapsed>>
  BY <1>7, FitsFewer DEF Counted
<1>8. QED
  BY <1>1, <1>2, <1>3, <1>4, <1>5, <1>6, <1>7 DEF RequestStep, CancelRequest, CancelFail,
     UpdateStatus, MarkOverdue

LEMMA NextFits ==
  ASSUME TypeInv, TypeInv', ReservationsFollowBooking, AlignedInv, OneStart, NoOverbooking,
         [Next /\ RenewedInTime]_vars
  PROVE  NoOverbooking'
<1>1. CASE UNCHANGED <<resv, lapsed>>
  BY <1>1, FitsFewer DEF Counted
<1>2. ASSUME RenewedInTime, NEW b \in Bookings, RequestStep(b)
      PROVE  NoOverbooking'
  BY <1>2, FitsRequest
<1>3. ASSUME NEW r \in Reqs, RequirementStep(r)
      PROVE  NoOverbooking'
  BY <1>1, <1>3, FitsSubstitute DEF RequirementStep, Assign, Prepare, HandOut, ReturnItems,
     MarkLost, TakeBack
<1>4. CASE ExpirePending
  <2>1. \A q \in Reqs : Counted(q)' => resv'[q] = resv[q]
    BY <1>4 DEF ExpirePending, Counted, LapsedHolds, TypeInv, TypeOK
  <2>2. lapsed' = lapsed
    BY <1>4 DEF ExpirePending
  <2>3. QED
    BY <2>1, <2>2, FitsFewer DEF Counted
<1>5. ASSUME NEW u \in Units, UnitStep(u)
      PROVE  UNCHANGED <<resv, lapsed>>
  BY <1>5 DEF UnitStep, StaffTransition, CompleteOtherInspection,
     CompleteReturnInspection, SetUnit
<1>6. ASSUME NEW x, ReleaseAssignment(x) \/ StartReturnInspection(x) \/ ResolveIssue(x)
      PROVE  UNCHANGED <<resv, lapsed>>
  BY <1>6 DEF ReleaseAssignment, StartReturnInspection, ResolveIssue, SetUnit
<1>7. QED
  BY <1>1, <1>2, <1>3, <1>4, <1>5, <1>6 DEF Next, vars

(* No day is ever promised more often than the SKU has units, as long as    *)
(* staff renew a hold only before it lapses: the one operation that takes   *)
(* capacity without looking at it is renewHold on a lapsed hold.            *)
THEOREM NeverOverbookedInTime == Spec /\ [][RenewedInTime]_vars => []NoOverbooking
<1>1. Init => NoOverbooking
  <2>1. ASSUME Init, NEW d \in Days, NEW s \in Skus
        PROVE  TotalQuantity(Load(s, d)) <= Stock(s)
    <3>1. Load(s, d) = {}
      BY <2>1 DEF Init, Load, Counted, NoReservation
    <3>2. TotalQuantity({}) = 0
      BY EmptySum DEF TotalQuantity
    <3>3. QED
      BY <3>1, <3>2, CapacityWithinStock
  <2>2. QED
    BY <2>1, FitsMeans
<1>2. /\ TypeInv /\ TypeInv' /\ ReservationsFollowBooking /\ AlignedInv /\ OneStart /\ NoOverbooking
      /\ [Next]_vars /\ [RenewedInTime]_vars
      => NoOverbooking'
  BY NextFits
<1>3. QED
  BY <1>1, <1>2, InductiveTypes, ReservationsAlwaysFollow, InductiveAligned,
     InductiveOneStart, PTL DEF Spec

(* Without renewals the days of no SKU are ever promised twice.             *)
THEOREM NeverOverbooked ==
  ASSUME MaxRenewals = 0
  PROVE  Spec => []NoOverbooking
<1>1. TypeInv /\ [Next]_vars => [RenewedInTime]_vars
  BY DEF RenewedInTime, RenewHold, TypeInv, TypeOK
<1>2. QED
  BY <1>1, NeverOverbookedInTime, InductiveTypes, PTL DEF Spec

-----------------------------------------------------------------------------
(* What one operation alone breaks.                                         *)

(* A sweep that expires holds nothing is assigned to yet.                   *)
SweepFindsNoUnit == ExpirePending => \A r \in LapsedHolds : AssignmentsOf(r) = {}

LEMMA NextHoldsNoUnit ==
  TypeInv /\ ReservationsFollowBooking /\ ClosedBookingsHoldNoUnit
    /\ [Next]_vars /\ [SweepFindsNoUnit]_vars => ClosedBookingsHoldNoUnit'
<1> SUFFICES ASSUME TypeInv, ReservationsFollowBooking, ClosedBookingsHoldNoUnit,
                    [Next]_vars, [SweepFindsNoUnit]_vars
             PROVE  ClosedBookingsHoldNoUnit'
  OBVIOUS
<1> DEFINE Closed(r) == status[BookingOf[r]] \in {"completed", "cancelled"}
<1>1. \A a \in asg : ~Closed(a.req) /\ a.req \in Reqs /\ BookingOf[a.req] \in Bookings
  BY IndexAssumption DEF ClosedBookingsHoldNoUnit, AssignmentsOfBooking, TypeInv, TypeOK, Assignments
<1>2. ASSUME \A a \in asg' : Closed(a.req)' => FALSE
      PROVE  ClosedBookingsHoldNoUnit'
  BY <1>2 DEF ClosedBookingsHoldNoUnit, AssignmentsOfBooking
<1>3. ASSUME NEW b \in Bookings, RequestStep(b)
      PROVE  \A a \in asg' : ~Closed(a.req)'
  <2>1. CASE \E s : CloseInventory(b, s) /\ \E new : status' = [status EXCEPT ![b] = new]
    BY <1>1, <2>1 DEF CloseInventory, AssignmentsOfBooking, TypeInv, TypeOK
  <2>2. CASE /\ asg' = asg
             /\ \E new \in BookingStatuses \ {"completed", "cancelled"} :
                  status' = [status EXCEPT ![b] = new]
    BY <1>1, <2>2 DEF TypeInv, TypeOK
  <2>3. CASE asg' = asg /\ status' = status
    BY <1>1, <2>3
  <2>4. CASE RejectRequest(b) \/ CancelCommit(b) \/ Complete(b)
    BY <2>1, <2>4 DEF RejectRequest, CancelCommit, Complete
  <2>5. CASE (\E f, t \in Days : CreateBooking(b, f, t)) \/ ApproveAndReserve(b)
             \/ MarkOverdue(b) \/ \E new \in {"delivered", "returned", "inspected"} : UpdateStatus(b, new)
    BY <2>2, <2>5 DEF CreateBooking, ApproveAndReserve, MarkOverdue, UpdateStatus, BookingStatuses
  <2>6. QED
    BY <1>3, <2>3, <2>4, <2>5 DEF RequestStep, HoldLapses, RenewHold, CancelRequest,
       CancelFail, Extend
<1>4. CASE ExpirePending
  <2>1. asg' = asg /\ status' = [b \in Bookings |-> IF b \in Emptied(LapsedHolds) THEN "cancelled" ELSE status[b]]
    BY <1>4 DEF ExpirePending
  <2>2. \A r \in LapsedHolds : AssignmentsOf(r) = {}
    BY <1>4 DEF SweepFindsNoUnit, ExpirePending, vars, TypeInv, TypeOK, LapsedHolds
  <2>3. ASSUME NEW a \in asg, BookingOf[a.req] \in Emptied(LapsedHolds)
        PROVE  FALSE
    <3>1. LiveResv(a.req) /\ a.req \in ReqsOf(BookingOf[a.req])
      BY <1>1, <2>3 DEF Emptied, ReservationsFollowBooking, LiveResv, ReqsOf
    <3>2. a.req \in LapsedHolds
      BY <2>3, <3>1 DEF Emptied
    <3>3. QED
      BY <2>2, <3>2 DEF AssignmentsOf
  <2>4. \A a \in asg' : ~Closed(a.req)'
    BY <1>1, <2>1, <2>3
  <2>5. QED
    BY <1>2, <2>4
<1>5. CASE status' = status /\ asg' \subseteq asg
  BY <1>1, <1>2, <1>5
<1>6. ASSUME NEW r \in Reqs, RequirementStep(r)
      PROVE  ClosedBookingsHoldNoUnit'
  <2>1. ASSUME NEW us \in SUBSET Units, Assign(r, us)
        PROVE  \A a \in asg' : ~Closed(a.req)'
    <3>1. ~Closed(r)
      BY <2>1 DEF Assign, ReservationsFollowBooking
    <3>2. \A a \in asg' : a \in asg \/ a.req = r
      BY <2>1 DEF Assign
    <3>3. status' = status
      BY <2>1 DEF Assign
    <3>4. QED
      BY <1>1, <3>1, <3>2, <3>3
  <2>2. QED
    BY <1>2, <1>5, <1>6, <2>1 DEF RequirementStep, Substitute, Prepare, HandOut,
       ReturnItems, MarkLost, TakeBack
<1>7. ASSUME NEW p \in Reqs \X Units, NEW decision, NEW today,
             CompleteReturnInspection(p, decision, today)
      PROVE  ClosedBookingsHoldNoUnit'
  <2>1. status' = status /\ \A n \in asg' : \E a \in asg : n = a \/ n = [a EXCEPT !.checked = TRUE]
    BY <1>7 DEF CompleteReturnInspection, SetUnit
  <2>2. \A a \in asg : [a EXCEPT !.checked = TRUE].req = a.req
    BY DEF TypeInv, TypeOK, Assignments
  <2>3. \A n \in asg' : ~Closed(n.req)'
    BY <1>1, <2>1, <2>2
  <2>4. QED
    BY <1>2, <2>3
<1>8. ASSUME NEW u \in Units, UnitStep(u)
      PROVE  ClosedBookingsHoldNoUnit'
  BY <1>5, <1>7, <1>8 DEF UnitStep, StaffTransition, CompleteOtherInspection, SetUnit
<1>9. ASSUME NEW x, ReleaseAssignment(x) \/ StartReturnInspection(x) \/ ResolveIssue(x)
      PROVE  ClosedBookingsHoldNoUnit'
  BY <1>5, <1>9 DEF ReleaseAssignment, StartReturnInspection, ResolveIssue, SetUnit
<1>10. CASE UNCHANGED vars
  BY <1>5, <1>10 DEF vars
<1>11. QED
  BY <1>2, <1>3, <1>4, <1>6, <1>8, <1>9, <1>10 DEF Next

(* Of all that closes a booking only the sweep leaves its units assigned:   *)
(* as long as it finds requests nothing is assigned to yet, no closed       *)
(* booking holds a unit.                                                    *)
THEOREM OnlySweepsStrandUnits == Spec /\ [][SweepFindsNoUnit]_vars => []ClosedBookingsHoldNoUnit
<1>1. Init => ClosedBookingsHoldNoUnit
  BY DEF Init, ClosedBookingsHoldNoUnit
<1>2. QED
  BY <1>1, NextHoldsNoUnit, InductiveTypes, ReservationsAlwaysFollow, PTL DEF Spec

(* An extension of a booking nothing is assigned to yet.                    *)
ExtendsUnassigned ==
  \A b \in Bookings, end \in Days : Extend(b, end) => AssignmentsOfBooking(b) = {}

(* Assignments are for the days of their reservations.                      *)
DaysCurrent == \A a \in asg : a.from = resv[a.req].from /\ a.to = resv[a.req].to

LEMMA NextDaysCurrent ==
  TypeInv /\ AlignedInv /\ DaysCurrent /\ [Next]_vars /\ [ExtendsUnassigned]_vars => DaysCurrent'
<1> SUFFICES ASSUME TypeInv, AlignedInv, DaysCurrent, [Next]_vars, [ExtendsUnassigned]_vars
             PROVE  DaysCurrent'
  OBVIOUS
<1>1. \A a \in asg : a.req \in Reqs /\ BookingOf[a.req] \in Bookings
  BY IndexAssumption DEF TypeInv, TypeOK, Assignments
<1>2. \A a \in asg : resv'[a.req].from = resv[a.req].from /\ resv'[a.req].to = resv[a.req].to
  <2>1. ASSUME NEW b \in Bookings, NEW f \in Days, NEW t \in Days, CreateBooking(b, f, t),
               NEW a \in asg
        PROVE  resv'[a.req] = resv[a.req]
    BY <1>1, <2>1 DEF CreateBooking, AlignedInv, ReqsOf
  <2>2. ASSUME NEW b \in Bookings, NEW end \in Days, Extend(b, end), NEW a \in asg
        PROVE  resv'[a.req].from = resv[a.req].from /\ resv'[a.req].to = resv[a.req].to
    <3>1. CASE UNCHANGED vars
      BY <3>1 DEF vars
    <3>2. CASE BookingOf[a.req] # b
      BY <1>1, <2>2, <3>2, ExtendMoves
    <3>3. CASE BookingOf[a.req] = b /\ ExtendsUnassigned
      BY <2>2, <3>3 DEF ExtendsUnassigned, AssignmentsOfBooking
    <3>4. QED
      BY <3>1, <3>2, <3>3
  <2>3. QED
    BY <1>1, <2>1, <2>2, DaysMove
<1>3. CASE asg' \subseteq asg
  BY <1>2, <1>3 DEF DaysCurrent
<1>4. ASSUME NEW r \in Reqs, NEW us \in SUBSET Units, Assign(r, us)
      PROVE  DaysCurrent'
  BY <1>4 DEF Assign, DaysCurrent
<1>5. ASSUME NEW p \in Reqs \X Units, NEW decision \in Decisions, NEW today \in Today,
             CompleteReturnInspection(p, decision, today)
      PROVE  DaysCurrent'
  <2>1. resv' = resv /\ \A n \in asg' : \E a \in asg : n = a \/ n = [a EXCEPT !.checked = TRUE]
    BY <1>5 DEF CompleteReturnInspection, SetUnit
  <2>2. \A a \in asg : LET n == [a EXCEPT !.checked = TRUE]
                       IN  n.req = a.req /\ n.from = a.from /\ n.to = a.to
    BY DEF TypeInv, TypeOK, Assignments
  <2>3. \A n \in asg' : \E a \in asg : n.req = a.req /\ n.from = a.from /\ n.to = a.to
    BY <2>1, <2>2
  <2>4. QED
    BY <2>1, <2>3 DEF DaysCurrent
<1>6. QED
  BY <1>3, <1>4, <1>5, AssignmentsOnlyEnd

(* Reservations that hold the same unit never cover the same day as long as *)
(* no booking is extended with units assigned: it is the days assignments   *)
(* keep through an extension that let two meet.                             *)
THEOREM OnlyExtensionsCollide == Spec /\ [][ExtendsUnassigned]_vars => []CommittedDaysDisjoint
<1>1. Init => DaysCurrent
  BY DEF Init, DaysCurrent
<1>2. NoDoubleAssignment /\ DaysCurrent => CommittedDaysDisjoint
  BY DEF NoDoubleAssignment, DaysCurrent, CommittedDaysDisjoint
<1>3. QED
  BY <1>1, <1>2, NextDaysCurrent, InductiveTypes, InductiveAligned, NeverDoubleAssigned, PTL DEF Spec

(* Units are handed out from the shop, not from another rental, and nobody  *)
(* but the return of the rental itself moves a unit that is out.            *)
HandsOutFromShop ==
  \A r \in Reqs, us \in SUBSET Units, today \in Today :
    HandOut(r, us, today) => \A u \in us : unit[u].op # "OUT_FOR_RENTAL"
LeavesRentalsAlone ==
  \A u \in Units :
    /\ unit[u].op = "OUT_FOR_RENTAL"
    /\ UnitStep(u) \/ \E r \in Reqs : StartReturnInspection(<<r, u>>)
    => unit'[u].op = "OUT_FOR_RENTAL"

(* The unit of an item that is out says so, and is out once.                *)
OutOnce ==
  /\ \A r \in Reqs : \A u \in out[r] : unit[u].op = "OUT_FOR_RENTAL"
  /\ SingleCustody

LEMMA NextOutOnce ==
  TypeInv /\ OutOnce /\ [Next]_vars /\ [HandsOutFromShop /\ LeavesRentalsAlone]_vars => OutOnce'
<1> SUFFICES ASSUME TypeInv, OutOnce, [Next]_vars, [HandsOutFromShop /\ LeavesRentalsAlone]_vars
             PROVE  OutOnce'
  OBVIOUS
<1>1. out \in [Reqs -> SUBSET Units] /\ unit \in [Units -> UnitStates]
  BY DEF TypeInv, TypeOK
<1>2. CASE out' = out /\ unit' = unit
  BY <1>2 DEF OutOnce, SingleCustody
<1>3. CASE UNCHANGED vars
  BY <1>2, <1>3 DEF vars
<1>4. ASSUME NEW r \in Reqs, NEW us \in SUBSET Units, NEW today \in Today, HandOut(r, us, today),
             HandsOutFromShop
      PROVE  OutOnce'
  <2>1. \A u \in us : \A s \in Reqs : u \notin out[s]
    BY <1>4 DEF HandsOutFromShop, OutOnce
  <2>2. out' = [out EXCEPT ![r] = @ \cup us]
    BY <1>4 DEF HandOut
  <2>3. \A u \in Units : unit'[u].op = IF u \in us THEN "OUT_FOR_RENTAL" ELSE unit[u].op
    BY <1>1, <1>4 DEF HandOut, UnitStates
  <2>4. \A s \in Reqs : \A u \in out'[s] : unit'[u].op = "OUT_FOR_RENTAL"
    BY <1>1, <2>2, <2>3 DEF OutOnce
  <2>5. SingleCustody'
    BY <1>1, <2>1, <2>2 DEF OutOnce, SingleCustody
  <2>6. QED
    BY <2>4, <2>5 DEF OutOnce
<1>5. ASSUME NEW r \in Reqs, NEW us \in SUBSET Units, out' = [out EXCEPT ![r] = @ \ us],
             us \subseteq out[r], \A u \in Units \ us : unit'[u].op = unit[u].op
      PROVE  OutOnce'
  <2>1. SingleCustody'
    BY <1>1, <1>5 DEF OutOnce, SingleCustody
  <2>2. \A s \in Reqs : out'[s] \subseteq out[s] \ us
    BY <1>1, <1>5 DEF OutOnce, SingleCustody
  <2>3. \A s \in Reqs : \A u \in out'[s] : unit'[u].op = "OUT_FOR_RENTAL"
    BY <1>1, <1>5, <2>2 DEF OutOnce
  <2>4. QED
    BY <2>1, <2>3 DEF OutOnce
<1>6. ASSUME NEW r \in Reqs, NEW us \in SUBSET Units, NEW today \in Today,
             ReturnItems(r, us, today) \/ MarkLost(r, us, today)
      PROVE  OutOnce'
  <2>1. out' = [out EXCEPT ![r] = @ \ us] /\ us \subseteq out[r]
    BY <1>6 DEF ReturnItems, MarkLost, TakeBack
  <2>2. \A u \in Units \ us : unit'[u].op = unit[u].op
    BY <1>6 DEF ReturnItems, MarkLost
  <2>3. QED
    BY <1>5, <2>1, <2>2
<1>7. ASSUME NEW u \in Units, out' = out,
             \E to : unit' = [unit EXCEPT ![u] = to],
             unit[u].op = "OUT_FOR_RENTAL" => unit'[u].op = "OUT_FOR_RENTAL"
      PROVE  OutOnce'
  BY <1>1, <1>7 DEF OutOnce, SingleCustody
<1>8. ASSUME NEW u \in Units, UnitStep(u), LeavesRentalsAlone
      PROVE  OutOnce'
  <2>1. out' = out /\ \E to : unit' = [unit EXCEPT ![u] = to]
    BY <1>8 DEF UnitStep, StaffTransition, CompleteOtherInspection, CompleteReturnInspection, SetUnit
  <2>2. unit[u].op = "OUT_FOR_RENTAL" => unit'[u].op = "OUT_FOR_RENTAL"
    BY <1>8 DEF LeavesRentalsAlone
  <2>3. QED
    BY <1>7, <2>1, <2>2
<1>9. ASSUME NEW p \in Reqs \X Units, StartReturnInspection(p), LeavesRentalsAlone
      PROVE  OutOnce'
  <2>1. PICK r \in Reqs, u \in Units : p = <<r, u>>
    OBVIOUS
  <2>2. out' = out /\ \E to : unit' = [unit EXCEPT ![u] = to]
    BY <1>9, <2>1 DEF StartReturnInspection, SetUnit
  <2>3. unit[u].op = "OUT_FOR_RENTAL" => unit'[u].op = "OUT_FOR_RENTAL"
    BY <1>9, <2>1 DEF LeavesRentalsAlone
  <2>4. QED
    BY <1>7, <2>2, <2>3
<1>10. ASSUME NEW r \in Reqs, RequirementStep(r), HandsOutFromShop
       PROVE  OutOnce'
  <2>1. CASE \/ \E us \in SUBSET Units : Assign(r, us)
             \/ \E sku \in Skus : Substitute(r, sku)
             \/ \E prep \in {"OPEN", "READY"} : Prepare(r, prep)
    BY <1>2, <2>1 DEF Assign, Substitute, Prepare
  <2>2. QED
    BY <1>4, <1>6, <1>10, <2>1 DEF RequirementStep
<1>11. ASSUME NEW b \in Bookings, RequestStep(b)
       PROVE  OutOnce'
  BY <1>2, <1>11 DEF RequestStep, CreateBooking, HoldLapses, RenewHold, ApproveAndReserve,
     RejectRequest, CancelRequest, CancelCommit, CancelFail, Extend, UpdateStatus, MarkOverdue,
     Complete
<1>12. ASSUME NEW x, ReleaseAssignment(x) \/ ResolveIssue(x)
       PROVE  OutOnce'
  BY <1>2, <1>12 DEF ReleaseAssignment, ResolveIssue
<1>13. CASE ExpirePending
  BY <1>2, <1>13 DEF ExpirePending
<1>14. QED
  BY <1>3, <1>8, <1>9, <1>10, <1>11, <1>12, <1>13 DEF Next

(* One customer has a unit at a time as long as no unit is handed out again *)
(* from a rental - the lifecycle service takes a unit that already is where *)
(* it is asked to be - and no staff move or inspection takes a unit off a   *)
(* rental that has not come back.                                           *)
THEOREM CustodyLostTwoWays ==
  Spec /\ [][HandsOutFromShop /\ LeavesRentalsAlone]_vars => []SingleCustody
<1>1. Init => OutOnce
  BY DEF Init, OutOnce, SingleCustody
<1>2. OutOnce => SingleCustody
  BY DEF OutOnce
<1>3. QED
  BY <1>1, <1>2, NextOutOnce, InductiveTypes, PTL DEF Spec

(* No booking is delivered while a cancellation of it is under way.         *)
NotDeliveredMeanwhile == \A b \in cancelling : ~UpdateStatus(b, "delivered")

(* A cancellation under way is of a booking that may be, or is, cancelled.  *)
Cancellable == \A b \in cancelling : status[b] \in {"pending", "confirmed", "cancelled"}

LEMMA NextCancellable ==
  TypeInv /\ Cancellable /\ [Next]_vars /\ [NotDeliveredMeanwhile]_vars => Cancellable'
<1> SUFFICES ASSUME TypeInv, Cancellable, [Next]_vars, [NotDeliveredMeanwhile]_vars
             PROVE  Cancellable'
  OBVIOUS
<1>0. status \in [Bookings -> BookingStatuses] /\ cancelling \subseteq Bookings
  BY DEF TypeInv, TypeOK
<1>1. CASE status' = status /\ cancelling' = cancelling
  BY <1>1 DEF Cancellable
<1>2. CASE UNCHANGED vars
  BY <1>1, <1>2 DEF vars
<1>3. ASSUME NEW b \in Bookings, RequestStep(b), NotDeliveredMeanwhile
      PROVE  Cancellable'
  <2>1. CASE \/ \E f, t \in Days : CreateBooking(b, f, t)
             \/ ApproveAndReserve(b) \/ RejectRequest(b) \/ CancelCommit(b)
    BY <1>0, <2>1 DEF CreateBooking, ApproveAndReserve, RejectRequest, CancelCommit, Cancellable
  <2>2. CASE CancelRequest(b) \/ CancelFail(b)
    BY <1>0, <2>2 DEF CancelRequest, CancelFail, Cancellable
  <2>3. ASSUME NEW new, StatusAllowed(b, new), new \in {"returned", "inspected", "overdue", "completed"},
               status' = [status EXCEPT ![b] = new], cancelling' = cancelling
        PROVE  Cancellable'
    <3>1. new \in VALID_TRANSITIONS[status[b]] /\ status[b] \in BookingStatuses
      BY <1>0, <2>3 DEF StatusAllowed
    <3>2. status[b] \notin {"pending", "confirmed", "cancelled"}
      BY <2>3, <3>1 DEF VALID_TRANSITIONS, BookingStatuses
    <3>3. QED
      BY <1>0, <2>3, <3>2 DEF Cancellable
  <2>4. CASE MarkOverdue(b) \/ Complete(b)
    BY <2>3, <2>4 DEF MarkOverdue, Complete
  <2>5. CASE \E new \in {"delivered", "returned", "inspected"} : UpdateStatus(b, new)
    <3>1. CASE UpdateStatus(b, "delivered")
      BY <1>0, <1>3, <3>1 DEF NotDeliveredMeanwhile, UpdateStatus, Cancellable
    <3>2. QED
      BY <2>3, <2>5, <3>1 DEF UpdateStatus
  <2>6. QED
    BY <1>1, <1>3, <2>1, <2>2, <2>4, <2>5 DEF RequestStep, HoldLapses, RenewHold, Extend
<1>4. ASSUME NEW r \in Reqs, RequirementStep(r)
      PROVE  Cancellable'
  BY <1>1, <1>4 DEF RequirementStep, Assign, Substitute, Prepare, HandOut, ReturnItems,
     MarkLost, TakeBack
<1>5. ASSUME NEW u \in Units, UnitStep(u)
      PROVE  Cancellable'
  BY <1>1, <1>5 DEF UnitStep, StaffTransition, CompleteOtherInspection,
     CompleteReturnInspection, SetUnit
<1>6. ASSUME NEW x, ReleaseAssignment(x) \/ StartReturnInspection(x) \/ ResolveIssue(x)
      PROVE  Cancellable'
  BY <1>1, <1>6 DEF ReleaseAssignment, StartReturnInspection, ResolveIssue, SetUnit
<1>7. CASE ExpirePending
  BY <1>0, <1>7 DEF ExpirePending, Emptied, Cancellable
<1>8. QED
  BY <1>2, <1>3, <1>4, <1>5, <1>6, <1>7 DEF Next

(* Only a cancellation that a delivery overtakes, between its check and its *)
(* transaction, cancels a booking that is neither a request nor confirmed:  *)
(* an approval, a rejection, a sweep or a second cancellation in between    *)
(* does no harm.                                                            *)
THEOREM OnlyDeliveryOvertakes ==
  Spec /\ [][NotDeliveredMeanwhile]_vars => CancelledFromPendingOrConfirmed
<1> DEFINE P == \A b \in Bookings : status'[b] = "cancelled" =>
                  status[b] \in {"pending", "confirmed", "cancelled"}
<1>1. TypeInv /\ Cancellable /\ [Next]_vars => [P]_vars
  <2> SUFFICES ASSUME TypeInv, Cancellable, Next
               PROVE  P
    OBVIOUS
  <2>1. CASE status' = status
    BY <2>1
  <2>2. ASSUME NEW b \in Bookings, RequestStep(b)
        PROVE  P
    <3>1. CASE \E new : new # "cancelled" /\ status' = [status EXCEPT ![b] = new]
      BY <3>1 DEF TypeInv, TypeOK
    <3>2. CASE \/ \E f, t \in Days : CreateBooking(b, f, t)
               \/ ApproveAndReserve(b) \/ MarkOverdue(b) \/ Complete(b)
               \/ \E new \in {"delivered", "returned", "inspected"} : UpdateStatus(b, new)
      BY <3>1, <3>2 DEF CreateBooking, ApproveAndReserve, MarkOverdue, Complete, UpdateStatus
    <3>3. CASE RejectRequest(b) \/ CancelCommit(b)
      BY <3>3 DEF RejectRequest, CancelCommit, Cancellable, TypeInv, TypeOK
    <3>4. QED
      BY <2>1, <2>2, <3>2, <3>3 DEF RequestStep, HoldLapses, RenewHold, CancelRequest,
         CancelFail, Extend
  <2>3. ASSUME NEW r \in Reqs, RequirementStep(r)
        PROVE  P
    BY <2>1, <2>3 DEF RequirementStep, Assign, Substitute, Prepare, HandOut, ReturnItems,
       MarkLost, TakeBack
  <2>4. ASSUME NEW u \in Units, UnitStep(u)
        PROVE  P
    BY <2>1, <2>4 DEF UnitStep, StaffTransition, CompleteOtherInspection,
       CompleteReturnInspection, SetUnit
  <2>5. ASSUME NEW x, ReleaseAssignment(x) \/ StartReturnInspection(x) \/ ResolveIssue(x)
        PROVE  P
    BY <2>1, <2>5 DEF ReleaseAssignment, StartReturnInspection, ResolveIssue, SetUnit
  <2>6. CASE ExpirePending
    BY <2>6 DEF ExpirePending, Emptied, TypeInv, TypeOK
  <2>7. QED
    BY <2>2, <2>3, <2>4, <2>5, <2>6 DEF Next
<1>2. Init => Cancellable
  BY DEF Init, Cancellable
<1>3. QED
  BY <1>1, <1>2, NextCancellable, InductiveTypes, PTL DEF Spec, CancelledFromPendingOrConfirmed

-----------------------------------------------------------------------------
(* The core implements RentalContract: what the contract sees of a step.    *)

(* The invariant the mapping of steps needs.                                *)
MapInv == CoreInv /\ NoDoubleAssignment /\ AlignedInv

(* Core steps leave the contract's view alone when they do not touch the    *)
(* assignments and the units out, nor move a booking between phases.        *)
Unseen == UNCHANGED <<Phases, Calendar, Away>>

LEMMA SamePhases ==
  ASSUME TypeInv, NEW b \in Bookings, NEW new,
         status' = [status EXCEPT ![b] = new],
         \/ status[b] \in {"NONE", "pending"} /\ new = "pending"
         \/ /\ status[b] \notin {"NONE", "pending", "completed", "cancelled"}
            /\ new \in {"delivered", "overdue", "returned", "inspected"}
  PROVE  Phases' = Phases
BY DEF TypeInv, TypeOK, Phases, Phase

LEMMA UnseenStep ==
  ASSUME asg' = asg, out' = out, Phases' = Phases
  PROVE  Unseen
BY DEF Unseen, Calendar, Away

LEMMA StatusUnchangedPhases ==
  ASSUME status' = status
  PROVE  Phases' = Phases
BY DEF Phases, Phase

(* assign.                                                                  *)
LEMMA AssignIsPromise ==
  ASSUME MapInv, NEW r \in Reqs, NEW us \in SUBSET Units, Assign(r, us)
  PROVE  \E f, t \in Days : Contract!Promise(r, us, f, t)
<1> DEFINE f == resv[r].from
           t == resv[r].to
           made(u) == [req |-> r, unit |-> u, from |-> f, to |-> t, checked |-> FALSE]
<1>1. f \in Days /\ t \in Days /\ BookingOf[r] \in Bookings
  BY IndexAssumption DEF MapInv, CoreInv, TypeInv, TypeOK
<1>2. Phases[BookingOf[r]] # "closed"
  BY <1>1 DEF MapInv, CoreInv, ReservationsFollowBooking, Assign, Phases, Phase
<1>3. \A p \in Calendar : p.unit \in us => p.to < f \/ t < p.from
  <2> SUFFICES ASSUME NEW a \in asg, a.unit \in us
               PROVE  a.to < f \/ t < a.from
    BY DEF Calendar
  <2>1. ~Overlap(a.from, a.to, f, t)
    BY DEF Assign, Free
  <2>2. a.from \in Int /\ a.to \in Int /\ f \in Int /\ t \in Int
    BY <1>1, BoundAssumption DEF MapInv, CoreInv, TypeInv, TypeOK, Assignments, Days
  <2>3. QED
    BY <2>1, <2>2 DEF Overlap
<1>4. Calendar' = Calendar \cup {[req |-> r, unit |-> u, from |-> f, to |-> t] : u \in us}
  <2>1. asg' = asg \cup {made(u) : u \in us}
    BY DEF Assign
  <2> DEFINE new == {[req |-> r, unit |-> u, from |-> f, to |-> t] : u \in us}
             seen(a) == [req |-> a.req, unit |-> a.unit, from |-> a.from, to |-> a.to]
  <2>2. \A u \in us : seen(made(u)) = [req |-> r, unit |-> u, from |-> f, to |-> t]
    OBVIOUS
  <2>3. Calendar = {seen(a) : a \in asg} /\ Calendar' = {seen(a) : a \in asg'}
    BY DEF Calendar
  <2> HIDE DEF made, seen
  <2>4. Calendar' \subseteq Calendar \cup new
    BY <2>1, <2>2, <2>3
  <2>5. Calendar \cup new \subseteq Calendar'
    BY <2>1, <2>2, <2>3
  <2>6. QED
    BY <2>4, <2>5
<1>5. Phases' = Phases /\ Away' = Away
  BY StatusUnchangedPhases DEF Assign, Away
<1> HIDE DEF f, t
<1>6. Contract!Promise(r, us, f, t)
  BY <1>2, <1>3, <1>4, <1>5 DEF Contract!Promise
<1>7. QED
  BY <1>1, <1>6

(* No two assignments look the same to the contract.                        *)
LEMMA DistinctPromises ==
  ASSUME MapInv, NEW a \in asg, NEW c \in asg,
         a.unit = c.unit, a.from = c.from, a.to = c.to
  PROVE  a = c
<1>1. a.from <= a.to
  BY DEF MapInv, AlignedInv
<1>2. QED
  BY <1>1 DEF MapInv, NoDoubleAssignment, Overlap

(* release.                                                                 *)
LEMMA ReleaseIsWithdrawal ==
  ASSUME MapInv, NEW a \in asg, ReleaseAssignment(a)
  PROVE  \E p \in Calendar : Contract!Withdraw(p)
<1> DEFINE p == [req |-> a.req, unit |-> a.unit, from |-> a.from, to |-> a.to]
<1>1. p \in Calendar
  BY DEF Calendar
<1>2. a.req \in Reqs
  BY DEF MapInv, CoreInv, TypeInv, TypeOK, Assignments
<1>3. out[a.req] = {}
  <2>1. ItemsOf(a.req) /\ TypeInv
    BY <1>2 DEF MapInv, CoreInv, ItemsInv
  <2>2. Cardinality(out[a.req]) + req[a.req].returned + req[a.req].lost = 0
    BY <2>1 DEF ItemsOf, ReleaseAssignment
  <2>3. Cardinality(out[a.req]) = 0
    BY <1>2, <2>1, <2>2, ItemsCounts
  <2>4. QED
    BY <1>2, <2>1, <2>3, ItemsCounts
<1>4. ~Contract!IsAway(p)
  BY <1>3 DEF Contract!IsAway, Away
<1>5. asg' = asg \ {a}
  BY DEF ReleaseAssignment
<1>6. \A c \in asg \ {a} :
        [req |-> c.req, unit |-> c.unit, from |-> c.from, to |-> c.to] # p
  BY DistinctPromises
<1>7. Calendar' = Calendar \ {p}
  BY <1>5, <1>6 DEF Calendar
<1>8. Phases' = Phases /\ Away' = Away
  BY StatusUnchangedPhases DEF ReleaseAssignment, Away
<1>9. QED
  BY <1>1, <1>4, <1>7, <1>8 DEF Contract!Withdraw

(* approveAndReserve.                                                       *)
LEMMA ApprovalIsCommitment ==
  ASSUME MapInv, NEW b \in Bookings, ApproveAndReserve(b)
  PROVE  Contract!Commit(b)
<1>1. status \in [Bookings -> BookingStatuses]
  BY DEF MapInv, CoreInv, TypeInv, TypeOK
<1>2. Phases[b] = "open" /\ Phases' = [Phases EXCEPT ![b] = "committed"]
  BY <1>1 DEF ApproveAndReserve, Phases, Phase
<1>3. Calendar' = Calendar /\ Away' = Away
  BY DEF ApproveAndReserve, Calendar, Away
<1>4. QED
  BY <1>2, <1>3 DEF Contract!Commit

(* recordEvent HANDED_OUT.                                                  *)
LEMMA HandOutIsHandOver ==
  ASSUME MapInv, NEW r \in Reqs, NEW us \in SUBSET Units, NEW today, HandOut(r, us, today)
  PROVE  Contract!HandOver(r, us)
<1>1. out \in [Reqs -> SUBSET Units] /\ BookingOf[r] \in Bookings
  BY IndexAssumption DEF MapInv, CoreInv, TypeInv, TypeOK
<1>2. Phases[BookingOf[r]] = "committed"
  BY <1>1 DEF HandOut, Phases, Phase
<1>3. \A u \in us : \E p \in Calendar : p.req = r /\ p.unit = u
  <2> SUFFICES ASSUME NEW u \in us
               PROVE  \E p \in Calendar : p.req = r /\ p.unit = u
    OBVIOUS
  <2>1. PICK a \in asg : a.req = r /\ a.unit = u
    BY DEF HandOut, Held, AssignmentsOf
  <2>2. [req |-> a.req, unit |-> a.unit, from |-> a.from, to |-> a.to] \in Calendar
    BY DEF Calendar
  <2>3. QED
    BY <2>1, <2>2
<1>4. out' = [out EXCEPT ![r] = @ \cup us]
  BY DEF HandOut
<1>5. Away' = Away \cup {<<r, u>> : u \in us}
  BY <1>1, <1>4 DEF Away
<1>6. Phases' = Phases /\ Calendar' = Calendar
  BY StatusUnchangedPhases DEF HandOut, Calendar
<1>7. QED
  BY <1>2, <1>3, <1>5, <1>6 DEF Contract!HandOver

(* recordEvent RETURNED and MARKED_LOST.                                    *)
LEMMA TakeBackIsTakeBack ==
  ASSUME MapInv, NEW r \in Reqs, NEW us \in SUBSET Units, NEW returned, NEW lost,
         TakeBack(r, us, returned, lost)
  PROVE  Contract!TakeBack(r, us)
<1>1. out \in [Reqs -> SUBSET Units]
  BY DEF MapInv, CoreInv, TypeInv, TypeOK
<1>2. /\ us \subseteq out[r]
      /\ out' = [out EXCEPT ![r] = @ \ us]
      /\ asg' = asg \ {a \in AssignmentsOf(r) : a.unit \in us}
  BY DEF TakeBack
<1>3. \A u \in us : <<r, u>> \in Away
  BY <1>2 DEF Away
<1>4. Away' = Away \ {<<r, u>> : u \in us}
  BY <1>1, <1>2 DEF Away
<1>5. Calendar' = {p \in Calendar : p.req # r \/ p.unit \notin us}
  BY <1>2 DEF Calendar, AssignmentsOf
<1>6. Phases' = Phases
  BY StatusUnchangedPhases DEF TakeBack
<1>7. QED
  BY <1>3, <1>4, <1>5, <1>6 DEF Contract!TakeBack

(* rejectRequest, cancelBooking's transaction and completion.               *)
LEMMA ClosingIsClose ==
  ASSUME MapInv, NEW b \in Bookings, NEW s, CloseInventory(b, s), out' = out,
         NEW closed \in {"cancelled", "completed"},
         status' = [status EXCEPT ![b] = closed],
         \A r \in ReqsOf(b) : out[r] = {}
  PROVE  Contract!Close({b})
<1>1. status \in [Bookings -> BookingStatuses]
  BY DEF MapInv, CoreInv, TypeInv, TypeOK
<1>2. Contract!NobodyAway(b)
  BY DEF Contract!NobodyAway, Away, ReqsOf
<1>3. Phases' = [c \in Bookings |-> IF c \in {b} THEN "closed" ELSE Phases[c]]
  BY <1>1 DEF Phases, Phase
<1>4. Calendar' = {p \in Calendar : BookingOf[p.req] \notin {b}}
  BY DEF CloseInventory, AssignmentsOfBooking, Calendar
<1>5. Away' = Away
  BY DEF Away
<1>6. QED
  BY <1>2, <1>3, <1>4, <1>5 DEF Contract!Close

(* expirePending.                                                           *)
LEMMA SweepIsClose ==
  ASSUME MapInv, ExpirePending
  PROVE  \E bs \in SUBSET Bookings : Contract!Close(bs)
<1> DEFINE bs == Emptied(LapsedHolds)
<1>1. bs \in SUBSET Bookings
  BY DEF Emptied
<1>2. \A b \in bs : status[b] = "pending"
  BY DEF Emptied
<1>3. \A b \in bs : \A r \in ReqsOf(b) : out[r] = {}
  BY <1>1, <1>2, NothingOut DEF MapInv
<1>4. \A b \in bs : Contract!NobodyAway(b)
  BY <1>3 DEF Contract!NobodyAway, Away, ReqsOf
<1>5. status' = [b \in Bookings |-> IF b \in bs THEN "cancelled" ELSE status[b]]
  BY DEF ExpirePending
<1> HIDE DEF bs
<1>6. Phases' = [b \in Bookings |-> IF b \in bs THEN "closed" ELSE Phases[b]]
  BY <1>5 DEF Phases, Phase
<1>7. Calendar' = Calendar /\ Away' = Away
  BY DEF ExpirePending, Calendar, Away
<1>8. QED
  BY <1>1, <1>4, <1>6, <1>7 DEF Contract!Close

(* A completed return inspection only marks an assignment.                  *)
LEMMA InspectionIsUnseen ==
  ASSUME MapInv, NEW p, NEW decision, NEW today, CompleteReturnInspection(p, decision, today)
  PROVE  Unseen
<1> DEFINE marked(a) == IF <<a.req, a.unit>> = p THEN [a EXCEPT !.checked = TRUE] ELSE a
           seen(a) == [req |-> a.req, unit |-> a.unit, from |-> a.from, to |-> a.to]
<1>1. \A a \in Assignments : seen(marked(a)) = seen(a)
  BY DEF Assignments
<1>2. asg \subseteq Assignments
  BY DEF MapInv, CoreInv, TypeInv, TypeOK
<1>3. asg' = {marked(a) : a \in asg}
  BY DEF CompleteReturnInspection
<1>4. Calendar = {seen(a) : a \in asg} /\ Calendar' = {seen(a) : a \in asg'}
  BY DEF Calendar
<1> HIDE DEF marked, seen
<1>5. Calendar' = Calendar
  BY <1>1, <1>2, <1>3, <1>4
<1>6. status' = status /\ out' = out
  BY DEF CompleteReturnInspection, SetUnit
<1>7. QED
  BY <1>5, <1>6, StatusUnchangedPhases DEF Unseen, Away

LEMMA RequestMaps ==
  ASSUME MapInv, NEW b \in Bookings, RequestStep(b)
  PROVE  Contract!Next \/ Unseen
<1>0. TypeInv /\ CoreInv
  BY DEF MapInv, CoreInv
<1>1. CASE \E f, t \in Days : f <= t /\ CreateBooking(b, f, t)
  BY <1>0, <1>1, SamePhases, UnseenStep DEF CreateBooking
<1>2. CASE HoldLapses(b) \/ RenewHold(b) \/ CancelRequest(b) \/ CancelFail(b)
  BY <1>2, StatusUnchangedPhases, UnseenStep
  DEF HoldLapses, RenewHold, CancelRequest, CancelFail
<1>3. CASE ApproveAndReserve(b)
  BY <1>3, ApprovalIsCommitment DEF Contract!Next
<1>4. CASE RejectRequest(b)
  <2>1. \A r \in ReqsOf(b) : out[r] = {}
    BY <1>0, <1>4, NothingOut DEF RejectRequest
  <2>2. Contract!Close({b})
    BY <1>4, <2>1, ClosingIsClose DEF RejectRequest
  <2>3. QED
    BY <2>2 DEF Contract!Next
<1>5. CASE CancelCommit(b)
  <2>1. \A r \in ReqsOf(b) : out[r] = {}
    BY <1>0, <1>5, NothingOut DEF CancelCommit
  <2>2. Contract!Close({b})
    BY <1>5, <2>1, ClosingIsClose DEF CancelCommit
  <2>3. QED
    BY <2>2 DEF Contract!Next
<1>6. CASE \E end \in Days : Extend(b, end)
  BY <1>6, StatusUnchangedPhases, UnseenStep DEF Extend
<1>7. CASE \E new \in {"delivered", "returned", "inspected"} : UpdateStatus(b, new)
  <2> PICK new \in {"delivered", "returned", "inspected"} : UpdateStatus(b, new)
    BY <1>7
  <2>1. new \in VALID_TRANSITIONS[status[b]] /\ status[b] \in BookingStatuses
    BY <1>0 DEF UpdateStatus, StatusAllowed, TypeInv, TypeOK
  <2>2. status[b] \notin {"NONE", "pending", "completed", "cancelled"}
    BY <2>1 DEF VALID_TRANSITIONS, BookingStatuses
  <2>3. QED
    BY <1>0, <2>2, SamePhases, UnseenStep DEF UpdateStatus
<1>8. CASE MarkOverdue(b)
  <2>1. "overdue" \in VALID_TRANSITIONS[status[b]] /\ status[b] \in BookingStatuses
    BY <1>0, <1>8 DEF MarkOverdue, StatusAllowed, TypeInv, TypeOK
  <2>2. status[b] \notin {"NONE", "pending", "completed", "cancelled"}
    BY <2>1 DEF VALID_TRANSITIONS, BookingStatuses
  <2>3. QED
    BY <1>0, <1>8, <2>2, SamePhases, UnseenStep DEF MarkOverdue
<1>9. CASE Complete(b)
  <2>1. \A r \in ReqsOf(b) : out[r] = {}
    BY <1>0, <1>9, NothingOut DEF Complete, StatusAllowed
  <2>2. Contract!Close({b})
    BY <1>9, <2>1, ClosingIsClose DEF Complete
  <2>3. QED
    BY <2>2 DEF Contract!Next
<1>10. QED
  BY <1>1, <1>2, <1>3, <1>4, <1>5, <1>6, <1>7, <1>8, <1>9 DEF RequestStep

LEMMA NextMaps == MapInv /\ [Next]_vars => [Contract!Next]_(Contract!contractVars)
<1> SUFFICES ASSUME MapInv, [Next]_vars
             PROVE  Contract!Next \/ Unseen
  BY DEF Contract!contractVars, Unseen
<1>1. ASSUME NEW r \in Reqs, RequirementStep(r)
      PROVE  Contract!Next \/ Unseen
  <2>1. ASSUME NEW us \in SUBSET Units, Assign(r, us)
        PROVE  Contract!Next
    BY <2>1, AssignIsPromise DEF Contract!Next
  <2>2. CASE \/ \E sku \in Skus : Substitute(r, sku)
             \/ \E prep \in {"OPEN", "READY"} : Prepare(r, prep)
    BY <2>2, StatusUnchangedPhases, UnseenStep DEF Substitute, Prepare
  <2>3. ASSUME NEW us \in SUBSET Units, NEW today, HandOut(r, us, today)
        PROVE  Contract!Next
    BY <2>3, HandOutIsHandOver DEF Contract!Next
  <2>4. ASSUME NEW us \in SUBSET Units, NEW today,
               ReturnItems(r, us, today) \/ MarkLost(r, us, today)
        PROVE  Contract!Next
    BY <2>4, TakeBackIsTakeBack DEF ReturnItems, MarkLost, Contract!Next
  <2>5. QED
    BY <1>1, <2>1, <2>2, <2>3, <2>4 DEF RequirementStep
<1>2. ASSUME NEW u \in Units, UnitStep(u)
      PROVE  Unseen
  <2>1. CASE asg' = asg
    <3>1. out' = out /\ status' = status
      BY <1>2 DEF UnitStep, StaffTransition, CompleteOtherInspection,
         CompleteReturnInspection, SetUnit
    <3>2. QED
      BY <2>1, <3>1, StatusUnchangedPhases, UnseenStep
  <2>2. QED
    BY <1>2, <2>1, InspectionIsUnseen DEF UnitStep, StaffTransition, CompleteOtherInspection
<1>3. ASSUME NEW a \in asg, ReleaseAssignment(a)
      PROVE  Contract!Next
  BY <1>3, ReleaseIsWithdrawal DEF Contract!Next
<1>4. ASSUME NEW p, StartReturnInspection(p) \/ ResolveIssue(p)
      PROVE  Unseen
  BY <1>4, StatusUnchangedPhases, UnseenStep DEF StartReturnInspection, ResolveIssue, SetUnit
<1>5. CASE ExpirePending
  BY <1>5, SweepIsClose DEF Contract!Next
<1>6. CASE UNCHANGED vars
  BY <1>6, StatusUnchangedPhases, UnseenStep DEF vars
<1>7. QED
  BY <1>1, <1>2, <1>3, <1>4, <1>5, <1>6, RequestMaps DEF Next

LEMMA InitMaps == Init => Contract!Init
<1> SUFFICES ASSUME Init
             PROVE  Contract!Init
  OBVIOUS
<1>1. Phases = [b \in Bookings |-> "open"]
  BY DEF Init, Phases, Phase
<1>2. Calendar = {} /\ Away = {}
  BY DEF Init, Calendar, Away
<1>3. QED
  BY <1>1, <1>2 DEF Contract!Init

(* Every behaviour of the rental core, seen through phases, promises and    *)
(* units away, is a behaviour of the contract.                              *)
THEOREM CoreImplementsContract == Spec => ImplementsContract
<1>1. Spec => []MapInv
  BY InductiveCore, NeverDoubleAssigned, InductiveAligned, PTL DEF MapInv
<1>2. QED
  BY <1>1, InitMaps, NextMaps, PTL DEF Spec, ImplementsContract, Contract!Spec
=============================================================================
