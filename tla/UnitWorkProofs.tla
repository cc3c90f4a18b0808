---------------------------- MODULE UnitWorkProofs ----------------------------
(***************************************************************************)
(* What keeps units out of the shop while work on them is owed, and lets    *)
(* them back, for any number of units, service orders, inspections and       *)
(* issues.  The argument: an inspection names only completed orders, so an   *)
(* order that is being completed is not inspected yet; a blocking order      *)
(* blocks the days it was planned for while it is open and, with an           *)
(* inspection owed, all days from the first of them on; and the inspection    *)
(* that pays the debt deletes the block.                                     *)
(* Work that ends moves its unit on.  And transfers, among any work: what a   *)
(* location has on hand covers its bookings unless work offered a unit that   *)
(* was being transferred.                                                    *)
(***************************************************************************)
EXTENDS StockTransfers, FiniteSetTheorems, TLAPS

OrdersTyped ==
  /\ order \in [Orders -> OrderRows]
  /\ inspection \in [Inspections -> InspectionRows]
  /\ issue \in [Issues -> IssueRows]

(* Inspections inspect completed orders only.                                *)
InspectsCompleted ==
  \A n \in Inspections : \A o \in inspection[n].order : order[o].status = "COMPLETED"

(* The block of an order.                                                    *)
BlockRight(o) ==
  /\ order[o].blocking => /\ Open(order, o) => order[o].block = order[o].plan
                          /\ Owing(o) => order[o].block = Onward(order[o].plan)
  /\ order[o].block # {} => Open(order, o) \/ Owing(o)

BlocksRight == \A o \in Orders : BlockRight(o)
DraftsBlock == \A n \in Inspections : inspection[n].block => inspection[n].status = "DRAFT"

Inv == /\ OrdersTyped /\ InspectsCompleted /\ BlocksRight /\ DraftsBlock
       /\ ResolvedIssuesHaveNoWork

(* Every day is one of those modelled.                                       *)
DayRight == today \in Days

LEMMA InitDay == WorkInit => DayRight
BY WorkAssumption DEF WorkInit, DayRight, Days

LEMMA NextDay == DayRight /\ [WorkNext]_workVars => DayRight'
<1>1. DayRight /\ DayPasses => DayRight'
  BY WorkAssumption DEF DayRight, DayPasses, Days
<1>2. DayRight /\ UNCHANGED today => DayRight'
  BY DEF DayRight
<1>3. [WorkNext]_workVars => DayPasses \/ UNCHANGED today
  <2>1. OrderStep => UNCHANGED today
    <3>1. \A o, u, type, blocking, scheduled, from, to, is :
             CreateOrder(o, u, type, blocking, scheduled, from, to, is) => UNCHANGED today
      BY DEF CreateOrder
    <3>2. \A o \in Orders : StartOrder(o) \/ CancelOrder(o) => UNCHANGED today
      BY DEF StartOrder, CancelOrder
    <3>3. \A o \in Orders, inspect \in BOOLEAN : CompleteOrder(o, inspect) => UNCHANGED today
      BY DEF CompleteOrder
    <3>4. QED
      BY <3>1, <3>2, <3>3 DEF OrderStep
  <2>2. InspectionStep => UNCHANGED today
    <3>1. \A n, u, blocks, os, ns :
             CreateInspection(n, u, blocks, os, ns) => UNCHANGED today
      BY DEF CreateInspection
    <3>2. \A n, decision, lacks, is, blocking, fs :
             CompleteInspection(n, decision, lacks, is, blocking, fs) => UNCHANGED today
      BY DEF CompleteInspection
    <3>3. QED
      BY <3>1, <3>2 DEF InspectionStep
  <2>3. (\E i \in Issues : ResolveIssue(i)) => UNCHANGED today
    BY DEF ResolveIssue
  <2>4. (\E u \in Units, op \in StaffTargets : StaffMoves(u, op)) => UNCHANGED today
    BY DEF StaffMoves
  <2>5. QED
    BY <2>1, <2>2, <2>3, <2>4 DEF WorkNext, workVars
<1>4. QED
  BY <1>1, <1>2, <1>3

LEMMA InitInv == WorkInit => Inv
<1> SUFFICES ASSUME WorkInit
             PROVE  Inv
  OBVIOUS
<1> USE DEF WorkInit
<1>1. OrdersTyped
  BY DEF OrdersTyped, OrderRows, InspectionRows, IssueRows, NoOrder, NoInspection, NoIssue
<1>2. InspectsCompleted /\ DraftsBlock
  BY DEF InspectsCompleted, DraftsBlock, NoInspection
<1>3. BlocksRight
  BY DEF BlocksRight, BlockRight, Owing, Open, NoOrder
<1>4. ResolvedIssuesHaveNoWork
  BY DEF ResolvedIssuesHaveNoWork, NoIssue
<1>5. QED
  BY <1>1, <1>2, <1>3, <1>4 DEF Inv

-----------------------------------------------------------------------------
(* An order that a step leaves alone, with the inspections made of it, keeps *)
(* its block as it should be.                                                *)
LEMMA Undisturbed ==
  ASSUME NEW o \in Orders, BlockRight(o), order'[o] = order[o],
         \A n \in Inspections :
           (o \in inspection[n].order /\ inspection[n].status \in {"COMPLETED", "SUPERSEDED"})
           <=> (o \in inspection'[n].order /\ inspection'[n].status \in {"COMPLETED", "SUPERSEDED"})
  PROVE  BlockRight(o)'
BY DEF BlockRight, Owing, Open

(* A step on one order alone.                                                *)
LEMMA OneOrder ==
  ASSUME Inv, NEW o \in Orders, NEW row \in OrderRows,
         order' = [order EXCEPT ![o] = row], inspection' = inspection,
         order[o].status = "COMPLETED" => row.status = "COMPLETED",
         BlockRight(o)'
  PROVE  /\ order' \in [Orders -> OrderRows]
         /\ InspectsCompleted' /\ BlocksRight' /\ DraftsBlock'
<1>1. /\ order \in [Orders -> OrderRows]
      /\ \A x \in Orders : order'[x] = IF x = o THEN row ELSE order[x]
  BY DEF Inv, OrdersTyped
<1>2. order' \in [Orders -> OrderRows]
  BY <1>1
<1>3. InspectsCompleted'
  BY <1>1 DEF Inv, InspectsCompleted, OrdersTyped, InspectionRows
<1>4. ASSUME NEW x \in Orders, x # o
      PROVE  BlockRight(x)'
  <2>1. order'[x] = order[x] /\ BlockRight(x)
    BY <1>1, <1>4 DEF Inv, BlocksRight
  <2>2. QED
    BY <2>1, Undisturbed
<1>5. BlocksRight'
  BY <1>4 DEF BlocksRight
<1>6. DraftsBlock'
  BY DEF Inv, DraftsBlock
<1>7. QED
  BY <1>2, <1>3, <1>5, <1>6

(* No inspection names an order that is not completed.                       *)
LEMMA NotInspected ==
  ASSUME Inv, NEW o \in Orders, order[o].status # "COMPLETED", NEW n \in Inspections
  PROVE  o \notin inspection[n].order
BY DEF Inv, InspectsCompleted

LEMMA Rows ==
  ASSUME Inv
  PROVE  /\ \A o \in Orders : order[o] \in OrderRows
         /\ \A n \in Inspections : inspection[n] \in InspectionRows
         /\ \A i \in Issues : issue[i] \in IssueRows
BY DEF Inv, OrdersTyped

LEMMA CreateOrderInv ==
  ASSUME Inv, NEW o \in Orders, NEW u \in Units, NEW type \in ServiceTypes,
         NEW blocking \in BOOLEAN, NEW scheduled \in BOOLEAN, NEW from \in Days, NEW to \in Days,
         NEW is \in SUBSET Issues, CreateOrder(o, u, type, blocking, scheduled, from, to, is)
  PROVE  Inv'
<1> DEFINE days == BlockDays(blocking, from, to)
           row == NewOrder(u, type, blocking, scheduled, days, is)
<1>1. row \in OrderRows
  <2>1. days \in SUBSET Days
    BY WorkAssumption DEF Days, BlockDays
  <2> HIDE DEF days
  <2>2. QED
    BY <2>1, WorkAssumption DEF NewOrder, OrderRows
<1>2. order' = [order EXCEPT ![o] = row] /\ inspection' = inspection
  BY DEF CreateOrder
<1>3. order'[o] = row /\ \A x \in Orders : x # o => order'[x] = order[x]
  BY <1>2 DEF Inv, OrdersTyped
<1>4. BlockRight(o)'
  <2>1. row.status \in {"REQUESTED", "SCHEDULED"} /\ row.block = row.plan
    BY DEF NewOrder
  <2> HIDE DEF row
  <2>2. QED
    BY <1>3, <2>1 DEF BlockRight, Owing, Open
<1>5. order[o].status = "none"
  BY DEF CreateOrder
<1>6. order' \in [Orders -> OrderRows] /\ InspectsCompleted' /\ BlocksRight' /\ DraftsBlock'
  <2> HIDE DEF row
  <2>1. QED
    BY <1>1, <1>2, <1>4, <1>5, OneOrder
<1>7. /\ \A i \in Issues : issue'[i] = IF i \in is THEN [issue[i] EXCEPT !.status = "IN_SERVICE"]
                                                    ELSE issue[i]
      /\ DOMAIN issue' = Issues
  BY DEF CreateOrder
<1>8. issue' \in [Issues -> IssueRows]
  <2>1. \A i \in Issues : [issue[i] EXCEPT !.status = "IN_SERVICE"] \in IssueRows
    BY Rows DEF IssueRows
  <2>2. QED
    BY <2>1, Rows DEF CreateOrder
<1>9. \A i \in Issues : issue'[i].status = "RESOLVED" => issue[i].status = "RESOLVED" /\ i \notin is
  BY <1>7, Rows DEF IssueRows
<1>10. ResolvedIssuesHaveNoWork'
  BY <1>3, <1>9 DEF NewOrder, Inv, ResolvedIssuesHaveNoWork, Open
<1>11. inspection' \in [Inspections -> InspectionRows]
  BY <1>2 DEF Inv, OrdersTyped
<1>12. QED
  BY <1>6, <1>8, <1>10, <1>11 DEF Inv, OrdersTyped
(* A step on one order that does not open it, and leaves the issues alone.   *)
LEMMA OneOrderInv ==
  ASSUME Inv, NEW o \in Orders, NEW row \in OrderRows,
         order' = [order EXCEPT ![o] = row], UNCHANGED <<inspection, issue>>,
         order[o].status = "COMPLETED" => row.status = "COMPLETED",
         BlockRight(o)',
         row.status \in {"REQUESTED", "SCHEDULED", "IN_PROGRESS"} => Open(order, o),
         row.issue = order[o].issue
  PROVE  Inv'
<1>1. order' \in [Orders -> OrderRows] /\ InspectsCompleted' /\ BlocksRight' /\ DraftsBlock'
  BY OneOrder
<1>2. OrdersTyped'
  BY <1>1 DEF Inv, OrdersTyped
<1>3. \A x \in Orders : order'[x] = IF x = o THEN row ELSE order[x]
  BY DEF Inv, OrdersTyped
<1>4. ResolvedIssuesHaveNoWork'
  BY <1>3 DEF Inv, ResolvedIssuesHaveNoWork, Open
<1>5. QED
  BY <1>1, <1>2, <1>4 DEF Inv

LEMMA StartOrderInv ==
  ASSUME Inv, NEW o \in Orders, StartOrder(o)
  PROVE  Inv'
<1> DEFINE row == [order[o] EXCEPT !.status = "IN_PROGRESS"]
<1>1. order[o] \in OrderRows /\ order[o].status \in {"REQUESTED", "SCHEDULED"} /\ UNCHANGED <<inspection, issue>>
  BY Rows DEF StartOrder
<1>2. /\ row \in OrderRows /\ row.status = "IN_PROGRESS" /\ row.blocking = order[o].blocking
      /\ row.plan = order[o].plan /\ row.block = order[o].block /\ row.issue = order[o].issue
  BY <1>1 DEF OrderRows
<1>3. order' = [order EXCEPT ![o] = row]
  BY DEF StartOrder
<1> HIDE DEF row
<1>4. order'[o] = row
  BY <1>3 DEF Inv, OrdersTyped
<1>5. BlockRight(o)
  BY DEF Inv, BlocksRight
<1>6. BlockRight(o)'
  BY <1>1, <1>2, <1>4, <1>5 DEF BlockRight, Owing, Open
<1>7. QED
  BY <1>1, <1>2, <1>3, <1>6, OneOrderInv DEF Open

(* A completed order that owes an inspection holds its block, and no         *)
(* inspection has been made of it yet.                                       *)
LEMMA CompleteOrderInv ==
  ASSUME Inv, NEW o \in Orders, NEW inspect \in BOOLEAN, CompleteOrder(o, inspect)
  PROVE  Inv'
<1> DEFINE row == [order[o] EXCEPT !.status = "COMPLETED", !.owes = inspect,
                                   !.block = BlockAfter(o, inspect)]
<1>1. order[o] \in OrderRows /\ Open(order, o) /\ UNCHANGED <<inspection, issue>>
  BY Rows DEF CompleteOrder, Completable
<1>2. BlockAfter(o, inspect) \in SUBSET Days
  BY DEF BlockAfter, Onward
<1>3. row \in OrderRows
  BY <1>1, <1>2 DEF OrderRows
<1>4. /\ row.status = "COMPLETED" /\ row.blocking = order[o].blocking /\ row.owes = inspect
      /\ row.plan = order[o].plan /\ row.block = BlockAfter(o, inspect) /\ row.issue = order[o].issue
  BY <1>1 DEF OrderRows
<1>5. order' = [order EXCEPT ![o] = row]
  <2>1. order' = [order EXCEPT ![o].status = "COMPLETED", ![o].owes = inspect,
                               ![o].block = BlockAfter(o, inspect)]
    BY DEF CompleteOrder
  <2>2. QED
    BY <2>1 DEF Inv, OrdersTyped, OrderRows
<1> HIDE DEF row
<1>6. order'[o] = row
  BY <1>5 DEF Inv, OrdersTyped
<1>7. Owing(o)' <=> inspect
  <2>1. \A n \in Inspections : o \notin inspection'[n].order
    BY <1>1, NotInspected DEF Open
  <2>2. Owing(o)' <=> row.status = "COMPLETED" /\ row.owes
    BY <1>6, <2>1 DEF Owing
  <2>3. QED
    BY <1>4, <2>2
<1>8. BlockRight(o)
  BY DEF Inv, BlocksRight
<1>9. BlockRight(o)'
  <2>1. ~Open(order, o)'
    BY <1>4, <1>6 DEF Open
  <2>2. order[o].blocking => order[o].block = order[o].plan
    BY <1>1, <1>8 DEF BlockRight
  <2>3. CASE inspect
    BY <1>4, <1>6, <1>7, <2>1, <2>2, <2>3 DEF BlockRight, BlockAfter
  <2>4. CASE ~inspect
    BY <1>4, <1>6, <1>7, <2>1, <2>2, <2>4 DEF BlockRight, BlockAfter
  <2>5. QED
    BY <2>3, <2>4
<1>10. QED
  BY <1>1, <1>3, <1>4, <1>5, <1>9, OneOrderInv DEF Open

LEMMA CancelOrderInv ==
  ASSUME Inv, NEW o \in Orders, CancelOrder(o)
  PROVE  Inv'
<1> DEFINE row == [order[o] EXCEPT !.status = "CANCELLED", !.block = {}]
<1>1. order[o] \in OrderRows /\ Open(order, o) /\ inspection' = inspection
  BY Rows DEF CancelOrder
<1>2. row \in OrderRows /\ row.status = "CANCELLED" /\ row.block = {}
  BY <1>1 DEF OrderRows
<1>3. order' = [order EXCEPT ![o] = row]
  <2>1. order' = [order EXCEPT ![o].status = "CANCELLED", ![o].block = {}]
    BY DEF CancelOrder
  <2>2. QED
    BY <2>1 DEF Inv, OrdersTyped, OrderRows
<1> HIDE DEF row
<1>4. \A x \in Orders : order'[x] = IF x = o THEN row ELSE order[x]
  BY <1>3 DEF Inv, OrdersTyped
<1>5. BlockRight(o)'
  BY <1>2, <1>4 DEF BlockRight, Owing, Open
<1>6. order' \in [Orders -> OrderRows] /\ InspectsCompleted' /\ BlocksRight' /\ DraftsBlock'
  BY <1>1, <1>2, <1>3, <1>5, OneOrder DEF Open
<1>7. /\ issue' \in [Issues -> IssueRows]
      /\ \A i \in Issues : issue'[i].status = "RESOLVED" => issue[i].status = "RESOLVED"
  <2>1. \A i \in Issues : [issue[i] EXCEPT !.status = "OPEN"] \in IssueRows
    BY Rows DEF IssueRows
  <2>2. \A i \in Issues : [issue[i] EXCEPT !.status = "OPEN"].status = "OPEN"
    BY Rows DEF IssueRows
  <2>3. QED
    BY <2>1, <2>2, Rows DEF CancelOrder
<1>8. ResolvedIssuesHaveNoWork'
  BY <1>2, <1>4, <1>7 DEF Inv, ResolvedIssuesHaveNoWork, Open
<1>9. inspection' \in [Inspections -> InspectionRows]
  BY <1>1 DEF Inv, OrdersTyped
<1>10. QED
  BY <1>6, <1>7, <1>8, <1>9 DEF Inv, OrdersTyped

-----------------------------------------------------------------------------
(* Inspections and issues.                                                   *)

LEMMA CreateInspectionInv ==
  ASSUME Inv, NEW n \in Inspections, NEW u \in Units, NEW blocks \in BOOLEAN,
         NEW os \in SUBSET Orders, NEW ns \in SUBSET Inspections,
         CreateInspection(n, u, blocks, os, ns)
  PROVE  Inv'
<1> DEFINE row == [status |-> "DRAFT", unit |-> {u}, order |-> os, block |-> blocks, amends |-> ns]
<1>1. /\ row \in InspectionRows /\ row.status = "DRAFT" /\ row.order = os
  BY DEF InspectionRows
<1>2. /\ inspection' = [inspection EXCEPT ![n] = row] /\ UNCHANGED <<order, issue>>
      /\ inspection[n].status = "none"
      /\ \A o \in os : order[o].status = "COMPLETED"
  BY DEF CreateInspection
<1> HIDE DEF row
<1>3. \A m \in Inspections : inspection'[m] = IF m = n THEN row ELSE inspection[m]
  BY <1>2 DEF Inv, OrdersTyped
<1>4. OrdersTyped'
  BY <1>1, <1>2 DEF Inv, OrdersTyped
<1>5. InspectsCompleted' /\ DraftsBlock'
  BY <1>1, <1>2, <1>3 DEF Inv, InspectsCompleted, DraftsBlock
<1>6. ASSUME NEW o \in Orders
      PROVE  BlockRight(o)'
  <2>1. \A m \in Inspections :
           (o \in inspection[m].order /\ inspection[m].status \in {"COMPLETED", "SUPERSEDED"})
           <=> (o \in inspection'[m].order /\ inspection'[m].status \in {"COMPLETED", "SUPERSEDED"})
    BY <1>1, <1>2, <1>3
  <2>2. BlockRight(o) /\ order'[o] = order[o]
    BY <1>2 DEF Inv, BlocksRight
  <2>3. QED
    BY <2>1, <2>2, Undisturbed
<1>7. BlocksRight'
  BY <1>6 DEF BlocksRight
<1>8. ResolvedIssuesHaveNoWork'
  BY <1>2 DEF Inv, ResolvedIssuesHaveNoWork, Open
<1>9. QED
  BY <1>4, <1>5, <1>7, <1>8 DEF Inv

(* What a decision that asks for work adds.                                  *)
LEMMA FollowupRow ==
  ASSUME DayRight, NEW decision \in DOMAIN serviceTypeForDecision, NEW u \in Units, NEW f \in Orders
  PROVE  /\ Followup(decision, u, f) \in OrderRows
         /\ Followup(decision, u, f).status = "IN_PROGRESS"
         /\ Followup(decision, u, f).block = Followup(decision, u, f).plan
         /\ Followup(decision, u, f).issue = {}
<1>1. serviceTypeForDecision[decision] \in {"CLEANING", "WASHING", "REPAIR"}
  BY DEF serviceTypeForDecision
<1>2. today..MaxDay \in SUBSET Days
  BY WorkAssumption DEF DayRight, Days
<1>3. QED
  BY <1>1, <1>2 DEF Followup, OrderRows

(* The inspection that pays an order's debt deletes its block; the order that *)
(* follows from it is open and holds its own.                                *)
LEMMA CompleteInspectionInv ==
  ASSUME Inv, DayRight, NEW n \in Inspections, NEW decision \in Decisions, NEW lacks \in BOOLEAN,
         NEW is \in SUBSET Issues, NEW blocking \in BOOLEAN, NEW fs \in SUBSET Orders,
         CompleteInspection(n, decision, lacks, is, blocking, fs)
  PROVE  Inv'
<1>1. PICK u \in inspection[n].unit :
        /\ inspection[n].status = "DRAFT"
        /\ fs # {} => decision \in DOMAIN serviceTypeForDecision
        /\ \A f \in fs : order[f].status = "none"
        /\ issue' = [i \in Issues |->
             IF i \in is THEN [status |-> "OPEN", unit |-> {u}, blocking |-> blocking] ELSE issue[i]]
        /\ inspection' = [m \in Inspections |->
             IF m = n THEN [inspection[n] EXCEPT !.status = "COMPLETED", !.block = FALSE]
             ELSE IF m \in inspection[n].amends /\ inspection[m].status = "COMPLETED"
             THEN [inspection[m] EXCEPT !.status = "SUPERSEDED"] ELSE inspection[m]]
        /\ order' = [o \in Orders |-> IF o \in fs THEN Followup(decision, u, o)
                                                  ELSE OrderInspected(n)[o]]
  BY DEF CompleteInspection
<1>2. u \in Units /\ inspection[n] \in InspectionRows
  BY Rows DEF InspectionRows
<1>3. \A m \in Inspections :
        /\ inspection'[m] \in InspectionRows /\ inspection'[m].order = inspection[m].order
        /\ m = n => inspection'[m].status = "COMPLETED" /\ inspection'[m].block = FALSE
        /\ m # n => \/ inspection'[m] = inspection[m]
                    \/ /\ inspection[m].status = "COMPLETED" /\ inspection'[m].status = "SUPERSEDED"
                       /\ inspection'[m].block = inspection[m].block
  <2> TAKE m \in Inspections
  <2>1. inspection[m] \in InspectionRows
    BY Rows
  <2>2. CASE m = n
    BY <1>1, <2>1, <2>2 DEF InspectionRows
  <2>3. CASE m # n /\ m \in inspection[n].amends /\ inspection[m].status = "COMPLETED"
    BY <1>1, <2>1, <2>3 DEF InspectionRows
  <2>4. CASE m # n /\ ~(m \in inspection[n].amends /\ inspection[m].status = "COMPLETED")
    BY <1>1, <2>1, <2>4
  <2>5. QED
    BY <2>2, <2>3, <2>4
<1>4. ASSUME NEW o \in Orders, o \in fs
      PROVE  /\ order'[o] \in OrderRows /\ order'[o].status = "IN_PROGRESS"
             /\ order'[o].block = order'[o].plan /\ order'[o].issue = {}
  <2>1. order'[o] = Followup(decision, u, o) /\ decision \in DOMAIN serviceTypeForDecision
    BY <1>1, <1>4
  <2>2. QED
    BY <1>2, <2>1, FollowupRow
<1>5. ASSUME NEW o \in Orders, o \notin fs
      PROVE  /\ order'[o] \in OrderRows /\ order'[o].status = order[o].status
             /\ order'[o].issue = order[o].issue
             /\ IF o \in inspection[n].order THEN order'[o].block = {}
                                             ELSE order'[o] = order[o]
  <2>1. order'[o] = IF o \in inspection[n].order THEN [order[o] EXCEPT !.block = {}]
                                                 ELSE order[o]
    BY <1>1, <1>5 DEF OrderInspected
  <2>2. order[o] \in OrderRows
    BY Rows
  <2>3. QED
    BY <2>1, <2>2 DEF OrderRows
<1>6. \A m \in Inspections : \A o \in inspection[m].order :
        o \in Orders /\ order[o].status = "COMPLETED" /\ o \notin fs
  BY <1>1, Rows DEF InspectionRows, Inv, InspectsCompleted
<1>7. OrdersTyped'
  <2>1. order' \in [Orders -> OrderRows]
    BY <1>1, <1>4, <1>5
  <2>2. inspection' \in [Inspections -> InspectionRows]
    BY <1>1, <1>3
  <2>3. issue' \in [Issues -> IssueRows]
    <3>1. [status |-> "OPEN", unit |-> {u}, blocking |-> blocking] \in IssueRows
      BY <1>2 DEF IssueRows
    <3>2. QED
      BY <1>1, <3>1, Rows
  <2>4. QED
    BY <2>1, <2>2, <2>3 DEF OrdersTyped
<1>8. InspectsCompleted'
  BY <1>3, <1>5, <1>6 DEF InspectsCompleted
<1>9. DraftsBlock'
  BY <1>3 DEF Inv, DraftsBlock
<1>10. ASSUME NEW o \in Orders
       PROVE  BlockRight(o)'
  <2>1. CASE o \in fs
    BY <1>4, <2>1 DEF BlockRight, Owing, Open
  <2>2. CASE o \notin fs /\ o \in inspection[n].order
    <3>1. order'[o].status = "COMPLETED" /\ order'[o].block = {}
      BY <1>5, <1>6, <2>2
    <3>2. ~Owing(o)'
      BY <1>3, <2>2 DEF Owing
    <3>3. QED
      BY <3>1, <3>2 DEF BlockRight, Open
  <2>3. CASE o \notin fs /\ o \notin inspection[n].order
    <3>1. order'[o] = order[o] /\ BlockRight(o)
      BY <1>5, <2>3 DEF Inv, BlocksRight
    <3>2. \A m \in Inspections :
            (o \in inspection[m].order /\ inspection[m].status \in {"COMPLETED", "SUPERSEDED"})
            <=> (o \in inspection'[m].order /\ inspection'[m].status \in {"COMPLETED", "SUPERSEDED"})
      BY <1>3, <2>3
    <3>3. QED
      BY <3>1, <3>2, Undisturbed
  <2>4. QED
    BY <2>1, <2>2, <2>3
<1>11. BlocksRight'
  BY <1>10 DEF BlocksRight
<1>12. ResolvedIssuesHaveNoWork'
  <2> SUFFICES ASSUME NEW i \in Issues, issue'[i].status = "RESOLVED", NEW o \in Orders,
                      Open(order', o), i \in order'[o].issue
               PROVE  FALSE
    BY DEF ResolvedIssuesHaveNoWork
  <2>1. issue[i].status = "RESOLVED"
    BY <1>1
  <2>2. o \notin fs
    BY <1>4
  <2>3. Open(order, o) /\ i \in order[o].issue
    BY <1>5, <2>2 DEF Open
  <2>4. QED
    BY <2>1, <2>3 DEF Inv, ResolvedIssuesHaveNoWork
<1>13. QED
  BY <1>7, <1>8, <1>9, <1>11, <1>12 DEF Inv

(* An issue is resolved when no open order names it.                         *)
LEMMA ResolveIssueInv ==
  ASSUME Inv, NEW i \in Issues, ResolveIssue(i)
  PROVE  Inv'
<1>1. UNCHANGED <<order, inspection>> /\ activeServices(i) = {}
      /\ issue' = [issue EXCEPT ![i].status = "RESOLVED"]
  BY DEF ResolveIssue
<1>2. OrdersTyped'
  <2>1. [issue[i] EXCEPT !.status = "RESOLVED"] \in IssueRows
    BY Rows DEF IssueRows
  <2>2. QED
    BY <1>1, <2>1 DEF Inv, OrdersTyped
<1>3. \A j \in Issues : j # i => issue'[j] = issue[j]
  BY <1>1 DEF Inv, OrdersTyped
<1>4. ResolvedIssuesHaveNoWork'
  BY <1>1, <1>3 DEF Inv, ResolvedIssuesHaveNoWork, activeServices, Open
<1>5. InspectsCompleted' /\ BlocksRight' /\ DraftsBlock'
  BY <1>1 DEF Inv, InspectsCompleted, BlocksRight, BlockRight, Owing, Open, DraftsBlock
<1>6. QED
  BY <1>2, <1>4, <1>5 DEF Inv

LEMMA NextInv == Inv /\ DayRight /\ [WorkNext]_workVars => Inv'
<1> SUFFICES ASSUME Inv, DayRight, [WorkNext]_workVars
             PROVE  Inv'
  OBVIOUS
<1>1. CASE OrderStep
  <2>1. AtMostOne(Issues) \subseteq SUBSET Issues
    BY DEF AtMostOne
  <2>2. QED
    BY <1>1, <2>1, CreateOrderInv, StartOrderInv, CompleteOrderInv,
       CancelOrderInv DEF OrderStep
<1>2. CASE InspectionStep
  <2>1. /\ AtMostOne(Issues) \subseteq SUBSET Issues
        /\ AtMostOne(Orders) \subseteq SUBSET Orders
        /\ AtMostOne(Inspections) \subseteq SUBSET Inspections
    BY DEF AtMostOne
  <2>2. QED
    BY <1>2, <2>1, CreateInspectionInv, CompleteInspectionInv DEF InspectionStep
<1>3. ASSUME NEW i \in Issues, ResolveIssue(i)
      PROVE  Inv'
  BY <1>3, ResolveIssueInv
<1>4. CASE UNCHANGED <<order, inspection, issue>>
  BY <1>4 DEF Inv, OrdersTyped, InspectsCompleted, BlocksRight, BlockRight, Owing, Open,
     DraftsBlock, ResolvedIssuesHaveNoWork
<1>5. QED
  BY <1>1, <1>2, <1>3, <1>4 DEF WorkNext, DayPasses, StaffMoves, workVars

-----------------------------------------------------------------------------
(* Units move between the states the lifecycle knows.                        *)

UnitsTyped == unit \in [Units -> UnitStates] /\ incomplete \subseteq Units

LEMMA MoveType ==
  ASSUME UnitsTyped, NEW u \in Units, NEW op \in OperationalStates, MovesTo(u, op)
  PROVE  unit' \in [Units -> UnitStates]
<1>1. [unit[u] EXCEPT !.op = op] \in UnitStates
  BY DEF UnitsTyped, UnitStates
<1>2. unit' = [unit EXCEPT ![u] = [unit[u] EXCEPT !.op = op]]
  BY DEF MovesTo, Transition
<1>3. QED
  BY <1>1, <1>2 DEF UnitsTyped

LEMMA NextUnits == Inv /\ UnitsTyped /\ [WorkNext]_workVars => UnitsTyped'
<1> SUFFICES ASSUME Inv, UnitsTyped, [WorkNext]_workVars
             PROVE  UnitsTyped'
  OBVIOUS
<1>1. ASSUME NEW o \in Orders,
             StartOrder(o) \/ CancelOrder(o) \/ \E inspect \in BOOLEAN : CompleteOrder(o, inspect)
      PROVE  UnitsTyped'
  <2>1. order[o].type \in {"PREPARATION", "CLEANING", "WASHING", "REPAIR"}
        /\ order[o].unit \subseteq Units
    BY Rows DEF OrderRows
  <2>2. operationalStateFor[order[o].type] \in OperationalStates
    BY <2>1 DEF operationalStateFor, OperationalStates
  <2>3. \A inspect \in BOOLEAN : StateAfter(o, inspect) \in OperationalStates
    BY DEF StateAfter, OperationalStates
  <2>4. "AWAITING_INSPECTION" \in OperationalStates
    BY DEF OperationalStates
  <2>5. unit' = unit \/ \E u \in Units, op \in OperationalStates : MovesTo(u, op)
    BY <1>1, <2>1, <2>2, <2>3, <2>4 DEF StartOrder, CancelOrder, CompleteOrder
  <2>6. unit' \in [Units -> UnitStates]
    BY <2>5, MoveType DEF UnitsTyped
  <2>7. incomplete' = incomplete
    BY <1>1 DEF StartOrder, CancelOrder, CompleteOrder
  <2>8. QED
    BY <2>6, <2>7 DEF UnitsTyped
<1>2. ASSUME NEW n \in Inspections, NEW decision \in Decisions, NEW lacks \in BOOLEAN,
             NEW is, NEW blocking, NEW fs, CompleteInspection(n, decision, lacks, is, blocking, fs)
      PROVE  UnitsTyped'
  <2>1. LifecycleTarget[decision] \in UnitStates
    <3>1. decision \in InspectionDecisions
      BY WorkAssumption
    <3>2. QED
      BY <3>1 DEF InspectionDecisions, LifecycleTarget, UnitStates, Rentable, Dispositions,
         OperationalStates
  <2>2. PICK u \in inspection[n].unit :
          /\ incomplete' = IF lacks THEN incomplete \cup {u} ELSE incomplete \ {u}
          /\ unit' = [unit EXCEPT ![u] = LifecycleTarget[decision]]
    BY <1>2 DEF CompleteInspection, Transition
  <2>3. u \in Units
    BY Rows DEF InspectionRows
  <2>4. QED
    BY <2>1, <2>2, <2>3 DEF UnitsTyped
<1>3. ASSUME NEW u \in Units, NEW op \in StaffTargets, StaffMoves(u, op)
      PROVE  UnitsTyped'
  <2>1. op \in OperationalStates /\ MovesTo(u, op) /\ incomplete' = incomplete
    BY <1>3, WorkAssumption DEF StaffMoves
  <2>2. QED
    BY <2>1, MoveType DEF UnitsTyped
<1>4. CASE UNCHANGED <<unit, incomplete>>
  BY <1>4 DEF UnitsTyped
<1>5. QED
  BY <1>1, <1>2, <1>3, <1>4 DEF WorkNext, OrderStep, InspectionStep, CreateOrder,
     DayPasses, CreateInspection, ResolveIssue, workVars

(* The state keeps its shape, and units only stand in states of the lifecycle. *)
THEOREM TypeCorrect == WorkSpec => []WorkTypeOK
<1>1. WorkInit => UnitsTyped
  BY DEF WorkInit, UnitsTyped, Rentable, UnitStates, Dispositions, OperationalStates
<1>2. Inv /\ UnitsTyped /\ DayRight => WorkTypeOK
  BY DEF Inv, OrdersTyped, UnitsTyped, DayRight, WorkTypeOK
<1>3. QED
  BY InitInv, NextInv, NextUnits, InitDay, NextDay, <1>1, <1>2, PTL DEF WorkSpec

(* For any number of units, orders, inspections, issues and days: a unit is   *)
(* never offered for a day that open blocking work was planned for, nor, once *)
(* the work is complete and owes an inspection, for any day from the work's   *)
(* first on; so from that day an owed inspection keeps it off rent for good.  *)
THEOREM WorkAlwaysKeepsItsDays == WorkSpec => []WorkKeepsItsDays
<1>1. Inv /\ DayRight => WorkKeepsItsDays
  <2> SUFFICES ASSUME Inv, DayRight, NEW u \in Units, NEW d \in today..MaxDay, OfferedOn(u, d),
                      NEW o \in Orders, order[o].unit = {u}, order[o].blocking
               PROVE  /\ Open(order, o) => d \notin order[o].plan
                      /\ Owing(o) => \A e \in order[o].plan : d < e
    BY DEF WorkKeepsItsDays
  <2>1. d \notin order[o].block
    BY DEF OfferedOn, Blocked
  <2>2. BlockRight(o)
    BY DEF Inv, BlocksRight
  <2>3. d \in Days /\ order[o].plan \subseteq Days
    BY Rows, WorkAssumption DEF DayRight, Days, OrderRows
  <2>4. ASSUME Owing(o), NEW e \in order[o].plan
        PROVE  d < e
    <3>1. d \notin Onward(order[o].plan)
      BY <2>1, <2>2, <2>4 DEF BlockRight
    <3>2. ~(e <= d)
      BY <2>3, <2>4, <3>1 DEF Onward
    <3>3. QED
      BY <2>3, <2>4, <3>2, WorkAssumption DEF Days
  <2>5. QED
    BY <2>1, <2>2, <2>4 DEF BlockRight
<1>2. QED
  BY InitInv, NextInv, InitDay, NextDay, <1>1, PTL DEF WorkSpec

(* Finished work lets its unit go: a block is never left to an order that is *)
(* over and owes nothing, nor to an inspection that is over.                 *)
THEOREM BlocksAlwaysReleased == WorkSpec => []BlocksAreReleased
<1>1. Inv => BlocksAreReleased
  BY DEF Inv, BlocksRight, BlockRight, DraftsBlock, BlocksAreReleased
<1>2. QED
  BY InitInv, NextInv, InitDay, NextDay, <1>1, PTL DEF WorkSpec

(* Whoever resolves it, and whatever is created meanwhile, a resolved issue  *)
(* has no open work.                                                         *)
THEOREM ResolvedForGood == WorkSpec => []ResolvedIssuesHaveNoWork
<1>1. Inv => ResolvedIssuesHaveNoWork
  BY DEF Inv
<1>2. QED
  BY InitInv, NextInv, InitDay, NextDay, <1>1, PTL DEF WorkSpec

-----------------------------------------------------------------------------
(* Work that ends lets its unit out of the state it put it in.               *)

(* An order is for one unit.                                                 *)
OneUnit == \A o \in Orders : \A u, v \in order[o].unit : u = v

LEMMA NextOneUnit == Inv /\ OneUnit /\ [WorkNext]_workVars => OneUnit'
<1> SUFFICES ASSUME Inv, OneUnit, [WorkNext]_workVars, NEW o \in Orders
             PROVE  \A u, v \in order'[o].unit : u = v
  BY DEF OneUnit
<1> DEFINE Kept == order'[o].unit = order[o].unit \/ \E u \in Units : order'[o].unit = {u}
<1>1. ASSUME NEW x \in Orders,
             \/ \E u \in Units, type \in ServiceTypes, blocking, scheduled \in BOOLEAN, from, to \in Days,
                  is \in AtMostOne(Issues) : CreateOrder(x, u, type, blocking, scheduled, from, to, is)
             \/ StartOrder(x) \/ CancelOrder(x)
             \/ \E inspect \in BOOLEAN : CompleteOrder(x, inspect)
      PROVE  Kept
  <2>1. DOMAIN order = Orders /\ order[x] \in OrderRows
    BY Rows DEF Inv, OrdersTyped
  <2>2. ASSUME NEW u \in Units, NEW type, NEW blocking, NEW scheduled, NEW from,
               NEW to, NEW is, CreateOrder(x, u, type, blocking, scheduled, from, to, is)
        PROVE  Kept
    <3>1. order'[o] = order[o] \/ order'[o].unit = {u}
      BY <2>1, <2>2 DEF CreateOrder, NewOrder
    <3>2. QED
      BY <3>1
  <2>4. CASE StartOrder(x)
    BY <2>1, <2>4 DEF StartOrder, OrderRows
  <2>5. CASE CancelOrder(x)
    BY <2>1, <2>5 DEF CancelOrder, OrderRows
  <2>6. ASSUME NEW inspect \in BOOLEAN, CompleteOrder(x, inspect)
        PROVE  Kept
    BY <2>1, <2>6 DEF CompleteOrder, OrderRows
  <2>7. QED
    BY <1>1, <2>2, <2>4, <2>5, <2>6
<1>2. ASSUME NEW n \in Inspections, NEW decision, NEW lacks, NEW is, NEW blocking,
             NEW fs, CompleteInspection(n, decision, lacks, is, blocking, fs)
      PROVE  Kept
  <2>1. PICK u \in inspection[n].unit :
          order'[o] = IF o \in fs THEN Followup(decision, u, o) ELSE OrderInspected(n)[o]
    BY <1>2 DEF CompleteInspection
  <2>2. u \in Units /\ order[o] \in OrderRows
    BY Rows DEF InspectionRows
  <2>3. QED
    BY <2>1, <2>2 DEF Followup, OrderInspected, OrderRows
<1>3. ASSUME order' = order
      PROVE  Kept
  <2>1. order'[o].unit = order[o].unit
    BY <1>3
  <2>2. QED
    BY <2>1
<1>4. Kept
  BY <1>1, <1>2, <1>3 DEF WorkNext, DayPasses, OrderStep, InspectionStep, CreateInspection, ResolveIssue,
     StaffMoves, workVars
<1>5. QED
  BY <1>4 DEF OneUnit

(* A unit that a step leaves where it is, and its order in progress, is      *)
(* still being worked on.                                                    *)
LEMMA StillInWork ==
  ASSUME NEW u \in Units, NEW o \in Orders, order[o].status = "IN_PROGRESS",
         order[o].unit = {u}, operationalStateFor[order[o].type] = unit[u].op,
         order'[o].status = order[o].status, order'[o].unit = order[o].unit,
         order'[o].type = order[o].type, unit'[u].op = unit[u].op
  PROVE  InWork(u)'
BY DEF InWork

(* Where a move takes the units.                                             *)
LEMMA MoveSteps ==
  ASSUME UnitsTyped, NEW w \in Units, NEW op, MovesTo(w, op), NEW u \in Units
  PROVE  /\ unit'[u].op = IF u = w THEN op ELSE unit[u].op
         /\ op = unit[w].op \/ op \in OPERATIONAL_TRANSITIONS[unit[w].op]
<1>1. unit[w] \in UnitStates /\ DOMAIN unit = Units
  BY DEF UnitsTyped
<1>2. [unit[w] EXCEPT !.op = op].op = op
  BY <1>1 DEF UnitStates
<1>3. QED
  BY <1>1, <1>2 DEF MovesTo, Transition, TransitionAllowed

LEMMA OrderStepLeavesNone ==
  ASSUME Inv, UnitsTyped, OneUnit, NEW x \in Orders, NEW u \in Units,
         InWork(u), ServiceState(u)',
         \/ \E v \in Units, type \in ServiceTypes, blocking, scheduled \in BOOLEAN, from, to \in Days,
              is \in AtMostOne(Issues) : CreateOrder(x, v, type, blocking, scheduled, from, to, is)
         \/ StartOrder(x) \/ CancelOrder(x)
         \/ \E inspect \in BOOLEAN : CompleteOrder(x, inspect)
  PROVE  InWork(u)'
<1>1. PICK o \in Orders : /\ order[o].status = "IN_PROGRESS" /\ order[o].unit = {u}
                          /\ operationalStateFor[order[o].type] = unit[u].op
  BY DEF InWork
<1>2. /\ DOMAIN order = Orders
      /\ order[o] \in OrderRows /\ order[x] \in OrderRows
      /\ order[x].unit \subseteq Units
  BY Rows DEF Inv, OrdersTyped, OrderRows
<1>3. ASSUME \E v \in Units, type \in ServiceTypes, blocking, scheduled \in BOOLEAN, from, to \in Days,
                  is \in AtMostOne(Issues) : CreateOrder(x, v, type, blocking, scheduled, from, to, is)
      PROVE  InWork(u)'
  <2>1. /\ unit' = unit /\ order'[o].status = order[o].status
        /\ order'[o].unit = order[o].unit /\ order'[o].type = order[o].type
    BY <1>1, <1>2, <1>3 DEF CreateOrder, OrderRows
  <2>2. QED
    BY <1>1, <2>1, StillInWork
<1>4. CASE StartOrder(x)
  <2>1. /\ order[x].status \in {"REQUESTED", "SCHEDULED"}
        /\ order' = [order EXCEPT ![x].status = "IN_PROGRESS"]
    BY <1>4 DEF StartOrder
  <2>2. PICK w \in order[x].unit : MovesTo(w, operationalStateFor[order[x].type])
    BY <1>4 DEF StartOrder
  <2>3. w \in Units /\ order[x].unit = {w}
    BY <1>2, <2>2 DEF OneUnit
  <2>4. unit'[u].op = IF u = w THEN operationalStateFor[order[x].type] ELSE unit[u].op
    BY <2>2, <2>3, MoveSteps
  <2>5. order'[o] = order[o]
    BY <1>1, <1>2, <2>1
  <2>6. CASE u = w
    <3>1. /\ order'[x].status = "IN_PROGRESS" /\ order'[x].unit = {u}
          /\ order'[x].type = order[x].type
      BY <1>2, <2>1, <2>3, <2>6 DEF OrderRows
    <3>2. QED
      BY <2>4, <2>6, <3>1 DEF InWork
  <2>7. CASE u # w
    BY <1>1, <2>4, <2>5, <2>7, StillInWork
  <2>8. QED
    BY <2>6, <2>7
<1>5. ASSUME CancelOrder(x) \/ \E inspect \in BOOLEAN : CompleteOrder(x, inspect)
      PROVE  InWork(u)'
  <2>1. ASSUME x # o
        PROVE  order'[o] = order[o]
    BY <1>2, <1>5, <2>1 DEF CancelOrder, CompleteOrder
  <2>2. CASE unit' = unit
    <3>1. x # o
      <4>1. ~(\E inspect \in BOOLEAN : CompleteOrder(x, inspect)) \/ x # o
        <5> SUFFICES ASSUME NEW inspect \in BOOLEAN, CompleteOrder(x, inspect), x = o
                     PROVE  FALSE
          OBVIOUS
        <5>1. MovesTo(u, StateAfter(o, inspect))
          BY <1>1 DEF CompleteOrder
        <5>2. unit'[u].op = StateAfter(o, inspect)
          BY <5>1, MoveSteps
        <5>3. QED
          BY <5>2 DEF StateAfter, ServiceState
      <4>2. CASE CancelOrder(x) /\ x = o
        <5>1. MovesTo(u, "AWAITING_INSPECTION")
          BY <1>1, <4>2 DEF CancelOrder
        <5>2. QED
          BY <5>1, MoveSteps DEF ServiceState
      <4>3. QED
        BY <1>5, <4>1, <4>2
    <3>2. QED
      BY <1>1, <2>1, <2>2, <3>1, StillInWork
  <2>3. CASE unit' # unit
    <3>1. PICK w \in order[x].unit, op \in {"AWAITING_INSPECTION", "AVAILABLE"} : MovesTo(w, op)
      BY <1>5, <2>3 DEF CancelOrder, CompleteOrder, StateAfter
    <3>2. unit'[u].op = IF u = w THEN op ELSE unit[u].op
      BY <1>2, <3>1, MoveSteps
    <3>3. u # w
      BY <3>1, <3>2 DEF ServiceState
    <3>4. x # o
      BY <1>1, <3>1, <3>3
    <3>5. QED
      BY <1>1, <2>1, <3>2, <3>3, <3>4, StillInWork
  <2>4. QED
    BY <2>2, <2>3
<1>6. QED
  BY <1>3, <1>4, <1>5

(* An inspection that sends a unit to work makes the order for it.           *)
LEMMA InspectionLeavesNone ==
  ASSUME Inv, UnitsTyped, NEW n \in Inspections, NEW decision \in Decisions, NEW lacks,
         NEW blocking, NEW is, NEW fs \in SUBSET Orders, NEW u \in Units,
         InWork(u), ServiceState(u)',
         CompleteInspection(n, decision, lacks, is, blocking, fs)
  PROVE  InWork(u)'
<1>1. PICK o \in Orders : /\ order[o].status = "IN_PROGRESS" /\ order[o].unit = {u}
                          /\ operationalStateFor[order[o].type] = unit[u].op
  BY DEF InWork
<1>2. PICK w \in inspection[n].unit :
        /\ decision \in DOMAIN serviceTypeForDecision => fs # {}
        /\ \A f \in fs : order[f].status = "none"
        /\ \A x \in Orders : order'[x] = IF x \in fs THEN Followup(decision, w, x)
                                           ELSE OrderInspected(n)[x]
        /\ unit' = [unit EXCEPT ![w] = LifecycleTarget[decision]]
  BY DEF CompleteInspection, Transition
<1>3. w \in Units /\ DOMAIN unit = Units /\ order[o] \in OrderRows
  BY Rows DEF InspectionRows, UnitsTyped
<1>4. CASE w = u
  <2>1. unit'[u] = LifecycleTarget[decision]
    BY <1>2, <1>3, <1>4
  <2>2. decision \in {"CLEANING", "WASHING", "REPAIR"}
    BY <2>1, WorkAssumption DEF ServiceState, LifecycleTarget, InspectionDecisions, Rentable
  <2>3. PICK f \in fs : order'[f] = Followup(decision, u, f)
    BY <1>2, <1>4, <2>2 DEF serviceTypeForDecision
  <2>4. /\ order'[f].status = "IN_PROGRESS" /\ order'[f].unit = {u}
        /\ order'[f].type = serviceTypeForDecision[decision]
    BY <2>3 DEF Followup
  <2>5. operationalStateFor[serviceTypeForDecision[decision]] = LifecycleTarget[decision].op
    BY <2>2 DEF operationalStateFor, serviceTypeForDecision, LifecycleTarget
  <2>6. QED
    BY <2>1, <2>4, <2>5 DEF InWork
<1>5. CASE w # u
  <2>1. unit'[u] = unit[u]
    BY <1>2, <1>3, <1>5
  <2>2. order'[o] = OrderInspected(n)[o]
    BY <1>1, <1>2
  <2>3. /\ order'[o].status = order[o].status /\ order'[o].unit = order[o].unit
        /\ order'[o].type = order[o].type
    BY <1>3, <2>2 DEF OrderInspected, OrderRows
  <2>4. QED
    BY <1>1, <2>1, <2>3, StillInWork
<1>6. QED
  BY <1>4, <1>5

(* No transition leads from one service state to another.                    *)
LEMMA StaffLeaveNone ==
  ASSUME Inv, UnitsTyped, NEW w \in Units, NEW op \in StaffTargets, NEW u \in Units,
         InWork(u), ServiceState(u)', StaffMoves(w, op)
  PROVE  InWork(u)'
<1>1. PICK o \in Orders : /\ order[o].status = "IN_PROGRESS" /\ order[o].unit = {u}
                          /\ operationalStateFor[order[o].type] = unit[u].op
  BY DEF InWork
<1>2. order' = order /\ MovesTo(w, op)
  BY DEF StaffMoves
<1>3. /\ unit'[u].op = IF u = w THEN op ELSE unit[u].op
      /\ op = unit[w].op \/ op \in OPERATIONAL_TRANSITIONS[unit[w].op]
  BY <1>2, MoveSteps
<1>4. unit[u].op \in {"PREPARING", "CLEANING", "WASHING", "REPAIRING"}
  BY <1>1, Rows DEF OrderRows, operationalStateFor
<1>5. unit'[u].op = unit[u].op
  BY <1>3, <1>4 DEF ServiceState, OPERATIONAL_TRANSITIONS
<1>6. QED
  BY <1>1, <1>2, <1>5, StillInWork

(* Work on any number of units, orders and inspections, with staff moving    *)
(* units as the lifecycle lets them: none is left in the state of work that  *)
(* has ended.                                                                *)
THEOREM NoUnitLeftBehind == WorkSpec => WorkLeavesNoUnitBehind
<1>1. WorkInit => UnitsTyped /\ OneUnit
  BY DEF WorkInit, UnitsTyped, Rentable, UnitStates, Dispositions, OperationalStates,
     OneUnit, NoOrder
<1>2. Inv /\ UnitsTyped /\ OneUnit /\ [WorkNext]_workVars =>
        [\A u \in Units : InWork(u) /\ ServiceState(u)' => InWork(u)']_workVars
  <2> SUFFICES ASSUME Inv, UnitsTyped, OneUnit, WorkNext, NEW u \in Units,
                      InWork(u), ServiceState(u)'
               PROVE  InWork(u)'
    OBVIOUS
  <2>1. CASE OrderStep
    BY <2>1, OrderStepLeavesNone DEF OrderStep
  <2>2. ASSUME NEW n \in Inspections, NEW decision \in Decisions, NEW lacks \in BOOLEAN,
               NEW blocking \in BOOLEAN, NEW is \in AtMostOne(Issues), NEW fs \in AtMostOne(Orders),
               CompleteInspection(n, decision, lacks, is, blocking, fs)
        PROVE  InWork(u)'
    <3>1. fs \in SUBSET Orders
      BY DEF AtMostOne
    <3>2. QED
      BY <2>2, <3>1, InspectionLeavesNone
  <2>3. CASE UNCHANGED <<unit, order>>
    BY <2>3 DEF InWork
  <2>4. ASSUME NEW w \in Units, NEW op \in StaffTargets, StaffMoves(w, op)
        PROVE  InWork(u)'
    BY <2>4, StaffLeaveNone
  <2>5. QED
    BY <2>1, <2>2, <2>3, <2>4 DEF WorkNext, DayPasses, InspectionStep, CreateInspection,
       ResolveIssue
<1>3. QED
  BY InitInv, NextInv, InitDay, NextDay, NextUnits, NextOneUnit, <1>1, <1>2, PTL DEF WorkSpec, WorkLeavesNoUnitBehind

-----------------------------------------------------------------------------
(* Work can be brought to an end.  Whether an action can happen is beyond    *)
(* the provers; that its conditions hold is not: begun work is for a unit,    *)
(* and every state of a unit lets it wait for an inspection or be retired.    *)

HasUnits ==
  /\ \A o \in Orders : order[o].status # "none" => order[o].unit # {}
  /\ \A n \in Inspections : inspection[n].status # "none" => inspection[n].unit # {}

LEMMA OrderHasUnit ==
  ASSUME Inv, HasUnits, [WorkNext]_workVars, NEW o \in Orders
  PROVE  order'[o].status # "none" => order'[o].unit # {}
<1> DEFINE Kept == (order'[o].unit = order[o].unit /\ order[o].status # "none")
                    \/ order'[o] = order[o] \/ order'[o].unit # {}
<1>1. ASSUME NEW x \in Orders,
             StartOrder(x) \/ CancelOrder(x)
               \/ \E inspect \in BOOLEAN : CompleteOrder(x, inspect)
      PROVE  Kept
  <2>1. DOMAIN order = Orders /\ order[x] \in OrderRows
    BY Rows DEF Inv, OrdersTyped
  <2>3. CASE StartOrder(x)
    BY <2>1, <2>3 DEF StartOrder, OrderRows
  <2>4. CASE CancelOrder(x)
    BY <2>1, <2>4 DEF CancelOrder, Open, OrderRows
  <2>5. ASSUME NEW inspect \in BOOLEAN, CompleteOrder(x, inspect)
        PROVE  Kept
    BY <2>1, <2>5 DEF CompleteOrder, Completable, Open, OrderRows
  <2>6. QED
    BY <1>1, <2>3, <2>4, <2>5
<1>2. ASSUME NEW x \in Orders, NEW u, NEW type, NEW blocking, NEW scheduled, NEW from,
               NEW to, NEW is, CreateOrder(x, u, type, blocking, scheduled, from, to, is)
      PROVE  Kept
  <2>1. DOMAIN order = Orders
    BY DEF Inv, OrdersTyped
  <2>2. order'[o] = order[o] \/ order'[o].unit = {u}
    BY <1>2, <2>1 DEF CreateOrder, NewOrder
  <2>3. QED
    BY <2>2
<1>3. ASSUME NEW n \in Inspections, NEW decision, NEW lacks, NEW is, NEW blocking,
             NEW fs, CompleteInspection(n, decision, lacks, is, blocking, fs)
      PROVE  Kept
  <2>1. PICK u \in inspection[n].unit :
          order'[o] = IF o \in fs THEN Followup(decision, u, o) ELSE OrderInspected(n)[o]
    BY <1>3 DEF CompleteInspection
  <2>2. order[o] \in OrderRows
    BY Rows
  <2>3. CASE o \in fs
    <3>1. order'[o].unit = {u}
      BY <2>1, <2>3 DEF Followup
    <3>2. QED
      BY <3>1
  <2>4. CASE o \in inspection[n].order /\ o \notin fs
    <3>1. order[o].status = "COMPLETED"
      BY <2>4 DEF Inv, InspectsCompleted
    <3>2. order'[o].unit = order[o].unit
      BY <2>1, <2>2, <2>4 DEF OrderInspected, OrderRows
    <3>3. QED
      BY <3>1, <3>2
  <2>5. QED
    BY <2>1, <2>3, <2>4 DEF OrderInspected
<1>4. ASSUME order' = order
      PROVE  Kept
  <2>1. order'[o] = order[o]
    BY <1>4
  <2>2. QED
    BY <2>1
<1>5. Kept
  BY <1>1, <1>2, <1>3, <1>4 DEF WorkNext, DayPasses, OrderStep, InspectionStep, CreateInspection,
     ResolveIssue, StaffMoves, workVars
<1>6. QED
  BY <1>5 DEF HasUnits

LEMMA InspectionHasUnit ==
  ASSUME Inv, HasUnits, [WorkNext]_workVars, NEW m \in Inspections
  PROVE  inspection'[m].status # "none" => inspection'[m].unit # {}
<1>1. DOMAIN inspection = Inspections /\ inspection[m] \in InspectionRows
  BY Rows DEF Inv, OrdersTyped
<1>2. ASSUME NEW n \in Inspections, NEW u, NEW blocks, NEW os, NEW ns,
             CreateInspection(n, u, blocks, os, ns)
      PROVE  inspection'[m] = inspection[m] \/ inspection'[m].unit # {}
  <2>1. inspection'[m] = inspection[m] \/ inspection'[m].unit = {u}
    BY <1>1, <1>2 DEF CreateInspection
  <2>2. QED
    BY <2>1
<1>3. ASSUME NEW n \in Inspections, NEW decision, NEW lacks, NEW is, NEW blocking,
             NEW fs, CompleteInspection(n, decision, lacks, is, blocking, fs)
      PROVE  inspection'[m] = inspection[m]
               \/ (inspection'[m].unit = inspection[m].unit /\ inspection[m].status # "none")
  <2>1. /\ inspection[n].status = "DRAFT"
        /\ inspection'[m] =
             IF m = n THEN [inspection[n] EXCEPT !.status = "COMPLETED", !.block = FALSE]
             ELSE IF m \in inspection[n].amends /\ inspection[m].status = "COMPLETED"
             THEN [inspection[m] EXCEPT !.status = "SUPERSEDED"] ELSE inspection[m]
    BY <1>3 DEF CompleteInspection
  <2>2. QED
    BY <1>1, <2>1 DEF InspectionRows
<1>4. CASE inspection' = inspection
  BY <1>4 DEF HasUnits
<1>5. OrderStep => inspection' = inspection
  <2>1. \A o, u, type, blocking, scheduled, from, to, is :
          CreateOrder(o, u, type, blocking, scheduled, from, to, is) => inspection' = inspection
    BY DEF CreateOrder
  <2>2. QED
    BY <2>1 DEF OrderStep, StartOrder, CancelOrder, CompleteOrder
<1>6. QED
  BY <1>2, <1>3, <1>4, <1>5 DEF HasUnits, WorkNext, InspectionStep, DayPasses, ResolveIssue,
     StaffMoves, workVars

(* The lifecycle lets a unit wait for an inspection, or be retired, whatever *)
(* its state and whatever other work there is on it.                         *)
WaitsAt(u) == [unit[u] EXCEPT !.op = "AWAITING_INSPECTION"]

LEMMA AlwaysAWayOut ==
  ASSUME UnitsTyped, NEW u \in Units, NEW work \in BOOLEAN
  PROVE  /\ TransitionAllowed(unit[u], WaitsAt(u), FALSE, FALSE, work)
         /\ TransitionAllowed(unit[u], LifecycleTarget["RETIRE"], TRUE, FALSE, work)
<1>1. unit[u] \in UnitStates /\ DOMAIN unit[u] = {"disp", "op"}
  BY DEF UnitsTyped, UnitStates
<1>2. /\ WaitsAt(u).op = "AWAITING_INSPECTION" /\ WaitsAt(u).disp = unit[u].disp
      /\ LifecycleTarget["RETIRE"].op = "AWAITING_INSPECTION"
      /\ LifecycleTarget["RETIRE"].disp = "RETIRED"
  BY <1>1 DEF WaitsAt, LifecycleTarget
<1>3. \/ unit[u].op = "AWAITING_INSPECTION"
      \/ "AWAITING_INSPECTION" \in OPERATIONAL_TRANSITIONS[unit[u].op]
  BY <1>1 DEF UnitStates, OperationalStates, OPERATIONAL_TRANSITIONS
<1>4. unit[u].disp = "RETIRED" \/ "RETIRED" \in DISPOSITION_TRANSITIONS[unit[u].disp]
  BY <1>1 DEF UnitStates, Dispositions, DISPOSITION_TRANSITIONS
<1>5. WaitsAt(u) # Rentable /\ LifecycleTarget["RETIRE"] # Rentable
  BY <1>2 DEF Rentable
<1>6. QED
  BY <1>2, <1>3, <1>4, <1>5 DEF TransitionAllowed

(* What completing an open order for its unit makes of the state is a step.  *)
LEMMA OrderEnds ==
  ASSUME UnitsTyped, NEW o \in Orders, Open(order, o), NEW u \in order[o].unit, u \in Units,
         order' = [order EXCEPT ![o].status = "COMPLETED", ![o].owes = TRUE,
                                ![o].block = BlockAfter(o, TRUE)],
         unit' = [unit EXCEPT ![u] = WaitsAt(u)],
         UNCHANGED <<inspection, issue, incomplete, today>>
  PROVE  CompleteOrder(o, TRUE)
<1>1. BlockingWork(u, order', issue', incomplete') \in BOOLEAN
  BY DEF BlockingWork
<1>2. Transition(u, WaitsAt(u), FALSE)
  BY <1>1, AlwaysAWayOut DEF Transition
<1>3. MovesTo(u, StateAfter(o, TRUE))
  BY <1>2 DEF MovesTo, StateAfter, WaitsAt
<1>4. QED
  BY <1>3 DEF CompleteOrder, Completable

(* And so is what retiring its unit makes of a draft inspection.             *)
LEMMA InspectionEnds ==
  ASSUME UnitsTyped, NEW n \in Inspections, inspection[n].status = "DRAFT",
         NEW u \in inspection[n].unit, u \in Units,
         incomplete' = incomplete \ {u}, issue' = [i \in Issues |-> issue[i]],
         inspection' = [m \in Inspections |->
           IF m = n THEN [inspection[n] EXCEPT !.status = "COMPLETED", !.block = FALSE]
           ELSE IF m \in inspection[n].amends /\ inspection[m].status = "COMPLETED"
           THEN [inspection[m] EXCEPT !.status = "SUPERSEDED"] ELSE inspection[m]],
         order' = [o \in Orders |-> OrderInspected(n)[o]],
         unit' = [unit EXCEPT ![u] = LifecycleTarget["RETIRE"]], today' = today
  PROVE  CompleteInspection(n, "RETIRE", FALSE, {}, FALSE, {})
<1>1. BlockingWork(u, order', issue', incomplete') \in BOOLEAN
  BY DEF BlockingWork
<1>2. Transition(u, LifecycleTarget["RETIRE"], TRUE)
  BY <1>1, AlwaysAWayOut DEF Transition
<1>3. "RETIRE" \notin DOMAIN serviceTypeForDecision
  BY DEF serviceTypeForDecision
<1>4. issue' = [i \in Issues |-> IF i \in {} THEN [status |-> "OPEN", unit |-> {u}, blocking |-> FALSE]
                                  ELSE issue[i]]
  OBVIOUS
<1>5. order' = [o \in Orders |-> IF o \in {} THEN Followup("RETIRE", u, o) ELSE OrderInspected(n)[o]]
  OBVIOUS
<1>6. incomplete' = IF FALSE THEN incomplete \cup {u} ELSE incomplete \ {u}
  OBVIOUS
<1>7. QED
  BY <1>2, <1>3, <1>4, <1>5, <1>6 DEF CompleteInspection

(* What WorkCanEnd asks of the actions, as conditions on the state: open work *)
(* is for exactly one unit, which may wait for an inspection if the work is   *)
(* an order, and be retired if it is a draft inspection.  OrderEnds and       *)
(* InspectionEnds lead from here to the actions.                             *)
EndsAllowed ==
  /\ \A o \in Orders : Open(order, o) =>
       \E u \in Units : /\ order[o].unit = {u}
                        /\ \A work \in BOOLEAN :
                             TransitionAllowed(unit[u], WaitsAt(u), FALSE, FALSE, work)
  /\ \A n \in Inspections : inspection[n].status = "DRAFT" =>
       \E u \in inspection[n].unit :
         \A work \in BOOLEAN :
           TransitionAllowed(unit[u], LifecycleTarget["RETIRE"], TRUE, FALSE, work)

(* Open work can be ended whatever became of its unit meanwhile, and whatever *)
(* other work there is on it: complete has its unit to move, and the move is  *)
(* one the lifecycle allows.                                                 *)
THEOREM WorkHasAnEnd == WorkSpec => []EndsAllowed
<1>1. WorkInit => UnitsTyped /\ OneUnit /\ HasUnits
  BY DEF WorkInit, UnitsTyped, Rentable, UnitStates, Dispositions, OperationalStates,
     OneUnit, HasUnits, NoOrder, NoInspection
<1>2. Inv /\ HasUnits /\ [WorkNext]_workVars => HasUnits'
  BY OrderHasUnit, InspectionHasUnit DEF HasUnits
<1>3. Inv /\ UnitsTyped /\ OneUnit /\ HasUnits => EndsAllowed
  <2> SUFFICES ASSUME Inv, UnitsTyped, OneUnit, HasUnits
               PROVE  EndsAllowed
    OBVIOUS
  <2>1. ASSUME NEW o \in Orders, Open(order, o)
        PROVE  \E u \in Units : order[o].unit = {u}
    <3>1. PICK u : u \in order[o].unit
      BY <2>1 DEF HasUnits, Open
    <3>2. u \in Units /\ order[o].unit = {u}
      BY <3>1, Rows DEF OneUnit, OrderRows
    <3>3. QED
      BY <3>2
  <2>2. ASSUME NEW n \in Inspections, inspection[n].status = "DRAFT"
        PROVE  \E u \in inspection[n].unit : u \in Units
    BY <2>2, Rows DEF HasUnits, InspectionRows
  <2>3. QED
    BY <2>1, <2>2, AlwaysAWayOut DEF EndsAllowed
<1>4. QED
  BY InitInv, NextInv, InitDay, NextDay, NextUnits, NextOneUnit, <1>1, <1>2, <1>3, PTL DEF WorkSpec

-----------------------------------------------------------------------------
(* Transfers.  A unit is carried by a transfer from the moment it is made    *)
(* ready, which only an offered unit can be; and what a location then keeps  *)
(* covers what is reserved there.                                            *)

TransfersTyped ==
  /\ reserved \in [Locations -> Nat]
  /\ DOMAIN transfer = Transfers
  /\ \A t \in Transfers : UnitsOf(t) \subseteq Units /\ transfer[t].from \in Locations
  /\ \A t \in Transfers : DOMAIN transfer[t] = {"status", "from", "to", "outcome"}

(* No unit begins to be carried.                                             *)
CarriesNoMore == \A t \in Transfers, u \in Units : Carries(t, u)' => Carries(t, u)

(* A transfer moves on and decides on units it has.                          *)
LEMMA StatusStep ==
  ASSUME TransfersTyped, NEW t \in Transfers, NEW st,
         transfer' = [transfer EXCEPT ![t].status = st]
  PROVE  /\ \A s \in Transfers : /\ transfer'[s].outcome = transfer[s].outcome
                                 /\ transfer'[s].from = transfer[s].from
                                 /\ transfer'[s].status = IF s = t THEN st ELSE transfer[s].status
         /\ reserved' \in [Locations -> Nat] => TransfersTyped'
<1>1. DOMAIN transfer = Transfers /\ DOMAIN transfer[t] = {"status", "from", "to", "outcome"}
  BY DEF TransfersTyped
<1>2. \A s \in Transfers : /\ transfer'[s].outcome = transfer[s].outcome
                           /\ transfer'[s].from = transfer[s].from
                           /\ transfer'[s].status = IF s = t THEN st ELSE transfer[s].status
                           /\ DOMAIN transfer'[s] = DOMAIN transfer[s]
  BY <1>1
<1>3. DOMAIN transfer' = Transfers
  BY <1>1
<1>4. QED
  BY <1>2, <1>3 DEF TransfersTyped, UnitsOf

LEMMA ReceiveStep ==
  ASSUME TransfersTyped, NEW t \in Transfers, NEW us,
         NEW result \in [us -> {"RECEIVED", "DAMAGED", "LOST"}], Receive(t, us, result)
  PROVE  /\ TransfersTyped' /\ CarriesNoMore /\ UNCHANGED reserved
         /\ \A u \in Units : location'[u] # location[u] => Carries(t, u) /\ ~Carries(t, u)'
<1> DEFINE outcome == [u \in UnitsOf(t) |-> IF u \in us THEN result[u] ELSE transfer[t].outcome[u]]
<1>1. DOMAIN transfer = Transfers /\ DOMAIN transfer[t] = {"status", "from", "to", "outcome"}
  BY DEF TransfersTyped
<1>2. /\ transfer[t].status \in {"DISPATCHED", "PARTIALLY_RECEIVED"}
      /\ us \subseteq UnitsOf(t)
      /\ \A u \in us : transfer[t].outcome[u] = "PENDING"
      /\ location' = [u \in Units |-> IF u \in us /\ result[u] # "LOST" THEN transfer[t].to
                                       ELSE location[u]]
      /\ transfer' = [transfer EXCEPT ![t].outcome = outcome, ![t].status = StatusReceived(outcome)]
      /\ reserved' = reserved
  BY DEF Receive
<1> HIDE DEF outcome
<1>3. /\ \A s \in Transfers : s # t => transfer'[s] = transfer[s]
      /\ transfer'[t].outcome = outcome /\ transfer'[t].from = transfer[t].from
      /\ DOMAIN transfer'[t] = DOMAIN transfer[t]
      /\ DOMAIN transfer' = Transfers
  BY <1>1, <1>2
<1>4. UnitsOf(t)' = UnitsOf(t)
  BY <1>3 DEF UnitsOf, outcome
<1>5. TransfersTyped'
  BY <1>2, <1>3, <1>4 DEF TransfersTyped, UnitsOf
<1>6. CarriesNoMore
  <2> SUFFICES ASSUME NEW s \in Transfers, NEW u \in Units, Carries(s, u)'
               PROVE  Carries(s, u)
    BY DEF CarriesNoMore
  <2>1. CASE s # t
    BY <1>3, <2>1 DEF Carries, UnitsOf
  <2>2. CASE s = t
    <3>1. u \in UnitsOf(t) /\ outcome[u] = "PENDING"
      BY <1>3, <1>4, <2>2 DEF Carries
    <3>2. u \in us \/ transfer[t].outcome[u] = "PENDING"
      BY <3>1 DEF outcome
    <3>3. QED
      BY <1>2, <2>2, <3>1, <3>2 DEF Carries
  <2>3. QED
    BY <2>1, <2>2
<1>7. ASSUME NEW u \in Units, location'[u] # location[u]
      PROVE  Carries(t, u) /\ ~Carries(t, u)'
  <2>1. u \in us /\ result[u] # "LOST"
    BY <1>2, <1>7
  <2>2. Carries(t, u)
    BY <1>2, <2>1 DEF Carries
  <2>3. outcome[u] = result[u]
    BY <1>2, <2>1 DEF outcome
  <2>4. result[u] # "PENDING"
    BY <1>2, <2>1
  <2>5. QED
    BY <1>3, <2>2, <2>3, <2>4 DEF Carries
<1>8. QED
  BY <1>2, <1>5, <1>6, <1>7

(* Nothing is taken from a location by a step that carries no more, reserves *)
(* no more and moves only what was being carried.                            *)
TakesNothing ==
  /\ CarriesNoMore
  /\ \A u \in Units : location'[u] # location[u] => \E t \in Transfers : Carries(t, u)
  /\ \A l \in Locations : reserved'[l] <= reserved[l]

(* What the property says of a step.                                         *)
BrokenByWorkOnly ==
  /\ \A l \in Locations : ~Short(l) /\ Short(l)' =>
       \E u \in Units : location[u] = l /\ OfferedInTransfer(u)
  /\ \A u \in Units : ~CarriedTwice(u) /\ CarriedTwice(u)' => OfferedInTransfer(u)

LEMMA NothingTaken ==
  ASSUME TransfersTyped, TransfersTyped', TakesNothing
  PROVE  BrokenByWorkOnly
<1>1. ASSUME NEW u \in Units, CarriedTwice(u)'
      PROVE  CarriedTwice(u)
  BY <1>1 DEF TakesNothing, CarriesNoMore, CarriedTwice
<1>2. ASSUME NEW l \in Locations, Short(l)'
      PROVE  Short(l)
  <2>1. OnHand(l) \subseteq OnHand(l)'
    BY DEF TakesNothing, CarriesNoMore, OnHand
  <2>2. IsFiniteSet(OnHand(l)')
    BY TransferAssumption, FS_Subset DEF OnHand
  <2>3. Cardinality(OnHand(l)) <= Cardinality(OnHand(l)')
    BY <2>1, <2>2, FS_Subset
  <2>4. Cardinality(OnHand(l)) \in Nat /\ Cardinality(OnHand(l)') \in Nat
    BY <2>1, <2>2, FS_Subset, FS_CardinalityType
  <2>5. reserved'[l] > Cardinality(OnHand(l)')
    BY <1>2 DEF Short
  <2>6. reserved[l] \in Nat /\ reserved'[l] \in Nat /\ reserved'[l] <= reserved[l]
    BY DEF TransfersTyped, TakesNothing
  <2>7. reserved[l] > Cardinality(OnHand(l))
    BY <2>3, <2>4, <2>5, <2>6
  <2>8. QED
    BY <2>7 DEF Short
<1>3. QED
  BY <1>1, <1>2 DEF BrokenByWorkOnly

(* What is offered at a location and carried by no transfer is on hand.      *)
LEMMA OfferedOnHand ==
  ASSUME NEW l \in Locations, \A u \in Units : location[u] = l => ~OfferedInTransfer(u),
         NEW d \in today..MaxDay
  PROVE  OfferedAt(l, d) \subseteq OnHand(l)
BY DEF OfferedAt, OnHand, OfferedInTransfer, Offered

(* What a transfer may take from a location is offered there today.          *)
LEMMA EligibleIsOffered ==
  ASSUME DayRight, NEW l \in Locations
  PROVE  today \in today..MaxDay /\ EligibleAt(l) \subseteq OfferedAt(l, today)
<1>1. today \in today..MaxDay
  BY WorkAssumption DEF DayRight, Days
<1>2. QED
  BY <1>1 DEF EligibleAt, OfferedAt

LEMMA ReserveStep ==
  ASSUME TransfersTyped, NEW l \in Locations, NEW d \in today..MaxDay, Reserve(l, d)
  PROVE  TransfersTyped' /\ BrokenByWorkOnly
<1>1. /\ reserved' = [reserved EXCEPT ![l] = reserved[l] + 1]
      /\ reserved[l] < Cardinality(OfferedAt(l, d))
      /\ UNCHANGED <<location, transfer>>
  BY DEF Reserve
<1>2. /\ reserved[l] \in Nat /\ reserved'[l] = reserved[l] + 1
      /\ reserved' \in [Locations -> Nat]
      /\ \A k \in Locations : k # l => reserved'[k] = reserved[k]
  BY <1>1 DEF TransfersTyped
<1>3. TransfersTyped'
  BY <1>1, <1>2 DEF TransfersTyped, UnitsOf
<1>4. /\ \A k : OnHand(k)' = OnHand(k)
      /\ \A u : CarriedTwice(u)' = CarriedTwice(u)
  BY <1>1 DEF OnHand, CarriedTwice, Carries, UnitsOf
<1>5. ASSUME \A u \in Units : location[u] = l => ~OfferedInTransfer(u)
      PROVE  ~Short(l)'
  <2>1. OfferedAt(l, d) \subseteq OnHand(l) /\ IsFiniteSet(OnHand(l))
    BY <1>5, OfferedOnHand, TransferAssumption, FS_Subset DEF OnHand
  <2>2. /\ Cardinality(OfferedAt(l, d)) <= Cardinality(OnHand(l))
        /\ Cardinality(OfferedAt(l, d)) \in Nat /\ Cardinality(OnHand(l)) \in Nat
    BY <2>1, FS_Subset, FS_CardinalityType
  <2>3. ~(reserved'[l] > Cardinality(OnHand(l)))
    BY <1>1, <1>2, <2>2
  <2>4. QED
    BY <1>4, <2>3 DEF Short
<1>6. \A k \in Locations : k # l => Short(k)' = Short(k)
  BY <1>2, <1>4 DEF Short
<1>7. QED
  BY <1>3, <1>4, <1>5, <1>6 DEF BrokenByWorkOnly

LEMMA MarkReadyStep ==
  ASSUME TransfersTyped, DayRight, NEW t \in Transfers, MarkReady(t)
  PROVE  TransfersTyped' /\ BrokenByWorkOnly
<1> DEFINE from == transfer[t].from
<1>1. /\ transfer' = [transfer EXCEPT ![t].status = "READY"]
      /\ UNCHANGED <<location, reserved>>
      /\ UnitsOf(t) \subseteq EligibleAt(from)
      /\ Cardinality(EligibleAt(from)) - Cardinality(UnitsOf(t)) >= reserved[from]
      /\ from \in Locations /\ UnitsOf(t) \subseteq Units
  BY DEF MarkReady, StillEligible, EnoughStays, TransfersTyped
<1>2. TransfersTyped'
  BY <1>1, StatusStep DEF TransfersTyped
<1>3. /\ \A s \in Transfers, u \in Units : s # t => Carries(s, u)' = Carries(s, u)
      /\ \A u \in Units : Carries(t, u)' => u \in UnitsOf(t)
  BY <1>1, StatusStep DEF Carries, UnitsOf
<1> HIDE DEF from
<1>4. ASSUME NEW u \in Units, ~CarriedTwice(u), CarriedTwice(u)'
      PROVE  OfferedInTransfer(u)
  <2>1. PICK s \in Transfers : s # t /\ Carries(s, u)' /\ Carries(t, u)'
    <3>1. PICK r, s \in Transfers : r # s /\ Carries(r, u)' /\ Carries(s, u)'
      BY <1>4 DEF CarriedTwice
    <3>2. r = t \/ s = t
      BY <1>3, <1>4, <3>1 DEF CarriedTwice
    <3>3. QED
      BY <3>1, <3>2
  <2>2. Carries(s, u) /\ u \in EligibleAt(from)
    BY <1>1, <1>3, <2>1
  <2>3. QED
    BY <1>1, <2>2, EligibleIsOffered DEF OfferedAt, Offered, OfferedInTransfer
<1>5. ASSUME NEW l \in Locations, Short(l)', ~Short(l),
             \A u \in Units : location[u] = l => ~OfferedInTransfer(u)
      PROVE  FALSE
  <2>1. reserved'[l] = reserved[l] /\ reserved[l] \in Nat
    BY <1>1 DEF TransfersTyped
  <2>2. ~(reserved[l] > Cardinality(OnHand(l))) /\ reserved[l] > Cardinality(OnHand(l)')
    BY <1>5, <2>1 DEF Short
  <2>3. CASE l # from
    <3>1. \A u \in UnitsOf(t) : location[u] = from
      BY <1>1 DEF EligibleAt
    <3>2. OnHand(l) \subseteq OnHand(l)'
      BY <1>1, <1>3, <2>3, <3>1 DEF OnHand
    <3>3. IsFiniteSet(OnHand(l)')
      BY TransferAssumption, FS_Subset DEF OnHand
    <3>4. Cardinality(OnHand(l)) <= Cardinality(OnHand(l)')
          /\ Cardinality(OnHand(l)) \in Nat /\ Cardinality(OnHand(l)') \in Nat
      BY <3>2, <3>3, FS_Subset, FS_CardinalityType
    <3>5. QED
      BY <2>1, <2>2, <3>4
  <2>4. CASE l = from
    <3>1. EligibleAt(l) \subseteq OnHand(l)
      BY <1>5, OfferedOnHand, EligibleIsOffered
    <3>2. EligibleAt(l) \ UnitsOf(t) \subseteq OnHand(l)'
      BY <1>1, <1>3, <3>1 DEF OnHand
    <3>3. IsFiniteSet(OnHand(l)') /\ IsFiniteSet(EligibleAt(l))
      BY TransferAssumption, FS_Subset DEF OnHand, EligibleAt
    <3>4. EligibleAt(l) \cap UnitsOf(t) = UnitsOf(t) /\ IsFiniteSet(UnitsOf(t))
      BY <1>1, <2>4, <3>3, FS_Subset
    <3>5. Cardinality(EligibleAt(l) \ UnitsOf(t)) = Cardinality(EligibleAt(l)) - Cardinality(UnitsOf(t))
      BY <3>3, <3>4, FS_Difference
    <3>6. Cardinality(EligibleAt(l) \ UnitsOf(t)) <= Cardinality(OnHand(l)')
          /\ Cardinality(OnHand(l)') \in Nat
      BY <3>2, <3>3, FS_Subset, FS_CardinalityType
    <3>7. Cardinality(EligibleAt(l)) \in Nat /\ Cardinality(UnitsOf(t)) \in Nat
      BY <3>3, <3>4, FS_CardinalityType
    <3>8. QED
      BY <1>1, <2>1, <2>2, <2>4, <3>5, <3>6, <3>7
  <2>5. QED
    BY <2>3, <2>4
<1>6. QED
  BY <1>2, <1>4, <1>5 DEF BrokenByWorkOnly

LEMMA OtherTransferSteps ==
  ASSUME TransfersTyped, NEW t \in Transfers,
         \/ \E us \in SUBSET Units, from, to \in Locations : CreateDraft(t, us, from, to)
         \/ Dispatch(t) \/ Cancel(t) \/ Reconcile(t)
         \/ \E us \in SUBSET Units : \E result \in [us -> {"RECEIVED", "DAMAGED", "LOST"}] :
              Receive(t, us, result)
  PROVE  TransfersTyped' /\ TakesNothing
<1>1. ASSUME NEW us \in SUBSET Units, NEW from \in Locations, NEW to, CreateDraft(t, us, from, to)
      PROVE  TransfersTyped' /\ TakesNothing
  <2> DEFINE row == [status |-> "DRAFT", from |-> from, to |-> to,
                     outcome |-> [u \in us |-> "PENDING"]]
  <2>1. transfer' = [transfer EXCEPT ![t] = row] /\ UNCHANGED <<location, reserved>>
    BY <1>1 DEF CreateDraft
  <2>2. /\ DOMAIN transfer' = Transfers /\ transfer'[t] = row
        /\ \A s \in Transfers : s # t => transfer'[s] = transfer[s]
    BY <2>1 DEF TransfersTyped
  <2>3. UnitsOf(t)' = us
    BY <2>2 DEF UnitsOf
  <2>4. TransfersTyped'
    BY <2>1, <2>2, <2>3 DEF TransfersTyped, UnitsOf
  <2>5. CarriesNoMore
    <3>1. ASSUME NEW u \in Units
          PROVE  ~Carries(t, u)'
      BY <2>2 DEF Carries
    <3>2. ASSUME NEW s \in Transfers, s # t, NEW u \in Units
          PROVE  Carries(s, u)' = Carries(s, u)
      BY <2>2, <3>2 DEF Carries, UnitsOf
    <3>3. QED
      BY <3>1, <3>2 DEF CarriesNoMore
  <2>6. \A l \in Locations : reserved'[l] <= reserved[l]
    BY <2>1 DEF TransfersTyped
  <2>7. QED
    BY <2>1, <2>4, <2>5, <2>6 DEF TakesNothing
<1>2. ASSUME Dispatch(t) \/ Cancel(t) \/ Reconcile(t)
      PROVE  TransfersTyped' /\ TakesNothing
  <2>1. PICK st \in {"DISPATCHED", "CANCELLED", "RECONCILED"} :
          /\ transfer' = [transfer EXCEPT ![t].status = st]
          /\ st = "DISPATCHED" => transfer[t].status = "READY"
          /\ UNCHANGED <<location, reserved>>
    BY <1>2 DEF Dispatch, Cancel, Reconcile
  <2>2. TransfersTyped'
    BY <2>1, StatusStep DEF TransfersTyped
  <2>3. CarriesNoMore
    BY <2>1, StatusStep DEF CarriesNoMore, Carries, UnitsOf
  <2>4. \A l \in Locations : reserved'[l] <= reserved[l]
    BY <2>1 DEF TransfersTyped
  <2>5. QED
    BY <2>1, <2>2, <2>3, <2>4 DEF TakesNothing
<1>3. ASSUME NEW us \in SUBSET Units, NEW result \in [us -> {"RECEIVED", "DAMAGED", "LOST"}],
             Receive(t, us, result)
      PROVE  TransfersTyped' /\ TakesNothing
  <2>1. /\ TransfersTyped' /\ CarriesNoMore /\ UNCHANGED reserved
        /\ \A u \in Units : location'[u] # location[u] => Carries(t, u)
    BY <1>3, ReceiveStep
  <2>2. \A l \in Locations : reserved'[l] <= reserved[l]
    BY <2>1 DEF TransfersTyped
  <2>3. QED
    BY <2>1, <2>2 DEF TakesNothing
<1>4. QED
  BY <1>1, <1>2, <1>3

LEMMA NextTransfers ==
  TransfersTyped /\ DayRight /\ [Next]_vars => TransfersTyped' /\ BrokenByWorkOnly
<1> SUFFICES ASSUME TransfersTyped, DayRight, [Next]_vars
             PROVE  TransfersTyped' /\ BrokenByWorkOnly
  OBVIOUS
<1>1. CASE TransferStep
  BY <1>1, MarkReadyStep, OtherTransferSteps, NothingTaken DEF TransferStep
<1>2. ASSUME NEW l \in Locations, NEW d \in today..MaxDay, Reserve(l, d)
      PROVE  TransfersTyped' /\ BrokenByWorkOnly
  BY <1>2, ReserveStep
<1>3. ASSUME NEW l \in Locations, Release(l)
      PROVE  TransfersTyped' /\ BrokenByWorkOnly
  <2>1. /\ reserved[l] > 0 /\ reserved' = [reserved EXCEPT ![l] = reserved[l] - 1]
        /\ UNCHANGED <<location, transfer>>
    BY <1>3 DEF Release
  <2>2. reserved' \in [Locations -> Nat] /\ \A k \in Locations : reserved'[k] <= reserved[k]
    BY <2>1 DEF TransfersTyped
  <2>3. TransfersTyped'
    BY <2>1, <2>2 DEF TransfersTyped, UnitsOf
  <2>4. TakesNothing
    BY <2>1, <2>2 DEF TakesNothing, CarriesNoMore, Carries, UnitsOf
  <2>5. QED
    BY <2>3, <2>4, NothingTaken
<1>4. CASE UNCHANGED <<location, transfer, reserved>>
  <2>1. TransfersTyped' /\ CarriesNoMore
    BY <1>4 DEF TransfersTyped, CarriesNoMore, Carries, UnitsOf
  <2>2. \A l \in Locations : reserved'[l] <= reserved[l]
    BY <1>4 DEF TransfersTyped
  <2>3. TakesNothing
    BY <1>4, <2>1, <2>2 DEF TakesNothing
  <2>4. QED
    BY <2>1, <2>3, NothingTaken
<1>5. QED
  BY <1>1, <1>2, <1>3, <1>4 DEF Next, vars

(* The days pass with the work alone.                                        *)
LEMMA NextDayTransfers == DayRight /\ [Next]_vars => DayRight'
<1>1. [Next]_vars => [WorkNext]_workVars \/ UNCHANGED today
  <2>1. TransferStep => UNCHANGED today
    <3>1. \A t \in Transfers : MarkReady(t) \/ Dispatch(t) \/ Cancel(t) \/ Reconcile(t)
             => UNCHANGED today
      BY DEF MarkReady, Dispatch, Cancel, Reconcile, workVars
    <3>2. \A t, us, from, to : CreateDraft(t, us, from, to) => UNCHANGED today
      BY DEF CreateDraft, workVars
    <3>3. \A t, us, result : Receive(t, us, result) => UNCHANGED today
      BY DEF Receive
    <3>4. QED
      BY <3>1, <3>2, <3>3 DEF TransferStep
  <2>2. \A l, d : Reserve(l, d) \/ Release(l) => UNCHANGED today
    BY DEF Reserve, Release, workVars
  <2>3. QED
    BY <2>1, <2>2 DEF Next, vars
<1>2. QED
  BY <1>1, NextDay DEF DayRight

LEMMA TransfersBegin == Init => TransfersTyped
<1> SUFFICES ASSUME Init
             PROVE  TransfersTyped
  OBVIOUS
<1>1. reserved \in [Locations -> Nat] /\ transfer = [t \in Transfers |-> NoTransfer]
  BY DEF Init
<1>2. /\ NoTransfer.from \in Locations /\ DOMAIN NoTransfer.outcome = {}
      /\ DOMAIN NoTransfer = {"status", "from", "to", "outcome"}
  BY TransferAssumption DEF NoTransfer, None
<1>3. QED
  BY <1>1, <1>2 DEF TransfersTyped, UnitsOf

(* With any number of transfers, bookings and locations, and whatever staff  *)
(* and work do to units meanwhile: a location runs short, or a unit is       *)
(* carried twice, only by way of a unit offered while a transfer had it.     *)
THEOREM OnlyWorkBreaks == Spec => OnlyWorkBreaksTransfers
<1>1. BrokenByWorkOnly =>
        /\ \A l \in Locations : ~Short(l) /\ Short(l)' =>
             \E u \in Units : location[u] = l /\ OfferedInTransfer(u)
        /\ \A u \in Units : ~CarriedTwice(u) /\ CarriedTwice(u)' => OfferedInTransfer(u)
  BY DEF BrokenByWorkOnly
<1>2. Init => DayRight
  BY InitDay DEF Init
<1>3. QED
  BY TransfersBegin, NextTransfers, NextDayTransfers, <1>1, <1>2, PTL DEF Spec, OnlyWorkBreaksTransfers

-----------------------------------------------------------------------------
(* The shape of the state with its transfers.                                *)

Outcomes == {"PENDING", "RECEIVED", "DAMAGED", "LOST"}
TransferStatuses ==
  {"none", "DRAFT", "READY", "DISPATCHED", "PARTIALLY_RECEIVED", "RECEIVED",
   "RECONCILIATION_REQUIRED", "RECONCILED", "CANCELLED"}
TransferRight(t) ==
  /\ transfer[t].status \in TransferStatuses /\ transfer[t].to \in Locations
  /\ \A u \in UnitsOf(t) : transfer[t].outcome[u] \in Outcomes
  /\ transfer[t].status \in {"none", "DRAFT", "READY", "DISPATCHED"} =>
       \A u \in UnitsOf(t) : transfer[t].outcome[u] = "PENDING"

RowsTyped ==
  /\ Inv /\ UnitsTyped /\ DayRight /\ TransfersTyped
  /\ location \in [Units -> Locations]
  /\ \A t \in Transfers : TransferRight(t)

LEMMA InitRows == Init => RowsTyped
<1> SUFFICES ASSUME Init
             PROVE  RowsTyped
  OBVIOUS
<1>1. Inv /\ DayRight
  BY InitInv, InitDay DEF Init
<1>2. UnitsTyped
  BY DEF Init, WorkInit, UnitsTyped, Rentable, UnitStates, Dispositions, OperationalStates
<1>3. location \in [Units -> Locations]
  BY TransferAssumption DEF Init
<1>4. TransfersTyped
  BY TransfersBegin
<1>5. \A t \in Transfers : TransferRight(t)
  <2>1. /\ NoTransfer.status = "none" /\ NoTransfer.to \in Locations
        /\ DOMAIN NoTransfer.outcome = {}
    BY TransferAssumption DEF NoTransfer, None
  <2>2. QED
    BY <2>1 DEF Init, TransferRight, TransferStatuses, UnitsOf
<1>6. QED
  BY <1>1, <1>2, <1>3, <1>4, <1>5 DEF RowsTyped

(* What a transfer makes of its units is a state of the lifecycle.           *)
LEMMA TransferredTyped ==
  ASSUME UnitsTyped, NEW t \in Transfers,
         \/ \E us \in SUBSET Units, from, to \in Locations : CreateDraft(t, us, from, to)
         \/ MarkReady(t) \/ Dispatch(t) \/ Cancel(t) \/ Reconcile(t)
         \/ \E us \in SUBSET Units : \E result \in [us -> {"RECEIVED", "DAMAGED", "LOST"}] :
              Receive(t, us, result)
  PROVE  UnitsTyped' /\ UNCHANGED <<order, inspection, issue>>
<1>1. \A u \in Units : /\ unit[u] \in UnitStates /\ DOMAIN unit[u] = {"disp", "op"}
  BY DEF UnitsTyped, UnitStates
<1>2. UNCHANGED <<order, inspection, issue, incomplete>>
  BY DEF CreateDraft, MarkReady, Dispatch, Cancel, Reconcile, Receive, workVars
<1>3. ASSUME NEW us, NEW op \in OperationalStates, unit' = Relocate(us, op)
      PROVE  UnitsTyped'
  <2>1. \A u \in Units : [unit[u] EXCEPT !.op = op] \in UnitStates
    BY <1>1 DEF UnitStates
  <2>2. QED
    BY <1>1, <1>2, <1>3, <2>1 DEF Relocate, UnitsTyped
<1>4. ASSUME NEW us, NEW result \in [us -> {"RECEIVED", "DAMAGED", "LOST"}],
             unit' = [u \in Units |-> IF u \in us THEN physicalItemOutcome[result[u]] ELSE unit[u]]
      PROVE  UnitsTyped'
  <2>1. \A u \in us : physicalItemOutcome[result[u]] \in UnitStates
    BY <1>4 DEF physicalItemOutcome, Rentable, UnitStates, Dispositions, OperationalStates
  <2>2. QED
    BY <1>1, <1>2, <1>4, <2>1 DEF UnitsTyped
<1>5. CASE unit' = unit
  BY <1>2, <1>5 DEF UnitsTyped
<1>6. ASSUME MarkReady(t) \/ Cancel(t)
      PROVE  UnitsTyped'
  <2>1. \E us : \E op \in OperationalStates : unit' = Relocate(us, op)
    BY <1>6 DEF MarkReady, Cancel, OperationalStates
  <2>2. QED
    BY <1>3, <2>1
<1>7. ASSUME NEW us, NEW result \in [us -> {"RECEIVED", "DAMAGED", "LOST"}], Receive(t, us, result)
      PROVE  UnitsTyped'
  <2>1. unit' = [u \in Units |-> IF u \in us THEN physicalItemOutcome[result[u]] ELSE unit[u]]
    BY <1>7 DEF Receive
  <2>2. QED
    BY <1>4, <2>1
<1>8. ASSUME \/ \E us \in SUBSET Units, from, to \in Locations : CreateDraft(t, us, from, to)
             \/ Dispatch(t) \/ Reconcile(t)
      PROVE  UnitsTyped'
  BY <1>5, <1>8 DEF CreateDraft, Dispatch, Reconcile, workVars
<1>9. QED
  BY <1>2, <1>6, <1>7, <1>8

LEMMA TransferRows ==
  ASSUME RowsTyped, NEW t \in Transfers,
         \/ \E us \in SUBSET Units, from, to \in Locations : CreateDraft(t, us, from, to)
         \/ MarkReady(t) \/ Dispatch(t) \/ Cancel(t) \/ Reconcile(t)
         \/ \E us \in SUBSET Units : \E result \in [us -> {"RECEIVED", "DAMAGED", "LOST"}] :
              Receive(t, us, result)
  PROVE  location' \in [Units -> Locations] /\ \A s \in Transfers : TransferRight(s)'
<1>1. /\ DOMAIN transfer = Transfers /\ DOMAIN transfer[t] = {"status", "from", "to", "outcome"}
      /\ TransferRight(t) /\ location \in [Units -> Locations] /\ TransfersTyped
      /\ \A s \in Transfers : TransferRight(s)
  BY DEF RowsTyped, TransfersTyped
<1>2. ASSUME NEW us \in SUBSET Units, NEW from \in Locations, NEW to \in Locations,
             CreateDraft(t, us, from, to)
      PROVE  location' = location /\ \A s \in Transfers : TransferRight(s)'
  <2> DEFINE row == [status |-> "DRAFT", from |-> from, to |-> to,
                     outcome |-> [u \in us |-> "PENDING"]]
  <2>1. transfer' = [transfer EXCEPT ![t] = row] /\ UNCHANGED location
    BY <1>2 DEF CreateDraft
  <2>2. transfer'[t] = row /\ \A s \in Transfers : s # t => transfer'[s] = transfer[s]
    BY <1>1, <2>1
  <2>3. QED
    BY <1>1, <2>1, <2>2 DEF TransferRight, UnitsOf, TransferStatuses, Outcomes
<1>3. ASSUME MarkReady(t) \/ Dispatch(t) \/ Cancel(t) \/ Reconcile(t)
      PROVE  location' = location /\ \A s \in Transfers : TransferRight(s)'
  <2>1. PICK st \in {"READY", "DISPATCHED", "CANCELLED", "RECONCILED"} :
          /\ transfer' = [transfer EXCEPT ![t].status = st] /\ UNCHANGED location
          /\ st \in {"READY", "DISPATCHED"} => transfer[t].status \in {"DRAFT", "READY"}
    BY <1>3 DEF MarkReady, Dispatch, Cancel, Reconcile
  <2>2. /\ \A s \in Transfers : s # t => transfer'[s] = transfer[s]
        /\ transfer'[t].status = st /\ transfer'[t].to = transfer[t].to
        /\ transfer'[t].outcome = transfer[t].outcome
    BY <1>1, <2>1
  <2>3. QED
    BY <1>1, <2>1, <2>2 DEF TransferRight, UnitsOf, TransferStatuses
<1>4. ASSUME NEW us \in SUBSET Units, NEW result \in [us -> {"RECEIVED", "DAMAGED", "LOST"}],
             Receive(t, us, result)
      PROVE  location' \in [Units -> Locations] /\ \A s \in Transfers : TransferRight(s)'
  <2> DEFINE outcome == [u \in UnitsOf(t) |-> IF u \in us THEN result[u] ELSE transfer[t].outcome[u]]
  <2>1. /\ location' = [u \in Units |-> IF u \in us /\ result[u] # "LOST" THEN transfer[t].to
                                         ELSE location[u]]
        /\ transfer' = [transfer EXCEPT ![t].outcome = outcome, ![t].status = StatusReceived(outcome)]
    BY <1>4 DEF Receive
  <2>2. location' \in [Units -> Locations]
    BY <1>1, <2>1 DEF TransferRight
  <2>3. \A u \in DOMAIN outcome : outcome[u] \in Outcomes
    BY <1>1, <1>4 DEF TransferRight, Outcomes
  <2>4. /\ StatusReceived(outcome) \in TransferStatuses
        /\ StatusReceived(outcome) \notin {"none", "DRAFT", "READY", "DISPATCHED"}
    BY DEF StatusReceived, TransferStatuses
  <2> HIDE DEF outcome
  <2>5. /\ \A s \in Transfers : s # t => transfer'[s] = transfer[s]
        /\ transfer'[t].status = StatusReceived(outcome) /\ transfer'[t].to = transfer[t].to
        /\ transfer'[t].outcome = outcome
    BY <1>1, <2>1
  <2>6. QED
    BY <1>1, <2>2, <2>3, <2>4, <2>5 DEF TransferRight, UnitsOf
<1>5. QED
  BY <1>1, <1>2, <1>3, <1>4

LEMMA NextRows == RowsTyped /\ [Next]_vars => RowsTyped'
<1> SUFFICES ASSUME RowsTyped, [Next]_vars
             PROVE  RowsTyped'
  OBVIOUS
<1>1. TransfersTyped' /\ DayRight'
  BY NextTransfers, NextDayTransfers DEF RowsTyped
<1>2. ASSUME UNCHANGED <<order, inspection, issue>>
      PROVE  Inv'
  BY <1>2 DEF RowsTyped, Inv, OrdersTyped, InspectsCompleted, BlocksRight, BlockRight, DraftsBlock,
     ResolvedIssuesHaveNoWork, Owing, Open
<1>3. CASE TransferStep
  BY <1>1, <1>2, <1>3, TransferredTyped, TransferRows DEF TransferStep, RowsTyped
<1>4. CASE \/ \E l \in Locations, d \in today..MaxDay : Reserve(l, d)
           \/ \E l \in Locations : Release(l)
           \/ UNCHANGED vars
  <2>1. UNCHANGED <<unit, order, inspection, issue, incomplete, location, transfer>>
    BY <1>4 DEF Reserve, Release, vars, workVars
  <2>2. QED
    BY <1>1, <1>2, <2>1 DEF RowsTyped, UnitsTyped, TransferRight, UnitsOf
<1>5. CASE WorkNext /\ UNCHANGED <<location, transfer, reserved>>
  BY <1>1, <1>5, NextInv, NextUnits DEF RowsTyped, TransferRight, UnitsOf
<1>6. QED
  BY <1>3, <1>4, <1>5 DEF Next

(* Units, work and transfers together keep their types.                      *)
THEOREM TransfersTypeCorrect == Spec => []TypeOK
<1>1. RowsTyped => TypeOK
  BY DEF RowsTyped, Inv, OrdersTyped, UnitsTyped, DayRight, TransfersTyped, TransferRight, TransferStatuses,
     Outcomes, TypeOK, WorkTypeOK
<1>2. QED
  BY InitRows, NextRows, <1>1, PTL DEF Spec

-----------------------------------------------------------------------------
(* What transfers keep when work leaves alone the units they have.           *)

(* A step of anything but a transfer leaves the units in transfers where     *)
(* they are.                                                                 *)
CarriedLeftAlone ==
  UNCHANGED transfer =>
    \A t \in Transfers, u \in Units : Carries(t, u) => unit'[u] = unit[u]

InTransfer == [disp |-> "ACTIVE", op |-> "IN_TRANSFER"]
CarriedWell ==
  \A t \in Transfers, u \in Units : Carries(t, u) =>
    /\ unit[u] = InTransfer
    /\ \A s \in Transfers : Carries(s, u) => s = t

(* A step on one transfer whose status or outcomes it changes.               *)
LEMMA OthersCarry ==
  ASSUME TransfersTyped, NEW t \in Transfers, NEW s \in Transfers, s # t,
         \/ \E us \in SUBSET Units, from, to \in Locations : CreateDraft(t, us, from, to)
         \/ MarkReady(t) \/ Dispatch(t) \/ Cancel(t) \/ Reconcile(t)
         \/ \E us \in SUBSET Units : \E result \in [us -> {"RECEIVED", "DAMAGED", "LOST"}] :
              Receive(t, us, result)
  PROVE  \A u \in Units : Carries(s, u)' = Carries(s, u)
<1>1. transfer'[s] = transfer[s]
  BY DEF TransfersTyped, CreateDraft, MarkReady, Dispatch, Cancel, Reconcile, Receive
<1>2. QED
  BY <1>1 DEF Carries, UnitsOf

LEMMA ReceivedIsOver ==
  ASSUME TransfersTyped, NEW t \in Transfers, NEW us,
         NEW result \in [us -> {"RECEIVED", "DAMAGED", "LOST"}], Receive(t, us, result)
  PROVE  \A u \in us : ~Carries(t, u)'
<1> DEFINE outcome == [u \in UnitsOf(t) |-> IF u \in us THEN result[u] ELSE transfer[t].outcome[u]]
<1>1. us \subseteq UnitsOf(t)
      /\ transfer' = [transfer EXCEPT ![t].outcome = outcome, ![t].status = StatusReceived(outcome)]
  BY DEF Receive
<1>2. \A u \in us : outcome[u] # "PENDING"
  BY <1>1
<1> HIDE DEF outcome
<1>3. transfer'[t].outcome = outcome
  BY <1>1 DEF TransfersTyped
<1>4. QED
  BY <1>2, <1>3 DEF Carries

LEMMA TransferCarriesWell ==
  ASSUME RowsTyped, CarriedWell, NEW t \in Transfers,
         \/ \E us \in SUBSET Units, from, to \in Locations : CreateDraft(t, us, from, to)
         \/ MarkReady(t) \/ Dispatch(t) \/ Cancel(t) \/ Reconcile(t)
         \/ \E us \in SUBSET Units : \E result \in [us -> {"RECEIVED", "DAMAGED", "LOST"}] :
              Receive(t, us, result)
  PROVE  CarriedWell'
<1>1. TransfersTyped /\ UnitsTyped
  BY DEF RowsTyped
<1>2. \A s \in Transfers, u \in Units : s # t => Carries(s, u)' = Carries(s, u)
  BY <1>1, OthersCarry
<1>3. ASSUME MarkReady(t)
      PROVE  CarriedWell'
  <2>1. /\ UnitsOf(t) \subseteq EligibleAt(transfer[t].from)
        /\ unit' = Relocate(UnitsOf(t), "IN_TRANSFER")
        /\ transfer' = [transfer EXCEPT ![t].status = "READY"]
    BY <1>3 DEF MarkReady, StillEligible
  <2>2. \A u \in UnitsOf(t) : u \in Units /\ unit[u] = Rentable
    BY <1>1, <2>1, EligibleIsOffered DEF OfferedAt, OfferedOn, RowsTyped, TransfersTyped
  <2>3. \A u \in UnitsOf(t), s \in Transfers : ~Carries(s, u)
    BY <2>2 DEF CarriedWell, InTransfer, Rentable
  <2>4. \A u \in Units : Carries(t, u)' => u \in UnitsOf(t)
    BY <1>1, <2>1, StatusStep DEF Carries, UnitsOf
  <2>5. \A u \in Units : unit'[u] = IF u \in UnitsOf(t) THEN [unit[u] EXCEPT !.op = "IN_TRANSFER"]
                                    ELSE unit[u]
    BY <2>1 DEF Relocate
  <2>6. [Rentable EXCEPT !.op = "IN_TRANSFER"] = InTransfer
    BY DEF Rentable, InTransfer
  <2>7. ASSUME NEW u \in Units, u \in UnitsOf(t)
        PROVE  unit'[u] = InTransfer /\ \A s \in Transfers : Carries(s, u)' => s = t
    BY <1>2, <2>2, <2>3, <2>5, <2>6, <2>7
  <2>8. ASSUME NEW u \in Units, u \notin UnitsOf(t)
        PROVE  /\ unit'[u] = unit[u] /\ ~Carries(t, u)'
               /\ \A s \in Transfers : Carries(s, u)' => Carries(s, u)
    BY <1>2, <2>4, <2>5, <2>8
  <2>9. QED
    BY <2>7, <2>8 DEF CarriedWell
<1>4. ASSUME NEW back,
             \A u \in Units : u \notin back => unit'[u] = unit[u],
             \A u \in Units : u \in back => Carries(t, u) /\ ~Carries(t, u)',
             \A u \in Units : Carries(t, u)' => Carries(t, u)
      PROVE  CarriedWell'
  <2>1. ASSUME NEW s \in Transfers, NEW u \in Units, Carries(s, u)'
        PROVE  Carries(s, u) /\ u \notin back
    <3>1. Carries(s, u)
      BY <1>2, <1>4, <2>1
    <3>2. u \in back => s = t
      BY <1>4, <3>1 DEF CarriedWell
    <3>3. QED
      BY <1>4, <2>1, <3>1, <3>2
  <2>2. QED
    BY <1>4, <2>1 DEF CarriedWell
<1>5. ASSUME \/ \E us \in SUBSET Units, from, to \in Locations : CreateDraft(t, us, from, to)
             \/ Dispatch(t) \/ Reconcile(t)
      PROVE  CarriedWell'
  <2>1. unit' = unit
    BY <1>5 DEF CreateDraft, Dispatch, Reconcile, workVars
  <2>2. CarriesNoMore
    BY <1>1, <1>5, OtherTransferSteps DEF TakesNothing
  <2>3. QED
    BY <2>1, <2>2 DEF CarriedWell, CarriesNoMore
<1>6. ASSUME Cancel(t)
      PROVE  CarriedWell'
  <2> DEFINE back == IF transfer[t].status = "READY" THEN UnitsOf(t) ELSE {}
  <2>1. /\ transfer[t].status \in {"DRAFT", "READY"}
        /\ transfer' = [transfer EXCEPT ![t].status = "CANCELLED"]
        /\ unit' = Relocate(back, "AVAILABLE")
        /\ \A u \in back : May(u, [unit[u] EXCEPT !.op = "AVAILABLE"])
    BY <1>6 DEF Cancel
  <2>2. \A u \in Units : ~Carries(t, u)'
    <3>1. /\ DOMAIN transfer = Transfers /\ DOMAIN transfer[t] = {"status", "from", "to", "outcome"}
          /\ transfer' = [transfer EXCEPT ![t].status = "CANCELLED"]
      BY <1>1, <1>6 DEF Cancel, TransfersTyped
    <3>2. transfer'[t].status = "CANCELLED"
      BY <3>1
    <3>3. QED
      BY <3>2 DEF Carries
  <2>3. \A u \in Units : u \notin back => unit'[u] = unit[u]
    BY <2>1 DEF Relocate
  <2>4. \A u \in Units : u \in back => Carries(t, u)
    BY DEF RowsTyped, TransferRight, Carries
  <2>5. QED
    BY <1>4, <2>2, <2>3, <2>4
<1>7. ASSUME NEW us \in SUBSET Units, NEW result \in [us -> {"RECEIVED", "DAMAGED", "LOST"}],
             Receive(t, us, result)
      PROVE  CarriedWell'
  <2>1. /\ us \subseteq UnitsOf(t) /\ transfer[t].status \in {"DISPATCHED", "PARTIALLY_RECEIVED"}
        /\ \A u \in us : transfer[t].outcome[u] = "PENDING"
        /\ unit' = [u \in Units |-> IF u \in us THEN physicalItemOutcome[result[u]] ELSE unit[u]]
    BY <1>7 DEF Receive
  <2>2. \A u \in us : Carries(t, u)
    BY <2>1 DEF Carries
  <2>3. \A u \in Units : u \in us => ~Carries(t, u)'
    BY <1>1, <1>7, ReceivedIsOver
  <2>4. CarriesNoMore
    BY <1>1, <1>7, ReceiveStep
  <2>5. \A u \in Units : u \notin us => unit'[u] = unit[u]
    BY <2>1
  <2>6. QED
    BY <1>4, <2>2, <2>3, <2>4, <2>5 DEF CarriesNoMore
<1>8. QED
  BY <1>3, <1>5, <1>6, <1>7

LEMMA NextCarriesWell ==
  RowsTyped /\ CarriedWell /\ [Next]_vars /\ [CarriedLeftAlone]_vars => CarriedWell'
<1> SUFFICES ASSUME RowsTyped, CarriedWell, [Next]_vars, [CarriedLeftAlone]_vars
             PROVE  CarriedWell'
  OBVIOUS
<1>1. CASE TransferStep
  BY <1>1, TransferCarriesWell DEF TransferStep
<1>2. CASE UNCHANGED transfer
  <2>1. \A t \in Transfers, u \in Units : Carries(t, u) => unit'[u] = unit[u]
    BY <1>2 DEF CarriedLeftAlone, vars, workVars
  <2>2. \A t \in Transfers, u \in Units : Carries(t, u)' = Carries(t, u)
    BY <1>2 DEF Carries, UnitsOf
  <2>3. QED
    BY <2>1, <2>2 DEF CarriedWell
<1>3. QED
  BY <1>1, <1>2 DEF Next, Reserve, Release, vars

(* No location runs short.                                                   *)
Covered == \A l \in Locations : ~Short(l)

(* Work on units that are in a transfer is all that breaks transfers.  When   *)
(* it leaves them alone, what a location has on hand always covers the        *)
(* bookings that count on it (EnoughStays, though the bookings and the        *)
(* transfer read different rows), no unit in a transfer is offered, and every  *)
(* unit dispatched can be received.                                          *)
THEOREM TransfersLeftAlone ==
  Spec /\ [][CarriedLeftAlone]_vars
    => [](Covered /\ TransferredIsNotOffered /\ DispatchedCanBeReceived)
<1>1. Init => CarriedWell /\ Covered
  <2> SUFFICES ASSUME Init
               PROVE  CarriedWell /\ Covered
    OBVIOUS
  <2>1. \A t \in Transfers, u \in Units : ~Carries(t, u)
    BY DEF Init, NoTransfer, Carries
  <2>2. ASSUME NEW l \in Locations
        PROVE  ~Short(l)
    <3>1. IsFiniteSet(OnHand(l))
      BY TransferAssumption, FS_Subset DEF OnHand
    <3>2. Cardinality(OnHand(l)) \in Nat
      BY <3>1, FS_CardinalityType
    <3>3. reserved[l] = 0
      BY DEF Init
    <3>4. QED
      BY <3>2, <3>3 DEF Short
  <2>3. QED
    BY <2>1, <2>2 DEF CarriedWell, Covered
<1>2. CarriedWell => TransferredIsNotOffered
  BY DEF CarriedWell, TransferredIsNotOffered, Offered, OfferedOn, InTransfer, Rentable
<1>3. CarriedWell => DispatchedCanBeReceived
  <2> SUFFICES ASSUME CarriedWell, NEW t \in Transfers, NEW u \in Units, Carries(t, u)
               PROVE  May(u, physicalItemOutcome["DAMAGED"])
    BY DEF DispatchedCanBeReceived
  <2>1. unit[u].disp = "ACTIVE" /\ unit[u].op = "IN_TRANSFER"
    BY DEF CarriedWell, InTransfer
  <2>2. /\ physicalItemOutcome["DAMAGED"].disp = "QUARANTINED"
        /\ physicalItemOutcome["DAMAGED"].op = "AWAITING_INSPECTION"
        /\ physicalItemOutcome["DAMAGED"] # Rentable
    BY DEF physicalItemOutcome, Rentable
  <2>3. QED
    BY <2>1, <2>2 DEF May, TransitionAllowed, DISPOSITION_TRANSITIONS, OPERATIONAL_TRANSITIONS
<1>4. RowsTyped /\ CarriedWell /\ Covered /\ [Next]_vars => Covered'
  <2> SUFFICES ASSUME RowsTyped, CarriedWell, Covered, [Next]_vars
               PROVE  Covered'
    OBVIOUS
  <2>1. BrokenByWorkOnly
    BY NextTransfers DEF RowsTyped
  <2>2. \A u \in Units : ~OfferedInTransfer(u)
    BY <1>2 DEF TransferredIsNotOffered, OfferedInTransfer
  <2>3. QED
    BY <2>1, <2>2 DEF BrokenByWorkOnly, Covered
<1>5. QED
  BY InitRows, NextRows, NextCarriesWell, <1>1, <1>2, <1>3, <1>4, PTL DEF Spec
=============================================================================
