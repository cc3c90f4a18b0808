------------------------------- MODULE UnitWork -------------------------------
(***************************************************************************)
(* The work done on stock units between rentals: service orders             *)
(* (inventory-service-order.service.ts), inspections and issues              *)
(* (stock-unit-inspection.service.ts), the availability blocks both hold,    *)
(* and the transitions of the unit they cause.  Each action is one           *)
(* Serializable transaction; when any part of it is refused, all of it is.   *)
(***************************************************************************)
EXTENDS StockUnitLifecycle, Naturals

CONSTANTS
  Units,
  Orders,        \* bound: service orders ever created
  Inspections,   \* bound: inspections ever created
  Issues,        \* bound: issues ever reported
  ServiceTypes,  \* the types of service orders in this instance
  Decisions,     \* the decisions inspections take in this instance
  StaffTargets,  \* the operational states staff set by hand
  MaxDay         \* bound: the last day

ASSUME WorkAssumption ==
  /\ ServiceTypes \subseteq {"PREPARATION", "CLEANING", "WASHING", "REPAIR"}
  /\ Decisions \subseteq InspectionDecisions
  /\ StaffTargets \subseteq OperationalStates
  /\ MaxDay \in Nat \ {0}

Days == 1..MaxDay

VARIABLES
  unit,        \* unit -> its disposition and operational state
  order,       \* InventoryServiceOrder; owes: its completion asked for an inspection
  inspection,  \* StockUnitInspection
  issue,       \* StockUnitIssue
  incomplete,  \* the units that lack a component they cannot be rented without
  today

workVars == <<unit, order, inspection, issue, incomplete, today>>

NoOrder == [status |-> "none", unit |-> {}, type |-> "CLEANING", blocking |-> FALSE,
            plan |-> {}, block |-> {}, issue |-> {}, owes |-> FALSE]
NoInspection == [status |-> "none", unit |-> {}, order |-> {}, block |-> FALSE, amends |-> {}]
NoIssue == [status |-> "none", unit |-> {}, blocking |-> FALSE]

WorkInit ==
  /\ unit = [u \in Units |-> Rentable]
  /\ order = [o \in Orders |-> NoOrder]
  /\ inspection = [n \in Inspections |-> NoInspection]
  /\ issue = [i \in Issues |-> NoIssue]
  /\ incomplete = {}
  /\ today = 1

DayPasses ==
  /\ today < MaxDay
  /\ today' = today + 1
  /\ UNCHANGED <<unit, order, inspection, issue, incomplete>>

-----------------------------------------------------------------------------
(* The lifecycle of a unit, given the work as a transaction leaves it.       *)

Open(ord, o) == ord[o].status \in {"REQUESTED", "SCHEDULED", "IN_PROGRESS"}
OpenIssue(iss, i) == iss[i].status \in {"OPEN", "IN_SERVICE"}

(* assertReadyForAvailability.                                               *)
BlockingWork(u, ord, iss, inc) ==
  \/ u \in inc
  \/ \E o \in Orders : Open(ord, o) /\ ord[o].blocking /\ ord[o].unit = {u}
  \/ \E i \in Issues : OpenIssue(iss, i) /\ iss[i].blocking /\ iss[i].unit = {u}

(* transitionInTransaction.  Assignments are the subject of the core.        *)
Transition(u, to, inspected) ==
  /\ TransitionAllowed(unit[u], to, inspected, FALSE, BlockingWork(u, order', issue', incomplete'))
  /\ unit' = [unit EXCEPT ![u] = to]

MovesTo(u, op) == Transition(u, [unit[u] EXCEPT !.op = op], FALSE)

(* The unit counts as capacity for a day and can be assigned for it:         *)
(* resolveCapacity, assign.  A rental of several days asks for each of them. *)
Blocked(u, d) ==
  \/ \E o \in Orders : order[o].unit = {u} /\ d \in order[o].block
  \/ \E n \in Inspections : inspection[n].unit = {u} /\ inspection[n].block
OfferedOn(u, d) ==
  /\ unit[u] = Rentable
  /\ ~Blocked(u, d)
  /\ u \notin incomplete
  /\ \A i \in Issues : ~(OpenIssue(issue, i) /\ issue[i].blocking /\ issue[i].unit = {u})

-----------------------------------------------------------------------------
(* Service orders.                                                           *)

(* The database allows one open blocking order for a unit.                   *)
NoOpenBlocking(u) ==
  \A o \in Orders : ~(Open(order, o) /\ order[o].blocking /\ order[o].unit = {u})

IssueForWork(u, i) == issue[i].unit = {u} /\ OpenIssue(issue, i)

BlockDays(blocking, from, to) == IF blocking THEN from..to ELSE {}
NewOrder(u, type, blocking, scheduled, days, is) ==
  [status |-> IF scheduled THEN "SCHEDULED" ELSE "REQUESTED", unit |-> {u}, type |-> type,
   blocking |-> blocking, plan |-> days, block |-> days, issue |-> is, owes |-> FALSE]

(* create, for an issue or not.  Work that is scheduled starts on the day    *)
(* given, other work on the day it is requested; with no day on which it is  *)
(* expected to be complete it has no end.  What blocks is blocked on those    *)
(* days only, and the database refuses a block that ends before it starts.   *)
CreateOrder(o, u, type, blocking, scheduled, from, to, is) ==
  /\ order[o].status = "none"
  /\ unit[u].disp \notin {"LOST", "RETIRED"}
  /\ \A i \in is : IssueForWork(u, i)
  /\ ~scheduled => from = today
  /\ scheduled \/ blocking => from <= to
  /\ blocking => NoOpenBlocking(u)
  /\ order' = [order EXCEPT ![o] = NewOrder(u, type, blocking, scheduled, BlockDays(blocking, from, to), is)]
  /\ issue' = [i \in Issues |-> IF i \in is THEN [issue[i] EXCEPT !.status = "IN_SERVICE"] ELSE issue[i]]
  /\ UNCHANGED <<unit, inspection, incomplete, today>>

operationalStateFor ==
  [PREPARATION |-> "PREPARING", CLEANING |-> "CLEANING", WASHING |-> "WASHING",
   REPAIR |-> "REPAIRING"]

StartOrder(o) ==
  /\ order[o].status \in {"REQUESTED", "SCHEDULED"}
  /\ order' = [order EXCEPT ![o].status = "IN_PROGRESS"]
  /\ UNCHANGED <<inspection, issue, incomplete, today>>
  /\ \E u \in order[o].unit : MovesTo(u, operationalStateFor[order[o].type])

(* Mutant: completed work with a last day keeps it.                          *)
BlockKept(o, inspect) == IF inspect THEN order[o].block ELSE {}
(* A completed order's block: from its first day on without end, until the   *)
(* inspection; or deleted.                                                   *)
Onward(days) == {d \in Days : \E e \in days : e <= d}
BlockAfter(o, inspect) == IF inspect THEN Onward(order[o].block) ELSE {}

(* Mutant: the work on a unit that was given up is not found.                *)
CompletableIfActive(o) ==
  /\ Open(order, o)
  /\ \A u \in order[o].unit : unit[u].disp = "ACTIVE"
Completable(o) == Open(order, o)

(* Mutant: a completed order leaves the unit where it is.                    *)
StaysAfter(o, inspect) == IF inspect THEN operationalStateFor[order[o].type] ELSE "AVAILABLE"
StateAfter(o, inspect) == IF inspect THEN "AWAITING_INSPECTION" ELSE "AVAILABLE"

(* complete: from any open status.  Only light work may skip the inspection. *)
CompleteOrder(o, inspect) ==
  /\ Completable(o)
  /\ ~inspect => order[o].type \in {"PREPARATION", "CLEANING", "WASHING"}
  /\ order' = [order EXCEPT ![o].status = "COMPLETED", ![o].owes = inspect,
                            ![o].block = BlockAfter(o, inspect)]
  /\ UNCHANGED <<inspection, issue, incomplete, today>>
  /\ \E u \in order[o].unit : MovesTo(u, StateAfter(o, inspect))

CancelOrder(o) ==
  /\ Open(order, o)
  /\ order' = [order EXCEPT ![o].status = "CANCELLED", ![o].block = {}]
  /\ issue' = [i \in Issues |->
       IF i \in order[o].issue /\ issue[i].status = "IN_SERVICE"
       THEN [issue[i] EXCEPT !.status = "OPEN"] ELSE issue[i]]
  /\ UNCHANGED <<inspection, incomplete, today>>
  /\ IF order[o].status = "IN_PROGRESS"
     THEN \E u \in order[o].unit : MovesTo(u, "AWAITING_INSPECTION")
     ELSE UNCHANGED unit

-----------------------------------------------------------------------------
(* Inspections and issues.                                                   *)

(* create.  One that blocks is a periodic inspection; os names the completed *)
(* order it inspects, if any, and ns the inspection it amends.               *)
CreateInspection(n, u, blocks, os, ns) ==
  /\ inspection[n].status = "none"
  /\ unit[u].disp # "RETIRED"
  /\ \A o \in os :
       /\ order[o].unit = {u} /\ order[o].status = "COMPLETED"
       /\ \A m \in Inspections :
            ~(inspection[m].order = {o} /\ inspection[m].status \in {"DRAFT", "COMPLETED"})
  /\ \A m \in ns : inspection[m].unit = {u} /\ inspection[m].status = "COMPLETED"
  /\ inspection' = [inspection EXCEPT ![n] =
       [status |-> "DRAFT", unit |-> {u}, order |-> os, block |-> blocks, amends |-> ns]]
  /\ UNCHANGED <<unit, order, issue, incomplete, today>>

serviceTypeForDecision == [CLEANING |-> "CLEANING", WASHING |-> "WASHING", REPAIR |-> "REPAIR"]

(* createFollowupServiceOrder: a decision that asks for work starts it.      *)
Followup(decision, u, o) ==
  [status |-> "IN_PROGRESS", unit |-> {u}, type |-> serviceTypeForDecision[decision],
   blocking |-> TRUE, plan |-> today..MaxDay, block |-> today..MaxDay, issue |-> {}, owes |-> FALSE]

(* Mutant: only the inspection's own block is deleted.                       *)
OrderUnchanged(n) == order
(* The blocks of the order it inspects are deleted with its own.             *)
OrderInspected(n) ==
  [o \in Orders |-> IF o \in inspection[n].order THEN [order[o] EXCEPT !.block = {}] ELSE order[o]]

(* complete: lacks says whether components are missing, is which issue it    *)
(* reports, if any, and fs the order that follows from its decision.         *)
CompleteInspection(n, decision, lacks, is, blocking, fs) ==
  \E u \in inspection[n].unit :
    /\ inspection[n].status = "DRAFT"
    /\ \A i \in is : issue[i].status = "none"
    /\ IF decision \in DOMAIN serviceTypeForDecision
       THEN fs # {} /\ NoOpenBlocking(u) ELSE fs = {}
    /\ \A f \in fs : order[f].status = "none"
    /\ incomplete' = IF lacks THEN incomplete \cup {u} ELSE incomplete \ {u}
    /\ issue' = [i \in Issues |->
         IF i \in is THEN [status |-> "OPEN", unit |-> {u}, blocking |-> blocking] ELSE issue[i]]
    /\ inspection' = [m \in Inspections |->
         IF m = n THEN [inspection[n] EXCEPT !.status = "COMPLETED", !.block = FALSE]
         ELSE IF m \in inspection[n].amends /\ inspection[m].status = "COMPLETED"
         THEN [inspection[m] EXCEPT !.status = "SUPERSEDED"] ELSE inspection[m]]
    /\ order' = [o \in Orders |-> IF o \in fs THEN Followup(decision, u, o) ELSE OrderInspected(n)[o]]
    /\ today' = today
    /\ Transition(u, LifecycleTarget[decision], TRUE)

(* Mutant: work that has not begun is not counted.                           *)
startedServices(i) == {o \in Orders : order[o].status = "IN_PROGRESS" /\ i \in order[o].issue}
activeServices(i) == {o \in Orders : Open(order, o) /\ i \in order[o].issue}

(* resolveIssue; a waived issue counts as resolved.                          *)
ResolveIssue(i) ==
  /\ OpenIssue(issue, i)
  /\ activeServices(i) = {}
  /\ issue' = [issue EXCEPT ![i].status = "RESOLVED"]
  /\ UNCHANGED <<unit, order, inspection, incomplete, today>>

(* Staff set a unit's operational state.                                     *)
StaffMoves(u, op) ==
  /\ UNCHANGED <<order, inspection, issue, incomplete, today>>
  /\ MovesTo(u, op)

-----------------------------------------------------------------------------
AtMostOne(S) == {{}} \cup {{x} : x \in S}

OrderStep ==
  \E o \in Orders :
    \/ \E u \in Units, type \in ServiceTypes, blocking, scheduled \in BOOLEAN,
          from, to \in Days, is \in AtMostOne(Issues) :
         CreateOrder(o, u, type, blocking, scheduled, from, to, is)
    \/ StartOrder(o) \/ CancelOrder(o)
    \/ \E inspect \in BOOLEAN : CompleteOrder(o, inspect)

InspectionStep ==
  \E n \in Inspections :
    \/ \E u \in Units, blocks \in BOOLEAN, os \in AtMostOne(Orders),
          ns \in AtMostOne(Inspections) : CreateInspection(n, u, blocks, os, ns)
    \/ \E decision \in Decisions, lacks, blocking \in BOOLEAN, is \in AtMostOne(Issues),
          fs \in AtMostOne(Orders) : CompleteInspection(n, decision, lacks, is, blocking, fs)

WorkNext ==
  \/ DayPasses \/ OrderStep \/ InspectionStep
  \/ \E i \in Issues : ResolveIssue(i)
  \/ \E u \in Units, op \in StaffTargets : StaffMoves(u, op)

WorkSpec == WorkInit /\ [][WorkNext]_workVars

-----------------------------------------------------------------------------
(* Properties.                                                               *)

(* The shape of the state: the rows, and the type invariant.                 *)
OrderRows ==
  [status : {"none", "REQUESTED", "SCHEDULED", "IN_PROGRESS", "COMPLETED", "CANCELLED"},
   unit : SUBSET Units, type : {"PREPARATION", "CLEANING", "WASHING", "REPAIR"},
   blocking : BOOLEAN, plan : SUBSET Days, block : SUBSET Days,
   issue : SUBSET Issues, owes : BOOLEAN]
InspectionRows ==
  [status : {"none", "DRAFT", "COMPLETED", "SUPERSEDED"}, unit : SUBSET Units,
   order : SUBSET Orders, block : BOOLEAN, amends : SUBSET Inspections]
IssueRows ==
  [status : {"none", "OPEN", "IN_SERVICE", "RESOLVED"}, unit : SUBSET Units, blocking : BOOLEAN]

WorkTypeOK ==
  /\ unit \in [Units -> UnitStates]
  /\ order \in [Orders -> OrderRows]
  /\ inspection \in [Inspections -> InspectionRows]
  /\ issue \in [Issues -> IssueRows]
  /\ incomplete \subseteq Units
  /\ today \in Days

(* An order still owes its completion inspection.                            *)
Owing(o) ==
  /\ order[o].status = "COMPLETED" /\ order[o].owes
  /\ \A n \in Inspections :
       ~(o \in inspection[n].order /\ inspection[n].status \in {"COMPLETED", "SUPERSEDED"})

(* A unit is not offered for a day on which blocking work on it is planned    *)
(* while that work is open, nor, when the work asked for an inspection, for   *)
(* any day from the work's first on until the inspection is made - whoever    *)
(* else inspects the unit, moves it or creates work on it meanwhile.          *)
WorkKeepsItsDays ==
  \A u \in Units, d \in today..MaxDay : OfferedOn(u, d) =>
    \A o \in Orders : order[o].unit = {u} /\ order[o].blocking =>
      /\ Open(order, o) => d \notin order[o].plan
      /\ Owing(o) => \A e \in order[o].plan : d < e

(* An inspection that is owed keeps the unit from being offered for any day.  *)
(* Not so: work completed before its first day keeps that day in its block.  *)
OwedInspectionBlocksUnit ==
  \A u \in Units, d \in today..MaxDay : OfferedOn(u, d) =>
    \A o \in Orders : order[o].unit = {u} /\ order[o].blocking => ~Owing(o)

(* Finished work does not keep a unit blocked for ever: a block in force     *)
(* belongs to work that is open, to an inspection owed or to one begun.      *)
BlocksAreReleased ==
  /\ \A o \in Orders : order[o].block # {} => Open(order, o) \/ Owing(o)
  /\ \A n \in Inspections : inspection[n].block => inspection[n].status = "DRAFT"

(* No open work names an issue that was resolved.                            *)
ResolvedIssuesHaveNoWork ==
  \A i \in Issues : issue[i].status = "RESOLVED" =>
    \A o \in Orders : ~(Open(order, o) /\ i \in order[o].issue)

(* A unit is being cleaned, washed or repaired for an order in progress.     *)
ServiceState(u) == unit[u].op \in {"CLEANING", "WASHING", "REPAIRING"}
InWork(u) ==
  \E o \in Orders :
    /\ order[o].status = "IN_PROGRESS" /\ order[o].unit = {u}
    /\ operationalStateFor[order[o].type] = unit[u].op

(* The work that put a unit in a service state takes it out when it ends,    *)
(* whichever of several orders ends first and whoever inspects or moves the  *)
(* unit meanwhile: no unit is left there with nothing to end it, but by the  *)
(* staff who put it there.                                                   *)
WorkLeavesNoUnitBehind ==
  [][\A u \in Units : InWork(u) /\ ServiceState(u)' => InWork(u)']_workVars

(* Open work can be brought to an end, whatever became of its unit.          *)
WorkCanEnd ==
  /\ \A o \in Orders : Open(order, o) => ENABLED CompleteOrder(o, TRUE)
  /\ \A n \in Inspections : inspection[n].status = "DRAFT" =>
       \E decision \in InspectionDecisions :
         ENABLED CompleteInspection(n, decision, FALSE, {}, FALSE, {})

=============================================================================
