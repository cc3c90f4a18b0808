------------------------- MODULE StockUnitLifecycle -------------------------
(***************************************************************************)
(* The rules of stock-unit-lifecycle.service.ts: the only code that writes  *)
(* a stock unit's disposition and operational state.  A unit is a record    *)
(* [disp, op]; the operators below say when a requested change is accepted. *)
(***************************************************************************)

OperationalStates ==
  {"AVAILABLE", "PREPARING", "READY", "OUT_FOR_RENTAL", "AWAITING_INSPECTION",
   "CLEANING", "WASHING", "REPAIRING", "IN_TRANSFER"}

Dispositions == {"ACTIVE", "QUARANTINED", "LOST", "RETIRED"}

UnitStates == [disp : Dispositions, op : OperationalStates]

OPERATIONAL_TRANSITIONS ==
  [AVAILABLE           |-> {"PREPARING", "AWAITING_INSPECTION", "CLEANING",
                            "WASHING", "REPAIRING", "IN_TRANSFER"},
   PREPARING           |-> {"READY", "AVAILABLE", "AWAITING_INSPECTION"},
   READY               |-> {"OUT_FOR_RENTAL", "AVAILABLE", "AWAITING_INSPECTION"},
   OUT_FOR_RENTAL      |-> {"AWAITING_INSPECTION"},
   AWAITING_INSPECTION |-> {"AVAILABLE", "CLEANING", "WASHING", "REPAIRING"},
   CLEANING            |-> {"AWAITING_INSPECTION", "AVAILABLE"},
   WASHING             |-> {"AWAITING_INSPECTION", "AVAILABLE"},
   REPAIRING           |-> {"AWAITING_INSPECTION"},
   IN_TRANSFER         |-> {"AVAILABLE", "AWAITING_INSPECTION"}]

DISPOSITION_TRANSITIONS ==
  [ACTIVE      |-> {"QUARANTINED", "LOST", "RETIRED"},
   QUARANTINED |-> {"ACTIVE", "LOST", "RETIRED"},
   LOST        |-> {"ACTIVE", "RETIRED"},
   RETIRED     |-> {}]

Rentable == [disp |-> "ACTIVE", op |-> "AVAILABLE"]

(* transitionInTransaction accepts a move when both tables allow it and,    *)
(* unless nothing changes, the three extra conditions hold: reactivation    *)
(* needs an inspection, retirement needs nobody else to hold the unit, and  *)
(* a unit becomes rentable only without open blocking work.                 *)
TransitionAllowed(from, to, inspected, heldElsewhere, blockingWork) ==
  /\ to.disp = from.disp \/ to.disp \in DISPOSITION_TRANSITIONS[from.disp]
  /\ to.op = from.op \/ to.op \in OPERATIONAL_TRANSITIONS[from.op]
  /\ \/ to = from
     \/ /\ (to.disp = "ACTIVE" /\ from.disp # "ACTIVE") => inspected
        /\ to.disp = "RETIRED" => ~heldElsewhere
        /\ to = Rentable => ~blockingWork

(* The state an inspection decision sends the unit to (lifecycleTarget).    *)
LifecycleTarget ==
  [AVAILABLE  |-> Rentable,
   CLEANING   |-> [disp |-> "ACTIVE", op |-> "CLEANING"],
   WASHING    |-> [disp |-> "ACTIVE", op |-> "WASHING"],
   REPAIR     |-> [disp |-> "ACTIVE", op |-> "REPAIRING"],
   QUARANTINE |-> [disp |-> "QUARANTINED", op |-> "AWAITING_INSPECTION"],
   LOST       |-> [disp |-> "LOST", op |-> "AWAITING_INSPECTION"],
   RETIRE     |-> [disp |-> "RETIRED", op |-> "AWAITING_INSPECTION"]]

InspectionDecisions ==
  {"AVAILABLE", "CLEANING", "WASHING", "REPAIR", "QUARANTINE", "LOST", "RETIRE"}
=============================================================================
