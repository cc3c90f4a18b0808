SPECIFICATION WorkSpec
CONSTANTS
  u1 = u1
  o1 = o1
  o2 = o2
  n1 = n1
  n2 = n2
  i1 = i1
  Units = {u1}
  Orders = {o1, o2}
  Inspections = {n1, n2}
  Issues = {i1}
  ServiceTypes = {"CLEANING"}
  Decisions = {"AVAILABLE", "REPAIR", "RETIRE"}
  StaffTargets = {"AVAILABLE", "AWAITING_INSPECTION", "CLEANING"}
  MaxDay = 2
SYMMETRY Alike
INVARIANTS WorkKeepsItsDays BlocksAreReleased ResolvedIssuesHaveNoWork WorkCanEnd
PROPERTY WorkLeavesNoUnitBehind
CHECK_DEADLOCK FALSE
