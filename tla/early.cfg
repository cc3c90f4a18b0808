SPECIFICATION WorkSpec
CONSTANTS
  u1 = u1
  o1 = o1
  o2 = o2
  n1 = n1
  n2 = n2
  i1 = i1
  Units = {u1}
  Orders = {o1}
  Inspections = {n1}
  Issues = {}
  ServiceTypes = {"CLEANING"}
  Decisions = {"AVAILABLE"}
  StaffTargets = {}
  MaxDay = 2
CHECK_DEADLOCK FALSE
INVARIANT OwedInspectionBlocksUnit
