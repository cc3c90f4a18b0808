SPECIFICATION Spec
CONSTANTS
  u1 = u1
  u2 = u2
  u3 = u3
  t1 = t1
  t2 = t2
  shop = shop
  depot = depot
  o1 = o1
  n1 = n1
  Units = {u1}
  Orders = {o1}
  Inspections = {}
  Issues = {}
  ServiceTypes = {"CLEANING"}
  Decisions = {"AVAILABLE", "RETIRE"}
  StaffTargets = {}
  Locations = {shop, depot}
  Home <- AllInShop
  Transfers = {t1}
  MaxReserved = 2
  MaxDay = 2
CHECK_DEADLOCK FALSE
INVARIANT TransferredIsNotOffered
