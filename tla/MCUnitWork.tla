------------------------------ MODULE MCUnitWork ------------------------------
(* Instances of UnitWork for TLC.                                            *)
EXTENDS UnitWork, TLC

CONSTANTS u1, o1, o2, n1, n2, i1

OrdersAlike == Permutations({o1, o2})
InspectionsAlike == Permutations({n1, n2})
Alike == OrdersAlike \cup InspectionsAlike

=============================================================================
