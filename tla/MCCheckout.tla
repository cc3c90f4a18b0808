------------------------------ MODULE MCCheckout ------------------------------
(* Instances of Checkout for TLC.                                           *)
EXTENDS Checkout, TLC

CONSTANTS p1, d1, r1, r2, q1, q2, c1, c2

Alike == Permutations(Requests) \cup Permutations(Quotes) \cup Permutations(Carts)

=============================================================================
