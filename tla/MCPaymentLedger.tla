--------------------------- MODULE MCPaymentLedger ---------------------------
(* Instances of PaymentLedger for TLC.  Amounts are small: a deposit of 1   *)
(* per item and a rental of 1 or 2 already allow partial payments of either *)
(* part, and one charge of 1 makes a payment that was exact too small.      *)
EXTENDS PaymentLedger, TLC

CONSTANTS p1, p2, p3, i1, i2

OneItem == i1 :> 1
TwoItems == i1 :> 1 @@ i2 :> 1
Fees == {0, 1}
Collections == {1, 2}
OneCollected == {1}
None == {}

AnyPayment == Permutations(Payments)

=============================================================================
