--------------------------- MODULE MCStockTransfers ---------------------------
(* Instances of StockTransfers for TLC.                                      *)
EXTENDS StockTransfers, TLC

CONSTANTS u1, u2, u3, t1, t2, shop, depot, o1, n1

AllInShop == [u \in Units |-> shop]
TransfersAlike == Permutations({t1, t2})
UnitsAlike == Permutations({u1, u2, u3})
Alike == TransfersAlike \cup UnitsAlike

=============================================================================
