-------------------------- MODULE MCStatementRaces --------------------------
(***************************************************************************)
(* Instances of StatementRaces for TLC.                                     *)
(***************************************************************************)
EXTENDS StatementRaces, TLC

CONSTANTS b1, b2, r1, r2, r3

(* One booking of two requirements and one of one.                          *)
PairAndSingle == r1 :> b1 @@ r2 :> b1 @@ r3 :> b2
(* One booking of one requirement.                                          *)
Single == r1 :> b1
=============================================================================
