----------------------- MODULE MCBookingFulfillment -----------------------
(***************************************************************************)
(* Instances of BookingFulfillment for TLC: the functions an instance      *)
(* needs, by name; the .cfg files choose among them.                        *)
(***************************************************************************)
EXTENDS BookingFulfillment, TLC

CONSTANTS b1, b2, r1, r2, u1, u2, u3, suit, gown

(* Two bookings of one requirement each, competing for the same suit.       *)
RivalsBookingOf == r1 :> b1 @@ r2 :> b2
(* One booking of a set: two requirements.                                  *)
SetBookingOf == r1 :> b1 @@ r2 :> b1

(* One booking of one requirement.                                          *)
LoneBookingOf == r1 :> b1
LoneQuantity == r1 :> 1
LoneWanted == r1 :> suit

OneEach == r1 :> 1 @@ r2 :> 1
OneAndTwo == r1 :> 1 @@ r2 :> 2

AllSuit == r1 :> suit @@ r2 :> suit
SuitAndGown == r1 :> suit @@ r2 :> gown

OneSuitUnit == u1 :> suit
TwoSuitUnits == u1 :> suit @@ u2 :> suit
SuitAndGownUnits == u1 :> suit @@ u2 :> gown
SuitAndTwoGowns == u1 :> suit @@ u2 :> gown @@ u3 :> gown
=============================================================================
