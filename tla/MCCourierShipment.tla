-------------------------- MODULE MCCourierShipment --------------------------
(* Instances of CourierShipment for TLC.  A run covers the instances it      *)
(* names in Loads; which of them a behaviour belongs to is chosen first.     *)
EXTENDS CourierShipment, TLC

CONSTANTS p1, p2, k1, k2, Loads

VARIABLE load   \* "any": no bound but the constants'; "dispatches"; "updates"

Collect == {1}
Delivered == {"delivered"}
Returned == {"returned_to_sender"}
BothEnds == {"delivered", "returned_to_sender"}
Cancelled == {"cancelled"}
None == {}

(* Bound: the shipment is dispatched and never updated, its parcels stay.   *)
DispatchesOnly ==
  /\ UNCHANGED handler
  /\ \A p \in Parcels : parcel'[p].stage = 0 /\ parcel'[p].end = "delivered"

(* Bound: one dispatch at a time, of the parcel p1 under the key k1; its    *)
(* items are handed out before; of its webhooks only the pickup's arrives,  *)
(* late or never; the three-day check selects what has no parcel; and       *)
(* staff set the status when no update is being made and the parcel ended.  *)
UpdatesOnly ==
  /\ \A c \in Callers : caller'[c].at # "idle" => c = 1 /\ caller'[c].key = {k1}
  /\ parcel'[p2] = NoParcel
  /\ handedOut' # handedOut => ship.status = "none"
  /\ receipts' \subseteq {<<p1, 1>>}
  /\ byHand' # byHand => handler = [h \in Handlers |-> NoUpdate] /\ parcel[p1].stage = Ended
  /\ stuck'.selected => stuck.selected \/ ship.ref = {}

Bound ==
  \/ load = "any"
  \/ load = "dispatches" /\ DispatchesOnly
  \/ load = "updates" /\ UpdatesOnly

MCInit == Init /\ load \in Loads
MCNext == Next /\ Bound /\ UNCHANGED load
MCSpec == MCInit /\ [][MCNext]_<<vars, load>>

(* The fairness of FairSpec, of the steps within the bound.                 *)
MCFairSpec ==
  /\ MCSpec
  /\ WF_vars(ThreeDaysPass /\ Bound)
  /\ WF_vars(StuckSelect /\ Bound)
  /\ WF_vars(StuckMark /\ Bound)
  /\ SF_vars((\E h \in Handlers : PollSelects(h)) /\ Bound)
  /\ SF_vars((\E h \in Handlers : PollAnswered(h)) /\ Bound)
  /\ SF_vars((\E h \in Handlers : ReadCurrent(h)) /\ Bound)
  /\ SF_vars((\E h \in Handlers : WriteStatus(h)) /\ Bound)
  /\ WF_vars((\E h \in Handlers : DeliverBooking(h) \/ RecordCash(h)) /\ Bound)

=============================================================================
