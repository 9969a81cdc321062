--------------------------- MODULE VehicleCustody ---------------------------
(***************************************************************************)
(* What handover, receipt, return and recovery promise about a vehicle and *)
(* its keys: a vehicle is in one pair of hands at a time, only the booking *)
(* it was prepared for can take it on the road, and no booking is prepared *)
(* a vehicle twice.  Rental implements it.                                 *)
(***************************************************************************)

CONSTANTS Vehicles, Bookings, None

VARIABLES
  holder,   \* where each vehicle is, and for which booking
  prepared  \* the bookings that were ever given a vehicle's keys

vars == <<holder, prepared>>

Shop == [place |-> "SHOP", booking |-> None]
Keys(b) == [place |-> "KEYS", booking |-> b]
Road(b) == [place |-> "ROAD", booking |-> b]

Init ==
  /\ holder = [v \in Vehicles |-> Shop]
  /\ prepared = {}

Prepare(v, b) ==
  /\ holder[v] = Shop
  /\ b \notin prepared
  /\ holder' = [holder EXCEPT ![v] = Keys(b)]
  /\ prepared' = prepared \cup {b}

Confirm(v, b) ==
  /\ holder[v] = Keys(b)
  /\ holder' = [holder EXCEPT ![v] = Road(b)]
  /\ UNCHANGED prepared

\* The customer returns the vehicle, or the shop recovers it.
ComesBack(v) ==
  /\ holder[v] # Shop
  /\ holder' = [holder EXCEPT ![v] = Shop]
  /\ UNCHANGED prepared

Next ==
  \E v \in Vehicles :
    \/ \E b \in Bookings : Prepare(v, b) \/ Confirm(v, b)
    \/ ComesBack(v)

Spec == Init /\ [][Next]_vars
=============================================================================
