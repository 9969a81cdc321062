--------------------------- MODULE BookingLedger ----------------------------
(***************************************************************************)
(* What the payment of a booking promises about money: the booking is      *)
(* charged for one payment at a time, one charge made in time pays for it, *)
(* every other charge is to be returned in full, the booking is delivered  *)
(* only when paid, is never given up while a charge made in time exists,   *)
(* and what is owed of a charge is settled once.  Checkout implements it.  *)
(***************************************************************************)
CONSTANTS
  Payments,
  Shares,   \* how much of the price may be owed
  All,      \* all of it
  None      \* nothing is owed

VARIABLES
  charge,   \* OPEN: made or being decided, and not settled
  inTime,   \* the charges made before the deadline and the end of the booking
  owed,     \* what is to be returned of each charge
  stage     \* of the booking

vars == <<charge, inTime, owed, stage>>

With(state) == {p \in Payments : charge[p] = state}

\* Charges older than the checkpoints of the attempts are made already.
Init ==
  /\ charge \in [Payments -> {"NONE", "OPEN"}]
  /\ inTime = With("OPEN")
  /\ owed = [p \in Payments |-> None]
  /\ stage = "OPEN"

Charge(p) ==
  /\ With("NONE") = Payments
  /\ charge' = [charge EXCEPT ![p] = "OPEN"]
  /\ \/ UNCHANGED inTime
     \/ stage = "OPEN" /\ inTime' = inTime \cup {p}
  /\ UNCHANGED <<owed, stage>>

Refuse(p) ==
  /\ charge[p] = "OPEN"
  /\ charge' = [charge EXCEPT ![p] = "NONE"] /\ inTime' = inTime \ {p}
  /\ UNCHANGED <<owed, stage>>

\* The booking's payment.  A cancellation may have come before it.
Keep(p) ==
  /\ charge[p] = "OPEN" /\ p \in inTime /\ With("KEPT") = {}
  /\ charge' = [charge EXCEPT ![p] = "KEPT"]
  /\ \E share \in IF stage = "ENDED" THEN Shares ELSE {None} : owed' = [owed EXCEPT ![p] = share]
  /\ UNCHANGED <<inTime, stage>>

GiveBack(p) ==
  /\ charge[p] = "OPEN" /\ (p \in inTime => With("KEPT") # {})
  /\ charge' = [charge EXCEPT ![p] = "RETURNED"] /\ owed' = [owed EXCEPT ![p] = All]
  /\ UNCHANGED <<inTime, stage>>

Deliver ==
  /\ stage = "OPEN" /\ With("KEPT") # {}
  /\ stage' = "DELIVERED"
  /\ UNCHANGED <<charge, inTime, owed>>

Cancel(share) ==
  /\ stage # "ENDED" /\ stage' = "ENDED"
  /\ owed' = [p \in Payments |-> IF charge[p] = "KEPT" THEN share ELSE owed[p]]
  /\ UNCHANGED <<charge, inTime>>

Expire ==
  /\ stage = "OPEN" /\ inTime = {}
  /\ stage' = "ENDED"
  /\ UNCHANGED <<charge, inTime, owed>>

Next ==
  \/ \E p \in Payments : Charge(p) \/ Refuse(p) \/ Keep(p) \/ GiveBack(p)
  \/ \E share \in Shares : Cancel(share)
  \/ Deliver \/ Expire

Spec == Init /\ [][Next]_vars
=============================================================================
