---------------------------- MODULE Rental_proofs ----------------------------
(***************************************************************************)
(* Proofs about Rental, for any fleet, any number of bookings and any      *)
(* length of days.  The types are proved first.  Then every step is shown  *)
(* to be of one of five kinds: nothing that concerns a vehicle's keys, a   *)
(* handover, a receipt, a return or a recovery.  The agreement of the      *)
(* three tables, the survival of a hold and the custody protocol are       *)
(* proved kind by kind.  Last comes capacity: every step finds, tests or   *)
(* inherits an assignment of vehicles to the bookings that live.           *)
(***************************************************************************)
EXTENDS Rental, TLAPS

\* Bookings that nobody has had keys for yet.
Early == {"NONE", "REQUESTED", "APPROVED"}

\* handed_over_at is set exactly from the handover on.
HandedAgrees ==
  \A b \in Bookings : /\ booking[b].status \in Early => ~booking[b].handed
                      /\ booking[b].status = "HANDOVER_PENDING" => booking[b].handed

\* The inductive invariant.
IInv == TypeOK /\ RecordsAgree /\ HandedAgrees

-----------------------------------------------------------------------------
\* The clock and the records.

LEMMA Products ==
  ASSUME NEW m \in Nat, NEW n \in Nat, m <= n
  PROVE  m * DayLength \in Nat /\ m * DayLength <= n * DayLength
<1>1. PICK k \in Nat : n = m + k
  <2>1. n - m \in Nat /\ n = m + (n - m)
    OBVIOUS
  <2>2. QED BY <2>1
<1>2. DayLength \in Nat
  BY TimeAssumption
<1>3. m * DayLength \in Nat /\ k * DayLength \in Nat /\ n * DayLength = m * DayLength + k * DayLength
  BY <1>1, <1>2
<1>4. QED BY <1>3

LEMMA Clock ==
  /\ Horizon \in Nat /\ 0 \in Times
  /\ \A d \in DayNumbers : d * DayLength \in Times /\ (d + 1) * DayLength \in Times
<1>1. LastDay \in Nat /\ DayLength \in Nat
  BY TimeAssumption
<1>2. Horizon \in Nat
  BY <1>1 DEF Horizon
<1>3. ASSUME NEW d \in DayNumbers
      PROVE  d * DayLength \in Times /\ (d + 1) * DayLength \in Times
  <2>1. d \in Nat /\ d + 1 \in Nat /\ d <= LastDay /\ d + 1 <= LastDay
    BY <1>3, <1>1 DEF DayNumbers
  <2>2. /\ d * DayLength \in Nat /\ d * DayLength <= Horizon
        /\ (d + 1) * DayLength \in Nat /\ (d + 1) * DayLength <= Horizon
    BY <2>1, <1>1, Products DEF Horizon
  <2>3. QED BY <1>2, <2>2 DEF Times
<1>4. QED BY <1>2, <1>3 DEF Times

LEMMA VehicleRecords ==
  /\ Available \in Vehicle /\ Available.status = "AVAILABLE" /\ Available.hold = None
  /\ OnRent \in Vehicle /\ OnRent.status = "ON_RENT" /\ OnRent.hold = None
  /\ \A b \in Bookings : HeldFor(b) \in Vehicle /\ HeldFor(b).status = "DISABLED" /\ HeldFor(b).hold = b
  /\ \A s, t \in Times : /\ InRepair(s, t) \in Vehicle /\ InRepair(s, t).status = "MAINTENANCE"
                         /\ InRepair(s, t).hold = None
  BY Clock DEF Available, OnRent, HeldFor, InRepair, Vehicle

LEMMA BookingRecords ==
  /\ NoBooking \in Booking /\ NoBooking.status = "NONE" /\ ~NoBooking.handed
  /\ NoContract \in Contract /\ NoContract.status = "NONE"
  /\ \A s, t \in Times, v \in Vehicles \cup {None} :
       Requested(s, t, v) \in Booking /\ Requested(s, t, v).status = "REQUESTED" /\ Requested(s, t, v).handed = FALSE
  BY Clock DEF NoBooking, NoContract, Requested, Booking, Contract, Statuses

LEMMA ReleasedRecord ==
  ASSUME NEW r \in Booking, NEW s \in Statuses
  PROVE  Released(r, s) \in Booking /\ Released(r, s).status = s /\ Released(r, s).handed = r.handed
  BY Clock DEF Released, NoBooking, Booking

LEMMA SweptEffect ==
  ASSUME vehicle \in [Vehicles -> Vehicle]
  PROVE  /\ Swept \in [Vehicles -> Vehicle]
         /\ \A v \in Vehicles : \/ Swept[v] = vehicle[v]
                                \/ vehicle[v].status = "MAINTENANCE" /\ Swept[v] = Available
  BY VehicleRecords DEF Swept, Ended

LEMMA ApplyEffect ==
  ASSUME booking \in [Bookings -> Booking], fleet \subseteq Vehicles,
         NEW jobs \in SUBSET Bookings, NEW st, NEW needs, NEW a \in Plans(booking, jobs, st, needs)
  PROVE  /\ \A b \in jobs : a[b] \in Vehicles
         /\ Apply(a, booking) \in [Bookings -> Booking]
         /\ \A b \in Bookings :
              /\ Apply(a, booking)[b].status = booking[b].status
              /\ Apply(a, booking)[b].handed = booking[b].handed
              /\ booking[b].status # "APPROVED" => Apply(a, booking)[b] = booking[b]
<1>1. DOMAIN a = jobs /\ \A b \in jobs : a[b] \in Vehicles
  BY DEF Plans
<1>2. ASSUME NEW b \in Bookings
      PROVE  /\ Apply(a, booking)[b] \in Booking
             /\ Apply(a, booking)[b].status = booking[b].status
             /\ Apply(a, booking)[b].handed = booking[b].handed
             /\ booking[b].status # "APPROVED" => Apply(a, booking)[b] = booking[b]
  BY <1>1 DEF Apply, Booking
<1>3. QED BY <1>1, <1>2 DEF Apply

-----------------------------------------------------------------------------
\* Types.

LEMMA InitTypes == Init => TypeOK
  BY Clock, VehicleRecords, BookingRecords DEF Init, TypeOK

\* What the operations have in common: the rows they write are well-formed.
LEMMA LiveIsBookings == Live(booking) \subseteq Bookings
  BY DEF Live

LEMMA RequestTypes ==
  ASSUME TypeOK, NEW b \in Bookings, NEW v \in Vehicles \cup {None}, NEW s \in Times, NEW t \in Times,
         booking' = [booking EXCEPT ![b] = Requested(s, t, v)],
         UNCHANGED <<now, fleet, contract, vehicle>>
  PROVE  TypeOK'
  BY BookingRecords DEF TypeOK

LEMMA ReleaseTypes ==
  ASSUME TypeOK, NEW b \in Bookings, NEW s \in Statuses, Release(b, s),
         UNCHANGED <<now, fleet, contract>>, vehicle' \in [Vehicles -> Vehicle]
  PROVE  TypeOK'
<1>1. Released(booking[b], s) \in Booking
  BY ReleasedRecord DEF TypeOK
<1>2. QED BY <1>1 DEF TypeOK, Release

LEMMA PrepareTypes ==
  ASSUME TypeOK, NEW b \in Bookings, NEW r \in Booking, NEW v \in Vehicles, Prepare(b, r, v)
  PROVE  TypeOK'
<1>1. [r EXCEPT !.status = "HANDOVER_PENDING", !.assignment = "LOCKED", !.vehicle = v, !.handed = TRUE] \in Booking
  BY DEF Booking, Statuses
<1>2. booking' \in [Bookings -> Booking]
  BY <1>1 DEF Prepare, TypeOK
<1>3. vehicle' \in [Vehicles -> Vehicle]
  BY SweptEffect, VehicleRecords DEF Prepare, TypeOK
<1>4. QED BY <1>2, <1>3 DEF Prepare, TypeOK

LEMMA ApproveTypes ==
  ASSUME TypeOK, NEW b \in Bookings, Approve(b)
  PROVE  TypeOK'
<1>1. Live(booking) \cup {b} \in SUBSET Bookings
  BY LiveIsBookings
<1>2. PICK a \in Plans(booking, Live(booking) \cup {b}, Swept, Nothing) :
        booking' = [Apply(a, booking) EXCEPT ![b] =
                      [@ EXCEPT !.status = "APPROVED", !.assignment = "PROVISIONAL", !.vehicle = a[b]]]
  BY DEF Approve
<1>3. a[b] \in Vehicles /\ Apply(a, booking) \in [Bookings -> Booking]
  BY <1>1, <1>2, ApplyEffect DEF TypeOK
<1>4. [Apply(a, booking)[b] EXCEPT !.status = "APPROVED", !.assignment = "PROVISIONAL", !.vehicle = a[b]] \in Booking
  BY <1>3 DEF Booking, Statuses
<1>5. booking' \in [Bookings -> Booking]
  BY <1>2, <1>3, <1>4
<1>6. QED BY <1>5, SweptEffect DEF Approve, TypeOK

LEMMA ReceiveTypes ==
  ASSUME TypeOK, NEW b \in Bookings, Receive(b)
  PROVE  TypeOK'
<1> DEFINE v == booking[b].vehicle
           st == [vehicle EXCEPT ![v] = Available]
<1>1. v \in Vehicles
  BY DEF Receive, TypeOK
<1>2. PICK a \in Plans(booking, Live(booking), st, Needs(v, now, booking[b].end)) :
        booking' = [Apply(a, booking) EXCEPT ![b].status = "HANDED_OVER"]
  BY DEF Receive
<1>3. Apply(a, booking) \in [Bookings -> Booking]
  BY <1>2, LiveIsBookings, ApplyEffect DEF TypeOK
<1>4. booking' \in [Bookings -> Booking]
  BY <1>2, <1>3, ZenonT(60) DEF Booking, Statuses
<1>5. contract' \in [Bookings -> Contract]
  BY <1>1, Clock DEF Receive, TypeOK, Contract
<1>6. vehicle' \in [Vehicles -> Vehicle]
  BY <1>1, VehicleRecords DEF Receive, TypeOK
<1>7. QED BY <1>4, <1>5, <1>6 DEF Receive, TypeOK

LEMMA ReturnTypes ==
  ASSUME TypeOK, NEW v \in Vehicles, Return(v)
  PROVE  TypeOK'
<1>1. PICK b \in Bookings :
        /\ contract' = [contract EXCEPT ![b] = [@ EXCEPT !.status = "RETURNED", !.finish = now]]
        /\ booking' = [booking EXCEPT ![b] = [@ EXCEPT !.status = "RETURNED", !.assignment = "RELEASED"]]
  BY DEF Return
<1>2. contract' \in [Bookings -> Contract]
  <2>1. [contract[b] EXCEPT !.status = "RETURNED", !.finish = now] \in Contract
    BY DEF TypeOK, Contract
  <2>2. QED BY <1>1, <2>1 DEF TypeOK
<1>3. booking' \in [Bookings -> Booking]
  <2>1. [booking[b] EXCEPT !.status = "RETURNED", !.assignment = "RELEASED"] \in Booking
    BY DEF TypeOK, Booking, Statuses
  <2>2. QED BY <1>1, <2>1 DEF TypeOK
<1>4. vehicle' \in [Vehicles -> Vehicle]
  BY VehicleRecords DEF Return, TypeOK
<1>5. QED BY <1>2, <1>3, <1>4 DEF Return, TypeOK

LEMMA ExpiryTypes ==
  ASSUME TypeOK, ExpireReceipts
  PROVE  TypeOK'
<1>1. ASSUME NEW b \in Bookings PROVE Expired(booking[b]) \in Booking
  <2>1. Released(booking[b], "EXPIRED") \in Booking
    BY ReleasedRecord DEF TypeOK, Statuses
  <2>2. QED BY <2>1 DEF Expired, TypeOK, Booking, Statuses
<1>2. booking' \in [Bookings -> Booking]
  BY <1>1 DEF ExpireReceipts, TypeOK
<1>3. QED BY <1>2 DEF ExpireReceipts, TypeOK

LEMMA RepairTypes ==
  ASSUME TypeOK, NEW v \in Vehicles, NEW last \in DayNumbers, Repair(v, last)
  PROVE  TypeOK'
<1> DEFINE begin == IF Swept[v].status = "MAINTENANCE" THEN vehicle[v].since ELSE now
           until == (last + 1) * DayLength
           st == [Swept EXCEPT ![v] = Available]
<1>1. begin \in Times /\ until \in Times
  BY Clock DEF TypeOK, Vehicle
<1>2. PICK a \in Plans(booking, Live(booking), st, Needs(v, begin, until)) : booking' = Apply(a, booking)
  BY DEF Repair
<1>3. booking' \in [Bookings -> Booking]
  BY <1>2, LiveIsBookings, ApplyEffect DEF TypeOK
<1>4. InRepair(begin, until) \in Vehicle
  BY <1>1, VehicleRecords
<1>5. vehicle' \in [Vehicles -> Vehicle]
  BY <1>4, SweptEffect DEF Repair, TypeOK
<1>6. QED BY <1>3, <1>5 DEF Repair, TypeOK

LEMMA TypesStep == TypeOK /\ [Next]_vars => TypeOK'
<1> SUFFICES ASSUME TypeOK, [Next]_vars PROVE TypeOK'
  OBVIOUS
<1>1. ASSUME NEW b \in Bookings, NEW first \in DayNumbers, NEW last \in first..(LastDay - 1),
             Request(b, first, last)
      PROVE  TypeOK'
  <2>1. last \in DayNumbers
    BY TimeAssumption DEF DayNumbers
  <2>2. first * DayLength \in Times /\ (last + 1) * DayLength \in Times
    BY <2>1, Clock
  <2>3. QED BY <1>1, <2>2, RequestTypes DEF Request
<1>2. ASSUME NEW b \in Bookings, NEW v \in Vehicles, NEW last \in DayNumbers,
             OnsiteRequest(b, v, last) \/ WalkIn(b, v, last)
      PROVE  TypeOK'
  <2>1. now \in Times /\ (last + 1) * DayLength \in Times
    BY Clock DEF TypeOK
  <2>2. CASE OnsiteRequest(b, v, last)
    BY <2>1, <2>2, RequestTypes DEF OnsiteRequest
  <2>3. CASE WalkIn(b, v, last)
    <3>1. Requested(now, (last + 1) * DayLength, v) \in Booking
      BY <2>1, BookingRecords
    <3>2. QED BY <2>3, <3>1, PrepareTypes DEF WalkIn
  <2>4. QED BY <1>2, <2>2, <2>3
<1>3. ASSUME NEW b \in Bookings, NEW v \in Vehicles, HandOver(b, v) PROVE TypeOK'
  BY <1>3, PrepareTypes DEF HandOver, TypeOK
<1>4. ASSUME NEW b \in Bookings, Approve(b) PROVE TypeOK'
  BY <1>4, ApproveTypes
<1>5. ASSUME NEW b \in Bookings, Reject(b) \/ Cancel(b) \/ ExpireUnpaid(b) PROVE TypeOK'
  BY <1>5, ReleaseTypes DEF Reject, Cancel, ExpireUnpaid, Statuses, TypeOK
<1>6. ASSUME NEW b \in Bookings, Receive(b) PROVE TypeOK'
  BY <1>6, ReceiveTypes
<1>7. ASSUME NEW b \in Bookings, Recover(b) PROVE TypeOK'
  <2>1. vehicle' \in [Vehicles -> Vehicle]
    BY <1>7, VehicleRecords DEF Recover, TypeOK
  <2>2. QED BY <1>7, <2>1, ReleaseTypes DEF Recover, Statuses
<1>8. ASSUME NEW v \in Vehicles, Return(v) PROVE TypeOK'
  BY <1>8, ReturnTypes
<1>9. ASSUME NEW v \in Vehicles, Move(v) PROVE TypeOK'
  BY <1>9 DEF Move, TypeOK
<1>10. ASSUME NEW v \in Vehicles, NEW last \in DayNumbers, Repair(v, last) PROVE TypeOK'
  BY <1>10, RepairTypes
<1>11. CASE ExpireReceipts
  BY <1>11, ExpiryTypes
<1>12. CASE ExpireMaintenance
  BY <1>12, SweptEffect DEF ExpireMaintenance, TypeOK
<1>13. CASE Tick
  BY <1>13, Clock DEF Tick, TypeOK, Times
<1>14. CASE UNCHANGED vars
  BY <1>14 DEF vars, TypeOK
<1>15. QED
  BY <1>1, <1>2, <1>3, <1>4, <1>5, <1>6, <1>7, <1>8, <1>9, <1>10, <1>11, <1>12, <1>13, <1>14 DEF Next

\* The tables of app/rental_schema.py keep their types whatever the endpoints
\* and timers do.
THEOREM TypesAreKept == Spec => []TypeOK
  BY InitTypes, TypesStep, PTL DEF Spec

-----------------------------------------------------------------------------
\* The kinds of steps.

\* A vehicle that nobody has and that is kept for nobody.
AtShop(r) == r.status \in {"AVAILABLE", "MAINTENANCE"} /\ r.hold = None

\* Whatever else happens to booking b, its keys and its rental stay as they are.
SameKeys(b) ==
  /\ contract'[b] = contract[b]
  /\ booking'[b].handed = booking[b].handed
  /\ KeysOut(b)' <=> KeysOut(b)
  /\ booking'[b].status = "HANDED_OVER" <=> booking[b].status = "HANDED_OVER"
  /\ KeysOut(b) \/ booking[b].status = "HANDED_OVER" => booking'[b].vehicle = booking[b].vehicle
  /\ booking'[b].status \in Early => booking[b].status \in Early
  /\ booking'[b].status = "HANDOVER_PENDING" => booking[b].status = "HANDOVER_PENDING"

SamePlace(v) == vehicle'[v] = vehicle[v] \/ (AtShop(vehicle[v]) /\ AtShop(vehicle'[v]))

Quiet ==
  /\ \A b \in Bookings : SameKeys(b)
  /\ \A v \in Vehicles : SamePlace(v)

\* Only b and v take part in the step.
Concerns(b, v) ==
  /\ \A c \in Bookings \ {b} : SameKeys(c)
  /\ \A u \in Vehicles \ {v} : SamePlace(u)

Prepared(b, v) ==
  /\ Concerns(b, v)
  /\ booking[b].status \in Early /\ AtShop(vehicle[v]) /\ OpenOn(v) = {}
  /\ contract'[b] = contract[b]
  /\ booking'[b].status = "HANDOVER_PENDING" /\ booking'[b].vehicle = v /\ booking'[b].handed
  /\ vehicle'[v] = HeldFor(b)

Received(b, v) ==
  /\ Concerns(b, v)
  /\ booking[b].status = "HANDOVER_PENDING" /\ booking[b].vehicle = v /\ now < Deadline(booking[b])
  /\ vehicle[v] = HeldFor(b) /\ OpenOn(v) = {}
  /\ contract'[b].status = "ON_RENT" /\ contract'[b].vehicle = v
  /\ booking'[b].status = "HANDED_OVER" /\ booking'[b].vehicle = v /\ booking'[b].handed
  /\ vehicle'[v] = OnRent

Returned(b, v) ==
  /\ Concerns(b, v)
  /\ OpenOn(v) = {b} /\ vehicle[v].status = "ON_RENT" /\ vehicle[v].hold = None
  /\ contract'[b].status = "RETURNED"
  /\ booking'[b].status = "RETURNED" /\ booking'[b].handed = booking[b].handed
  /\ vehicle'[v] = Available

Recovered(b, v) ==
  /\ Concerns(b, v)
  /\ KeysOut(b) /\ booking[b].vehicle = v /\ vehicle[v] = HeldFor(b)
  /\ contract'[b] = contract[b]
  /\ booking'[b].status = "CANCELED" /\ booking'[b].handed = booking[b].handed
  /\ vehicle'[v] = Available

StepKind ==
  \/ Quiet
  \/ \E b \in Bookings, v \in Vehicles :
       Prepared(b, v) \/ Received(b, v) \/ Returned(b, v) \/ Recovered(b, v)

LEMMA HeldIsDisabled ==
  ASSUME IInv, NEW v \in Vehicles, vehicle[v].hold # None
  PROVE  /\ vehicle[v].status = "DISABLED" /\ vehicle[v].hold \in Bookings
         /\ KeysOut(vehicle[v].hold) /\ booking[vehicle[v].hold].vehicle = v
<1>1. vehicle[v].hold \in Bookings
  BY DEF IInv, TypeOK, Vehicle
<1>2. KeysOut(vehicle[v].hold) /\ booking[vehicle[v].hold].vehicle = v
  BY DEF IInv, RecordsAgree
<1>3. vehicle[v] = HeldFor(vehicle[v].hold)
  BY <1>1, <1>2 DEF IInv, RecordsAgree
<1>4. QED BY <1>1, <1>2, <1>3, VehicleRecords

LEMMA SweptPlaces ==
  ASSUME IInv, NEW v \in Vehicles
  PROVE  Swept[v] = vehicle[v] \/ (AtShop(vehicle[v]) /\ AtShop(Swept[v]))
<1>1. vehicle[v].status = "MAINTENANCE" => vehicle[v].hold = None
  BY HeldIsDisabled
<1>2. Swept[v] = vehicle[v] \/ (vehicle[v].status = "MAINTENANCE" /\ Swept[v] = Available)
  BY SweptEffect DEF IInv, TypeOK
<1>3. QED BY <1>1, <1>2, VehicleRecords DEF AtShop

LEMMA FreeVehicle ==
  ASSUME IInv, NEW v \in Vehicles, Swept[v].status \in {"AVAILABLE", "MAINTENANCE"}
  PROVE  AtShop(vehicle[v])
<1>1. vehicle[v].status \in {"AVAILABLE", "MAINTENANCE"}
  BY SweptEffect DEF IInv, TypeOK
<1>2. vehicle[v].hold = None
  BY <1>1, HeldIsDisabled
<1>3. QED BY <1>1, <1>2 DEF AtShop

LEMMA UntouchedKeys ==
  ASSUME NEW b \in Bookings, booking'[b] = booking[b], contract'[b] = contract[b]
  PROVE  SameKeys(b)
  BY DEF SameKeys, KeysOut

\* A booking that had no keys out and still has none.
LEMMA OutsideKeys ==
  ASSUME NEW b \in Bookings, contract'[b] = contract[b],
         booking[b].status \in Early, ~booking[b].handed, booking'[b].handed = booking[b].handed,
         booking'[b].status \notin {"HANDOVER_PENDING", "HANDED_OVER"}
  PROVE  SameKeys(b)
  BY DEF SameKeys, KeysOut, Early

LEMMA ReleaseIsQuiet ==
  ASSUME IInv, NEW b \in Bookings, NEW s \in {"REJECTED", "CANCELED", "EXPIRED"}, Release(b, s),
         booking[b].status \in {"REQUESTED", "APPROVED"}, UNCHANGED <<contract, vehicle>>
  PROVE  Quiet
<1>1. \A c \in Bookings \ {b} : booking'[c] = booking[c]
  BY DEF IInv, TypeOK, Release
<1>2. ~booking[b].handed /\ booking[b].status \in Early
  BY DEF IInv, HandedAgrees, Early
<1>3. booking'[b] = Released(booking[b], s) /\ booking[b] \in Booking /\ s \in Statuses
  BY DEF IInv, TypeOK, Release, Statuses
<1>4. booking'[b].status = s /\ booking'[b].handed = booking[b].handed
  BY <1>2, <1>3, ReleasedRecord
<1>5. \A c \in Bookings : SameKeys(c)
  BY <1>1, <1>2, <1>4, UntouchedKeys, OutsideKeys
<1>6. QED BY <1>5 DEF Quiet, SamePlace

LEMMA RequestIsQuiet ==
  ASSUME IInv, NEW b \in Bookings, NEW s \in Times, NEW t \in Times, NEW v \in Vehicles \cup {None},
         booking[b].status = "NONE", booking' = [booking EXCEPT ![b] = Requested(s, t, v)],
         UNCHANGED <<contract, vehicle>>
  PROVE  Quiet
<1>1. \A c \in Bookings \ {b} : booking'[c] = booking[c]
  BY DEF IInv, TypeOK
<1>2. booking[b].handed = FALSE /\ booking[b].status \in Early
  BY DEF IInv, HandedAgrees, Early, TypeOK, Booking
<1>3. booking'[b].status = "REQUESTED" /\ booking'[b].handed = FALSE
  BY BookingRecords DEF IInv, TypeOK
<1>4. \A c \in Bookings : SameKeys(c)
  BY <1>1, <1>2, <1>3, UntouchedKeys, OutsideKeys
<1>5. QED BY <1>4 DEF Quiet, SamePlace

\* A reassignment moves approved bookings, which have no keys out.
LEMMA ApplyKeeps ==
  ASSUME IInv, NEW jobs \in SUBSET Bookings, NEW st, NEW needs, NEW a \in Plans(booking, jobs, st, needs),
         NEW c \in Bookings, booking'[c] = Apply(a, booking)[c], contract'[c] = contract[c]
  PROVE  SameKeys(c)
<1>1. /\ Apply(a, booking)[c].status = booking[c].status
      /\ Apply(a, booking)[c].handed = booking[c].handed
      /\ booking[c].status # "APPROVED" => Apply(a, booking)[c] = booking[c]
  BY ApplyEffect, SMTT(30) DEF IInv, TypeOK
<1>2. CASE booking[c].status # "APPROVED"
  BY <1>1, <1>2, UntouchedKeys
<1>3. CASE booking[c].status = "APPROVED"
  BY <1>1, <1>3, OutsideKeys DEF IInv, HandedAgrees, Early
<1>4. QED BY <1>2, <1>3

\* What one booking gets from a reassignment when it is not approved: nothing.
LEMMA ApplySpares ==
  ASSUME IInv, NEW jobs, jobs \subseteq Bookings, NEW st, NEW needs, NEW a,
         a \in Plans(booking, jobs, st, needs), NEW b \in Bookings, booking[b].status # "APPROVED"
  PROVE  Apply(a, booking) \in [Bookings -> Booking] /\ Apply(a, booking)[b] = booking[b]
<1>1. booking \in [Bookings -> Booking] /\ fleet \subseteq Vehicles
  BY DEF IInv, TypeOK
<1>2. jobs \in SUBSET Bookings
  OBVIOUS
<1>3. /\ Apply(a, booking) \in [Bookings -> Booking]
      /\ \A c \in Bookings : booking[c].status # "APPROVED" => Apply(a, booking)[c] = booking[c]
  BY <1>1, <1>2, ApplyEffect
<1>4. QED BY <1>3

LEMMA ApproveIsQuiet ==
  ASSUME IInv, NEW b \in Bookings, Approve(b)
  PROVE  Quiet
<1>1. PICK a \in Plans(booking, Live(booking) \cup {b}, Swept, Nothing) :
        booking' = [Apply(a, booking) EXCEPT ![b] =
                      [@ EXCEPT !.status = "APPROVED", !.assignment = "PROVISIONAL", !.vehicle = a[b]]]
  BY DEF Approve
<1>2. Live(booking) \cup {b} \in SUBSET Bookings
  BY LiveIsBookings
<1>3. Apply(a, booking) \in [Bookings -> Booking] /\ Apply(a, booking)[b] = booking[b]
  <2>1. booking[b].status # "APPROVED"
    BY DEF Approve
  <2>2. Live(booking) \cup {b} \subseteq Bookings
    BY <1>2
  <2>3. a \in Plans(booking, Live(booking) \cup {b}, Swept, Nothing)
    BY <1>1
  <2>4. QED BY <2>1, <2>2, <2>3, ApplySpares
<1>4. \A c \in Bookings \ {b} : booking'[c] = Apply(a, booking)[c]
  BY <1>1, <1>3
<1>5. booking[b].status \in Early /\ ~booking[b].handed
  BY DEF Approve, IInv, HandedAgrees, Early
<1>6. booking'[b].status = "APPROVED" /\ booking'[b].handed = booking[b].handed
  <2>1. booking'[b] = [booking[b] EXCEPT !.status = "APPROVED", !.assignment = "PROVISIONAL", !.vehicle = a[b]]
    BY <1>1, <1>3
  <2>2. booking[b] \in Booking
    BY DEF IInv, TypeOK
  <2>3. QED BY <1>5, <2>1, <2>2 DEF Booking
<1>7. contract' = contract /\ vehicle' = Swept
  BY DEF Approve
<1>8. SameKeys(b)
  BY <1>5, <1>6, <1>7, OutsideKeys
<1>9. \A c \in Bookings \ {b} : SameKeys(c)
  BY <1>1, <1>2, <1>4, <1>7, ApplyKeeps
<1>10. QED BY <1>7, <1>8, <1>9, SweptPlaces DEF Quiet, SamePlace

LEMMA ExpiryIsQuiet ==
  ASSUME IInv, ExpireReceipts
  PROVE  Quiet
<1>1. ASSUME NEW b \in Bookings PROVE SameKeys(b)
  <2>1. contract'[b] = contract[b] /\ booking[b] \in Booking
    BY DEF ExpireReceipts, IInv, TypeOK
  <2>2. CASE ~Due(b)
    <3>1. booking'[b] = booking[b]
      BY <2>2 DEF ExpireReceipts
    <3>2. QED BY <2>1, <3>1, UntouchedKeys
  <2>3. CASE Due(b) /\ booking[b].status = "HANDOVER_PENDING"
    <3>1. booking'[b] = [booking[b] EXCEPT !.status = "EXPIRED"]
      BY <2>3 DEF ExpireReceipts, Expired
    <3>2. booking[b].handed
      BY <2>3 DEF IInv, HandedAgrees
    <3>3. /\ booking'[b].status = "EXPIRED" /\ booking'[b].handed
          /\ booking'[b].vehicle = booking[b].vehicle
      BY <2>1, <3>1, <3>2 DEF Booking
    <3>4. QED BY <2>1, <2>3, <3>2, <3>3 DEF SameKeys, KeysOut, Early
  <2>4. CASE Due(b) /\ booking[b].status # "HANDOVER_PENDING"
    <3>1. booking[b].status \in {"REQUESTED", "APPROVED"}
      BY <2>4 DEF Due
    <3>2. booking'[b] = Released(booking[b], "EXPIRED")
      BY <2>4 DEF ExpireReceipts, Expired
    <3>3. booking[b].status \in Early /\ ~booking[b].handed
      BY <3>1 DEF IInv, HandedAgrees, Early
    <3>4. booking'[b].status = "EXPIRED" /\ booking'[b].handed = booking[b].handed
      BY <2>1, <3>2, <3>3, ReleasedRecord DEF Statuses
    <3>5. QED BY <2>1, <3>3, <3>4, OutsideKeys
  <2>5. QED BY <2>2, <2>3, <2>4
<1>2. QED BY <1>1 DEF Quiet, SamePlace, ExpireReceipts

LEMMA RepairIsQuiet ==
  ASSUME IInv, NEW v \in Vehicles, NEW last \in DayNumbers, Repair(v, last)
  PROVE  Quiet
<1> DEFINE begin == IF Swept[v].status = "MAINTENANCE" THEN vehicle[v].since ELSE now
           until == (last + 1) * DayLength
           st == [Swept EXCEPT ![v] = Available]
<1>1. begin \in Times /\ until \in Times
  BY Clock DEF IInv, TypeOK, Vehicle
<1>2. PICK a \in Plans(booking, Live(booking), st, Needs(v, begin, until)) : booking' = Apply(a, booking)
  BY DEF Repair
<1>3. \A c \in Bookings : SameKeys(c)
  BY <1>2, LiveIsBookings, ApplyKeeps DEF Repair
<1>4. Swept \in [Vehicles -> Vehicle] /\ vehicle' = [Swept EXCEPT ![v] = InRepair(begin, until)]
  BY SweptEffect DEF Repair, IInv, TypeOK
<1>5. \A u \in Vehicles \ {v} : vehicle'[u] = Swept[u]
  BY <1>4
<1>6. AtShop(vehicle[v]) /\ AtShop(vehicle'[v])
  BY <1>1, <1>4, FreeVehicle, VehicleRecords DEF Repair, AtShop
<1>7. \A u \in Vehicles : SamePlace(u)
  BY <1>5, <1>6, SweptPlaces DEF SamePlace
<1>8. QED BY <1>3, <1>7 DEF Quiet

LEMMA PrepareIsHandover ==
  ASSUME IInv, NEW b \in Bookings, NEW r \in Booking, NEW v \in Vehicles,
         booking[b].status \in Early, CanHandOver(v), Prepare(b, r, v)
  PROVE  Prepared(b, v)
<1>1. /\ booking' = [booking EXCEPT ![b] = [r EXCEPT !.status = "HANDOVER_PENDING",
                        !.assignment = "LOCKED", !.vehicle = v, !.handed = TRUE]]
      /\ vehicle' = [Swept EXCEPT ![v] = HeldFor(b)]
      /\ contract' = contract
  BY DEF Prepare
<1>2. booking \in [Bookings -> Booking] /\ Swept \in [Vehicles -> Vehicle]
  BY SweptEffect DEF IInv, TypeOK
<1>3. \A c \in Bookings \ {b} : SameKeys(c)
  <2>1. \A c \in Bookings \ {b} : booking'[c] = booking[c]
    BY <1>1, <1>2
  <2>2. QED BY <1>1, <2>1, UntouchedKeys
<1>4. \A u \in Vehicles \ {v} : SamePlace(u)
  <2>1. \A u \in Vehicles \ {v} : vehicle'[u] = Swept[u]
    BY <1>1, <1>2
  <2>2. QED BY <2>1, SweptPlaces DEF SamePlace
<1>5. booking'[b].status = "HANDOVER_PENDING" /\ booking'[b].vehicle = v /\ booking'[b].handed
  <2>1. booking'[b] = [r EXCEPT !.status = "HANDOVER_PENDING", !.assignment = "LOCKED",
                                !.vehicle = v, !.handed = TRUE]
    BY <1>1, <1>2
  <2>2. QED BY <2>1 DEF Booking
<1>6. vehicle'[v] = HeldFor(b)
  BY <1>1, <1>2
<1>7. AtShop(vehicle[v]) /\ OpenOn(v) = {}
  BY FreeVehicle DEF CanHandOver
<1>8. QED BY <1>1, <1>3, <1>4, <1>5, <1>6, <1>7 DEF Prepared, Concerns

LEMMA ReceiveIsReceipt ==
  ASSUME IInv, NEW b \in Bookings, Receive(b)
  PROVE  \E v \in Vehicles : Received(b, v)
<1> DEFINE v == booking[b].vehicle
           st == [vehicle EXCEPT ![v] = Available]
<1>1. /\ booking[b].status = "HANDOVER_PENDING" /\ now < Deadline(booking[b])
      /\ v \in Vehicles /\ vehicle[v] = HeldFor(b) /\ OpenOn(v) = {}
      /\ contract' = [contract EXCEPT ![b] = [status |-> "ON_RENT", vehicle |-> v, start |-> now, finish |-> 0]]
      /\ vehicle' = [vehicle EXCEPT ![v] = OnRent]
  BY DEF Receive, IInv, TypeOK
<1>2. booking \in [Bookings -> Booking] /\ vehicle \in [Vehicles -> Vehicle]
      /\ contract \in [Bookings -> Contract] /\ fleet \subseteq Vehicles
  BY DEF IInv, TypeOK
<1>3. PICK a \in Plans(booking, Live(booking), st, Needs(v, now, booking[b].end)) :
        booking' = [Apply(a, booking) EXCEPT ![b].status = "HANDED_OVER"]
  BY DEF Receive
<1>4. a \in Plans(booking, Live(booking), st, Needs(v, now, booking[b].end)) /\ Live(booking) \in SUBSET Bookings
  BY <1>3, LiveIsBookings
<1>5. Apply(a, booking) \in [Bookings -> Booking] /\ Apply(a, booking)[b] = booking[b]
  <2>1. booking[b].status # "APPROVED" /\ Live(booking) \subseteq Bookings
    BY <1>1, <1>4
  <2>2. QED BY <1>3, <2>1, ApplySpares
<1>6. \A c \in Bookings \ {b} : booking'[c] = Apply(a, booking)[c] /\ contract'[c] = contract[c]
  BY <1>1, <1>2, <1>3, <1>5
<1>7. \A c \in Bookings \ {b} : SameKeys(c)
  BY <1>4, <1>6, ApplyKeeps
<1>8. \A u \in Vehicles \ {v} : SamePlace(u)
  BY <1>1, <1>2 DEF SamePlace
<1>9. booking'[b].status = "HANDED_OVER" /\ booking'[b].vehicle = v /\ booking'[b].handed
  <2>1. booking'[b] = [booking[b] EXCEPT !.status = "HANDED_OVER"] /\ booking[b] \in Booking
    BY <1>2, <1>3, <1>5
  <2>2. booking[b].handed
    BY <1>1 DEF IInv, HandedAgrees
  <2>3. QED BY <2>1, <2>2 DEF Booking
<1>10. contract'[b].status = "ON_RENT" /\ contract'[b].vehicle = v /\ vehicle'[v] = OnRent
  BY <1>1, <1>2
<1>11. Received(b, v)
  BY <1>1, <1>7, <1>8, <1>9, <1>10 DEF Received, Concerns
<1>12. QED BY <1>1, <1>11

LEMMA ReturnIsReturn ==
  ASSUME IInv, NEW v \in Vehicles, Return(v)
  PROVE  \E b \in Bookings : Returned(b, v)
<1>1. PICK b \in Bookings :
        /\ OpenOn(v) = {b}
        /\ contract' = [contract EXCEPT ![b] = [@ EXCEPT !.status = "RETURNED", !.finish = now]]
        /\ booking' = [booking EXCEPT ![b] = [@ EXCEPT !.status = "RETURNED", !.assignment = "RELEASED"]]
  BY DEF Return
<1>2. /\ vehicle[v].hold = None /\ vehicle[v].status = "ON_RENT"
      /\ vehicle' = [vehicle EXCEPT ![v] = Available]
  BY DEF Return
<1>3. booking \in [Bookings -> Booking] /\ vehicle \in [Vehicles -> Vehicle] /\ contract \in [Bookings -> Contract]
  BY DEF IInv, TypeOK
<1>4. \A c \in Bookings \ {b} : booking'[c] = booking[c] /\ contract'[c] = contract[c]
  BY <1>1, <1>3
<1>5. \A c \in Bookings \ {b} : SameKeys(c)
  BY <1>4, UntouchedKeys
<1>6. \A u \in Vehicles \ {v} : SamePlace(u)
  BY <1>2, <1>3 DEF SamePlace
<1>7. booking'[b].status = "RETURNED" /\ booking'[b].handed = booking[b].handed
  <2>1. booking'[b] = [booking[b] EXCEPT !.status = "RETURNED", !.assignment = "RELEASED"] /\ booking[b] \in Booking
    BY <1>1, <1>3
  <2>2. QED BY <2>1 DEF Booking
<1>8. contract'[b].status = "RETURNED"
  <2>1. contract'[b] = [contract[b] EXCEPT !.status = "RETURNED", !.finish = now] /\ contract[b] \in Contract
    BY <1>1, <1>3
  <2>2. QED BY <2>1 DEF Contract
<1>9. QED BY <1>1, <1>2, <1>3, <1>5, <1>6, <1>7, <1>8 DEF Returned, Concerns

LEMMA RecoverIsRecovery ==
  ASSUME IInv, NEW b \in Bookings, Recover(b)
  PROVE  \E v \in Vehicles : Recovered(b, v)
<1> DEFINE v == booking[b].vehicle
<1>1. /\ booking[b].status \in {"HANDOVER_PENDING", "EXPIRED"} /\ booking[b].handed
      /\ v \in Vehicles /\ vehicle[v] = HeldFor(b) /\ Release(b, "CANCELED")
      /\ vehicle' = [vehicle EXCEPT ![v] = Available] /\ contract' = contract
  BY DEF Recover, IInv, TypeOK
<1>2. booking \in [Bookings -> Booking] /\ vehicle \in [Vehicles -> Vehicle]
  BY DEF IInv, TypeOK
<1>3. \A c \in Bookings \ {b} : booking'[c] = booking[c]
  BY <1>1, <1>2 DEF Release
<1>4. \A c \in Bookings \ {b} : SameKeys(c)
  BY <1>1, <1>3, UntouchedKeys
<1>5. \A u \in Vehicles \ {v} : SamePlace(u)
  BY <1>1, <1>2 DEF SamePlace
<1>6. booking'[b].status = "CANCELED" /\ booking'[b].handed = booking[b].handed
  <2>1. booking'[b] = Released(booking[b], "CANCELED") /\ booking[b] \in Booking /\ "CANCELED" \in Statuses
    BY <1>1, <1>2 DEF Release, Statuses
  <2>2. QED BY <2>1, ReleasedRecord
<1>7. vehicle'[v] = Available /\ KeysOut(b)
  BY <1>1, <1>2 DEF KeysOut
<1>8. Recovered(b, v)
  BY <1>1, <1>4, <1>5, <1>6, <1>7 DEF Recovered, Concerns
<1>9. QED BY <1>1, <1>8

LEMMA StepsHaveKinds == IInv /\ [Next]_vars => StepKind
<1> SUFFICES ASSUME IInv, [Next]_vars PROVE StepKind
  OBVIOUS
<1>1. ASSUME NEW b \in Bookings, NEW first \in DayNumbers, NEW last \in first..(LastDay - 1),
             Request(b, first, last)
      PROVE  Quiet
  <2>1. last \in DayNumbers
    BY TimeAssumption DEF DayNumbers
  <2>2. first * DayLength \in Times /\ (last + 1) * DayLength \in Times
    BY <2>1, Clock
  <2>3. QED BY <1>1, <2>2, RequestIsQuiet DEF Request
<1>2. ASSUME NEW b \in Bookings, NEW v \in Vehicles, NEW last \in DayNumbers, OnsiteRequest(b, v, last)
      PROVE  Quiet
  <2>1. now \in Times /\ (last + 1) * DayLength \in Times
    BY Clock DEF IInv, TypeOK
  <2>2. QED BY <1>2, <2>1, RequestIsQuiet DEF OnsiteRequest, OnsiteFits
<1>3. ASSUME NEW b \in Bookings, NEW v \in Vehicles, NEW last \in DayNumbers, WalkIn(b, v, last)
      PROVE  Prepared(b, v)
  <2>1. now \in Times /\ (last + 1) * DayLength \in Times
    BY Clock DEF IInv, TypeOK
  <2>2. Requested(now, (last + 1) * DayLength, v) \in Booking
    BY <2>1, BookingRecords
  <2>3. booking[b].status \in Early /\ CanHandOver(v)
    BY <1>3 DEF WalkIn, OnsiteFits, Early
  <2>4. QED BY <1>3, <2>2, <2>3, PrepareIsHandover DEF WalkIn
<1>4. ASSUME NEW b \in Bookings, NEW v \in Vehicles, HandOver(b, v) PROVE Prepared(b, v)
  <2>1. booking[b] \in Booking /\ booking[b].status \in Early
    BY <1>4 DEF HandOver, Early, IInv, TypeOK
  <2>2. QED BY <1>4, <2>1, PrepareIsHandover DEF HandOver
<1>5. ASSUME NEW b \in Bookings, Approve(b) PROVE Quiet
  BY <1>5, ApproveIsQuiet
<1>6. ASSUME NEW b \in Bookings, Reject(b) \/ Cancel(b) \/ ExpireUnpaid(b) PROVE Quiet
  BY <1>6, ReleaseIsQuiet DEF Reject, Cancel, ExpireUnpaid
<1>7. ASSUME NEW b \in Bookings, Receive(b) PROVE StepKind
  BY <1>7, ReceiveIsReceipt DEF StepKind
<1>8. ASSUME NEW b \in Bookings, Recover(b) PROVE StepKind
  BY <1>8, RecoverIsRecovery DEF StepKind
<1>9. ASSUME NEW v \in Vehicles, Return(v) PROVE StepKind
  BY <1>9, ReturnIsReturn DEF StepKind
<1>10. ASSUME NEW v \in Vehicles, Move(v) PROVE Quiet
  BY <1>10, UntouchedKeys DEF Move, Quiet, SamePlace
<1>11. ASSUME NEW v \in Vehicles, NEW last \in DayNumbers, Repair(v, last) PROVE Quiet
  BY <1>11, RepairIsQuiet
<1>12. CASE ExpireReceipts
  BY <1>12, ExpiryIsQuiet DEF StepKind
<1>13. CASE ExpireMaintenance
  <2>1. \A b \in Bookings : SameKeys(b)
    BY <1>13, UntouchedKeys DEF ExpireMaintenance
  <2>2. \A v \in Vehicles : SamePlace(v)
    BY <1>13, SweptPlaces DEF ExpireMaintenance, SamePlace
  <2>3. QED BY <2>1, <2>2 DEF StepKind, Quiet
<1>14. CASE Tick
  BY <1>14, UntouchedKeys DEF Tick, StepKind, Quiet, SamePlace
<1>15. CASE UNCHANGED vars
  BY <1>15, UntouchedKeys DEF vars, StepKind, Quiet, SamePlace
<1>16. (\E b \in Bookings, v \in Vehicles : Prepared(b, v)) \/ Quiet => StepKind
  BY DEF StepKind
<1>17. QED
  BY <1>1, <1>2, <1>3, <1>4, <1>5, <1>6, <1>7, <1>8, <1>9, <1>10, <1>11, <1>12, <1>13, <1>14, <1>15, <1>16 DEF Next

-----------------------------------------------------------------------------
\* The invariant, booking by booking and vehicle by vehicle.

BookingOK(b) ==
  /\ KeysOut(b) => booking[b].vehicle # None /\ vehicle[booking[b].vehicle] = HeldFor(b)
  /\ booking[b].status = "HANDED_OVER" <=> contract[b].status = "ON_RENT"
  /\ contract[b].status = "ON_RENT" =>
       /\ contract[b].vehicle = booking[b].vehicle /\ booking[b].vehicle # None
       /\ vehicle[booking[b].vehicle] = OnRent
  /\ booking[b].status \in Early => ~booking[b].handed
  /\ booking[b].status = "HANDOVER_PENDING" => booking[b].handed

VehicleOK(v) ==
  /\ vehicle[v].hold # None => KeysOut(vehicle[v].hold) /\ booking[vehicle[v].hold].vehicle = v
  /\ vehicle[v].status = "ON_RENT" => \E b \in Bookings : OpenOn(v) = {b}

LEMMA Pointwise ==
  IInv <=> TypeOK /\ (\A b \in Bookings : BookingOK(b)) /\ (\A v \in Vehicles : VehicleOK(v))
  BY DEF IInv, RecordsAgree, HandedAgrees, BookingOK, VehicleOK

\* Where a booking's vehicle is when its keys are out or it is on the road.
LEMMA VehicleOf ==
  ASSUME IInv, NEW b \in Bookings
  PROVE  /\ KeysOut(b) => /\ booking[b].vehicle \in Vehicles
                          /\ vehicle[booking[b].vehicle] = HeldFor(b)
         /\ booking[b].status = "HANDED_OVER" =>
              /\ booking[b].vehicle \in Vehicles /\ vehicle[booking[b].vehicle] = OnRent
              /\ b \in OpenOn(booking[b].vehicle)
<1>1. BookingOK(b) /\ booking[b].vehicle \in Vehicles \cup {None}
  BY Pointwise DEF IInv, TypeOK, Booking
<1>2. QED BY <1>1 DEF BookingOK, OpenOn

LEMMA Rented ==
  ASSUME IInv, NEW v \in Vehicles, NEW b \in OpenOn(v)
  PROVE  /\ b \in Bookings /\ booking[b].status = "HANDED_OVER" /\ booking[b].vehicle = v
         /\ vehicle[v] = OnRent /\ ~KeysOut(b)
<1>1. b \in Bookings /\ BookingOK(b) /\ contract[b].status = "ON_RENT" /\ contract[b].vehicle = v
  BY Pointwise DEF OpenOn
<1>2. QED BY <1>1 DEF BookingOK, KeysOut

\* A vehicle that is free or taken by b is not the one another booking has.
LEMMA OthersElsewhere ==
  ASSUME IInv, NEW v \in Vehicles, NEW b \in Bookings, NEW c \in Bookings \ {b},
         AtShop(vehicle[v]) \/ vehicle[v] = HeldFor(b) \/ OpenOn(v) = {b},
         KeysOut(c) \/ booking[c].status = "HANDED_OVER"
  PROVE  booking[c].vehicle \in Vehicles \ {v}
<1> SUFFICES ASSUME booking[c].vehicle = v PROVE FALSE
  BY VehicleOf
<1>1. vehicle[v] = HeldFor(c) \/ (vehicle[v] = OnRent /\ c \in OpenOn(v))
  BY VehicleOf
<1>2. /\ HeldFor(c).status = "DISABLED" /\ HeldFor(c).hold = c /\ HeldFor(b).status = "DISABLED"
      /\ HeldFor(b).hold = b /\ OnRent.status = "ON_RENT"
  BY VehicleRecords
<1>3. CASE AtShop(vehicle[v])
  BY <1>1, <1>2, <1>3 DEF AtShop
<1>4. CASE vehicle[v] = HeldFor(b)
  BY <1>1, <1>2, <1>4
<1>5. CASE OpenOn(v) = {b}
  <2>1. vehicle[v] = OnRent
    BY <1>5, Rented
  <2>2. QED BY <1>1, <1>2, <1>5, <2>1
<1>6. QED BY <1>3, <1>4, <1>5

LEMMA SameKeysOK ==
  ASSUME IInv, NEW b \in Bookings, SameKeys(b),
         KeysOut(b) \/ booking[b].status = "HANDED_OVER" => SamePlace(booking[b].vehicle)
  PROVE  BookingOK(b)'
<1>1. BookingOK(b)
  BY Pointwise
<1>2. KeysOut(b) => vehicle'[booking[b].vehicle] = HeldFor(b)
  BY <1>1, VehicleRecords DEF SamePlace, AtShop, BookingOK
<1>3. booking[b].status = "HANDED_OVER" => vehicle'[booking[b].vehicle] = OnRent
  BY <1>1, VehicleRecords DEF SamePlace, AtShop, BookingOK
<1>4. KeysOut(b)' => booking'[b].vehicle # None /\ vehicle'[booking'[b].vehicle] = HeldFor(b)
  BY <1>1, <1>2 DEF SameKeys, BookingOK
<1>5. /\ booking'[b].status = "HANDED_OVER" <=> contract'[b].status = "ON_RENT"
      /\ contract'[b].status = "ON_RENT" =>
           /\ contract'[b].vehicle = booking'[b].vehicle /\ booking'[b].vehicle # None
           /\ vehicle'[booking'[b].vehicle] = OnRent
  BY <1>1, <1>3 DEF SameKeys, BookingOK
<1>6. /\ booking'[b].status \in Early => ~booking'[b].handed
      /\ booking'[b].status = "HANDOVER_PENDING" => booking'[b].handed
  BY <1>1 DEF SameKeys, BookingOK
<1>7. QED BY <1>4, <1>5, <1>6 DEF BookingOK, HeldFor, OnRent, Available

LEMMA SamePlaceOK ==
  ASSUME IInv, NEW v \in Vehicles, SamePlace(v), OpenOn(v)' = OpenOn(v),
         vehicle[v].hold # None => SameKeys(vehicle[v].hold)
  PROVE  VehicleOK(v)'
<1>1. VehicleOK(v)
  BY Pointwise
<1>2. CASE vehicle'[v] = vehicle[v]
  BY <1>1, <1>2 DEF VehicleOK, SameKeys
<1>3. CASE AtShop(vehicle'[v])
  BY <1>3 DEF VehicleOK, AtShop
<1>4. QED BY <1>2, <1>3 DEF SamePlace

-----------------------------------------------------------------------------
\* The invariant, kind by kind.

\* In all but a handover, the place the step concerns is taken by b already.
LEMMA OthersOK ==
  ASSUME IInv, NEW b \in Bookings, NEW v \in Vehicles, Concerns(b, v),
         AtShop(vehicle[v]) \/ vehicle[v] = HeldFor(b) \/ OpenOn(v) = {b},
         KeysOut(b) => booking[b].vehicle = v,
         \A u \in Vehicles \ {v} : b \in OpenOn(u)' <=> b \in OpenOn(u)
  PROVE  /\ \A c \in Bookings \ {b} : BookingOK(c)'
         /\ \A u \in Vehicles \ {v} : VehicleOK(u)'
<1>1. ASSUME NEW c \in Bookings \ {b} PROVE BookingOK(c)'
  <2>1. KeysOut(c) \/ booking[c].status = "HANDED_OVER" => booking[c].vehicle \in Vehicles \ {v}
    BY OthersElsewhere
  <2>2. QED BY <2>1, SameKeysOK DEF Concerns
<1>2. ASSUME NEW u \in Vehicles \ {v} PROVE VehicleOK(u)'
  <2>1. OpenOn(u)' = OpenOn(u)
    <3>1. \A c \in Bookings \ {b} : contract'[c] = contract[c]
      BY DEF Concerns, SameKeys
    <3>2. \A c \in Bookings : c \in OpenOn(u)' <=> c \in OpenOn(u)
      BY <3>1 DEF OpenOn
    <3>3. OpenOn(u)' \subseteq Bookings /\ OpenOn(u) \subseteq Bookings
      BY DEF OpenOn
    <3>4. QED BY <3>2, <3>3
  <2>2. vehicle[u].hold # None => SameKeys(vehicle[u].hold)
    BY HeldIsDisabled DEF Concerns
  <2>3. QED BY <2>1, <2>2, SamePlaceOK DEF Concerns
<1>3. QED BY <1>1, <1>2

LEMMA QuietOK ==
  ASSUME IInv, Quiet
  PROVE  (\A b \in Bookings : BookingOK(b)') /\ (\A v \in Vehicles : VehicleOK(v)')
<1>1. ASSUME NEW b \in Bookings PROVE BookingOK(b)'
  BY VehicleOf, SameKeysOK DEF Quiet
<1>2. ASSUME NEW v \in Vehicles PROVE VehicleOK(v)'
  <2>1. OpenOn(v)' = OpenOn(v)
    BY DEF OpenOn, Quiet, SameKeys
  <2>2. vehicle[v].hold # None => SameKeys(vehicle[v].hold)
    BY HeldIsDisabled DEF Quiet
  <2>3. QED BY <2>1, <2>2, SamePlaceOK DEF Quiet
<1>3. QED BY <1>1, <1>2

LEMMA PreparedOK ==
  ASSUME IInv, NEW b \in Bookings, NEW v \in Vehicles, Prepared(b, v)
  PROVE  (\A c \in Bookings : BookingOK(c)') /\ (\A u \in Vehicles : VehicleOK(u)')
<1>1. BookingOK(b) /\ booking[b].status \in Early /\ ~booking[b].handed
  BY Pointwise DEF Prepared, BookingOK
<1>2. ~KeysOut(b) /\ contract[b].status # "ON_RENT" /\ contract'[b] = contract[b]
  BY <1>1 DEF KeysOut, BookingOK, Early, Prepared
<1>3. /\ \A c \in Bookings \ {b} : BookingOK(c)'
      /\ \A u \in Vehicles \ {v} : VehicleOK(u)'
  BY <1>2, OthersOK DEF Prepared, OpenOn
<1>4. BookingOK(b)'
  <2>1. /\ booking'[b].status = "HANDOVER_PENDING" /\ booking'[b].vehicle = v /\ booking'[b].handed
        /\ vehicle'[v] = HeldFor(b) /\ v # None
    BY NoneAssumption DEF Prepared
  <2>2. QED BY <1>2, <2>1 DEF BookingOK, Early, HeldFor, Available
<1>5. VehicleOK(v)'
  <2>1. vehicle'[v].hold = b /\ vehicle'[v].status = "DISABLED" /\ KeysOut(b)' /\ booking'[b].vehicle = v
    BY VehicleRecords DEF Prepared, KeysOut
  <2>2. QED BY <2>1 DEF VehicleOK
<1>6. QED BY <1>3, <1>4, <1>5

LEMMA ReceivedOK ==
  ASSUME IInv, NEW b \in Bookings, NEW v \in Vehicles, Received(b, v)
  PROVE  (\A c \in Bookings : BookingOK(c)') /\ (\A u \in Vehicles : VehicleOK(u)')
<1>1. contract[b].status # "ON_RENT" /\ contract'[b].status = "ON_RENT" /\ contract'[b].vehicle = v
  BY Pointwise DEF Received, BookingOK
<1>2. /\ \A c \in Bookings \ {b} : BookingOK(c)'
      /\ \A u \in Vehicles \ {v} : VehicleOK(u)'
  BY <1>1, OthersOK DEF Received, OpenOn
<1>3. BookingOK(b)'
  <2>1. booking'[b].status = "HANDED_OVER" /\ booking'[b].vehicle = v /\ vehicle'[v] = OnRent /\ v # None
    BY NoneAssumption DEF Received
  <2>2. QED BY <1>1, <2>1 DEF BookingOK, KeysOut, Early, OnRent, Available
<1>4. VehicleOK(v)'
  <2>1. OpenOn(v)' = {b}
    <3>1. \A c \in Bookings \ {b} : c \notin OpenOn(v)'
      BY DEF Received, Concerns, SameKeys, OpenOn
    <3>2. b \in OpenOn(v)' /\ OpenOn(v)' \subseteq Bookings
      BY <1>1 DEF OpenOn
    <3>3. QED BY <3>1, <3>2
  <2>2. vehicle'[v].hold = None
    BY VehicleRecords DEF Received
  <2>3. QED BY <2>1, <2>2 DEF VehicleOK
<1>5. QED BY <1>2, <1>3, <1>4

LEMMA ReturnedOK ==
  ASSUME IInv, NEW b \in Bookings, NEW v \in Vehicles, Returned(b, v)
  PROVE  (\A c \in Bookings : BookingOK(c)') /\ (\A u \in Vehicles : VehicleOK(u)')
<1>1. b \in OpenOn(v) /\ ~KeysOut(b)
  BY Rented DEF Returned
<1>2. /\ \A c \in Bookings \ {b} : BookingOK(c)'
      /\ \A u \in Vehicles \ {v} : VehicleOK(u)'
  BY <1>1, OthersOK DEF Returned, OpenOn
<1>3. BookingOK(b)'
  BY DEF Returned, BookingOK, KeysOut, Early
<1>4. VehicleOK(v)'
  BY VehicleRecords DEF Returned, VehicleOK
<1>5. QED BY <1>2, <1>3, <1>4

LEMMA RecoveredOK ==
  ASSUME IInv, NEW b \in Bookings, NEW v \in Vehicles, Recovered(b, v)
  PROVE  (\A c \in Bookings : BookingOK(c)') /\ (\A u \in Vehicles : VehicleOK(u)')
<1>1. contract[b].status # "ON_RENT" /\ contract'[b] = contract[b]
  BY Pointwise DEF Recovered, BookingOK, KeysOut
<1>2. /\ \A c \in Bookings \ {b} : BookingOK(c)'
      /\ \A u \in Vehicles \ {v} : VehicleOK(u)'
  BY <1>1, OthersOK DEF Recovered, OpenOn
<1>3. BookingOK(b)'
  BY <1>1 DEF Recovered, BookingOK, KeysOut, Early
<1>4. VehicleOK(v)'
  BY VehicleRecords DEF Recovered, VehicleOK
<1>5. QED BY <1>2, <1>3, <1>4

LEMMA InitIInv == Init => IInv
<1> SUFFICES ASSUME Init PROVE IInv
  OBVIOUS
<1>1. \A b \in Bookings : booking[b] = NoBooking /\ contract[b] = NoContract
  BY DEF Init
<1>2. \A b \in Bookings : BookingOK(b)
  BY <1>1, BookingRecords DEF BookingOK, KeysOut, Early
<1>3. \A v \in Vehicles : VehicleOK(v)
  BY VehicleRecords DEF Init, VehicleOK
<1>4. QED BY <1>2, <1>3, InitTypes, Pointwise

LEMMA IInvStep == IInv /\ [Next]_vars => IInv'
<1> SUFFICES ASSUME IInv, [Next]_vars PROVE IInv'
  OBVIOUS
<1>1. TypeOK'
  BY TypesStep DEF IInv
<1>2. (\A b \in Bookings : BookingOK(b)') /\ (\A v \in Vehicles : VehicleOK(v)')
  BY StepsHaveKinds, QuietOK, PreparedOK, ReceivedOK, ReturnedOK, RecoveredOK DEF StepKind
<1>3. (TypeOK /\ (\A b \in Bookings : BookingOK(b)) /\ (\A v \in Vehicles : VehicleOK(v)) => IInv)'
  BY Pointwise, PTL
<1>4. QED BY <1>1, <1>2, <1>3

\* Reservation, contract and vehicle state agree in every reachable state: the
\* endpoints of app/rentals.py and app/customer_qr.py and the timers of app/jobs.py
\* never leave a vehicle held for nobody, rented to two, or keys out unrecorded.
THEOREM RecordsAlwaysAgree == Spec => []RecordsAgree
<1>1. IInv => RecordsAgree
  BY DEF IInv
<1>2. QED BY InitIInv, IInvStep, <1>1, PTL DEF Spec

\* app/receipt.py:1: a physical handover hold survives reservation expiry.
THEOREM HoldsOutliveExpiry == Spec => HoldOutlivesExpiry
<1>1. ASSUME IInv, [Next]_vars, NEW v \in Vehicles, vehicle[v].hold # None, vehicle'[v] # vehicle[v]
      PROVE  LET b == vehicle[v].hold IN
             \/ vehicle'[v] = OnRent /\ booking'[b].status = "HANDED_OVER" /\ now < Deadline(booking[b])
             \/ vehicle'[v] = Available /\ booking'[b].status = "CANCELED"
  <2>1. ~SamePlace(v) /\ ~AtShop(vehicle[v])
    BY <1>1 DEF SamePlace, AtShop
  <2>2. PICK c \in Bookings : Received(c, v) \/ Recovered(c, v)
    <3>1. PICK c \in Bookings, u \in Vehicles :
            Prepared(c, u) \/ Received(c, u) \/ Returned(c, u) \/ Recovered(c, u)
      BY <1>1, <2>1, StepsHaveKinds DEF StepKind, Quiet
    <3>2. u = v
      BY <2>1, <3>1 DEF Prepared, Received, Returned, Recovered, Concerns
    <3>3. ~Prepared(c, v) /\ ~Returned(c, v)
      BY <1>1, <2>1 DEF Prepared, Returned
    <3>4. QED BY <3>1, <3>2, <3>3
  <2>3. vehicle[v].hold = c
    BY <2>2, VehicleRecords DEF Received, Recovered
  <2>4. QED BY <2>2, <2>3 DEF Received, Recovered
<1>2. IInv /\ [Next]_vars =>
        [\A v \in Vehicles : LET b == vehicle[v].hold IN
           b # None /\ vehicle'[v] # vehicle[v] =>
             \/ vehicle'[v] = OnRent /\ booking'[b].status = "HANDED_OVER" /\ now < Deadline(booking[b])
             \/ vehicle'[v] = Available /\ booking'[b].status = "CANCELED"]_vars
  BY <1>1
<1>3. QED BY InitIInv, IInvStep, <1>2, PTL DEF Spec, HoldOutlivesExpiry

-----------------------------------------------------------------------------
\* The custody protocol.

LEMMA HolderOf ==
  ASSUME NEW v \in Vehicles
  PROVE  /\ AtShop(vehicle[v]) => Holder(v) = Custody!Shop
         /\ \A b \in Bookings : vehicle[v] = HeldFor(b) => Holder(v) = Custody!Keys(b)
         /\ \A b \in Bookings : vehicle[v].status = "ON_RENT" /\ vehicle[v].hold = None /\ OpenOn(v) = {b}
              => Holder(v) = Custody!Road(b)
<1>1. AtShop(vehicle[v]) => Holder(v) = Custody!Shop
  BY DEF AtShop, Holder, Custody!Shop
<1>2. ASSUME NEW b \in Bookings, vehicle[v] = HeldFor(b) PROVE Holder(v) = Custody!Keys(b)
  BY <1>2, VehicleRecords, NoneAssumption DEF Holder, Custody!Keys
<1>3. ASSUME NEW b \in Bookings, vehicle[v].status = "ON_RENT", vehicle[v].hold = None, OpenOn(v) = {b}
      PROVE  Holder(v) = Custody!Road(b)
  <2>1. (CHOOSE c \in Bookings : OpenOn(v) = {c}) = b
    BY <1>3
  <2>2. QED BY <1>3, <2>1 DEF Holder, Custody!Road
<1>4. QED BY <1>1, <1>2, <1>3

LEMMA HolderKept ==
  ASSUME NEW v \in Vehicles, SamePlace(v), OpenOn(v)' = OpenOn(v)
  PROVE  Holder(v)' = Holder(v)
  BY DEF SamePlace, AtShop, Holder

\* The rentals of the other vehicles, when a step concerns b and v.
LEMMA RentalsElsewhere ==
  ASSUME IInv, NEW b \in Bookings, NEW v \in Vehicles,
         Prepared(b, v) \/ Received(b, v) \/ Returned(b, v) \/ Recovered(b, v)
  PROVE  \A u \in Vehicles \ {v} : Holder(u)' = Holder(u)
<1> SUFFICES ASSUME NEW u \in Vehicles \ {v} PROVE Holder(u)' = Holder(u)
  OBVIOUS
<1>1. Concerns(b, v)
  BY DEF Prepared, Received, Returned, Recovered
<1>2. \A c \in Bookings \ {b} : contract'[c] = contract[c]
  BY <1>1 DEF Concerns, SameKeys
<1>3. b \in OpenOn(u)' <=> b \in OpenOn(u)
  <2>1. CASE Prepared(b, v) \/ Recovered(b, v)
    BY <2>1 DEF Prepared, Recovered, OpenOn
  <2>2. CASE Received(b, v)
    <3>1. b \notin OpenOn(u)
      BY <2>2, Rented DEF Received
    <3>2. QED BY <2>2, <3>1 DEF Received, OpenOn
  <2>3. CASE Returned(b, v)
    <3>1. b \in OpenOn(v)
      BY <2>3 DEF Returned
    <3>2. b \notin OpenOn(u)
      BY <3>1 DEF OpenOn
    <3>3. QED BY <2>3, <3>2 DEF Returned, OpenOn
  <2>4. QED BY <2>1, <2>2, <2>3
<1>4. OpenOn(u)' = OpenOn(u)
  <2>1. \A c \in Bookings : c \in OpenOn(u)' <=> c \in OpenOn(u)
    BY <1>2, <1>3 DEF OpenOn
  <2>2. OpenOn(u)' \subseteq Bookings /\ OpenOn(u) \subseteq Bookings
    BY DEF OpenOn
  <2>3. QED BY <2>1, <2>2
<1>5. QED BY <1>1, <1>4, HolderKept DEF Concerns

\* The two variables of the protocol.
Holders == [v \in Vehicles |-> Holder(v)]
Handed == {b \in Bookings : booking[b].handed}

LEMMA OneHolder ==
  ASSUME NEW v \in Vehicles, NEW h, \A u \in Vehicles \ {v} : Holder(u)' = Holder(u), Holder(v)' = h
  PROVE  Holders[v] = Holder(v) /\ Holders' = [Holders EXCEPT ![v] = h]
<1>1. \A u \in Vehicles : Holder(u)' = IF u = v THEN h ELSE Holder(u)
  OBVIOUS
<1>2. Holders[v] = Holder(v)
  BY DEF Holders
<1>3. [Holders EXCEPT ![v] = h] = [u \in Vehicles |-> IF u = v THEN h ELSE Holder(u)]
  BY DEF Holders
<1>4. Holders' = [u \in Vehicles |-> Holder(u)']
  BY DEF Holders
<1>5. QED BY <1>1, <1>2, <1>3, <1>4

LEMMA HandedKept ==
  ASSUME NEW b \in Bookings, \A c \in Bookings \ {b} : SameKeys(c), booking'[b].handed = booking[b].handed
  PROVE  Handed' = Handed
<1>1. \A c \in Bookings : booking'[c].handed = booking[c].handed
  BY DEF SameKeys
<1>2. QED BY <1>1 DEF Handed

LEMMA QuietStutters ==
  ASSUME IInv, Quiet
  PROVE  Holders' = Holders /\ Handed' = Handed
<1>1. ASSUME NEW v \in Vehicles PROVE Holder(v)' = Holder(v)
  <2>1. OpenOn(v)' = OpenOn(v)
    BY DEF OpenOn, Quiet, SameKeys
  <2>2. QED BY <2>1, HolderKept DEF Quiet
<1>2. \A c \in Bookings : booking'[c].handed = booking[c].handed
  BY DEF Quiet, SameKeys
<1>3. QED BY <1>1, <1>2 DEF Holders, Handed

LEMMA PreparedSteps ==
  ASSUME IInv, NEW b \in Bookings, NEW v \in Vehicles, Prepared(b, v)
  PROVE  /\ Holders[v] = Custody!Shop /\ Holders' = [Holders EXCEPT ![v] = Custody!Keys(b)]
         /\ b \notin Handed /\ Handed' = Handed \cup {b}
<1>1. \A u \in Vehicles \ {v} : Holder(u)' = Holder(u)
  BY RentalsElsewhere
<1>2. Holder(v) = Custody!Shop
  BY HolderOf DEF Prepared
<1>3. Holder(v)' = Custody!Keys(b)
  BY VehicleRecords, NoneAssumption DEF Prepared, Holder, Custody!Keys
<1>4. ~booking[b].handed
  BY DEF Prepared, IInv, HandedAgrees
<1>5. booking'[b].handed /\ \A c \in Bookings \ {b} : booking'[c].handed = booking[c].handed
  BY DEF Prepared, Concerns, SameKeys
<1>6. Holders[v] = Custody!Shop /\ Holders' = [Holders EXCEPT ![v] = Custody!Keys(b)]
  BY <1>1, <1>2, <1>3, OneHolder
<1>7. b \notin Handed /\ Handed' = Handed \cup {b}
  BY <1>4, <1>5 DEF Handed
<1>8. QED BY <1>6, <1>7

LEMMA ReceivedSteps ==
  ASSUME IInv, NEW b \in Bookings, NEW v \in Vehicles, Received(b, v)
  PROVE  /\ Holders[v] = Custody!Keys(b) /\ Holders' = [Holders EXCEPT ![v] = Custody!Road(b)]
         /\ Handed' = Handed
<1>1. \A u \in Vehicles \ {v} : Holder(u)' = Holder(u)
  BY RentalsElsewhere
<1>2. Holder(v) = Custody!Keys(b)
  BY HolderOf DEF Received
<1>3. OpenOn(v)' = {b}
  <2>1. \A c \in Bookings \ {b} : c \notin OpenOn(v)'
    BY DEF Received, Concerns, SameKeys, OpenOn
  <2>2. b \in OpenOn(v)' /\ OpenOn(v)' \subseteq Bookings
    BY DEF Received, OpenOn
  <2>3. QED BY <2>1, <2>2
<1>4. Holder(v)' = Custody!Road(b)
  <2>1. vehicle'[v].status = "ON_RENT" /\ vehicle'[v].hold = None
    BY VehicleRecords DEF Received
  <2>2. (CHOOSE c \in Bookings : OpenOn(v)' = {c}) = b
    BY <1>3
  <2>3. QED BY <2>1, <2>2 DEF Holder, Custody!Road
<1>5. Handed' = Handed
  <2>1. booking[b].handed = TRUE /\ booking'[b].handed
    BY DEF Received, IInv, HandedAgrees, TypeOK, Booking
  <2>2. \A c \in Bookings : booking'[c].handed <=> booking[c].handed
    BY <2>1 DEF Received, Concerns, SameKeys
  <2>3. QED BY <2>2 DEF Handed
<1>6. Holders[v] = Custody!Keys(b) /\ Holders' = [Holders EXCEPT ![v] = Custody!Road(b)]
  BY <1>1, <1>2, <1>4, OneHolder
<1>7. QED BY <1>5, <1>6

LEMMA ComesBackSteps ==
  ASSUME IInv, NEW b \in Bookings, NEW v \in Vehicles, Returned(b, v) \/ Recovered(b, v)
  PROVE  /\ Holders[v] # Custody!Shop /\ Holders' = [Holders EXCEPT ![v] = Custody!Shop]
         /\ Handed' = Handed
<1>1. \A u \in Vehicles \ {v} : Holder(u)' = Holder(u)
  BY RentalsElsewhere
<1>2. Holder(v) # Custody!Shop
  BY HolderOf DEF Returned, Recovered, Custody!Shop, Custody!Keys, Custody!Road
<1>3. Holder(v)' = Custody!Shop
  BY VehicleRecords DEF Returned, Recovered, Holder, Custody!Shop
<1>4. Handed' = Handed
  BY HandedKept DEF Returned, Recovered, Concerns
<1>5. Holders[v] # Custody!Shop /\ Holders' = [Holders EXCEPT ![v] = Custody!Shop]
  BY <1>1, <1>2, <1>3, OneHolder
<1>6. QED BY <1>4, <1>5

\* Handover (app/rentals.py, app/customer_qr.py), receipt, return and recovery
\* implement the custody protocol: a vehicle is in one pair of hands at a time,
\* and only the booking it was prepared for takes it on the road.
THEOREM RentalImplementsCustody == Spec => ImplementsCustody
<1>1. Init => Custody!Init
  <2>1. ASSUME Init PROVE Holders = [v \in Vehicles |-> Custody!Shop] /\ Handed = {}
    <3>1. \A v \in Vehicles : Holder(v) = Custody!Shop
      BY <2>1, VehicleRecords, HolderOf DEF Init, AtShop
    <3>2. \A b \in Bookings : ~booking[b].handed
      BY <2>1, BookingRecords DEF Init
    <3>3. QED BY <3>1, <3>2 DEF Holders, Handed
  <2>2. QED BY <2>1 DEF Custody!Init, Holders, Handed
<1>2. IInv /\ [Next]_vars => [Custody!Next]_(Custody!vars)
  <2> SUFFICES ASSUME IInv, [Next]_vars PROVE [Custody!Next]_(Custody!vars)
    OBVIOUS
  <2>1. CASE Quiet
    BY <2>1, QuietStutters DEF Custody!vars, Holders, Handed
  <2>2. ASSUME NEW b \in Bookings, NEW v \in Vehicles, Prepared(b, v) PROVE Custody!Prepare(v, b)
    BY <2>2, PreparedSteps DEF Custody!Prepare, Holders, Handed
  <2>3. ASSUME NEW b \in Bookings, NEW v \in Vehicles, Received(b, v) PROVE Custody!Confirm(v, b)
    BY <2>3, ReceivedSteps DEF Custody!Confirm, Holders, Handed
  <2>4. ASSUME NEW b \in Bookings, NEW v \in Vehicles, Returned(b, v) \/ Recovered(b, v)
        PROVE  Custody!ComesBack(v)
    BY <2>4, ComesBackSteps DEF Custody!ComesBack, Holders, Handed
  <2>5. StepKind
    BY StepsHaveKinds
  <2>6. QED BY <2>1, <2>2, <2>3, <2>4, <2>5 DEF StepKind, Custody!Next
<1>3. QED BY <1>1, <1>2, InitIInv, IInvStep, PTL DEF Spec, ImplementsCustody, Custody!Spec

-----------------------------------------------------------------------------
\* Dates.

\* Bookings whose dates are read.
Dated == {"REQUESTED", "APPROVED", "HANDOVER_PENDING", "HANDED_OVER"}

\* Bookings end with a day, a handover is of a booking that has begun, and
\* contracts were made and closed in the past.
DatesOK(b) ==
  /\ booking[b].status \in Dated => booking[b].start < booking[b].end /\ \E d \in Nat : booking[b].end = d * DayLength
  /\ booking[b].status = "HANDOVER_PENDING" => booking[b].start <= now
  /\ contract[b].status = "NONE" => contract[b].vehicle = None
  /\ contract[b].status = "ON_RENT" => contract[b].start <= now
  /\ contract[b].status = "RETURNED" => contract[b].finish <= now

DatesInv == \A b \in Bookings : DatesOK(b)

SameDates(b) ==
  booking'[b].start = booking[b].start /\ booking'[b].end = booking[b].end /\ booking'[b].onsite = booking[b].onsite

\* The day of a tick.
LEMMA DayOf ==
  ASSUME NEW t \in Nat
  PROVE  \E d \in Nat : d * DayLength <= t /\ t < (d + 1) * DayLength /\ DayEnd(t) = (d + 1) * DayLength
<1> DEFINE d == t \div DayLength
<1>1. DayLength \in Nat /\ DayLength > 0
  BY TimeAssumption
<1>2. d \in Nat /\ t = DayLength * d + (t % DayLength) /\ t % DayLength \in Nat /\ t % DayLength < DayLength
  BY <1>1
<1>3. d * DayLength = DayLength * d /\ (d + 1) * DayLength = DayLength * d + DayLength /\ DayLength * d \in Nat
  BY <1>1, <1>2
<1>4. DayEnd(t) = (d + 1) * DayLength
  BY DEF DayEnd
<1> HIDE DEF d
<1>5. d * DayLength <= t /\ t < (d + 1) * DayLength
  BY <1>1, <1>2, <1>3
<1> QED
  BY <1>2, <1>4, <1>5

\* No day begins after t and before its end.
LEMMA OneDay ==
  ASSUME NEW t \in Nat, NEW k \in Nat, t < k * DayLength
  PROVE  DayEnd(t) <= k * DayLength
<1>1. PICK d \in Nat : d * DayLength <= t /\ t < (d + 1) * DayLength /\ DayEnd(t) = (d + 1) * DayLength
  BY DayOf
<1>2. DayLength \in Nat
  BY TimeAssumption
<1>3. k * DayLength \in Nat /\ d * DayLength \in Nat /\ (d + 1) * DayLength \in Nat
  BY <1>2, Products
<1>4. CASE k <= d
  <2>1. k * DayLength <= d * DayLength
    BY <1>4, Products
  <2> QED
    BY <1>1, <1>3, <2>1
<1>5. CASE d + 1 <= k
  BY <1>1, <1>5, Products
<1> QED
  BY <1>4, <1>5

LEMMA DatesKept ==
  ASSUME TypeOK, TypeOK', now <= now', NEW b \in Bookings, DatesOK(b), SameDates(b),
         booking'[b].status \in Dated => booking[b].status \in Dated,
         booking'[b].status = "HANDOVER_PENDING" => booking[b].status = "HANDOVER_PENDING" \/ booking[b].start <= now,
         contract'[b] = contract[b]
  PROVE  DatesOK(b)'
<1>1. now \in Nat /\ now' \in Nat /\ booking[b] \in Booking /\ contract[b] \in Contract
  BY Clock DEF TypeOK, Times
<1>2. booking[b].start \in Nat /\ contract[b].start \in Nat /\ contract[b].finish \in Nat
  BY <1>1, Clock DEF Booking, Contract, Times
<1> QED
  BY <1>1, <1>2 DEF DatesOK, SameDates

LEMMA UntouchedDates ==
  ASSUME TypeOK, TypeOK', now <= now', NEW b \in Bookings, DatesOK(b),
         booking'[b] = booking[b], contract'[b] = contract[b]
  PROVE  DatesOK(b)'
  BY DatesKept DEF SameDates, DatesOK

\* A row that ended has no dates, and no contract to look at.
LEMMA UndatedOK ==
  ASSUME TypeOK, TypeOK', now <= now', NEW b \in Bookings, DatesOK(b),
         booking'[b].status \notin Dated, contract'[b] = contract[b]
  PROVE  DatesOK(b)'
<1>1. now \in Nat /\ now' \in Nat /\ contract[b] \in Contract
  BY Clock DEF TypeOK, Times
<1>2. contract[b].start \in Nat /\ contract[b].finish \in Nat
  BY <1>1, Clock DEF Contract, Times
<1> QED
  BY <1>1, <1>2 DEF DatesOK, Dated

LEMMA InitDates == Init => DatesInv
  BY BookingRecords DEF Init, DatesInv, DatesOK, Dated, NoContract, NoBooking

LEMMA RequestedDates ==
  ASSUME NEW s \in Times, NEW last \in DayNumbers, NEW v \in Vehicles \cup {None}, s < (last + 1) * DayLength
  PROVE  LET r == Requested(s, (last + 1) * DayLength, v) IN
         /\ r \in Booking /\ r.start = s /\ r.end = (last + 1) * DayLength /\ r.onsite = v
         /\ r.start < r.end /\ \E d \in Nat : r.end = d * DayLength
<1>1. last + 1 \in Nat /\ (last + 1) * DayLength \in Times
  BY Clock, TimeAssumption DEF DayNumbers
<1>2. Requested(s, (last + 1) * DayLength, v) \in Booking
  BY <1>1, BookingRecords
<1>3. \E d \in Nat : (last + 1) * DayLength = d * DayLength
  BY <1>1
<1> QED
  BY <1>2, <1>3 DEF Requested

\* n is the row r, perhaps with another vehicle if it is approved.
Moved(n, r) ==
  /\ n.status = r.status /\ n.start = r.start /\ n.end = r.end /\ n.onsite = r.onsite
  /\ r.status # "APPROVED" => n = r

\* A reassignment changes the vehicle of approved bookings and nothing else.
LEMMA ApplyIs ==
  ASSUME TypeOK, NEW jobs, jobs \subseteq Bookings, NEW st, NEW needs, NEW a,
         a \in Plans(booking, jobs, st, needs), NEW b \in Bookings
  PROVE  /\ Apply(a, booking) \in [Bookings -> Booking]
         /\ Moved(Apply(a, booking)[b], booking[b])
         /\ booking[b].status = "APPROVED" /\ b \in jobs => Apply(a, booking)[b].vehicle = a[b]
<1>1. booking \in [Bookings -> Booking] /\ fleet \subseteq Vehicles /\ jobs \in SUBSET Bookings
  BY DEF TypeOK
<1>2. DOMAIN a = jobs /\ booking[b] \in Booking
  BY <1>1 DEF Plans
<1>3. Apply(a, booking) \in [Bookings -> Booking]
  BY <1>1, ApplyEffect
<1>4. \/ Apply(a, booking)[b] = booking[b]
      \/ /\ booking[b].status = "APPROVED"
         /\ Apply(a, booking)[b] = [booking[b] EXCEPT !.vehicle = a[b], !.assignment = "REALLOCATED"]
  BY DEF Apply
<1>5. Moved(Apply(a, booking)[b], booking[b])
  BY <1>2, <1>4 DEF Booking, Moved
<1>6. ASSUME booking[b].status = "APPROVED", b \in jobs
      PROVE  Apply(a, booking)[b].vehicle = a[b]
  <2>1. CASE booking[b].vehicle = a[b]
    BY <1>2, <1>6, <2>1 DEF Apply
  <2>2. CASE booking[b].vehicle # a[b]
    <3>1. Apply(a, booking)[b] = [booking[b] EXCEPT !.vehicle = a[b], !.assignment = "REALLOCATED"]
      BY <1>2, <1>6, <2>2 DEF Apply
    <3> QED
      BY <1>2, <3>1 DEF Booking
  <2> QED
    BY <2>1, <2>2
<1> QED
  BY <1>3, <1>5, <1>6

\* What the operations that move approved bookings do to the rows.
LEMMA ApproveIs ==
  ASSUME TypeOK, NEW b \in Bookings, Approve(b)
  PROVE  \E a \in Plans(booking, Live(booking) \cup {b}, Swept, Nothing) :
           /\ vehicle' = Swept /\ UNCHANGED <<now, fleet, contract>>
           /\ booking[b].status = "REQUESTED" /\ booking'[b].status = "APPROVED"
           /\ \A c \in Bookings : SameDates(c)
           /\ \A c \in Bookings \ {b} : /\ booking'[c].status = booking[c].status
                                        /\ booking[c].status # "APPROVED" => booking'[c] = booking[c]
           /\ \A c \in Live(booking) \cup {b} : booking'[c].status = "APPROVED" => booking'[c].vehicle = a[c]
<1>1. PICK a \in Plans(booking, Live(booking) \cup {b}, Swept, Nothing) :
        booking' = [Apply(a, booking) EXCEPT ![b] =
                      [@ EXCEPT !.status = "APPROVED", !.assignment = "PROVISIONAL", !.vehicle = a[b]]]
  BY DEF Approve
<1> DEFINE jobs == Live(booking) \cup {b}
<1>2. /\ jobs \subseteq Bookings /\ booking \in [Bookings -> Booking]
      /\ a \in Plans(booking, jobs, Swept, Nothing)
  BY <1>1, LiveIsBookings DEF TypeOK
<1>3. booking[b].status = "REQUESTED" /\ vehicle' = Swept /\ UNCHANGED <<now, fleet, contract>>
  BY DEF Approve
<1> HIDE DEF jobs
<1>4. ASSUME NEW c \in Bookings \ {b}
      PROVE  /\ SameDates(c) /\ booking'[c].status = booking[c].status
             /\ booking[c].status # "APPROVED" => booking'[c] = booking[c]
             /\ c \in jobs /\ booking'[c].status = "APPROVED" => booking'[c].vehicle = a[c]
  <2>1. booking'[c] = Apply(a, booking)[c]
    BY <1>1, <1>2, ApplyIs
  <2>2. /\ Moved(Apply(a, booking)[c], booking[c])
        /\ booking[c].status = "APPROVED" /\ c \in jobs => Apply(a, booking)[c].vehicle = a[c]
    BY <1>1, <1>2, ApplyIs
  <2> QED
    BY <2>1, <2>2 DEF SameDates, Moved
<1>5. SameDates(b) /\ booking'[b].status = "APPROVED" /\ booking'[b].vehicle = a[b]
  <2>1. Apply(a, booking)[b] = booking[b] /\ Apply(a, booking) \in [Bookings -> Booking] /\ booking[b] \in Booking
    BY <1>1, <1>2, <1>3, ApplyIs DEF Moved
  <2>2. booking'[b] = [booking[b] EXCEPT !.status = "APPROVED", !.assignment = "PROVISIONAL", !.vehicle = a[b]]
    BY <1>1, <2>1
  <2> QED
    BY <2>1, <2>2 DEF SameDates, Booking
<1>6. /\ \A c \in Bookings : SameDates(c)
      /\ \A c \in jobs : booking'[c].status = "APPROVED" => booking'[c].vehicle = a[c]
  BY <1>2, <1>4, <1>5
<1> WITNESS a \in Plans(booking, Live(booking) \cup {b}, Swept, Nothing)
<1> QED
  BY <1>3, <1>4, <1>5, <1>6 DEF jobs

LEMMA ReceiveIs ==
  ASSUME TypeOK, NEW b \in Bookings, Receive(b)
  PROVE  LET v == booking[b].vehicle IN
         \E a \in Plans(booking, Live(booking), [vehicle EXCEPT ![v] = Available], Needs(v, now, booking[b].end)) :
           /\ v \in Vehicles /\ vehicle[v] = HeldFor(b) /\ OpenOn(v) = {} /\ now < Deadline(booking[b])
           /\ vehicle' = [vehicle EXCEPT ![v] = OnRent] /\ UNCHANGED <<now, fleet>>
           /\ booking[b].status = "HANDOVER_PENDING" /\ booking'[b].status = "HANDED_OVER"
           /\ booking'[b].vehicle = v
           /\ contract' = [contract EXCEPT ![b] = [status |-> "ON_RENT", vehicle |-> v, start |-> now, finish |-> 0]]
           /\ \A c \in Bookings : SameDates(c)
           /\ \A c \in Bookings \ {b} : /\ booking'[c].status = booking[c].status
                                        /\ booking[c].status # "APPROVED" => booking'[c] = booking[c]
           /\ \A c \in Live(booking) : booking'[c].status = "APPROVED" => booking'[c].vehicle = a[c]
<1> DEFINE v == booking[b].vehicle
           st == [vehicle EXCEPT ![v] = Available]
           needs == Needs(v, now, booking[b].end)
           jobs == Live(booking)
<1>1. PICK a \in Plans(booking, jobs, st, needs) :
        booking' = [Apply(a, booking) EXCEPT ![b].status = "HANDED_OVER"]
  BY DEF Receive
<1>2. /\ jobs \subseteq Bookings /\ booking \in [Bookings -> Booking]
      /\ v \in Vehicles
  BY LiveIsBookings DEF TypeOK, Receive
<1>3. /\ booking[b].status = "HANDOVER_PENDING" /\ vehicle[v] = HeldFor(b) /\ OpenOn(v) = {}
      /\ now < Deadline(booking[b])
      /\ vehicle' = [vehicle EXCEPT ![v] = OnRent] /\ UNCHANGED <<now, fleet>>
      /\ contract' = [contract EXCEPT ![b] = [status |-> "ON_RENT", vehicle |-> v, start |-> now, finish |-> 0]]
  BY DEF Receive
<1> HIDE DEF st, needs, jobs
<1>4. jobs \subseteq Bookings
  BY <1>2
<1>5. ASSUME NEW c \in Bookings
      PROVE  /\ Apply(a, booking) \in [Bookings -> Booking]
             /\ Moved(Apply(a, booking)[c], booking[c])
             /\ booking[c].status = "APPROVED" /\ c \in jobs => Apply(a, booking)[c].vehicle = a[c]
  BY <1>4, ApplyIs
<1>6. ASSUME NEW c \in Bookings \ {b}
      PROVE  /\ SameDates(c) /\ booking'[c].status = booking[c].status
             /\ booking[c].status # "APPROVED" => booking'[c] = booking[c]
             /\ c \in jobs /\ booking'[c].status = "APPROVED" => booking'[c].vehicle = a[c]
  <2>1. booking'[c] = Apply(a, booking)[c]
    BY <1>1, <1>2, <1>5
  <2>2. /\ Moved(Apply(a, booking)[c], booking[c])
        /\ booking[c].status = "APPROVED" /\ c \in jobs => Apply(a, booking)[c].vehicle = a[c]
    BY <1>5
  <2> QED
    BY <2>1, <2>2 DEF SameDates, Moved
<1>7. SameDates(b) /\ booking'[b].status = "HANDED_OVER" /\ booking'[b].vehicle = v
  <2>1. Apply(a, booking) \in [Bookings -> Booking] /\ Moved(Apply(a, booking)[b], booking[b])
    BY <1>5
  <2>2. Apply(a, booking)[b] = booking[b] /\ Apply(a, booking) \in [Bookings -> Booking] /\ booking[b] \in Booking
    BY <1>2, <1>3, <2>1 DEF Moved
  <2>3. booking'[b] = [booking[b] EXCEPT !.status = "HANDED_OVER"]
    BY <1>1, <2>2
  <2> QED
    BY <2>2, <2>3 DEF SameDates, Booking
<1> QED
  BY <1>2, <1>3, <1>6, <1>7 DEF st, needs, jobs

LEMMA RepairIs ==
  ASSUME TypeOK, NEW v \in Vehicles, NEW last \in DayNumbers, Repair(v, last)
  PROVE  \E begin, until \in Times :
         \E a \in Plans(booking, Live(booking), [Swept EXCEPT ![v] = Available], Needs(v, begin, until)) :
           /\ vehicle' = [Swept EXCEPT ![v] = InRepair(begin, until)] /\ UNCHANGED <<now, fleet, contract>>
           /\ vehicle[v].hold = None
           /\ \A c \in Bookings : /\ SameDates(c) /\ booking'[c].status = booking[c].status
                                  /\ booking[c].status # "APPROVED" => booking'[c] = booking[c]
           /\ \A c \in Live(booking) : booking'[c].status = "APPROVED" => booking'[c].vehicle = a[c]
<1> DEFINE begin == IF Swept[v].status = "MAINTENANCE" THEN vehicle[v].since ELSE now
           until == (last + 1) * DayLength
           st == [Swept EXCEPT ![v] = Available]
           jobs == Live(booking)
           needs == Needs(v, begin, until)
<1>1. begin \in Times /\ until \in Times
  BY Clock DEF TypeOK, Vehicle
<1>2. PICK a \in Plans(booking, jobs, st, needs) : booking' = Apply(a, booking)
  BY DEF Repair
<1>3. vehicle' = [Swept EXCEPT ![v] = InRepair(begin, until)] /\ UNCHANGED <<now, fleet, contract>> /\ vehicle[v].hold = None
  BY DEF Repair
<1>4. jobs \subseteq Bookings /\ booking \in [Bookings -> Booking]
  BY LiveIsBookings DEF TypeOK
<1> HIDE DEF begin, until, st, jobs, needs
<1>5. \A c \in Bookings : /\ SameDates(c) /\ booking'[c].status = booking[c].status
                          /\ booking[c].status # "APPROVED" => booking'[c] = booking[c]
                          /\ c \in jobs /\ booking'[c].status = "APPROVED" => booking'[c].vehicle = a[c]
  <2> SUFFICES ASSUME NEW c \in Bookings
               PROVE  /\ SameDates(c) /\ booking'[c].status = booking[c].status
                      /\ booking[c].status # "APPROVED" => booking'[c] = booking[c]
                      /\ c \in jobs /\ booking'[c].status = "APPROVED" => booking'[c].vehicle = a[c]
    OBVIOUS
  <2>1. /\ Moved(Apply(a, booking)[c], booking[c])
        /\ booking[c].status = "APPROVED" /\ c \in jobs => Apply(a, booking)[c].vehicle = a[c]
    BY <1>2, <1>4, ApplyIs
  <2> QED
    BY <1>2, <2>1 DEF SameDates, Moved
<1> QED
  BY <1>1, <1>2, <1>3, <1>4, <1>5 DEF st, jobs, needs

LEMMA NewDates ==
  ASSUME TypeOK, TypeOK', now <= now', NEW b \in Bookings, DatesOK(b), contract'[b] = contract[b],
         booking'[b].start < booking'[b].end, \E d \in Nat : booking'[b].end = d * DayLength,
         booking'[b].status = "HANDOVER_PENDING" => booking'[b].start <= now'
  PROVE  DatesOK(b)'
<1>1. now \in Nat /\ now' \in Nat /\ contract[b] \in Contract
  BY Clock DEF TypeOK, Times
<1>2. contract[b].start \in Nat /\ contract[b].finish \in Nat
  BY <1>1, Clock DEF Contract, Times
<1> QED
  BY <1>1, <1>2 DEF DatesOK

LEMMA RequestDates ==
  ASSUME TypeOK, TypeOK', DatesInv, NEW b \in Bookings, NEW s \in Times, NEW last \in DayNumbers,
         NEW v \in Vehicles \cup {None}, s < (last + 1) * DayLength,
         booking' = [booking EXCEPT ![b] = Requested(s, (last + 1) * DayLength, v)],
         UNCHANGED <<now, contract>>
  PROVE  DatesInv'
<1>1. now <= now' /\ booking \in [Bookings -> Booking] /\ contract' = contract
  BY Clock DEF TypeOK, Times
<1>2. booking'[b].start < booking'[b].end /\ \E d \in Nat : booking'[b].end = d * DayLength
  BY <1>1, RequestedDates
<1>3. booking'[b].status = "REQUESTED"
  BY <1>1 DEF Requested
<1>4. ASSUME NEW c \in Bookings PROVE DatesOK(c)'
  <2>1. DatesOK(c)
    BY DEF DatesInv
  <2>2. CASE c = b
    BY <1>1, <1>2, <1>3, <2>1, <2>2, NewDates
  <2>3. CASE c # b
    BY <1>1, <2>1, <2>3, UntouchedDates
  <2> QED
    BY <2>2, <2>3
<1> QED
  BY <1>4 DEF DatesInv

LEMMA PrepareDates ==
  ASSUME TypeOK, TypeOK', DatesInv, NEW b \in Bookings, NEW r \in Booking, NEW v, Prepare(b, r, v),
         r.start < r.end, \E d \in Nat : r.end = d * DayLength, r.start <= now
  PROVE  DatesInv'
<1>1. /\ now <= now' /\ now' = now /\ booking \in [Bookings -> Booking] /\ contract' = contract
      /\ booking' = [booking EXCEPT ![b] = [r EXCEPT !.status = "HANDOVER_PENDING",
                       !.assignment = "LOCKED", !.vehicle = v, !.handed = TRUE]]
  BY Clock DEF TypeOK, Times, Prepare
<1>2. booking'[b].start = r.start /\ booking'[b].end = r.end
  BY <1>1 DEF Booking
<1>3. ASSUME NEW c \in Bookings PROVE DatesOK(c)'
  <2>1. DatesOK(c)
    BY DEF DatesInv
  <2>2. CASE c = b
    BY <1>1, <1>2, <2>1, <2>2, NewDates
  <2>3. CASE c # b
    BY <1>1, <2>1, <2>3, UntouchedDates
  <2> QED
    BY <2>2, <2>3
<1> QED
  BY <1>3 DEF DatesInv

\* A step that closes b and leaves the other bookings alone.
LEMMA ClosedDates ==
  ASSUME TypeOK, TypeOK', DatesInv, NEW b \in Bookings, NEW s, s \notin Dated, Release(b, s),
         UNCHANGED <<now, contract>>
  PROVE  DatesInv'
<1>1. now <= now' /\ booking \in [Bookings -> Booking] /\ contract' = contract
  BY Clock DEF TypeOK, Times
<1>2. booking'[b].status = s
  BY <1>1 DEF Release, Released, NoBooking
<1>3. ASSUME NEW c \in Bookings PROVE DatesOK(c)'
  <2>1. DatesOK(c)
    BY DEF DatesInv
  <2>2. CASE c = b
    BY <1>1, <1>2, <2>1, <2>2, UndatedOK
  <2>3. CASE c # b
    BY <1>1, <2>1, <2>3, UntouchedDates DEF Release
  <2> QED
    BY <2>2, <2>3
<1> QED
  BY <1>3 DEF DatesInv

LEMMA ReceiveDates ==
  ASSUME TypeOK, TypeOK', DatesInv, NEW b \in Bookings, Receive(b)
  PROVE  DatesInv'
<1>1. /\ now' = now /\ booking[b].status = "HANDOVER_PENDING" /\ booking'[b].status = "HANDED_OVER"
      /\ contract' = [contract EXCEPT ![b] = [status |-> "ON_RENT", vehicle |-> booking[b].vehicle,
                                              start |-> now, finish |-> 0]]
      /\ \A c \in Bookings : SameDates(c)
      /\ \A c \in Bookings \ {b} : booking'[c].status = booking[c].status
  BY ReceiveIs
<1>2. now \in Nat /\ now <= now' /\ contract \in [Bookings -> Contract]
  BY <1>1, Clock DEF TypeOK, Times
<1>3. ASSUME NEW c \in Bookings PROVE DatesOK(c)'
  <2>1. DatesOK(c)
    BY DEF DatesInv
  <2>2. CASE c = b
    <3>1. booking[b].start < booking[b].end /\ \E d \in Nat : booking[b].end = d * DayLength
      BY <1>1, <2>1, <2>2 DEF DatesOK, Dated
    <3>2. contract'[b].status = "ON_RENT" /\ contract'[b].start = now
      BY <1>1, <1>2
    <3> QED
      BY <1>1, <1>2, <2>2, <3>1, <3>2 DEF DatesOK, SameDates
  <2>3. CASE c # b
    <3>1. contract'[c] = contract[c] /\ booking'[c].status = booking[c].status /\ SameDates(c)
      BY <1>1, <1>2, <2>3
    <3> QED
      BY <1>2, <2>1, <3>1, DatesKept
  <2> QED
    BY <2>2, <2>3
<1> QED
  BY <1>3 DEF DatesInv

LEMMA ReturnDates ==
  ASSUME TypeOK, TypeOK', DatesInv, NEW v \in Vehicles, Return(v)
  PROVE  DatesInv'
<1>1. PICK b \in Bookings :
        /\ contract' = [contract EXCEPT ![b] = [@ EXCEPT !.status = "RETURNED", !.finish = now]]
        /\ booking' = [booking EXCEPT ![b] = [@ EXCEPT !.status = "RETURNED", !.assignment = "RELEASED"]]
  BY DEF Return
<1>2. /\ now \in Nat /\ now' = now /\ now <= now' /\ contract \in [Bookings -> Contract]
      /\ booking \in [Bookings -> Booking]
  BY Clock DEF TypeOK, Times, Return
<1>3. booking'[b].status = "RETURNED" /\ contract'[b].status = "RETURNED" /\ contract'[b].finish = now
  <2>1. booking[b] \in Booking /\ contract[b] \in Contract
    BY <1>2
  <2>2. /\ booking'[b] = [booking[b] EXCEPT !.status = "RETURNED", !.assignment = "RELEASED"]
        /\ contract'[b] = [contract[b] EXCEPT !.status = "RETURNED", !.finish = now]
    BY <1>1, <1>2
  <2> QED
    BY <2>1, <2>2 DEF Booking, Contract
<1>4. ASSUME NEW c \in Bookings PROVE DatesOK(c)'
  <2>1. DatesOK(c)
    BY DEF DatesInv
  <2>2. CASE c = b
    BY <1>2, <1>3, <2>2 DEF DatesOK, Dated
  <2>3. CASE c # b
    BY <1>1, <1>2, <2>1, <2>3, UntouchedDates
  <2> QED
    BY <2>2, <2>3
<1> QED
  BY <1>4 DEF DatesInv

LEMMA ExpiryDates ==
  ASSUME TypeOK, TypeOK', DatesInv, ExpireReceipts
  PROVE  DatesInv'
<1>1. now <= now' /\ contract' = contract
  BY Clock DEF TypeOK, Times, ExpireReceipts
<1>2. ASSUME NEW c \in Bookings PROVE DatesOK(c)'
  <2>1. DatesOK(c) /\ booking[c] \in Booking
    BY DEF DatesInv, TypeOK
  <2>2. CASE Due(c)
    <3>1. booking'[c] = Expired(booking[c])
      BY <2>2 DEF ExpireReceipts
    <3>2. booking'[c].status = "EXPIRED"
      BY <2>1, <3>1 DEF Expired, Released, NoBooking, Booking
    <3> QED
      BY <1>1, <2>1, <3>2, UndatedOK DEF Dated
  <2>3. CASE ~Due(c)
    <3>1. booking'[c] = booking[c]
      BY <2>3 DEF ExpireReceipts
    <3> QED
      BY <1>1, <2>1, <3>1, UntouchedDates
  <2> QED
    BY <2>2, <2>3
<1> QED
  BY <1>2 DEF DatesInv

LEMMA DatesStep == IInv /\ DatesInv /\ [Next]_vars => DatesInv'
<1> SUFFICES ASSUME IInv, DatesInv, [Next]_vars PROVE DatesInv'
  OBVIOUS
<1>0. TypeOK /\ TypeOK' /\ now \in Nat /\ now \in Times
  BY TypesStep, Clock DEF IInv, TypeOK, Times
<1>1. ASSUME NEW b \in Bookings, NEW first \in DayNumbers, NEW last \in first..(LastDay - 1),
             Request(b, first, last)
      PROVE  DatesInv'
  <2>1. last \in DayNumbers /\ last \in Nat /\ first \in Nat /\ first <= last
    BY TimeAssumption DEF DayNumbers
  <2>2. first * DayLength \in Times /\ first * DayLength < (last + 1) * DayLength
    <3>1. DayLength \in Nat /\ DayLength > 0
      BY TimeAssumption
    <3>2. first * DayLength \in Nat /\ last * DayLength \in Nat /\ first * DayLength <= last * DayLength
      BY <2>1, Products
    <3>3. (last + 1) * DayLength = last * DayLength + DayLength
      BY <2>1, <3>1
    <3> QED
      BY <2>1, <3>1, <3>2, <3>3, Clock
  <2> QED
    BY <1>0, <1>1, <2>1, <2>2, RequestDates DEF Request
<1>2. ASSUME NEW b \in Bookings, NEW v \in Vehicles, NEW last \in DayNumbers, OnsiteFits(b, v, last)
      PROVE  /\ now < (last + 1) * DayLength
             /\ LET r == Requested(now, (last + 1) * DayLength, v) IN
                r \in Booking /\ r.start < r.end /\ (\E d \in Nat : r.end = d * DayLength) /\ r.start <= now
  <2>1. last \in Nat /\ last + 1 \in Nat /\ last <= last + 1
    BY DEF DayNumbers
  <2>2. now < last * DayLength /\ last * DayLength \in Nat /\ last * DayLength <= (last + 1) * DayLength
        /\ (last + 1) * DayLength \in Nat
    BY <1>0, <1>2, <2>1, Products DEF OnsiteFits
  <2>3. now < (last + 1) * DayLength
    BY <1>0, <2>2
  <2> QED
    BY <1>0, <2>3, RequestedDates
<1>3. ASSUME NEW b \in Bookings, NEW v \in Vehicles, NEW last \in DayNumbers, OnsiteRequest(b, v, last)
      PROVE  DatesInv'
  <2>1. now < (last + 1) * DayLength
    BY <1>2, <1>3 DEF OnsiteRequest
  <2> QED
    BY <1>0, <1>3, <2>1, RequestDates DEF OnsiteRequest
<1>4. ASSUME NEW b \in Bookings, NEW v \in Vehicles, NEW last \in DayNumbers, WalkIn(b, v, last)
      PROVE  DatesInv'
  <2>1. OnsiteFits(b, v, last) /\ Prepare(b, Requested(now, (last + 1) * DayLength, v), v)
    BY <1>4 DEF WalkIn
  <2> QED
    BY <1>0, <1>2, <2>1, PrepareDates
<1>5. ASSUME NEW b \in Bookings, NEW v \in Vehicles, HandOver(b, v) PROVE DatesInv'
  <2>1. Prepare(b, booking[b], v) /\ booking[b].status = "APPROVED" /\ booking[b].start <= now /\ DatesOK(b)
    BY <1>5 DEF HandOver, DatesInv
  <2>2. booking[b] \in Booking /\ booking[b].start < booking[b].end /\ \E d \in Nat : booking[b].end = d * DayLength
    BY <1>0, <2>1 DEF DatesOK, Dated, TypeOK
  <2> QED
    BY <1>0, <2>1, <2>2, PrepareDates
<1>6. ASSUME NEW b \in Bookings, Approve(b) PROVE DatesInv'
  <2>1. PICK a : /\ UNCHANGED <<now, fleet, contract>>
                 /\ booking[b].status = "REQUESTED" /\ booking'[b].status = "APPROVED"
                 /\ \A c \in Bookings : SameDates(c)
                 /\ \A c \in Bookings \ {b} : booking'[c].status = booking[c].status
    BY <1>0, <1>6, ApproveIs
  <2>2. ASSUME NEW c \in Bookings PROVE DatesOK(c)'
    <3>1. /\ DatesOK(c) /\ now <= now' /\ contract'[c] = contract[c] /\ SameDates(c)
          /\ booking'[c].status \in Dated => booking[c].status \in Dated
          /\ booking'[c].status = "HANDOVER_PENDING" => booking[c].status = "HANDOVER_PENDING"
      BY <1>0, <2>1 DEF DatesInv, Dated
    <3> QED
      BY <1>0, <3>1, DatesKept
  <2> QED
    BY <2>2 DEF DatesInv
<1>7. ASSUME NEW b \in Bookings, Reject(b) \/ Cancel(b) \/ ExpireUnpaid(b) \/ Recover(b) PROVE DatesInv'
  <2>1. PICK s \in {"REJECTED", "CANCELED", "EXPIRED"} : Release(b, s) /\ UNCHANGED <<now, contract>>
    BY <1>7 DEF Reject, Cancel, ExpireUnpaid, Recover
  <2> QED
    BY <1>0, <2>1, ClosedDates DEF Dated
<1>8. ASSUME NEW b \in Bookings, Receive(b) PROVE DatesInv'
  BY <1>0, <1>8, ReceiveDates
<1>9. ASSUME NEW v \in Vehicles, Return(v) PROVE DatesInv'
  BY <1>0, <1>9, ReturnDates
<1>10. ASSUME NEW v \in Vehicles, NEW last \in DayNumbers, Repair(v, last) PROVE DatesInv'
  <2>1. PICK a : /\ UNCHANGED <<now, fleet, contract>>
                 /\ \A c \in Bookings : SameDates(c) /\ booking'[c].status = booking[c].status
    BY <1>0, <1>10, RepairIs
  <2>2. ASSUME NEW c \in Bookings PROVE DatesOK(c)'
    <3>1. /\ DatesOK(c) /\ now <= now' /\ contract'[c] = contract[c] /\ SameDates(c)
          /\ booking'[c].status = booking[c].status
      BY <1>0, <2>1 DEF DatesInv
    <3> QED
      BY <1>0, <3>1, DatesKept
  <2> QED
    BY <2>2 DEF DatesInv
<1>11. CASE ExpireReceipts
  BY <1>0, <1>11, ExpiryDates
<1>12. ASSUME now <= now', UNCHANGED <<booking, contract>> PROVE DatesInv'
  BY <1>0, <1>12, UntouchedDates DEF DatesInv
<1>13. ASSUME (\E v \in Vehicles : Move(v)) \/ ExpireMaintenance \/ Tick \/ UNCHANGED vars PROVE DatesInv'
  BY <1>0, <1>12, <1>13 DEF Move, ExpireMaintenance, Tick, vars
<1> QED
  BY <1>1, <1>3, <1>4, <1>5, <1>6, <1>7, <1>8, <1>9, <1>10, <1>11, <1>13 DEF Next

-----------------------------------------------------------------------------
\* Capacity: what the plans of an operation mean for the state it leaves.

\* What rentals and maintenance take of a vehicle.
Rentals(v) == UNION {RentalSpan(b) : b \in {c \in Bookings : contract[c].vehicle = v}}
Works(r) == IF r.status = "MAINTENANCE" /\ r.until > now THEN Span(r.since, r.until) ELSE {}
TakenNow == [v \in Vehicles |-> Taken(vehicle, v)]

\* What is promised of v, a handover that awaits its receipt included.
Reserved(v) == Promised(v) \cup UNION {Ahead(Days(booking[b])) : b \in {c \in Bookings : vehicle[v] = HeldFor(c)}}

\* What the receipt of b leaves no room for.
Busy(b) == [u \in Vehicles |-> IF u = booking[b].vehicle THEN Rentals(u) \cup Span(now, booking[b].end)
                               ELSE Taken(vehicle, u)]

\* a gives each of jobs one of cars for its days, none of them in X, and no two the same.
FitsIn(a, jobs, rows, cars, X) ==
  /\ \A b \in jobs : /\ a[b] \in cars /\ rows[b].onsite \in {None, a[b]}
                     /\ Days(rows[b]) \cap X[a[b]] = {}
  /\ \A b, c \in jobs : b # c /\ a[b] = a[c] => Days(rows[b]) \cap Days(rows[c]) = {}

\* The plan whose existence RequestsKeepCapacity promises.
KeepsCapacity(a) ==
  /\ \A b \in Live(booking) : /\ a[b] \in fleet /\ booking[b].onsite \in {None, a[b]}
                              /\ Ahead(Days(booking[b])) \cap Reserved(a[b]) = {}
  /\ \A b, c \in Live(booking) : b # c /\ a[b] = a[c] => Ahead(Days(booking[b])) \cap Days(booking[c]) = {}
KeptCapacity == \E a : KeepsCapacity(a)

LEMMA TakenIs ==
  ASSUME NEW st, NEW v
  PROVE  Taken(st, v) = IF st[v].status = "DISABLED" THEN Times ELSE Works(st[v]) \cup Rentals(v)
  BY DEF Taken, Works, Rentals

LEMMA InRentals ==
  ASSUME NEW v, NEW t
  PROVE  t \in Rentals(v) <=> \E b \in Bookings : contract[b].vehicle = v /\ t \in RentalSpan(b)
  BY DEF Rentals

PromisedParts ==
  \A v, t :
    /\ t \in Promised(v) <=>
         \/ \E b \in OpenOn(v) : t \in Ahead(Days(booking[b]))
         \/ vehicle[v].status = "MAINTENANCE" /\ t \in Ahead(Span(vehicle[v].since, vehicle[v].until))
    /\ t \in Reserved(v) <=>
         \/ t \in Promised(v)
         \/ \E b \in Bookings : vehicle[v] = HeldFor(b) /\ t \in Ahead(Days(booking[b]))

LEMMA InPromised == PromisedParts
<1> SUFFICES ASSUME NEW v, NEW t
             PROVE  /\ t \in Promised(v) <=>
                         \/ \E b \in OpenOn(v) : t \in Ahead(Days(booking[b]))
                         \/ vehicle[v].status = "MAINTENANCE" /\ t \in Ahead(Span(vehicle[v].since, vehicle[v].until))
                    /\ t \in Reserved(v) <=>
                         \/ t \in Promised(v)
                         \/ \E b \in Bookings : vehicle[v] = HeldFor(b) /\ t \in Ahead(Days(booking[b]))
  BY DEF PromisedParts
<1>1. t \in Promised(v) <=>
        \/ \E b \in OpenOn(v) : t \in Ahead(Days(booking[b]))
        \/ vehicle[v].status = "MAINTENANCE" /\ t \in Ahead(Span(vehicle[v].since, vehicle[v].until))
  BY DEF Promised
<1>2. t \in Reserved(v) <=>
        \/ t \in Promised(v)
        \/ \E b \in Bookings : vehicle[v] = HeldFor(b) /\ t \in Ahead(Days(booking[b]))
  BY DEF Reserved
<1> QED
  BY <1>1, <1>2

LEMMA NextPromised == PromisedParts'
  BY InPromised, PTL

LEMMA TimesOnly ==
  /\ \A r : Days(r) \subseteq Times
  /\ \A v : Rentals(v) \subseteq Times
  /\ \A st, v : Taken(st, v) \subseteq Times
<1>1. \A s, t : Span(s, t) \subseteq Times
  BY DEF Span
<1>2. \A v : Rentals(v) \subseteq Times
  BY <1>1, InRentals DEF RentalSpan
<1> QED
  BY <1>1, <1>2, TakenIs DEF Days, Works

\* What is left of an open rental.
LEMMA OpenSpan ==
  IInv /\ DatesInv => \A v \in Vehicles : \A b \in OpenOn(v) : Ahead(Days(booking[b])) \subseteq Rentals(v)
<1> SUFFICES ASSUME IInv, DatesInv, NEW v \in Vehicles, NEW b \in OpenOn(v), NEW t \in Ahead(Days(booking[b]))
             PROVE  t \in Rentals(v)
  OBVIOUS
<1>1. b \in Bookings /\ contract[b].status = "ON_RENT" /\ contract[b].vehicle = v
  BY DEF OpenOn
<1>2. contract[b].start <= now /\ contract[b].start \in Nat /\ now \in Nat /\ booking[b].end \in Nat
  BY <1>1, Clock DEF DatesInv, DatesOK, IInv, TypeOK, Contract, Booking, Times
<1>3. t \in Times /\ t \in Nat /\ t >= now /\ t < booking[b].end
  BY DEF Ahead, Days, Span, Times
<1>4. t \in RentalSpan(b)
  BY <1>1, <1>2, <1>3 DEF RentalSpan, Span
<1> QED
  BY <1>1, <1>4, InRentals

LEMMA ReservedIsTaken ==
  IInv /\ DatesInv => \A v \in Vehicles : Reserved(v) \subseteq Taken(vehicle, v)
<1> SUFFICES ASSUME IInv, DatesInv, NEW v \in Vehicles PROVE Reserved(v) \subseteq Taken(vehicle, v)
  OBVIOUS
<1>1. \A s, t : Ahead(Span(s, t)) \subseteq Times
  BY DEF Ahead, Span
<1>2. Reserved(v) \subseteq Times
  BY <1>1, InPromised DEF PromisedParts, Days
<1>3. CASE vehicle[v].status = "DISABLED"
  BY <1>2, <1>3, TakenIs
<1>4. CASE vehicle[v].status # "DISABLED"
  <2>1. Reserved(v) = Promised(v)
    <3>1. \A c \in Bookings : vehicle[v] # HeldFor(c)
      BY <1>4, VehicleRecords
    <3> QED
      BY <3>1 DEF Reserved
  <2>2. \A b \in OpenOn(v) : Ahead(Days(booking[b])) \subseteq Rentals(v)
    BY OpenSpan
  <2>3. vehicle[v].status = "MAINTENANCE" => Ahead(Span(vehicle[v].since, vehicle[v].until)) \subseteq Works(vehicle[v])
    <3>1. vehicle[v].until \in Nat /\ now \in Nat
      BY Clock DEF IInv, TypeOK, Vehicle, Times
    <3> QED
      BY <3>1 DEF Works, Ahead, Span, Times
  <2>4. Promised(v) \subseteq Works(vehicle[v]) \cup Rentals(v)
    BY <2>2, <2>3, InPromised DEF PromisedParts
  <2> QED
    BY <1>4, <2>1, <2>4, TakenIs
<1> QED
  BY <1>3, <1>4

\* The rentals of a vehicle that is not out are over.
LEMMA PastRentals ==
  IInv /\ DatesInv => \A v \in Vehicles : OpenOn(v) = {} => \A t \in Rentals(v) : t < now
<1> SUFFICES ASSUME IInv, DatesInv, NEW v \in Vehicles, OpenOn(v) = {}, NEW t \in Rentals(v) PROVE t < now
  OBVIOUS
<1>1. PICK b \in Bookings : contract[b].vehicle = v /\ t \in RentalSpan(b)
  BY InRentals
<1>2. contract[b] \in Contract /\ DatesOK(b) /\ v # None
  BY NoneAssumption DEF IInv, TypeOK, DatesInv
<1>3. contract[b].status # "ON_RENT"
  BY <1>1 DEF OpenOn
<1>4. contract[b].status = "RETURNED" /\ contract[b].finish <= now
  BY <1>1, <1>2, <1>3 DEF DatesOK, Contract
<1>5. t \in Nat /\ t < contract[b].finish /\ contract[b].finish \in Nat /\ now \in Nat
  BY <1>1, <1>2, <1>4, Clock DEF RentalSpan, Span, Times, Contract, IInv, TypeOK
<1> QED
  BY <1>4, <1>5

\* An assignment that the solver returned for jobs serves those of them that
\* stay, and keeps them off whatever it was told to keep them off.
LEMMA PlanFits ==
  ASSUME NEW bk, NEW jobs, NEW st, NEW needs, NEW a, a \in Plans(bk, jobs, st, needs),
         NEW live, live \subseteq jobs, NEW rows, NEW X,
         \A c \in live : rows[c].start = bk[c].start /\ rows[c].end = bk[c].end /\ rows[c].onsite = bk[c].onsite,
         \A u \in fleet : X[u] \subseteq Taken(st, u) \cup needs[u]
  PROVE  FitsIn(a, live, rows, fleet, X)
<1>1. \A c \in live : Days(rows[c]) = Days(bk[c])
  BY DEF Days
<1>2. /\ \A b \in jobs : /\ a[b] \in fleet /\ bk[b].onsite \in {None, a[b]}
                         /\ Days(bk[b]) \cap (Taken(st, a[b]) \cup needs[a[b]]) = {}
      /\ \A b, c \in jobs : b # c /\ a[b] = a[c] => Days(bk[b]) \cap Days(bk[c]) = {}
  BY DEF Plans
<1> QED
  BY <1>1, <1>2 DEF FitsIn

LEMMA FitsLess ==
  ASSUME NEW a, NEW jobs, NEW rows, NEW cars, NEW X, FitsIn(a, jobs, rows, cars, X),
         NEW jobs2, jobs2 \subseteq jobs, NEW rows2, NEW X2,
         \A c \in jobs2 : rows2[c].start = rows[c].start /\ rows2[c].end = rows[c].end /\ rows2[c].onsite = rows[c].onsite,
         \A u \in cars : X2[u] \subseteq X[u]
  PROVE  FitsIn(a, jobs2, rows2, cars, X2)
<1>1. \A c \in jobs2 : Days(rows2[c]) = Days(rows[c])
  BY DEF Days
<1> QED
  BY <1>1 DEF FitsIn

LEMMA CapacityIs ==
  TypeOK => (RequestsKeepCapacity <=> KeptCapacity)
<1> SUFFICES ASSUME TypeOK PROVE RequestsKeepCapacity <=> \E a : KeepsCapacity(a)
  BY DEF KeptCapacity
<1> DEFINE promised == [v \in Vehicles |-> Reserved(v)]
           Good(a) == /\ \A b \in Live(booking) : /\ booking[b].onsite \in {None, a[b]}
                                                  /\ Ahead(Days(booking[b])) \cap promised[a[b]] = {}
                      /\ \A b, c \in Live(booking) : b # c /\ a[b] = a[c] =>
                           Ahead(Days(booking[b])) \cap Days(booking[c]) = {}
<1>1. RequestsKeepCapacity <=> \E a \in [Live(booking) -> fleet] : Good(a)
  BY DEF RequestsKeepCapacity, Reserved
<1>2. fleet \subseteq Vehicles
  BY DEF TypeOK
<1>3. \A v \in fleet : promised[v] = Reserved(v)
  BY <1>2
<1> HIDE DEF promised
<1>4. ASSUME NEW a \in [Live(booking) -> fleet], Good(a) PROVE KeepsCapacity(a)
  BY <1>3, <1>4 DEF KeepsCapacity
<1>5. ASSUME NEW a, KeepsCapacity(a) PROVE \E f \in [Live(booking) -> fleet] : Good(f)
  <2> DEFINE f == [b \in Live(booking) |-> a[b]]
  <2>1. f \in [Live(booking) -> fleet] /\ \A b \in Live(booking) : f[b] = a[b]
    BY <1>5 DEF KeepsCapacity
  <2> HIDE DEF f
  <2>2. Good(f)
    BY <1>3, <1>5, <2>1 DEF KeepsCapacity
  <2> QED
    BY <2>1, <2>2
<1> QED
  BY <1>1, <1>4, <1>5

LEMMA FitsKeepsCapacity ==
  \A a, X : /\ FitsIn(a, Live(booking), booking, fleet, X)
            /\ \A u \in fleet : Reserved(u) \subseteq X[u]
            => KeepsCapacity(a)
<1> SUFFICES ASSUME NEW a, NEW X, FitsIn(a, Live(booking), booking, fleet, X),
                    \A u \in fleet : Reserved(u) \subseteq X[u]
             PROVE  KeepsCapacity(a)
  OBVIOUS
<1>1. \A r : Ahead(Days(r)) \subseteq Days(r)
  BY DEF Ahead
<1> QED
  BY <1>1 DEF FitsIn, KeepsCapacity

LEMMA FitsKeepsApart ==
  IInv /\ DatesInv =>
    \A a : /\ FitsIn(a, Live(booking), booking, fleet, TakenNow)
           /\ \A c \in LiveApproved : booking[c].vehicle = a[c]
           => NoDoubleBooking
<1> SUFFICES ASSUME IInv, DatesInv, NEW a, FitsIn(a, Live(booking), booking, fleet, TakenNow),
                    \A c \in LiveApproved : booking[c].vehicle = a[c]
             PROVE  NoDoubleBooking
  OBVIOUS
<1>1. /\ \A r : Ahead(Days(r)) \subseteq Days(r)
      /\ LiveApproved \subseteq Live(booking)
      /\ fleet \subseteq Vehicles
  BY DEF Ahead, LiveApproved, IInv, TypeOK
<1>2. \A u \in fleet : Promised(u) \subseteq TakenNow[u]
  BY <1>1, ReservedIsTaken DEF TakenNow, Reserved
<1>3. ASSUME NEW b \in LiveApproved
      PROVE  /\ a[b] \in fleet /\ Ahead(Days(booking[b])) \cap Promised(a[b]) = {}
             /\ \A c \in LiveApproved \ {b} : a[c] = a[b] => Ahead(Days(booking[b])) \cap Days(booking[c]) = {}
  BY <1>1, <1>2 DEF FitsIn
<1> QED
  BY <1>3 DEF NoDoubleBooking

\* What stands in the way of a receipt, as the solver is told it.
LEMMA BusyIs ==
  IInv /\ DatesInv => \A b \in Bookings : CanReceive(b) =>
    LET v == booking[b].vehicle
        st == [vehicle EXCEPT ![v] = Available]
        needs == Needs(v, now, booking[b].end)
    IN /\ v \in Vehicles /\ vehicle[v] = HeldFor(b)
       /\ \A u \in Vehicles : Busy(b)[u] = Taken(st, u) \cup needs[u]
       /\ \A u \in Vehicles : Taken(st, u) \cap needs[u] = {}
<1> SUFFICES ASSUME IInv, DatesInv, NEW b \in Bookings, CanReceive(b)
             PROVE LET v == booking[b].vehicle
                       st == [vehicle EXCEPT ![v] = Available]
                       needs == Needs(v, now, booking[b].end)
                   IN /\ v \in Vehicles /\ vehicle[v] = HeldFor(b)
                      /\ \A u \in Vehicles : Busy(b)[u] = Taken(st, u) \cup needs[u]
                      /\ \A u \in Vehicles : Taken(st, u) \cap needs[u] = {}
  OBVIOUS
<1> DEFINE v == booking[b].vehicle
           st == [vehicle EXCEPT ![v] = Available]
           needs == Needs(v, now, booking[b].end)
<1>1. v \in Vehicles /\ vehicle[v] = HeldFor(b)
  BY VehicleOf DEF CanReceive, KeysOut
<1>2. vehicle \in [Vehicles -> Vehicle] /\ now \in Nat
  BY Clock DEF IInv, TypeOK, Times
<1>3. OpenOn(v) = {}
  <2>1. ASSUME NEW c \in OpenOn(v) PROVE FALSE
    BY <1>1, Rented, VehicleRecords
  <2> QED
    BY <2>1
<1>4. st[v] = Available /\ \A u \in Vehicles \ {v} : st[u] = vehicle[u]
  BY <1>1, <1>2
<1>5. needs[v] = Span(now, booking[b].end) /\ \A u \in Vehicles \ {v} : needs[u] = {}
  BY <1>1 DEF Needs
<1>6. \A t \in Rentals(v) : t < now
  BY <1>1, <1>3, PastRentals
<1>7. \A t \in needs[v] : t \in Nat /\ t >= now
  BY <1>5 DEF Span, Times
<1> HIDE DEF st, needs
<1>8. Taken(st, v) = Rentals(v) /\ \A u \in Vehicles \ {v} : Taken(st, u) = Taken(vehicle, u)
  BY <1>4, TakenIs, VehicleRecords DEF Works
<1>9. /\ Busy(b)[v] = Rentals(v) \cup Span(now, booking[b].end)
      /\ \A u \in Vehicles \ {v} : Busy(b)[u] = Taken(vehicle, u)
  BY <1>1 DEF Busy
<1>10. \A u \in Vehicles : Busy(b)[u] = Taken(st, u) \cup needs[u]
  BY <1>5, <1>8, <1>9
<1>11. \A u \in Vehicles : Taken(st, u) \cap needs[u] = {}
  <2>1. \A t \in Rentals(v) : t \in Nat
    BY TimesOnly DEF Times
  <2>2. Rentals(v) \cap needs[v] = {}
    BY <1>2, <1>6, <1>7, <2>1
  <2> QED
    BY <1>5, <1>8, <2>2
<1> QED
  BY <1>1, <1>10, <1>11 DEF st, needs

LEMMA ReceiptIs ==
  IInv /\ DatesInv => \A b \in Bookings : CanReceive(b) =>
    (ReceiptFits(b) <=> \E a : FitsIn(a, Live(booking), booking, fleet, Busy(b)))
<1> SUFFICES ASSUME IInv, DatesInv, NEW b \in Bookings, CanReceive(b)
             PROVE  ReceiptFits(b) <=> \E a : FitsIn(a, Live(booking), booking, fleet, Busy(b))
  OBVIOUS
<1> DEFINE v == booking[b].vehicle
           st == [vehicle EXCEPT ![v] = Available]
           needs == Needs(v, now, booking[b].end)
<1>1. /\ \A u \in Vehicles : Busy(b)[u] = Taken(st, u) \cup needs[u]
      /\ \A u \in Vehicles : Taken(st, u) \cap needs[u] = {}
  BY BusyIs
<1>2. ReceiptFits(b) <=> Plans(booking, Live(booking), st, needs) # {}
  BY DEF ReceiptFits
<1>3. fleet \subseteq Vehicles
  BY DEF IInv, TypeOK
<1> HIDE DEF st, needs
<1>4. ASSUME NEW a, a \in Plans(booking, Live(booking), st, needs)
      PROVE  FitsIn(a, Live(booking), booking, fleet, Busy(b))
  <2>1. \A u \in fleet : Busy(b)[u] \subseteq Taken(st, u) \cup needs[u]
    BY <1>1, <1>3
  <2> QED
    BY <1>4, <2>1, PlanFits
<1>5. ASSUME NEW a, FitsIn(a, Live(booking), booking, fleet, Busy(b))
      PROVE  Plans(booking, Live(booking), st, needs) # {}
  <2> DEFINE f == [c \in Live(booking) |-> a[c]]
  <2>1. f \in [Live(booking) -> fleet] /\ \A c \in Live(booking) : f[c] = a[c]
    BY <1>5 DEF FitsIn
  <2> HIDE DEF f
  <2>2. \A c \in Live(booking) : /\ booking[c].onsite \in {None, f[c]}
                                 /\ Days(booking[c]) \cap (Taken(st, f[c]) \cup needs[f[c]]) = {}
    BY <1>1, <1>3, <1>5, <2>1 DEF FitsIn
  <2>3. \A c, d \in Live(booking) : c # d /\ f[c] = f[d] => Days(booking[c]) \cap Days(booking[d]) = {}
    BY <1>5, <2>1 DEF FitsIn
  <2>4. \A u \in fleet : Taken(st, u) \cap needs[u] = {}
    BY <1>1, <1>3
  <2>5. f \in Plans(booking, Live(booking), st, needs)
    BY <2>1, <2>2, <2>3, <2>4 DEF Plans
  <2> QED
    BY <2>5
<1> QED
  BY <1>2, <1>4, <1>5

\* A receipt asks for less than what is taken: the hold counts as taken for good.
LEMMA BusyIsTaken ==
  IInv /\ DatesInv =>
    \A b \in Bookings : CanReceive(b) => \A u \in Vehicles : Busy(b)[u] \subseteq TakenNow[u]
<1> SUFFICES ASSUME IInv, DatesInv, NEW b \in Bookings, CanReceive(b), NEW u \in Vehicles
             PROVE  Busy(b)[u] \subseteq TakenNow[u]
  OBVIOUS
<1>1. booking[b].vehicle \in Vehicles /\ vehicle[booking[b].vehicle] = HeldFor(b)
  BY BusyIs
<1>2. Taken(vehicle, booking[b].vehicle) = Times
  BY <1>1, TakenIs, VehicleRecords
<1>3. Rentals(booking[b].vehicle) \cup Span(now, booking[b].end) \subseteq Times
  BY TimesOnly DEF Span
<1> QED
  BY <1>2, <1>3 DEF Busy, TakenNow

\* Where a plan respects all holds, every pending receipt is possible.
LEMMA FitsReceipts ==
  IInv /\ DatesInv =>
    \A a : FitsIn(a, Live(booking), booking, fleet, TakenNow) =>
      \A b \in Bookings : CanReceive(b) => ReceiptFits(b)
<1> SUFFICES ASSUME IInv, DatesInv, NEW a, FitsIn(a, Live(booking), booking, fleet, TakenNow),
                    NEW b \in Bookings, CanReceive(b)
             PROVE  ReceiptFits(b)
  OBVIOUS
<1>1. \A u \in fleet : Busy(b)[u] \subseteq TakenNow[u]
  BY BusyIsTaken DEF IInv, TypeOK
<1>2. FitsIn(a, Live(booking), booking, fleet, Busy(b))
  BY <1>1, FitsLess
<1> QED
  BY <1>2, ReceiptIs

\* A receipt that is possible leaves room for all that live, and no less is
\* promised before it.
LEMMA ReceiptKeepsCapacity ==
  IInv /\ DatesInv => \A b \in Bookings : CanReceive(b) /\ ReceiptFits(b) => RequestsKeepCapacity
<1> SUFFICES ASSUME IInv, DatesInv, NEW b \in Bookings, CanReceive(b), ReceiptFits(b)
             PROVE  RequestsKeepCapacity
  OBVIOUS
<1> DEFINE v == booking[b].vehicle
<1>1. PICK a : FitsIn(a, Live(booking), booking, fleet, Busy(b))
  BY ReceiptIs
<1>2. v \in Vehicles /\ vehicle[v] = HeldFor(b) /\ fleet \subseteq Vehicles /\ TypeOK
  BY BusyIs DEF IInv, TypeOK
<1>3. ASSUME NEW t, t \in Reserved(v) PROVE t \in Span(now, booking[b].end)
  <2>1. OpenOn(v) = {} /\ vehicle[v].status # "MAINTENANCE"
    <3>1. ASSUME NEW c \in OpenOn(v) PROVE FALSE
      BY <1>2, Rented, VehicleRecords
    <3> QED
      BY <1>2, <3>1, VehicleRecords
  <2>2. PICK c \in Bookings : vehicle[v] = HeldFor(c) /\ t \in Ahead(Days(booking[c]))
    BY <1>3, <2>1, InPromised DEF PromisedParts
  <2>3. c = b
    <3>1. HeldFor(c).hold = c /\ HeldFor(b).hold = b
      BY VehicleRecords
    <3> QED
      BY <1>2, <2>2, <3>1
  <2> QED
    BY <2>2, <2>3 DEF Ahead, Days, Span
<1>4. \A u \in Vehicles : Reserved(u) \subseteq Taken(vehicle, u)
  BY ReservedIsTaken
<1>5. \A u \in fleet : Reserved(u) \subseteq Busy(b)[u]
  BY <1>2, <1>3, <1>4 DEF Busy
<1> QED
  BY <1>1, <1>2, <1>5, FitsKeepsCapacity, CapacityIs DEF KeptCapacity

-----------------------------------------------------------------------------
\* The steps that ask the solver.

\* One assignment for all that live, and one that the approved bookings have.
Served == \E a : FitsIn(a, Live(booking), booking, fleet, TakenNow)
Placed == \E a : /\ FitsIn(a, Live(booking), booking, fleet, TakenNow)
                 /\ \A c \in LiveApproved : booking[c].vehicle = a[c]

LEMMA SweptTaken ==
  ASSUME IInv, NEW v \in Vehicles
  PROVE  Works(Swept[v]) = Works(vehicle[v]) /\ Taken(Swept, v) = Taken(vehicle, v)
<1>1. CASE Swept[v] = vehicle[v]
  BY <1>1, TakenIs
<1>2. CASE Ended(v) /\ v \in fleet
  <2>1. Swept[v] = Available /\ vehicle[v].status = "MAINTENANCE" /\ vehicle[v].until <= now
    BY <1>2 DEF Swept, Ended
  <2>2. vehicle[v].until \in Nat /\ now \in Nat
    BY Clock DEF IInv, TypeOK, Vehicle, Times
  <2>3. Works(Swept[v]) = {} /\ Works(vehicle[v]) = {}
    BY <2>1, <2>2, VehicleRecords DEF Works
  <2> QED
    BY <2>1, <2>3, TakenIs, VehicleRecords
<1> QED
  BY <1>1, <1>2 DEF Swept

LEMMA NextTaken ==
  ASSUME NEW u \in Vehicles
  PROVE  TakenNow'[u] = IF vehicle'[u].status = "DISABLED" THEN Times ELSE Works(vehicle[u])' \cup Rentals(u)'
  BY DEF TakenNow, Taken, Works, Rentals

LEMMA RentalsKept ==
  ASSUME DatesInv, UNCHANGED <<now, contract>>, NEW v \in Vehicles, TypeOK,
         \A b \in Bookings : contract[b].status = "ON_RENT" => booking'[b].end = booking[b].end
  PROVE  Rentals(v)' = Rentals(v)
<1>1. ASSUME NEW b \in Bookings, contract[b].vehicle = v PROVE RentalSpan(b)' = RentalSpan(b)
  <2>1. contract[b].status \in {"ON_RENT", "RETURNED"}
    BY <1>1, NoneAssumption DEF DatesInv, DatesOK, TypeOK, Contract
  <2> QED
    BY <2>1 DEF RentalSpan
<1>2. contract' = contract
  OBVIOUS
<1>3. \A t : t \in Rentals(v) <=> \E b \in Bookings : contract[b].vehicle = v /\ t \in RentalSpan(b)
  BY InRentals
<1>4. \A t : t \in Rentals(v)' <=> \E b \in Bookings : contract'[b].vehicle = v /\ t \in RentalSpan(b)'
  BY DEF Rentals
<1> QED
  BY <1>1, <1>2, <1>3, <1>4

LEMMA LiveKept ==
  ASSUME NEW c, c \in Live(booking)', SameDates(c), booking'[c].status = booking[c].status,
         TypeOK, now <= now', now' \in Nat
  PROVE  c \in Live(booking)
<1>1. /\ c \in Bookings /\ booking'[c].status \in {"REQUESTED", "APPROVED"} /\ booking'[c].end > now'
      /\ ~(booking'[c].onsite # None /\ now' >= Deadline(booking'[c]))
  BY DEF Live, TooLate, Deadline
<1>2. booking[c] \in Booking /\ now \in Nat /\ Deadline(booking'[c]) = Deadline(booking[c])
  BY <1>1, Clock DEF TypeOK, Times, SameDates, Deadline
<1>3. booking[c].end \in Nat /\ booking[c].start \in Nat
  BY <1>2, Clock DEF Booking, Times
<1>4. PICK d \in Nat : Deadline(booking[c]) = (d + 1) * DayLength
  BY <1>3, DayOf DEF Deadline
<1>5. (d + 1) * DayLength \in Nat
  BY TimeAssumption
<1> QED
  BY <1>1, <1>2, <1>3, <1>4, <1>5 DEF Live, TooLate, SameDates

LEMMA RequestServed ==
  ASSUME IInv, DatesInv, NEW b \in Bookings, NEW r, NEW st, NEW bk, bk = [booking EXCEPT ![b] = r],
         booking[b].status = "NONE", booking' = bk, UNCHANGED <<now, fleet, contract, vehicle>>,
         Plans(bk, Live(bk) \cup {b}, st, Nothing) # {},
         \A u \in Vehicles : Taken(st, u) = Taken(vehicle, u)
  PROVE  Served'
<1>1. PICK a : a \in Plans(bk, Live(bk) \cup {b}, st, Nothing)
  OBVIOUS
<1>2. Live(booking)' \subseteq Live(bk) \cup {b}
  BY DEF Live, TooLate, Deadline
<1>3. fleet \subseteq Vehicles
  BY DEF IInv, TypeOK
<1>4. \A u \in fleet : TakenNow'[u] \subseteq Taken(st, u) \cup Nothing[u]
  <2> SUFFICES ASSUME NEW u \in fleet PROVE TakenNow'[u] \subseteq Taken(st, u)
    OBVIOUS
  <2>1. \A c \in Bookings : contract[c].status = "ON_RENT" => booking'[c].end = booking[c].end
    <3>1. contract[b].status # "ON_RENT"
      BY DEF IInv, RecordsAgree
    <3> QED
      BY <3>1 DEF IInv, TypeOK
  <2>2. Rentals(u)' = Rentals(u) /\ Works(vehicle[u])' = Works(vehicle[u])
    BY <1>3, <2>1, RentalsKept DEF Works, IInv
  <2> QED
    BY <1>3, <2>2, NextTaken, TakenIs
<1>5. FitsIn(a, Live(booking)', booking', fleet, TakenNow')
  BY <1>1, <1>2, <1>4, PlanFits
<1> QED
  BY <1>5 DEF Served

LEMMA ApprovePlaced ==
  ASSUME IInv, DatesInv, NEW b \in Bookings, Approve(b)
  PROVE  Placed'
<1>1. PICK a \in Plans(booking, Live(booking) \cup {b}, Swept, Nothing) :
           /\ vehicle' = Swept /\ UNCHANGED <<now, fleet, contract>>
           /\ \A c \in Bookings : SameDates(c)
           /\ \A c \in Bookings \ {b} : booking'[c].status = booking[c].status
           /\ \A c \in Live(booking) \cup {b} : booking'[c].status = "APPROVED" => booking'[c].vehicle = a[c]
  BY ApproveIs DEF IInv
<1>2. fleet \subseteq Vehicles /\ now \in Nat /\ TypeOK
  BY Clock DEF IInv, TypeOK, Times
<1>3. Live(booking)' \subseteq Live(booking) \cup {b}
  <2> SUFFICES ASSUME NEW c, c \in Live(booking)', c # b PROVE c \in Live(booking)
    OBVIOUS
  <2>1. c \in Bookings
    BY DEF Live
  <2> QED
    BY <1>1, <1>2, <2>1, LiveKept
<1>4. \A u \in fleet : TakenNow'[u] \subseteq Taken(Swept, u) \cup Nothing[u]
  <2> SUFFICES ASSUME NEW u \in fleet PROVE TakenNow'[u] \subseteq Taken(Swept, u)
    OBVIOUS
  <2>1. Rentals(u)' = Rentals(u) /\ Works(vehicle[u])' = Works(Swept[u])
    BY <1>1, <1>2, RentalsKept DEF Works, SameDates
  <2> QED
    BY <1>1, <1>2, <2>1, NextTaken, TakenIs
<1>5. FitsIn(a, Live(booking)', booking', fleet, TakenNow')
  <2>1. \A c \in Live(booking)' : SameDates(c)
    BY <1>1 DEF Live
  <2> QED
    BY <1>1, <1>3, <1>4, <2>1, PlanFits DEF SameDates
<1>6. \A c \in LiveApproved' : booking'[c].vehicle = a[c]
  BY <1>1, <1>3 DEF LiveApproved
<1> QED
  BY <1>1, <1>5, <1>6 DEF Placed

LEMMA ReceivePlaced ==
  ASSUME IInv, DatesInv, NEW b \in Bookings, Receive(b)
  PROVE  Placed'
<1> DEFINE v == booking[b].vehicle
           st == [vehicle EXCEPT ![v] = Available]
           needs == Needs(v, now, booking[b].end)
<1>1. PICK a \in Plans(booking, Live(booking), st, needs) :
           /\ v \in Vehicles /\ now < Deadline(booking[b])
           /\ vehicle' = [vehicle EXCEPT ![v] = OnRent] /\ UNCHANGED <<now, fleet>>
           /\ booking[b].status = "HANDOVER_PENDING" /\ booking'[b].status = "HANDED_OVER"
           /\ contract' = [contract EXCEPT ![b] = [status |-> "ON_RENT", vehicle |-> v, start |-> now, finish |-> 0]]
           /\ \A c \in Bookings : SameDates(c)
           /\ \A c \in Bookings \ {b} : booking'[c].status = booking[c].status
           /\ \A c \in Live(booking) : booking'[c].status = "APPROVED" => booking'[c].vehicle = a[c]
  BY ReceiveIs DEF IInv
<1>2. /\ fleet \subseteq Vehicles /\ now \in Nat /\ TypeOK
      /\ vehicle \in [Vehicles -> Vehicle] /\ contract \in [Bookings -> Contract] /\ booking[b] \in Booking
  BY Clock DEF IInv, TypeOK, Times
<1>3. Live(booking)' \subseteq Live(booking)
  <2> SUFFICES ASSUME NEW c, c \in Live(booking)' PROVE c \in Live(booking)
    OBVIOUS
  <2>1. c \in Bookings /\ c # b
    BY <1>1 DEF Live
  <2> QED
    BY <1>1, <1>2, <2>1, LiveKept
<1>4. booking[b].end > now /\ booking'[b].end = booking[b].end
  <2>1. booking[b].start < booking[b].end /\ booking[b].start \in Nat
    BY <1>1, <1>2, Clock DEF DatesInv, DatesOK, Dated, Booking, Times
  <2>2. PICK d \in Nat : booking[b].end = d * DayLength
    BY <1>1 DEF DatesInv, DatesOK, Dated
  <2>3. Deadline(booking[b]) <= booking[b].end
    BY <2>1, <2>2, OneDay DEF Deadline
  <2>4. booking[b].end \in Nat /\ Deadline(booking[b]) \in Nat
    <3>1. PICK k \in Nat : Deadline(booking[b]) = (k + 1) * DayLength
      BY <2>1, DayOf DEF Deadline
    <3>2. (k + 1) * DayLength \in Nat
      BY TimeAssumption
    <3> QED
      BY <1>2, <3>1, <3>2, Clock DEF Booking, Times
  <2> QED
    BY <1>1, <1>2, <2>3, <2>4 DEF SameDates
<1>5. ASSUME NEW u \in Vehicles, NEW t, t \in Rentals(u)' PROVE t \in Rentals(u) \cup needs[u]
  <2>1. PICK c \in Bookings : contract'[c].vehicle = u /\ t \in RentalSpan(c)'
    BY <1>5 DEF Rentals
  <2>2. CASE c = b
    <3>1. contract'[b].vehicle = v /\ contract'[b].status = "ON_RENT" /\ contract'[b].start = now
      BY <1>1, <1>2
    <3>2. t \in Span(now, booking[b].end)
      BY <1>1, <1>4, <2>1, <2>2, <3>1 DEF RentalSpan
    <3> QED
      BY <2>1, <2>2, <3>1, <3>2 DEF Needs
  <2>3. CASE c # b
    <3>1. contract'[c] = contract[c] /\ booking'[c].end = booking[c].end
      BY <1>1, <1>2, <2>3 DEF SameDates
    <3>2. t \in RentalSpan(c)
      BY <1>1, <2>1, <3>1 DEF RentalSpan
    <3> QED
      BY <2>1, <3>1, <3>2, InRentals
  <2> QED
    BY <2>2, <2>3
<1>6. /\ vehicle'[v] = OnRent /\ \A u \in Vehicles \ {v} : vehicle'[u] = vehicle[u]
      /\ st[v] = Available /\ \A u \in Vehicles \ {v} : st[u] = vehicle[u]
  BY <1>1, <1>2
<1> HIDE DEF st, needs
<1>7. \A u \in fleet : TakenNow'[u] \subseteq Taken(st, u) \cup needs[u]
  <2> SUFFICES ASSUME NEW u \in fleet PROVE TakenNow'[u] \subseteq Taken(st, u) \cup needs[u]
    OBVIOUS
  <2>1. u \in Vehicles /\ Rentals(u)' \subseteq Rentals(u) \cup needs[u]
    BY <1>2, <1>5
  <2>2. CASE u = v
    <3>1. Works(vehicle[u])' = {} /\ vehicle'[u].status # "DISABLED" /\ st[u].status # "DISABLED"
      BY <1>6, <2>2, VehicleRecords DEF Works
    <3> QED
      BY <2>1, <3>1, NextTaken, TakenIs
  <2>3. CASE u # v
    <3>1. Works(vehicle[u])' = Works(st[u]) /\ vehicle'[u] = st[u]
      BY <1>1, <1>6, <2>1, <2>3 DEF Works
    <3> QED
      BY <2>1, <3>1, NextTaken, TakenIs
  <2> QED
    BY <2>2, <2>3
<1>8. FitsIn(a, Live(booking)', booking', fleet, TakenNow')
  <2>1. \A c \in Live(booking)' : SameDates(c)
    BY <1>1 DEF Live
  <2> QED
    BY <1>3, <1>7, <2>1, PlanFits DEF SameDates
<1>9. \A c \in LiveApproved' : booking'[c].vehicle = a[c]
  BY <1>1, <1>3 DEF LiveApproved
<1> QED
  BY <1>1, <1>8, <1>9 DEF Placed

LEMMA RepairPlaced ==
  ASSUME IInv, DatesInv, NEW v \in Vehicles, NEW last \in DayNumbers, Repair(v, last)
  PROVE  Placed'
<1>1. PICK begin, until \in Times :
         \E a \in Plans(booking, Live(booking), [Swept EXCEPT ![v] = Available], Needs(v, begin, until)) :
           /\ vehicle' = [Swept EXCEPT ![v] = InRepair(begin, until)] /\ UNCHANGED <<now, fleet, contract>>
           /\ \A c \in Bookings : SameDates(c) /\ booking'[c].status = booking[c].status
           /\ \A c \in Live(booking) : booking'[c].status = "APPROVED" => booking'[c].vehicle = a[c]
  BY RepairIs DEF IInv
<1> DEFINE st == [Swept EXCEPT ![v] = Available]
           needs == Needs(v, begin, until)
<1>2. PICK a \in Plans(booking, Live(booking), st, needs) :
           /\ vehicle' = [Swept EXCEPT ![v] = InRepair(begin, until)] /\ UNCHANGED <<now, fleet, contract>>
           /\ \A c \in Bookings : SameDates(c) /\ booking'[c].status = booking[c].status
           /\ \A c \in Live(booking) : booking'[c].status = "APPROVED" => booking'[c].vehicle = a[c]
  BY <1>1
<1>3. fleet \subseteq Vehicles /\ now \in Nat /\ TypeOK /\ Swept \in [Vehicles -> Vehicle]
  BY Clock, SweptEffect DEF IInv, TypeOK, Times
<1>4. Live(booking)' \subseteq Live(booking)
  <2> SUFFICES ASSUME NEW c, c \in Live(booking)' PROVE c \in Live(booking)
    OBVIOUS
  <2>1. c \in Bookings
    BY DEF Live
  <2> QED
    BY <1>2, <1>3, <2>1, LiveKept
<1>5. /\ vehicle'[v] = InRepair(begin, until) /\ \A u \in Vehicles \ {v} : vehicle'[u] = Swept[u]
      /\ st[v] = Available /\ \A u \in Vehicles \ {v} : st[u] = Swept[u]
      /\ needs[v] = Span(begin, until)
  BY <1>2, <1>3 DEF Needs
<1> HIDE DEF st, needs
<1>6. \A u \in fleet : TakenNow'[u] \subseteq Taken(st, u) \cup needs[u]
  <2> SUFFICES ASSUME NEW u \in fleet PROVE TakenNow'[u] \subseteq Taken(st, u) \cup needs[u]
    OBVIOUS
  <2>1. u \in Vehicles /\ Rentals(u)' = Rentals(u)
    BY <1>2, <1>3, RentalsKept DEF SameDates
  <2>2. CASE u = v
    <3>1. Works(vehicle[u])' \subseteq Span(begin, until)
      BY <1>5, <2>2 DEF Works, InRepair
    <3>2. vehicle'[u].status # "DISABLED" /\ st[u].status # "DISABLED"
      BY <1>1, <1>5, <2>2, VehicleRecords
    <3>3. TakenNow'[u] = Works(vehicle[u])' \cup Rentals(u)
      BY <2>1, <3>2, NextTaken
    <3>4. Rentals(u) \subseteq Taken(st, u)
      BY <3>2, TakenIs
    <3> QED
      BY <1>5, <2>2, <3>1, <3>3, <3>4
  <2>3. CASE u # v
    <3>1. Works(vehicle[u])' = Works(st[u]) /\ vehicle'[u] = st[u]
      BY <1>2, <1>5, <2>1, <2>3 DEF Works
    <3> QED
      BY <2>1, <3>1, NextTaken, TakenIs
  <2> QED
    BY <2>2, <2>3
<1>7. FitsIn(a, Live(booking)', booking', fleet, TakenNow')
  <2>1. \A c \in Live(booking)' : SameDates(c)
    BY <1>2 DEF Live
  <2> QED
    BY <1>4, <1>6, <2>1, PlanFits DEF SameDates
<1>8. \A c \in LiveApproved' : booking'[c].vehicle = a[c]
  BY <1>2, <1>4 DEF LiveApproved
<1> QED
  BY <1>2, <1>7, <1>8 DEF Placed

-----------------------------------------------------------------------------
\* The steps that ask nobody.

\* Steps that end bookings, rentals, repairs or holds and begin none.
Loosens ==
  /\ now <= now' /\ fleet' = fleet
  /\ \A c \in Bookings :
       booking'[c].status \in {"REQUESTED", "APPROVED", "HANDOVER_PENDING"} => booking'[c] = booking[c]
  /\ \A c \in Bookings : contract'[c].status = "ON_RENT" => contract'[c] = contract[c] /\ SameDates(c)
  /\ \A v \in Vehicles : vehicle'[v].status \in {"MAINTENANCE", "DISABLED"} => vehicle'[v] = vehicle[v]
  /\ \A v \in Vehicles, c \in Bookings : vehicle'[v] = HeldFor(c) => SameDates(c)

LEMMA PromisedKept ==
  ASSUME NEW v \in Vehicles, now \in Nat, now' \in Nat, now <= now',
         \A c \in Bookings : contract'[c].status = "ON_RENT" => contract'[c] = contract[c] /\ SameDates(c),
         vehicle'[v].status = "MAINTENANCE" => vehicle'[v] = vehicle[v]
  PROVE  Promised(v)' \subseteq Promised(v)
<1> SUFFICES ASSUME NEW t, t \in Promised(v)' PROVE t \in Promised(v)
  OBVIOUS
<1>1. \/ \E b \in OpenOn(v)' : t \in Ahead(Days(booking[b]))'
      \/ vehicle'[v].status = "MAINTENANCE" /\ t \in Ahead(Span(vehicle[v].since, vehicle[v].until))'
  BY NextPromised DEF PromisedParts
<1>2. CASE \E b \in OpenOn(v)' : t \in Ahead(Days(booking[b]))'
  <2>1. PICK b \in OpenOn(v)' : t \in Ahead(Days(booking[b]))'
    BY <1>2
  <2>2. b \in OpenOn(v) /\ SameDates(b)
    BY <2>1 DEF OpenOn
  <2>3. t \in Ahead(Days(booking[b]))
    BY <2>1, <2>2 DEF Ahead, Days, Span, SameDates, Times
  <2> QED
    BY <2>2, <2>3, InPromised DEF PromisedParts
<1>3. CASE vehicle'[v].status = "MAINTENANCE" /\ t \in Ahead(Span(vehicle[v].since, vehicle[v].until))'
  <2>1. vehicle'[v] = vehicle[v]
    BY <1>3
  <2>2. t \in Ahead(Span(vehicle[v].since, vehicle[v].until))
    BY <1>3, <2>1 DEF Ahead, Span, Times
  <2> QED
    BY <1>3, <2>1, <2>2, InPromised DEF PromisedParts
<1> QED
  BY <1>1, <1>2, <1>3

\* NoDoubleBooking, with a name for the vehicle.
KeptApart ==
  \A b \in LiveApproved : \A v : booking[b].vehicle = v =>
    /\ v \in fleet
    /\ Ahead(Days(booking[b])) \cap Promised(v) = {}
    /\ \A c \in LiveApproved \ {b} : booking[c].vehicle = v => Ahead(Days(booking[b])) \cap Days(booking[c]) = {}

LEMMA ApartIs == NoDoubleBooking <=> KeptApart
  BY DEF NoDoubleBooking, KeptApart

LEMMA ApartIsNext == NoDoubleBooking' <=> KeptApart'
  BY ApartIs, PTL

LEMMA ApartKept ==
  ASSUME IInv, TypeOK', NoDoubleBooking, now <= now',
         \A c \in Bookings : booking'[c].status = "APPROVED" => booking'[c] = booking[c],
         \A c \in Bookings : booking'[c].status = "APPROVED" /\ booking[c].vehicle \in fleet => booking[c].vehicle \in fleet',
         \A v \in Vehicles : Promised(v)' \subseteq Promised(v)
  PROVE  NoDoubleBooking'
<1>1. now \in Nat /\ now' \in Nat /\ fleet \subseteq Vehicles /\ TypeOK
  BY Clock DEF IInv, TypeOK, Times
<1>2. ASSUME NEW c \in LiveApproved' PROVE c \in LiveApproved /\ c \in Bookings /\ booking'[c] = booking[c]
  <2>1. c \in Bookings /\ c \in Live(booking)' /\ booking'[c].status = "APPROVED"
    BY DEF LiveApproved, Live
  <2>2. booking'[c] = booking[c]
    BY <2>1
  <2>3. c \in Live(booking)
    BY <1>1, <2>1, <2>2, LiveKept DEF SameDates
  <2> QED
    BY <2>1, <2>2, <2>3 DEF LiveApproved
<1>3. ASSUME NEW b \in LiveApproved', NEW v, booking'[b].vehicle = v
      PROVE  /\ v \in fleet'
             /\ Ahead(Days(booking[b]))' \cap Promised(v)' = {}
             /\ \A c \in LiveApproved' \ {b} : booking'[c].vehicle = v =>
                  Ahead(Days(booking[b]))' \cap Days(booking'[c]) = {}
  <2>1. b \in LiveApproved /\ b \in Bookings /\ booking'[b] = booking[b] /\ booking[b].vehicle = v
    BY <1>2, <1>3
  <2>2. /\ v \in fleet
        /\ Ahead(Days(booking[b])) \cap Promised(v) = {}
        /\ \A c \in LiveApproved \ {b} : booking[c].vehicle = v => Ahead(Days(booking[b])) \cap Days(booking[c]) = {}
    BY <2>1, ApartIs DEF KeptApart
  <2>3. Ahead(Days(booking[b]))' \subseteq Ahead(Days(booking[b]))
    BY <1>1, <2>1 DEF Ahead, Days, Span, Times
  <2>4. v \in fleet' /\ Promised(v)' \subseteq Promised(v)
    <3>1. v \in Vehicles /\ booking'[b].status = "APPROVED"
      BY <1>1, <2>2 DEF LiveApproved
    <3> QED
      BY <2>1, <2>2, <3>1
  <2>5. ASSUME NEW c \in LiveApproved' \ {b}, booking'[c].vehicle = v
        PROVE  Ahead(Days(booking[b]))' \cap Days(booking'[c]) = {}
    <3>1. c \in LiveApproved \ {b} /\ booking'[c] = booking[c]
      BY <1>2, <2>5
    <3>2. Ahead(Days(booking[b])) \cap Days(booking[c]) = {}
      BY <2>2, <2>5, <3>1
    <3> QED
      BY <2>3, <3>1, <3>2
  <2>6. Ahead(Days(booking[b]))' \cap Promised(v)' = {}
    BY <2>2, <2>3, <2>4
  <2> QED
    BY <2>4, <2>5, <2>6
<1>4. KeptApart'
  BY <1>3 DEF KeptApart
<1> QED
  BY <1>4, ApartIsNext

LEMMA ReservedKept ==
  ASSUME Loosens, NEW v \in Vehicles, now \in Nat, now' \in Nat
  PROVE  Reserved(v)' \subseteq Reserved(v)
<1> SUFFICES ASSUME NEW t, t \in Reserved(v)' PROVE t \in Reserved(v)
  OBVIOUS
<1>1. Promised(v)' \subseteq Promised(v)
  BY PromisedKept DEF Loosens
<1>2. \/ t \in Promised(v)'
      \/ \E b \in Bookings : vehicle'[v] = HeldFor(b) /\ t \in Ahead(Days(booking[b]))'
  BY NextPromised DEF PromisedParts
<1>3. ASSUME NEW b \in Bookings, vehicle'[v] = HeldFor(b), t \in Ahead(Days(booking[b]))'
      PROVE  vehicle[v] = HeldFor(b) /\ t \in Ahead(Days(booking[b]))
  <2>1. SameDates(b) /\ now <= now' /\ vehicle'[v] = vehicle[v]
    <3>1. HeldFor(b).status = "DISABLED"
      BY VehicleRecords
    <3> QED
      BY <1>3, <3>1 DEF Loosens
  <2>2. t \in Ahead(Days(booking[b]))
    BY <1>3, <2>1 DEF Ahead, Days, Span, SameDates, Times
  <2> QED
    BY <1>3, <2>1, <2>2
<1> QED
  BY <1>1, <1>2, <1>3, InPromised DEF PromisedParts

LEMMA LooseLive ==
  ASSUME IInv, TypeOK', Loosens, NEW c, c \in Live(booking)'
  PROVE  c \in Live(booking) /\ booking'[c] = booking[c]
<1>1. c \in Bookings /\ booking'[c].status \in {"REQUESTED", "APPROVED"}
  BY DEF Live
<1>2. booking'[c] = booking[c] /\ now <= now' /\ now' \in Nat /\ TypeOK
  BY <1>1, Clock DEF Loosens, IInv, TypeOK, Times
<1> QED
  BY <1>2, LiveKept DEF SameDates

LEMMA CapacityIsNext == TypeOK' => (RequestsKeepCapacity' <=> KeptCapacity')
  BY CapacityIs, PTL

LEMMA CapacityKept ==
  ASSUME IInv, TypeOK', RequestsKeepCapacity, Loosens
  PROVE  RequestsKeepCapacity'
<1>1. /\ now \in Nat /\ now' \in Nat /\ now <= now' /\ fleet' = fleet /\ fleet \subseteq Vehicles /\ TypeOK
  BY Clock DEF IInv, TypeOK, Times, Loosens
<1>2. PICK a : KeepsCapacity(a)
  BY <1>1, CapacityIs DEF KeptCapacity
<1>3. ASSUME NEW b \in Live(booking)'
      PROVE  /\ b \in Live(booking) /\ booking'[b] = booking[b]
             /\ Ahead(Days(booking[b]))' \subseteq Ahead(Days(booking[b]))
  <2>1. b \in Live(booking) /\ booking'[b] = booking[b]
    BY LooseLive
  <2> QED
    BY <1>1, <2>1 DEF Ahead, Days, Span, Times
<1>4. \A v \in fleet : Reserved(v)' \subseteq Reserved(v)
  BY <1>1, ReservedKept
<1>5. ASSUME NEW b \in Live(booking)'
      PROVE  /\ a[b] \in fleet' /\ booking'[b].onsite \in {None, a[b]}
             /\ Ahead(Days(booking[b]))' \cap Reserved(a[b])' = {}
  BY <1>1, <1>2, <1>3, <1>4 DEF KeepsCapacity
<1>6. ASSUME NEW b \in Live(booking)', NEW c \in Live(booking)', b # c, a[b] = a[c]
      PROVE  Ahead(Days(booking[b]))' \cap Days(booking'[c]) = {}
  BY <1>2, <1>3, <1>6 DEF KeepsCapacity
<1>7. KeepsCapacity(a)'
  BY <1>5, <1>6 DEF KeepsCapacity
<1> QED
  BY <1>7, CapacityIsNext DEF KeptCapacity

\* All customers who can confirm their receipt can do so until the same hour.
LEMMA DeadlinesAgree ==
  ASSUME TypeOK, DatesInv, NEW b \in Bookings, NEW c \in Bookings, CanReceive(b), CanReceive(c)
  PROVE  Deadline(booking[b]) <= Deadline(booking[c]) /\ Deadline(booking[b]) \in Nat
<1>1. /\ now \in Nat /\ booking[b].start \in Nat /\ booking[c].start \in Nat
      /\ booking[b].start <= now /\ now < Deadline(booking[c])
  BY Clock DEF TypeOK, Times, Booking, DatesInv, DatesOK, CanReceive
<1>2. PICK d \in Nat : Deadline(booking[c]) = (d + 1) * DayLength
  BY <1>1, DayOf DEF Deadline
<1>3. PICK k \in Nat : Deadline(booking[b]) = (k + 1) * DayLength
  BY <1>1, DayOf DEF Deadline
<1>4. (d + 1) * DayLength \in Nat /\ (k + 1) * DayLength \in Nat /\ d + 1 \in Nat
  BY TimeAssumption
<1>5. booking[b].start < (d + 1) * DayLength
  BY <1>1, <1>2, <1>4
<1>6. Deadline(booking[b]) <= (d + 1) * DayLength
  BY <1>1, <1>4, <1>5, OneDay DEF Deadline
<1> QED
  BY <1>2, <1>3, <1>4, <1>6

LEMMA InTimes == \A u \in Vehicles : TakenNow[u] \subseteq Times
  BY TimesOnly DEF TakenNow

LEMMA NextInTimes == \A u \in Vehicles : TakenNow'[u] \subseteq Times
<1>1. (\A u \in Vehicles : TakenNow[u] \subseteq Times)'
  BY InTimes, PTL
<1> QED
  BY <1>1

LEMMA ReceiptIsNext ==
  IInv' /\ DatesInv' => \A b \in Bookings : CanReceive(b)' =>
    /\ ReceiptFits(b)' <=> (\E a : FitsIn(a, Live(booking), booking, fleet, Busy(b)))'
    /\ vehicle'[booking'[b].vehicle] = HeldFor(b)
    /\ \A u \in Vehicles : Busy(b)'[u] \subseteq TakenNow'[u]
<1> DEFINE Q == IInv /\ DatesInv => \A b \in Bookings : CanReceive(b) =>
                  /\ ReceiptFits(b) <=> (\E a : FitsIn(a, Live(booking), booking, fleet, Busy(b)))
                  /\ vehicle[booking[b].vehicle] = HeldFor(b)
                  /\ \A u \in Vehicles : Busy(b)[u] \subseteq TakenNow[u]
<1>1. Q
  BY ReceiptIs, BusyIs, BusyIsTaken
<1>2. Q'
  BY <1>1, PTL
<1> QED
  BY <1>2

\* What was free for the receipt of b is free for b after a loosening step, and
\* for any other when b's hold is gone.
LEMMA ReceiptKept ==
  ASSUME IInv, IInv', DatesInv, DatesInv', Loosens, NEW b \in Bookings, NEW c \in Bookings,
         CanReceive(b), ReceiptFits(b), CanReceive(c)',
         \A u \in Vehicles : Rentals(u)' \subseteq Rentals(u),
         (c = b /\ booking'[b] = booking[b]) \/ vehicle'[booking[b].vehicle] = Available
  PROVE  ReceiptFits(c)'
<1> DEFINE v == booking[b].vehicle
<1>1. PICK a : FitsIn(a, Live(booking), booking, fleet, Busy(b))
  BY ReceiptIs
<1>2. /\ now \in Nat /\ now' \in Nat /\ now <= now' /\ fleet' = fleet /\ fleet \subseteq Vehicles
      /\ TypeOK /\ TypeOK'
  BY Clock DEF IInv, TypeOK, Times, Loosens
<1>3. ASSUME NEW u \in Vehicles PROVE TakenNow'[u] \subseteq TakenNow[u]
  <2>1. TakenNow[u] = IF vehicle[u].status = "DISABLED" THEN Times ELSE Works(vehicle[u]) \cup Rentals(u)
    BY TakenIs DEF TakenNow
  <2>2. CASE vehicle'[u].status = "DISABLED"
    <3>1. vehicle'[u] = vehicle[u]
      BY <2>2 DEF Loosens
    <3> QED
      BY <2>1, <2>2, <3>1, NextTaken
  <2>3. CASE vehicle'[u].status # "DISABLED"
    <3>1. Works(vehicle[u])' \subseteq Works(vehicle[u])
      <4>1. CASE vehicle'[u].status = "MAINTENANCE"
        <5>1. vehicle'[u] = vehicle[u] /\ vehicle[u].until \in Nat
          BY <1>2, <4>1, Clock DEF Loosens, TypeOK, Vehicle, Times
        <5> QED
          BY <1>2, <5>1 DEF Works
      <4>2. CASE vehicle'[u].status # "MAINTENANCE"
        BY <4>2 DEF Works
      <4> QED
        BY <4>1, <4>2
    <3>2. TakenNow'[u] = Works(vehicle[u])' \cup Rentals(u)'
      BY <2>3, NextTaken
    <3>3. TakenNow'[u] \subseteq Times
      BY NextInTimes
    <3> QED
      BY <2>1, <3>1, <3>2, <3>3
  <2> QED
    BY <2>2, <2>3
<1>4. ASSUME NEW u \in Vehicles PROVE Busy(c)'[u] \subseteq Busy(b)[u]
  <2>1. Busy(c)'[u] = IF u = booking'[c].vehicle THEN Rentals(u)' \cup Span(now', booking'[c].end) ELSE TakenNow'[u]
    BY DEF Busy, TakenNow
  <2>2. Busy(b)[u] = IF u = v THEN Rentals(u) \cup Span(now, booking[b].end) ELSE TakenNow[u]
    BY DEF Busy, TakenNow
  <2>3. CASE c = b /\ booking'[b] = booking[b]
    <3>1. Span(now', booking'[c].end) \subseteq Span(now, booking[b].end)
      BY <1>2, <2>3 DEF Span, Times
    <3> QED
      BY <1>3, <2>1, <2>2, <2>3, <3>1
  <2>4. CASE vehicle'[v] = Available
    <3>1. Busy(c)'[u] \subseteq TakenNow'[u]
      BY ReceiptIsNext
    <3>2. CASE u = v
      <4>1. TakenNow'[u] = Works(vehicle[u])' \cup Rentals(u)' /\ Works(vehicle[u])' = {}
        BY <2>4, <3>2, NextTaken, VehicleRecords DEF Works
      <4> QED
        BY <2>2, <3>1, <3>2, <4>1
    <3>3. CASE u # v
      BY <1>3, <2>2, <3>1, <3>3
    <3> QED
      BY <3>2, <3>3
  <2> QED
    BY <2>3, <2>4
<1>5. FitsIn(a, Live(booking)', booking', fleet', Busy(c)')
  <2>1. Live(booking)' \subseteq Live(booking) /\ \A d \in Live(booking)' : booking'[d] = booking[d]
    BY <1>2, LooseLive
  <2>2. \A u \in fleet : Busy(c)'[u] \subseteq Busy(b)[u]
    BY <1>2, <1>4
  <2>3. FitsIn(a, Live(booking)', booking', fleet, Busy(c)')
    BY <1>1, <2>1, <2>2, FitsLess
  <2> QED
    BY <1>2, <2>3
<1>6. (\E f : FitsIn(f, Live(booking), booking, fleet, Busy(c)))'
  BY <1>5
<1> QED
  BY <1>6, ReceiptIsNext

LEMMA HeldAndRented ==
  ASSUME IInv, NEW c \in Bookings
  PROVE  /\ contract[c].status = "ON_RENT" => booking[c].status = "HANDED_OVER"
         /\ \A v \in Vehicles : vehicle[v] = HeldFor(c) => KeysOut(c) /\ booking[c].vehicle = v
<1>1. contract[c].status = "ON_RENT" => booking[c].status = "HANDED_OVER"
  BY DEF IInv, RecordsAgree
<1>2. ASSUME NEW v \in Vehicles, vehicle[v] = HeldFor(c) PROVE KeysOut(c) /\ booking[c].vehicle = v
  <2>1. vehicle[v].hold = c /\ c # None
    BY <1>2, VehicleRecords, NoneAssumption
  <2> QED
    BY <2>1, HeldIsDisabled
<1> QED
  BY <1>1, <1>2

LEMMA ReleaseLoosens ==
  ASSUME IInv, NEW b \in Bookings, NEW s \in {"REJECTED", "CANCELED", "EXPIRED"}, Release(b, s),
         UNCHANGED <<now, fleet, contract>>,
         booking[b].status # "HANDED_OVER",
         \A v \in Vehicles : vehicle'[v] = vehicle[v] \/ vehicle'[v] = Available,
         \A v \in Vehicles : vehicle'[v] # HeldFor(b)
  PROVE  Loosens
<1>1. /\ now <= now' /\ booking \in [Bookings -> Booking]
      /\ \A c \in Bookings \ {b} : booking'[c] = booking[c]
  BY Clock DEF IInv, TypeOK, Times, Release
<1>2. booking'[b].status = s
  BY <1>1 DEF Release, Released, NoBooking
<1>3. \A c \in Bookings : contract[c].status = "ON_RENT" => c # b
  BY HeldAndRented
<1>4. \A v \in Vehicles : vehicle'[v].status \in {"MAINTENANCE", "DISABLED"} => vehicle'[v] = vehicle[v]
  BY VehicleRecords
<1> QED
  BY <1>1, <1>2, <1>3, <1>4 DEF Loosens, SameDates

LEMMA ReturnLoosens ==
  ASSUME IInv, NEW v \in Vehicles, Return(v)
  PROVE  Loosens
<1>1. PICK b \in Bookings :
        /\ contract' = [contract EXCEPT ![b] = [@ EXCEPT !.status = "RETURNED", !.finish = now]]
        /\ booking' = [booking EXCEPT ![b] = [@ EXCEPT !.status = "RETURNED", !.assignment = "RELEASED"]]
  BY DEF Return
<1>2. /\ now <= now' /\ fleet' = fleet /\ vehicle' = [vehicle EXCEPT ![v] = Available]
      /\ booking \in [Bookings -> Booking] /\ contract \in [Bookings -> Contract]
      /\ vehicle \in [Vehicles -> Vehicle]
  BY Clock DEF Return, IInv, TypeOK, Times
<1>3. /\ booking'[b].status = "RETURNED" /\ SameDates(b)
      /\ contract'[b].status = "RETURNED"
  <2>1. booking[b] \in Booking /\ contract[b] \in Contract
    BY <1>2
  <2>2. /\ booking'[b] = [booking[b] EXCEPT !.status = "RETURNED", !.assignment = "RELEASED"]
        /\ contract'[b] = [contract[b] EXCEPT !.status = "RETURNED", !.finish = now]
    BY <1>1, <1>2
  <2> QED
    BY <2>1, <2>2 DEF Booking, Contract, SameDates
<1>4. \A c \in Bookings \ {b} : booking'[c] = booking[c] /\ contract'[c] = contract[c] /\ SameDates(c)
  BY <1>1, <1>2 DEF SameDates
<1>5. \A u \in Vehicles : vehicle'[u].status \in {"MAINTENANCE", "DISABLED"} => vehicle'[u] = vehicle[u]
  BY <1>2, VehicleRecords
<1> QED
  BY <1>2, <1>3, <1>4, <1>5 DEF Loosens

LEMMA ExpiryLoosens ==
  ASSUME IInv, ExpireReceipts
  PROVE  Loosens
<1>1. now <= now' /\ UNCHANGED <<fleet, contract, vehicle>>
  BY Clock DEF ExpireReceipts, IInv, TypeOK, Times
<1>2. ASSUME NEW c \in Bookings
      PROVE  /\ booking'[c].status \in {"REQUESTED", "APPROVED", "HANDOVER_PENDING"} => booking'[c] = booking[c]
             /\ booking[c].status \notin {"REQUESTED", "APPROVED"} => SameDates(c)
  <2>1. booking[c] \in Booking
    BY DEF IInv, TypeOK
  <2>2. CASE ~Due(c)
    BY <2>2 DEF ExpireReceipts, SameDates
  <2>3. CASE Due(c)
    <3>1. booking'[c] = Expired(booking[c])
      BY <2>3 DEF ExpireReceipts
    <3>2. booking'[c].status = "EXPIRED"
      BY <2>1, <3>1 DEF Expired, Released, NoBooking, Booking
    <3>3. booking[c].status = "HANDOVER_PENDING" => SameDates(c)
      BY <2>1, <3>1 DEF Expired, SameDates, Booking
    <3> QED
      BY <2>3, <3>2, <3>3 DEF Due
  <2> QED
    BY <2>2, <2>3
<1>3. \A c \in Bookings : contract[c].status = "ON_RENT" => SameDates(c)
  BY <1>2, HeldAndRented
<1>4. \A v \in Vehicles, c \in Bookings : vehicle[v] = HeldFor(c) => SameDates(c)
  BY <1>2, HeldAndRented DEF KeysOut
<1> QED
  BY <1>1, <1>2, <1>3, <1>4 DEF Loosens

\* The steps that can only make room.
Loosening ==
  \/ \E b \in Bookings : Reject(b) \/ Cancel(b) \/ ExpireUnpaid(b) \/ Recover(b)
  \/ \E v \in Vehicles : Return(v)
  \/ ExpireReceipts \/ ExpireMaintenance \/ Tick \/ UNCHANGED vars

LEMMA LooseningLoosens ==
  ASSUME IInv, Loosening
  PROVE  Loosens
<1>1. ASSUME NEW b \in Bookings, Reject(b) \/ Cancel(b) \/ ExpireUnpaid(b) PROVE Loosens
  <2>1. PICK s \in {"REJECTED", "CANCELED", "EXPIRED"} : Release(b, s)
    BY <1>1 DEF Reject, Cancel, ExpireUnpaid
  <2>2. /\ UNCHANGED <<now, fleet, contract, vehicle>>
        /\ booking[b].status \in {"REQUESTED", "APPROVED"}
    BY <1>1 DEF Reject, Cancel, ExpireUnpaid
  <2>3. \A v \in Vehicles : vehicle[v] # HeldFor(b)
    BY <2>2, HeldAndRented DEF KeysOut
  <2> QED
    BY <2>1, <2>2, <2>3, ReleaseLoosens
<1>2. ASSUME NEW b \in Bookings, Recover(b) PROVE Loosens
  <2> DEFINE v == booking[b].vehicle
  <2>1. /\ Release(b, "CANCELED") /\ UNCHANGED <<now, fleet, contract>> /\ booking[b].status # "HANDED_OVER"
        /\ v \in Vehicles /\ vehicle' = [vehicle EXCEPT ![v] = Available] /\ vehicle \in [Vehicles -> Vehicle]
    BY <1>2 DEF Recover, IInv, TypeOK
  <2>2. \A u \in Vehicles : vehicle'[u] # HeldFor(b)
    <3>1. ASSUME NEW u \in Vehicles, vehicle'[u] = HeldFor(b) PROVE FALSE
      <4>1. u # v /\ vehicle[u] = HeldFor(b)
        BY <2>1, <3>1, VehicleRecords
      <4> QED
        BY <4>1, HeldAndRented
    <3> QED
      BY <3>1
  <2> QED
    BY <2>1, <2>2, ReleaseLoosens
<1>3. CASE ExpireMaintenance
  <2>1. /\ now <= now' /\ UNCHANGED <<now, fleet, booking, contract>> /\ vehicle' = Swept
        /\ vehicle \in [Vehicles -> Vehicle]
    BY <1>3, Clock DEF ExpireMaintenance, IInv, TypeOK, Times
  <2>2. \A v \in Vehicles : vehicle'[v].status \in {"MAINTENANCE", "DISABLED"} => vehicle'[v] = vehicle[v]
    BY <2>1, SweptEffect, VehicleRecords
  <2> QED
    BY <2>1, <2>2 DEF Loosens, SameDates
<1>4. CASE Tick
  BY <1>4, Clock DEF Tick, Loosens, SameDates, IInv, TypeOK, Times
<1>5. CASE UNCHANGED vars
  BY <1>5, Clock DEF vars, Loosens, SameDates, IInv, TypeOK, Times
<1> QED
  BY <1>1, <1>2, <1>3, <1>4, <1>5, ReturnLoosens, ExpiryLoosens DEF Loosening

LEMMA CouldBefore ==
  ASSUME TypeOK, TypeOK', Loosens, NEW c \in Bookings, CanReceive(c)'
  PROVE  booking'[c] = booking[c] /\ CanReceive(c)
<1>1. booking'[c].status = "HANDOVER_PENDING" /\ now' < Deadline(booking'[c])
  BY DEF CanReceive, Deadline
<1>2. booking'[c] = booking[c] /\ now <= now' /\ now \in Nat /\ now' \in Nat /\ booking[c].start \in Nat
  BY <1>1, Clock DEF Loosens, TypeOK, Booking, Times
<1>3. PICK k \in Nat : Deadline(booking[c]) = (k + 1) * DayLength
  BY <1>2, DayOf DEF Deadline
<1>4. (k + 1) * DayLength \in Nat
  BY TimeAssumption
<1> QED
  BY <1>1, <1>2, <1>3, <1>4 DEF CanReceive

\* No rental runs out while a receipt of the same day is possible.
LEMMA TickRentals ==
  ASSUME IInv, DatesInv, Tick, NEW b \in Bookings, CanReceive(b)', CanReceive(b), NEW u \in Vehicles
  PROVE  Rentals(u)' \subseteq Rentals(u)
<1>1. /\ now \in Nat /\ now' = now + 1 /\ booking' = booking /\ contract' = contract
      /\ booking[b].start \in Nat /\ booking[b].start <= now /\ now + 1 < Deadline(booking[b])
  BY Clock DEF Tick, IInv, TypeOK, Times, Booking, CanReceive, Deadline, DatesInv, DatesOK
<1>2. ASSUME NEW c \in Bookings, contract[c].vehicle = u PROVE RentalSpan(c)' = RentalSpan(c)
  <2>1. contract[c].status \in {"ON_RENT", "RETURNED"}
    BY <1>2, NoneAssumption DEF DatesInv, DatesOK, IInv, TypeOK, Contract
  <2>2. CASE contract[c].status = "RETURNED"
    BY <1>1, <2>2 DEF RentalSpan
  <2>3. CASE contract[c].status = "ON_RENT"
    <3>1. booking[c].status = "HANDED_OVER" /\ booking[c].end \in Nat
      BY <2>3, HeldAndRented, Clock DEF IInv, TypeOK, Booking, Times
    <3>2. PICK d \in Nat : booking[c].end = d * DayLength
      BY <3>1 DEF DatesInv, DatesOK, Dated
    <3>3. booking[c].end # now + 1
      <4>1. ASSUME booking[c].end = now + 1 PROVE FALSE
        <5>1. booking[b].start < d * DayLength
          BY <1>1, <3>2, <4>1
        <5>2. Deadline(booking[b]) <= now + 1
          BY <1>1, <3>2, <4>1, <5>1, OneDay DEF Deadline
        <5>3. PICK k \in Nat : Deadline(booking[b]) = (k + 1) * DayLength
          BY <1>1, DayOf DEF Deadline
        <5>4. Deadline(booking[b]) \in Nat
          BY <5>3, TimeAssumption
        <5> QED
          BY <1>1, <5>2, <5>4
      <4> QED
        BY <4>1
    <3>4. booking[c].end > now + 1 <=> booking[c].end > now
      BY <1>1, <3>1, <3>3
    <3> QED
      BY <1>1, <2>3, <3>4 DEF RentalSpan
  <2> QED
    BY <2>1, <2>2, <2>3
<1>3. \A t : t \in Rentals(u)' => \E c \in Bookings : contract'[c].vehicle = u /\ t \in RentalSpan(c)'
  BY DEF Rentals
<1> QED
  BY <1>1, <1>2, <1>3, InRentals

LEMMA ReturnRentals ==
  ASSUME IInv, DatesInv, NEW v \in Vehicles, Return(v), NEW u \in Vehicles
  PROVE  Rentals(u)' \subseteq Rentals(u)
<1>1. PICK b \in Bookings :
        /\ OpenOn(v) = {b}
        /\ contract' = [contract EXCEPT ![b] = [@ EXCEPT !.status = "RETURNED", !.finish = now]]
        /\ booking' = [booking EXCEPT ![b] = [@ EXCEPT !.status = "RETURNED", !.assignment = "RELEASED"]]
  BY DEF Return
<1>2. /\ now' = now /\ now \in Times /\ now \in Nat /\ now <= Horizon
      /\ booking \in [Bookings -> Booking] /\ contract \in [Bookings -> Contract]
  BY Clock DEF Return, IInv, TypeOK, Times
<1>3. /\ contract'[b].status = "RETURNED" /\ contract'[b].finish = now
      /\ contract'[b].vehicle = contract[b].vehicle /\ contract'[b].start = contract[b].start
  <2>1. contract[b] \in Contract /\ contract'[b] = [contract[b] EXCEPT !.status = "RETURNED", !.finish = now]
    BY <1>1, <1>2
  <2> QED
    BY <2>1 DEF Contract
<1>4. contract[b].status = "ON_RENT"
  BY <1>1 DEF OpenOn
<1>5. booking[b].end \in Nat /\ Horizon \in Nat
  BY <1>2, Clock DEF Booking, Times
<1>6. RentalSpan(b)' \subseteq RentalSpan(b)
  <2>1. RentalSpan(b)' = Span(contract[b].start, now)
    BY <1>3 DEF RentalSpan
  <2>2. PICK e \in Nat : RentalSpan(b) = Span(contract[b].start, e) /\ now <= e
    <3>1. CASE booking[b].end > now
      BY <1>2, <1>4, <1>5, <3>1 DEF RentalSpan
    <3>2. CASE ~(booking[b].end > now)
      BY <1>2, <1>4, <1>5, <3>2 DEF RentalSpan
    <3> QED
      BY <3>1, <3>2
  <2> QED
    BY <1>2, <2>1, <2>2 DEF Span, Times
<1>7. ASSUME NEW c \in Bookings \ {b} PROVE contract'[c] = contract[c] /\ RentalSpan(c)' = RentalSpan(c)
  BY <1>1, <1>2 DEF RentalSpan
<1>8. \A t : t \in Rentals(u)' => \E c \in Bookings : contract'[c].vehicle = u /\ t \in RentalSpan(c)'
  BY DEF Rentals
<1> QED
  BY <1>3, <1>6, <1>7, <1>8, InRentals

LEMMA LooseRentals ==
  ASSUME IInv, DatesInv, Loosening, NEW b \in Bookings, CanReceive(b)', CanReceive(b), NEW u \in Vehicles
  PROVE  Rentals(u)' \subseteq Rentals(u)
<1>1. CASE Tick
  BY <1>1, TickRentals
<1>2. CASE \E v \in Vehicles : Return(v)
  BY <1>2, ReturnRentals
<1>3. CASE ~Tick /\ ~\E v \in Vehicles : Return(v)
  <2>1. UNCHANGED <<now, contract>>
    BY <1>3 DEF Loosening, Reject, Cancel, ExpireUnpaid, Recover, ExpireReceipts, ExpireMaintenance, vars
  <2>2. \A c \in Bookings : contract[c].status = "ON_RENT" => booking'[c].end = booking[c].end
    BY <2>1, LooseningLoosens DEF Loosens, SameDates
  <2> QED
    BY <2>1, <2>2, RentalsKept DEF IInv
<1> QED
  BY <1>1, <1>2, <1>3

LEMMA LooseReceipts ==
  ASSUME IInv, IInv', DatesInv, DatesInv', Loosening, SomeReceiptIsPossible
  PROVE  SomeReceiptIsPossible'
<1> SUFFICES ASSUME NEW c \in Bookings, CanReceive(c)'
             PROVE  \E b \in Bookings : CanReceive(b)' /\ ReceiptFits(b)'
  BY DEF SomeReceiptIsPossible
<1>1. Loosens /\ TypeOK /\ TypeOK'
  BY LooseningLoosens DEF IInv
<1>2. booking'[c] = booking[c] /\ CanReceive(c)
  BY <1>1, CouldBefore
<1>3. PICK b \in Bookings : CanReceive(b) /\ ReceiptFits(b)
  BY <1>2 DEF SomeReceiptIsPossible
<1>4. \A u \in Vehicles : Rentals(u)' \subseteq Rentals(u)
  BY <1>2, LooseRentals
<1>5. CASE Recover(b)
  <2>1. vehicle'[booking[b].vehicle] = Available
    BY <1>1, <1>5 DEF Recover, TypeOK
  <2> QED
    BY <1>1, <1>3, <1>4, <2>1, ReceiptKept
<1>6. CASE ~Recover(b)
  <2>1. booking'[b] = booking[b]
    <3>1. ASSUME NEW x \in Bookings, Reject(x) \/ Cancel(x) \/ ExpireUnpaid(x) \/ (Recover(x) /\ x # b)
          PROVE  booking'[b] = booking[b]
      <4>1. x # b
        BY <1>3, <3>1 DEF Reject, Cancel, ExpireUnpaid, CanReceive
      <4>2. \E s : Release(x, s)
        BY <3>1 DEF Reject, Cancel, ExpireUnpaid, Recover
      <4> QED
        BY <1>1, <4>1, <4>2 DEF Release, TypeOK
    <3>2. ASSUME NEW v \in Vehicles, Return(v) PROVE booking'[b] = booking[b]
      BY <1>1, <1>3, <3>2 DEF Return, CanReceive, TypeOK
    <3>3. ASSUME ExpireReceipts PROVE booking'[b] = booking[b]
      <4>1. ~Due(b)
        <5>1. PICK k \in Nat : Deadline(booking[b]) = (k + 1) * DayLength
          BY <1>1, DayOf DEF Deadline, TypeOK, Booking, Times
        <5>2. Deadline(booking[b]) \in Nat /\ now \in Nat /\ now < Deadline(booking[b])
          BY <1>1, <1>3, <5>1, TimeAssumption, Clock DEF CanReceive, TypeOK, Times
        <5> QED
          BY <5>2 DEF Due
      <4> QED
        BY <3>3, <4>1 DEF ExpireReceipts
    <3>4. ASSUME ExpireMaintenance \/ Tick \/ UNCHANGED vars PROVE booking'[b] = booking[b]
      BY <3>4 DEF ExpireMaintenance, Tick, vars
    <3> QED
      BY <1>6, <3>1, <3>2, <3>3, <3>4 DEF Loosening
  <2>2. CanReceive(b)'
    <3>1. Deadline(booking[c]) <= Deadline(booking[b]) /\ Deadline(booking[c]) \in Nat
      BY <1>1, <1>2, <1>3, DeadlinesAgree
    <3>2. Deadline(booking[b]) \in Nat /\ now' \in Nat
      BY <1>1, <1>3, DeadlinesAgree, Clock DEF TypeOK, Times
    <3>3. now' < Deadline(booking[c])
      BY <1>2 DEF CanReceive, Deadline
    <3>4. now' < Deadline(booking'[b])
      BY <2>1, <3>1, <3>2, <3>3
    <3> QED
      BY <1>3, <2>1, <3>4 DEF CanReceive, Deadline
  <2>3. ReceiptFits(b)'
    BY <1>1, <1>3, <1>4, <2>1, <2>2, ReceiptKept
  <2> QED
    BY <2>2, <2>3
<1> QED
  BY <1>5, <1>6

\* A handover tests its own receipt: right after it, that receipt is possible.
LEMMA PrepareFits ==
  ASSUME IInv, IInv', DatesInv, DatesInv', NEW b \in Bookings, NEW r \in Booking, NEW v \in Vehicles,
         Prepare(b, r, v), CanHandOver(v), booking[b].status \in Early, now < Deadline(r)
  PROVE  CanReceive(b)' /\ ReceiptFits(b)'
<1> DEFINE needs == Needs(v, now, r.end)
<1>1. PICK a : a \in Plans(booking, Live(booking) \ {b}, Swept, needs)
  BY DEF Prepare
<1>2. /\ UNCHANGED <<now, fleet, contract>> /\ vehicle' = [Swept EXCEPT ![v] = HeldFor(b)]
      /\ booking' = [booking EXCEPT ![b] = [r EXCEPT !.status = "HANDOVER_PENDING",
                       !.assignment = "LOCKED", !.vehicle = v, !.handed = TRUE]]
  BY DEF Prepare
<1>3. /\ booking \in [Bookings -> Booking] /\ Swept \in [Vehicles -> Vehicle] /\ fleet \subseteq Vehicles
      /\ TypeOK /\ TypeOK' /\ now \in Nat /\ now <= now'
  BY <1>2, SweptEffect, Clock DEF IInv, TypeOK, Times
<1>4. /\ booking'[b].status = "HANDOVER_PENDING" /\ booking'[b].vehicle = v
      /\ booking'[b].start = r.start /\ booking'[b].end = r.end
  <2>1. booking'[b] = [r EXCEPT !.status = "HANDOVER_PENDING", !.assignment = "LOCKED",
                                !.vehicle = v, !.handed = TRUE]
    BY <1>2, <1>3
  <2> QED
    BY <2>1 DEF Booking
<1>5. \A c \in Bookings \ {b} : booking'[c] = booking[c]
  BY <1>2, <1>3
<1>6. CanReceive(b)'
  BY <1>2, <1>4 DEF CanReceive, Deadline
<1>7. Live(booking)' \subseteq Live(booking) \ {b}
  <2> SUFFICES ASSUME NEW c, c \in Live(booking)' PROVE c \in Live(booking) \ {b}
    OBVIOUS
  <2>1. c \in Bookings /\ c # b
    BY <1>4 DEF Live
  <2>2. booking'[c] = booking[c]
    BY <1>5, <2>1
  <2> QED
    BY <1>2, <1>3, <2>1, <2>2, LiveKept DEF SameDates
<1>8. ASSUME NEW u \in Vehicles PROVE Busy(b)'[u] \subseteq Taken(Swept, u) \cup needs[u]
  <2>1. Rentals(u)' = Rentals(u)
    <3>1. contract[b].status # "ON_RENT"
      BY HeldAndRented DEF Early
    <3> QED
      BY <1>2, <1>3, <1>5, <3>1, RentalsKept
  <2>2. CASE u = v
    <3>1. Busy(b)'[u] = Rentals(u) \cup Span(now, r.end)
      BY <1>2, <1>4, <2>1, <2>2 DEF Busy
    <3>2. Swept[v].status = "AVAILABLE" /\ needs[u] = Span(now, r.end)
      BY <2>2 DEF CanHandOver, Needs
    <3>3. Rentals(u) \subseteq Taken(Swept, u)
      BY <2>2, <3>2, TakenIs
    <3> QED
      BY <3>1, <3>2, <3>3
  <2>3. CASE u # v
    <3>1. Busy(b)'[u] = TakenNow'[u] /\ vehicle'[u] = Swept[u]
      BY <1>2, <1>3, <1>4, <2>3 DEF Busy, TakenNow
    <3>2. Works(vehicle[u])' = Works(Swept[u])
      BY <1>2, <3>1 DEF Works
    <3>3. TakenNow'[u] = Taken(Swept, u)
      BY <2>1, <3>1, <3>2, NextTaken, TakenIs
    <3> QED
      BY <3>1, <3>3
  <2> QED
    BY <2>2, <2>3
<1> HIDE DEF needs
<1>9. FitsIn(a, Live(booking)', booking', fleet', Busy(b)')
  <2>1. \A c \in Live(booking)' : booking'[c] = booking[c]
    BY <1>5, <1>7 DEF Live
  <2>2. \A u \in fleet : Busy(b)'[u] \subseteq Taken(Swept, u) \cup needs[u]
    BY <1>3, <1>8
  <2>3. FitsIn(a, Live(booking)', booking', fleet, Busy(b)')
    BY <1>1, <1>7, <2>1, <2>2, PlanFits
  <2> QED
    BY <1>2, <2>3
<1>10. (\E f : FitsIn(f, Live(booking), booking, fleet, Busy(b)))'
  BY <1>9
<1> QED
  BY <1>6, <1>10, ReceiptIsNext

-----------------------------------------------------------------------------
\* Nobody is promised what another has.

\* Every step leaves an assignment behind: it found one, it tested one for the
\* receipt that it makes possible, or it can only have made room.
StepServes ==
  \/ Served'
  \/ \E b \in Bookings : CanReceive(b)' /\ ReceiptFits(b)'
  \/ Loosening
  \/ \E v \in Vehicles : Move(v)

LEMMA StepsServe == IInv /\ DatesInv /\ [Next]_vars => StepServes
<1> SUFFICES ASSUME IInv, DatesInv, [Next]_vars PROVE StepServes
  OBVIOUS
<1>1. IInv' /\ DatesInv' /\ TypeOK
  BY IInvStep, DatesStep DEF IInv
<1>2. ASSUME NEW b \in Bookings, NEW first, NEW last, Request(b, first, last) PROVE Served'
  <2>1. \A u \in Vehicles : Taken(vehicle, u) = Taken(vehicle, u)
    OBVIOUS
  <2> QED
    BY <1>2, <2>1, RequestServed DEF Request
<1>3. ASSUME NEW b \in Bookings, NEW v \in Vehicles, NEW last \in DayNumbers, OnsiteRequest(b, v, last)
      PROVE  Served'
  BY <1>3, SweptTaken, RequestServed DEF OnsiteRequest, OnsiteFits
<1>4. ASSUME NEW b \in Bookings, NEW v \in Vehicles, NEW last \in DayNumbers, WalkIn(b, v, last)
      PROVE  CanReceive(b)' /\ ReceiptFits(b)'
  <2> DEFINE r == Requested(now, (last + 1) * DayLength, v)
  <2>1. Prepare(b, r, v) /\ CanHandOver(v) /\ booking[b].status \in Early
    BY <1>4 DEF WalkIn, OnsiteFits, Early
  <2>2. r \in Booking /\ r.start = now
    BY <1>1, BookingRecords, Clock DEF Requested, TypeOK
  <2>3. now < Deadline(r)
    BY <1>1, <2>2, DayOf, Clock DEF Deadline, TypeOK, Times
  <2> QED
    BY <1>1, <2>1, <2>2, <2>3, PrepareFits
<1>5. ASSUME NEW b \in Bookings, NEW v \in Vehicles, HandOver(b, v) PROVE CanReceive(b)' /\ ReceiptFits(b)'
  <2>1. /\ Prepare(b, booking[b], v) /\ CanHandOver(v) /\ booking[b].status \in Early
        /\ booking[b] \in Booking /\ now < Deadline(booking[b])
    BY <1>1, <1>5 DEF HandOver, Early, TypeOK
  <2> QED
    BY <1>1, <2>1, PrepareFits
<1>6. Placed' => Served'
  BY DEF Placed, Served
<1>7. ASSUME NEW b \in Bookings, NEW first, NEW last, Request(b, first, last) PROVE StepServes
  BY <1>2, <1>7 DEF StepServes
<1>8. ASSUME NEW b \in Bookings, NEW v \in Vehicles, NEW last \in DayNumbers,
             OnsiteRequest(b, v, last) \/ WalkIn(b, v, last)
      PROVE  StepServes
  BY <1>3, <1>4, <1>8 DEF StepServes
<1>9. ASSUME NEW b \in Bookings, Approve(b) \/ Receive(b) PROVE StepServes
  BY <1>9, <1>6, ApprovePlaced, ReceivePlaced DEF StepServes
<1>10. ASSUME NEW v \in Vehicles, NEW last \in DayNumbers, Repair(v, last) PROVE StepServes
  BY <1>10, <1>6, RepairPlaced DEF StepServes
<1>11. ASSUME NEW b \in Bookings, NEW v \in Vehicles, HandOver(b, v) PROVE StepServes
  BY <1>5, <1>11 DEF StepServes
<1>12. Loosening \/ (\E v \in Vehicles : Move(v)) => StepServes
  BY DEF StepServes
<1> QED
  BY <1>7, <1>8, <1>9, <1>10, <1>11, <1>12 DEF Next, Loosening

LEMMA PlansPromise ==
  IInv /\ DatesInv =>
    /\ Placed => NoDoubleBooking
    /\ Served => RequestsKeepCapacity /\ SomeReceiptIsPossible
<1> SUFFICES ASSUME IInv, DatesInv
             PROVE  /\ Placed => NoDoubleBooking
                    /\ Served => RequestsKeepCapacity /\ SomeReceiptIsPossible
  OBVIOUS
<1>1. Placed => NoDoubleBooking
  BY FitsKeepsApart DEF Placed
<1>2. ASSUME Served PROVE SomeReceiptIsPossible
  BY <1>2, FitsReceipts DEF Served, SomeReceiptIsPossible
<1>3. ASSUME Served PROVE RequestsKeepCapacity
  <2>1. PICK a : FitsIn(a, Live(booking), booking, fleet, TakenNow)
    BY <1>3 DEF Served
  <2>2. \A u \in fleet : Reserved(u) \subseteq TakenNow[u]
    BY ReservedIsTaken DEF TakenNow, IInv, TypeOK
  <2>3. KeepsCapacity(a)
    BY <2>1, <2>2, FitsKeepsCapacity
  <2> QED
    BY <2>3, CapacityIs DEF KeptCapacity, IInv
<1> QED
  BY <1>1, <1>2, <1>3

LEMMA PlansPromiseNext ==
  IInv' /\ DatesInv' =>
    /\ Placed' => NoDoubleBooking'
    /\ Served' => RequestsKeepCapacity' /\ SomeReceiptIsPossible'
  BY PlansPromise, PTL

LEMMA FittingReceipt ==
  IInv /\ DatesInv /\ (\E b \in Bookings : CanReceive(b) /\ ReceiptFits(b))
    => RequestsKeepCapacity /\ SomeReceiptIsPossible
  BY ReceiptKeepsCapacity DEF SomeReceiptIsPossible

LEMMA FittingReceiptNext ==
  IInv' /\ DatesInv' /\ (\E b \in Bookings : CanReceive(b)' /\ ReceiptFits(b)')
    => RequestsKeepCapacity' /\ SomeReceiptIsPossible'
<1>1. (IInv /\ DatesInv /\ (\E b \in Bookings : CanReceive(b) /\ ReceiptFits(b))
        => RequestsKeepCapacity /\ SomeReceiptIsPossible)'
  BY FittingReceipt, PTL
<1> QED
  BY <1>1

\* Steps that make no approved booking and no promise keep approved bookings apart.
LEMMA QuietApart ==
  ASSUME IInv, TypeOK', NoDoubleBooking, NEW b \in Bookings, NEW r,
         booking[b].status \in Early, r.status # "APPROVED",
         UNCHANGED <<now, fleet, contract>>, booking' = [booking EXCEPT ![b] = r],
         \A v \in Vehicles : vehicle'[v].status = "MAINTENANCE" => vehicle'[v] = vehicle[v]
  PROVE  NoDoubleBooking'
<1>1. now \in Nat /\ now <= now' /\ now' \in Nat /\ booking \in [Bookings -> Booking]
  BY Clock DEF IInv, TypeOK, Times
<1>2. booking'[b] = r /\ \A c \in Bookings \ {b} : booking'[c] = booking[c]
  BY <1>1
<1>3. \A c \in Bookings : contract[c].status = "ON_RENT" => SameDates(c)
  BY <1>2, HeldAndRented DEF Early, SameDates
<1>4. \A v \in Vehicles : Promised(v)' \subseteq Promised(v)
  BY <1>1, <1>3, PromisedKept
<1> QED
  BY <1>1, <1>2, <1>4, ApartKept

LEMMA ApartStep == IInv /\ DatesInv /\ NoDoubleBooking /\ [Next]_vars => NoDoubleBooking'
<1> SUFFICES ASSUME IInv, DatesInv, NoDoubleBooking, [Next]_vars PROVE NoDoubleBooking'
  OBVIOUS
<1>1. /\ IInv' /\ DatesInv' /\ TypeOK /\ TypeOK' /\ now \in Nat /\ now' \in Nat
  BY IInvStep, DatesStep, Clock DEF IInv, TypeOK, Times
<1>2. ASSUME NEW b \in Bookings, NEW first, NEW last, Request(b, first, last) PROVE NoDoubleBooking'
  <2> DEFINE r == Requested(first * DayLength, (last + 1) * DayLength, None)
  <2>1. /\ booking[b].status \in Early /\ booking' = [booking EXCEPT ![b] = r]
        /\ UNCHANGED <<now, fleet, contract, vehicle>>
    BY <1>2 DEF Request, Early
  <2>2. r.status # "APPROVED"
    BY DEF Requested
  <2> HIDE DEF r
  <2> QED
    BY <1>1, <2>1, <2>2, QuietApart
<1>3. ASSUME NEW b \in Bookings, NEW v \in Vehicles, NEW last \in DayNumbers, OnsiteRequest(b, v, last)
      PROVE  NoDoubleBooking'
  <2> DEFINE r == Requested(now, (last + 1) * DayLength, v)
  <2>1. /\ booking[b].status \in Early /\ booking' = [booking EXCEPT ![b] = r]
        /\ UNCHANGED <<now, fleet, contract, vehicle>>
    BY <1>3 DEF OnsiteRequest, OnsiteFits, Early
  <2>2. r.status # "APPROVED"
    BY DEF Requested
  <2> HIDE DEF r
  <2> QED
    BY <1>1, <2>1, <2>2, QuietApart
<1>4. ASSUME NEW b \in Bookings, NEW r \in Booking, NEW v \in Vehicles, booking[b].status \in Early, Prepare(b, r, v)
      PROVE  NoDoubleBooking'
  <2>1. /\ UNCHANGED <<now, fleet, contract>> /\ vehicle' = [Swept EXCEPT ![v] = HeldFor(b)]
        /\ booking' = [booking EXCEPT ![b] = [r EXCEPT !.status = "HANDOVER_PENDING",
                         !.assignment = "LOCKED", !.vehicle = v, !.handed = TRUE]]
    BY <1>4 DEF Prepare
  <2>2. [r EXCEPT !.status = "HANDOVER_PENDING", !.assignment = "LOCKED", !.vehicle = v, !.handed = TRUE].status
          # "APPROVED"
    BY DEF Booking
  <2>3. \A u \in Vehicles : vehicle'[u].status = "MAINTENANCE" => vehicle'[u] = vehicle[u]
    <3>1. Swept \in [Vehicles -> Vehicle]
      BY <1>1, SweptEffect DEF TypeOK
    <3>2. vehicle'[v] = HeldFor(b) /\ \A u \in Vehicles \ {v} : vehicle'[u] = Swept[u]
      BY <2>1, <3>1
    <3> QED
      BY <1>1, <3>2, SweptEffect, VehicleRecords DEF TypeOK
  <2> QED
    BY <1>1, <1>4, <2>1, <2>2, <2>3, QuietApart
<1>5. ASSUME NEW b \in Bookings, NEW v \in Vehicles, NEW last \in DayNumbers, WalkIn(b, v, last)
      PROVE  NoDoubleBooking'
  <2>1. now \in Times /\ (last + 1) * DayLength \in Times
    BY <1>1, Clock DEF TypeOK
  <2>2. Requested(now, (last + 1) * DayLength, v) \in Booking
    BY <2>1, BookingRecords
  <2> QED
    BY <1>4, <1>5, <2>2 DEF WalkIn, OnsiteFits, Early
<1>6. ASSUME NEW b \in Bookings, NEW v \in Vehicles, HandOver(b, v) PROVE NoDoubleBooking'
  BY <1>1, <1>4, <1>6 DEF HandOver, Early, TypeOK
<1>7. ASSUME NEW b \in Bookings, Approve(b) \/ Receive(b) PROVE NoDoubleBooking'
  BY <1>1, <1>7, ApprovePlaced, ReceivePlaced, PlansPromiseNext
<1>8. ASSUME NEW v \in Vehicles, NEW last \in DayNumbers, Repair(v, last) PROVE NoDoubleBooking'
  BY <1>1, <1>8, RepairPlaced, PlansPromiseNext
<1>9. ASSUME NEW v \in Vehicles, Move(v) PROVE NoDoubleBooking'
  <2>1. /\ UNCHANGED <<now, booking, contract, vehicle>> /\ fleet' = fleet \ {v}
        /\ \A b \in Bookings : booking[b].vehicle = v => booking[b].status # "APPROVED"
    BY <1>9 DEF Move
  <2>2. \A u \in Vehicles : Promised(u)' \subseteq Promised(u)
    BY <1>1, <2>1, PromisedKept DEF SameDates
  <2> QED
    BY <1>1, <2>1, <2>2, ApartKept
<1>10. CASE Loosening
  <2>1. Loosens
    BY <1>10, LooseningLoosens
  <2>2. /\ now <= now' /\ fleet' = fleet
        /\ \A c \in Bookings : booking'[c].status = "APPROVED" => booking'[c] = booking[c]
        /\ \A c \in Bookings : contract'[c].status = "ON_RENT" => contract'[c] = contract[c] /\ SameDates(c)
        /\ \A v \in Vehicles : vehicle'[v].status = "MAINTENANCE" => vehicle'[v] = vehicle[v]
    BY <2>1 DEF Loosens
  <2>3. \A u \in Vehicles : Promised(u)' \subseteq Promised(u)
    BY <1>1, <2>2, PromisedKept
  <2> QED
    BY <1>1, <2>2, <2>3, ApartKept
<1> QED
  BY <1>2, <1>3, <1>5, <1>6, <1>7, <1>8, <1>9, <1>10 DEF Next, Loosening

\* First come, first served needs vehicles that stay in the shop: a transfer
\* looks at the vehicle of the approved bookings only, and requests have none.
LEMMA CapacityStep ==
  Moves = FALSE /\ IInv /\ DatesInv /\ RequestsKeepCapacity /\ SomeReceiptIsPossible /\ [Next]_vars
    => RequestsKeepCapacity' /\ SomeReceiptIsPossible'
<1> SUFFICES ASSUME Moves = FALSE, IInv, DatesInv, RequestsKeepCapacity, SomeReceiptIsPossible, [Next]_vars
             PROVE  RequestsKeepCapacity' /\ SomeReceiptIsPossible'
  OBVIOUS
<1>1. IInv' /\ DatesInv' /\ TypeOK'
  BY IInvStep, DatesStep, TypesStep DEF IInv
<1>2. CASE Served'
  BY <1>1, <1>2, PlansPromiseNext
<1>3. CASE \E b \in Bookings : CanReceive(b)' /\ ReceiptFits(b)'
  BY <1>1, <1>3, FittingReceiptNext
<1>4. CASE Loosening
  BY <1>1, <1>4, LooseningLoosens, CapacityKept, LooseReceipts
<1>5. \A v \in Vehicles : ~Move(v)
  BY DEF Move
<1>6. StepServes
  BY StepsServe
<1> QED
  BY <1>2, <1>3, <1>4, <1>5, <1>6 DEF StepServes

LEMMA InitPromises == Init => NoDoubleBooking /\ RequestsKeepCapacity /\ SomeReceiptIsPossible
<1> SUFFICES ASSUME Init PROVE NoDoubleBooking /\ RequestsKeepCapacity /\ SomeReceiptIsPossible
  OBVIOUS
<1>1. Live(booking) = {} /\ \A b \in Bookings : ~CanReceive(b)
  BY BookingRecords DEF Init, Live, CanReceive
<1>2. KeepsCapacity(<<>>)
  BY <1>1 DEF KeepsCapacity
<1> QED
  BY <1>1, <1>2, InitTypes, CapacityIs
     DEF NoDoubleBooking, LiveApproved, KeptCapacity, SomeReceiptIsPossible

\* Approval, receipt and repair take a vehicle only together with a new place
\* for every approved booking (app/availability.py), so a vehicle is never
\* promised to two customers, nor to a customer and the workshop: not by the
\* endpoints, not by the timers, whatever was canceled or late in between.
THEOREM NothingIsDoubleBooked == Spec => []NoDoubleBooking
<1>1. Init => IInv /\ DatesInv /\ NoDoubleBooking
  BY InitIInv, InitDates, InitPromises
<1>2. IInv /\ DatesInv /\ NoDoubleBooking /\ [Next]_vars => (IInv /\ DatesInv /\ NoDoubleBooking)'
  BY IInvStep, DatesStep, ApartStep
<1> QED
  BY <1>1, <1>2, PTL DEF Spec

\* "Requests too occupy capacity" (app/availability.py:83): while no vehicle is
\* transferred, whatever is accepted, handed over, late or repaired leaves a
\* vehicle for every live request and booking at once.
THEOREM RequestsAlwaysFit == ASSUME Moves = FALSE PROVE Spec => []RequestsKeepCapacity
<1>1. Init => IInv /\ DatesInv /\ RequestsKeepCapacity /\ SomeReceiptIsPossible
  BY InitIInv, InitDates, InitPromises
<1>2. IInv /\ DatesInv /\ RequestsKeepCapacity /\ SomeReceiptIsPossible /\ [Next]_vars
        => (IInv /\ DatesInv /\ RequestsKeepCapacity /\ SomeReceiptIsPossible)'
  BY IInvStep, DatesStep, CapacityStep
<1> QED
  BY <1>1, <1>2, PTL DEF Spec

\* The pending receipts of receive() (app/customer_qr.py) never all block each other:
\* while no vehicle is transferred, one of the customers who may confirm the
\* keys finds a feasible assignment.
THEOREM SomebodyCanReceive == ASSUME Moves = FALSE PROVE Spec => []SomeReceiptIsPossible
<1>1. Init => IInv /\ DatesInv /\ RequestsKeepCapacity /\ SomeReceiptIsPossible
  BY InitIInv, InitDates, InitPromises
<1>2. IInv /\ DatesInv /\ RequestsKeepCapacity /\ SomeReceiptIsPossible /\ [Next]_vars
        => (IInv /\ DatesInv /\ RequestsKeepCapacity /\ SomeReceiptIsPossible)'
  BY IInvStep, DatesStep, CapacityStep
<1> QED
  BY <1>1, <1>2, PTL DEF Spec
=============================================================================
