------------------------------- MODULE Rental -------------------------------
(***************************************************************************)
(* The life of a rental at one shop, for one model of vehicle: requests,   *)
(* approval, handover by the shop, receipt by the customer, return, expiry *)
(* and recovery (app/rentals.py, app/customer_qr.py, app/customer_rentals  *)
(* .py, app/receipt.py), with the assignment of vehicles to bookings that  *)
(* every one of them must leave feasible (app/availability.py), and the    *)
(* vehicle's maintenance and transfer (app/vehicles.py, app/jobs.py).      *)
(*                                                                         *)
(* An operation is one transaction under the shop's row lock, hence one    *)
(* step; cancellations and timers, which do not take that lock, are steps  *)
(* of their own.  Time is counted in ticks, DayLength of them in a day.    *)
(***************************************************************************)
EXTENDS Naturals, FiniteSets

CONSTANTS
  Vehicles,   \* the vehicles of the model, all in one price group
  Bookings,   \* reservation ids
  None,       \* SQL NULL
  LastDay,    \* bound: the number of days
  DayLength,  \* ticks in a day
  Moves       \* may a vehicle be transferred to another shop?

ASSUME TimeAssumption ==
  LastDay \in Nat \ {0} /\ DayLength \in Nat \ {0} /\ Moves \in BOOLEAN
ASSUME NoneAssumption == None \notin Vehicles /\ None \notin Bookings

VARIABLES
  now,        \* the clock
  fleet,      \* vehicles that belong to this shop
  booking,    \* MSP_RESERVATION
  contract,   \* MSP_RENTAL_CONTRACT, by reservation
  vehicle     \* MSP_VEHICLE_STATUS

vars == <<now, fleet, booking, contract, vehicle>>

Horizon == LastDay * DayLength
Times == 0..Horizon
DayEnd(t) == (t \div DayLength + 1) * DayLength
Span(from, to) == {t \in Times : from <= t /\ t < to}

Statuses == {"NONE", "REQUESTED", "APPROVED", "REJECTED", "CANCELED", "EXPIRED",
             "HANDOVER_PENDING", "HANDED_OVER", "RETURNED"}

\* onsite: the vehicle an on-site request is fixed to.  handed: handed_over_at is set.
Booking == [status : Statuses,
            assignment : {"SOFT_HOLD", "PROVISIONAL", "REALLOCATED", "LOCKED", "RELEASED"},
            vehicle : Vehicles \cup {None}, start : Times, end : Times,
            onsite : Vehicles \cup {None}, handed : BOOLEAN]

Contract == [status : {"NONE", "ON_RENT", "RETURNED"}, vehicle : Vehicles \cup {None},
             start : Times, finish : Times]

\* hold: the reservation in status_reason CUSTOMER_RECEIPT:<id>.
Vehicle == [status : {"AVAILABLE", "ON_RENT", "MAINTENANCE", "DISABLED"},
            hold : Bookings \cup {None}, since : Times, until : Times]

NoBooking == [status |-> "NONE", assignment |-> "RELEASED", vehicle |-> None,
              start |-> 0, end |-> 0, onsite |-> None, handed |-> FALSE]
NoContract == [status |-> "NONE", vehicle |-> None, start |-> 0, finish |-> 0]

Available == [status |-> "AVAILABLE", hold |-> None, since |-> 0, until |-> 0]
OnRent == [Available EXCEPT !.status = "ON_RENT"]
HeldFor(b) == [Available EXCEPT !.status = "DISABLED", !.hold = b]
InRepair(from, to) == [status |-> "MAINTENANCE", hold |-> None, since |-> from, until |-> to]

Init ==
  /\ now = 0
  /\ fleet = Vehicles
  /\ booking = [b \in Bookings |-> NoBooking]
  /\ contract = [b \in Bookings |-> NoContract]
  /\ vehicle = [v \in Vehicles |-> Available]

\* hold_expires_at of an on-site booking and receipt_deadline_at of a handed-over
\* one: the end of the day it starts, because handover happens on that day only.
Deadline(r) == DayEnd(r.start)
TooLate(r) == r.onsite # None /\ now >= Deadline(r)

OpenOn(v) == {b \in Bookings : contract[b].status = "ON_RENT" /\ contract[b].vehicle = v}
Ended(v) == vehicle[v].status = "MAINTENANCE" /\ vehicle[v].until <= now /\ OpenOn(v) = {}

\* expire_maintenance(), by the operations and by the timer.
Swept == [v \in Vehicles |-> IF Ended(v) /\ v \in fleet THEN Available ELSE vehicle[v]]

-----------------------------------------------------------------------------
\* compute_assignment(): feasible assignments of the live bookings.

Live(bk) == {b \in Bookings : /\ bk[b].status \in {"REQUESTED", "APPROVED"}
                              /\ bk[b].end > now /\ ~TooLate(bk[b])}

\* A rental that is past its end keeps its vehicle for good.
RentalSpan(b) ==
  Span(contract[b].start,
       IF contract[b].status = "RETURNED" THEN contract[b].finish
       ELSE IF booking[b].end > now THEN booking[b].end ELSE Horizon)

Taken(st, v) ==
  IF st[v].status = "DISABLED" THEN Times
  ELSE (IF st[v].status = "MAINTENANCE" /\ st[v].until > now THEN Span(st[v].since, st[v].until) ELSE {})
       \cup UNION {RentalSpan(b) : b \in {c \in Bookings : contract[c].vehicle = v}}

\* The checkout= and maintenance= arguments: what an operation needs itself.
Nothing == [v \in Vehicles |-> {}]
Needs(u, from, to) == [v \in Vehicles |-> IF v = u THEN Span(from, to) ELSE {}]

Days(r) == Span(r.start, r.end)

\* Every assignment the solver may return for jobs; a timeout may end its search
\* for the one with the fewest changes.
Plans(bk, jobs, st, needs) ==
  {a \in [jobs -> fleet] :
     /\ \A v \in fleet : Taken(st, v) \cap needs[v] = {}
     /\ \A b \in jobs : /\ bk[b].onsite \in {None, a[b]}
                        /\ Days(bk[b]) \cap (Taken(st, a[b]) \cup needs[a[b]]) = {}
     /\ \A b, c \in jobs : b # c /\ a[b] = a[c] => Days(bk[b]) \cap Days(bk[c]) = {}}

\* apply_assignments(): approved bookings move; a request's place stays hypothetical.
Apply(a, bk) ==
  [b \in Bookings |->
     IF b \in DOMAIN a /\ bk[b].status = "APPROVED" /\ bk[b].vehicle # a[b]
     THEN [bk[b] EXCEPT !.vehicle = a[b], !.assignment = "REALLOCATED"] ELSE bk[b]]

-----------------------------------------------------------------------------
\* Requests and decisions.

Requested(from, to, v) ==
  [status |-> "REQUESTED", assignment |-> "SOFT_HOLD", vehicle |-> None,
   start |-> from, end |-> to, onsite |-> v, handed |-> FALSE]

\* POST /request, for whole days in the future.
Request(b, first, last) ==
  LET bk == [booking EXCEPT ![b] = Requested(first * DayLength, (last + 1) * DayLength, None)] IN
  /\ booking[b].status = "NONE"
  /\ first * DayLength > now
  /\ Plans(bk, Live(bk) \cup {b}, vehicle, Nothing) # {}
  /\ booking' = bk
  /\ UNCHANGED <<now, fleet, contract, vehicle>>

CanHandOver(v) == v \in fleet /\ OpenOn(v) = {} /\ Swept[v].status = "AVAILABLE"

\* Mutant: only the scanned vehicle is looked at.
OnsiteFitsVehicle(b, v, last) ==
  /\ booking[b].status = "NONE"
  /\ last * DayLength > now
  /\ CanHandOver(v)

\* plan(): from now to a later day, on the vehicle whose QR code was scanned.
OnsiteFits(b, v, last) ==
  LET bk == [booking EXCEPT ![b] = Requested(now, (last + 1) * DayLength, v)] IN
  /\ booking[b].status = "NONE"
  /\ last * DayLength > now
  /\ CanHandOver(v)
  /\ Plans(bk, Live(bk) \cup {b}, Swept, Nothing) # {}

OnsiteRequest(b, v, last) ==
  /\ OnsiteFits(b, v, last)
  /\ booking' = [booking EXCEPT ![b] = Requested(now, (last + 1) * DayLength, v)]
  /\ UNCHANGED <<now, fleet, contract, vehicle>>

Approve(b) ==
  /\ booking[b].status = "REQUESTED"
  /\ IF booking[b].onsite = None THEN booking[b].start > now ELSE ~TooLate(booking[b])
  /\ \E a \in Plans(booking, Live(booking) \cup {b}, Swept, Nothing) :
       booking' = [Apply(a, booking) EXCEPT ![b] =
                     [@ EXCEPT !.status = "APPROVED", !.assignment = "PROVISIONAL", !.vehicle = a[b]]]
  /\ vehicle' = Swept
  /\ UNCHANGED <<now, fleet, contract>>

\* The row of a booking that ended without a rental: its dates are not read again.
Released(r, s) == [NoBooking EXCEPT !.status = s, !.handed = r.handed]
Release(b, s) == booking' = [booking EXCEPT ![b] = Released(@, s)]

\* Mutant: a status the tables do not know.
RejectAsRefused(b) ==
  /\ booking[b].status = "REQUESTED" /\ ~TooLate(booking[b])
  /\ Release(b, "REFUSED")
  /\ UNCHANGED <<now, fleet, contract, vehicle>>

Reject(b) ==
  /\ booking[b].status = "REQUESTED" /\ ~TooLate(booking[b])
  /\ Release(b, "REJECTED")
  /\ UNCHANGED <<now, fleet, contract, vehicle>>

\* The shop cancels an approved booking, the customer a requested one too.
Cancel(b) ==
  /\ booking[b].status \in {"REQUESTED", "APPROVED"} /\ ~TooLate(booking[b])
  /\ contract[b].status = "NONE"
  /\ Release(b, "CANCELED")
  /\ UNCHANGED <<now, fleet, contract, vehicle>>

\* The payment timer: an approved advance booking whose payment it knows to be
\* missing after the deadline.  Payments are not part of this module.
ExpireUnpaid(b) ==
  /\ booking[b].status = "APPROVED" /\ booking[b].onsite = None
  /\ contract[b].status = "NONE"
  /\ Release(b, "EXPIRED")
  /\ UNCHANGED <<now, fleet, contract, vehicle>>

-----------------------------------------------------------------------------
\* Handover, receipt, return.

\* Mutant: the vehicle is not protected until the customer's receipt.
PrepareWithoutHold(b, r, v) ==
  /\ Plans(booking, Live(booking) \ {b}, Swept, Needs(v, now, r.end)) # {}
  /\ booking' = [booking EXCEPT ![b] = [r EXCEPT !.status = "HANDOVER_PENDING",
                   !.assignment = "LOCKED", !.vehicle = v, !.handed = TRUE]]
  /\ vehicle' = Swept
  /\ UNCHANGED <<now, fleet, contract>>

\* Mutant: nobody looks whether the other bookings can do without v.
PrepareUnchecked(b, r, v) ==
  /\ booking' = [booking EXCEPT ![b] = [r EXCEPT !.status = "HANDOVER_PENDING",
                   !.assignment = "LOCKED", !.vehicle = v, !.handed = TRUE]]
  /\ vehicle' = [Swept EXCEPT ![v] = HeldFor(b)]
  /\ UNCHANGED <<now, fleet, contract>>

\* The end of approve_rent() and prepare(): b, with row r, gets the keys of v.
\* The assignment is only tested here; receive() writes one back.
Prepare(b, r, v) ==
  /\ Plans(booking, Live(booking) \ {b}, Swept, Needs(v, now, r.end)) # {}
  /\ booking' = [booking EXCEPT ![b] = [r EXCEPT !.status = "HANDOVER_PENDING",
                   !.assignment = "LOCKED", !.vehicle = v, !.handed = TRUE]]
  /\ vehicle' = [Swept EXCEPT ![v] = HeldFor(b)]
  /\ UNCHANGED <<now, fleet, contract>>

\* Any vehicle of the model will do, assigned to this booking or not.
HandOver(b, v) ==
  LET r == booking[b] IN
  /\ CanHandOver(v)
  /\ r.status = "APPROVED" /\ contract[b].status = "NONE"
  /\ r.onsite \in {None, v}
  /\ r.assignment \in {"PROVISIONAL", "REALLOCATED"}
  /\ r.start <= now /\ now < Deadline(r)
  /\ Prepare(b, r, v)

\* Without a booking number approve_rent() creates an approved one first.
WalkIn(b, v, last) ==
  /\ OnsiteFits(b, v, last)
  /\ Prepare(b, Requested(now, (last + 1) * DayLength, v), v)

\* Mutant: the customer's confirmation keeps the old plan.
ReceiveWithoutPlan(b) ==
  LET v == booking[b].vehicle IN
  /\ booking[b].status = "HANDOVER_PENDING" /\ now < Deadline(booking[b])
  /\ vehicle[v] = HeldFor(b) /\ OpenOn(v) = {} /\ contract[b].status = "NONE"
  /\ Plans(booking, Live(booking), [vehicle EXCEPT ![v] = Available], Needs(v, now, booking[b].end)) # {}
  /\ booking' = [booking EXCEPT ![b].status = "HANDED_OVER"]
  /\ contract' = [contract EXCEPT ![b] = [status |-> "ON_RENT", vehicle |-> v, start |-> now, finish |-> 0]]
  /\ vehicle' = [vehicle EXCEPT ![v] = OnRent]
  /\ UNCHANGED <<now, fleet>>

\* receive() and start_contract(): the bookings that need v move elsewhere.
Receive(b) ==
  LET v == booking[b].vehicle IN
  /\ booking[b].status = "HANDOVER_PENDING" /\ now < Deadline(booking[b])
  /\ v \in fleet /\ vehicle[v] = HeldFor(b) /\ OpenOn(v) = {} /\ contract[b].status = "NONE"
  /\ \E a \in Plans(booking, Live(booking), [vehicle EXCEPT ![v] = Available],
                    Needs(v, now, booking[b].end)) :
       booking' = [Apply(a, booking) EXCEPT ![b].status = "HANDED_OVER"]
  /\ contract' = [contract EXCEPT ![b] = [status |-> "ON_RENT", vehicle |-> v, start |-> now, finish |-> 0]]
  /\ vehicle' = [vehicle EXCEPT ![v] = OnRent]
  /\ UNCHANGED <<now, fleet>>

Return(v) ==
  /\ v \in fleet /\ vehicle[v].hold = None /\ vehicle[v].status = "ON_RENT"
  /\ \E b \in Bookings :
       /\ OpenOn(v) = {b}
       /\ booking[b].status = "HANDED_OVER" /\ booking[b].vehicle = v /\ booking[b].assignment = "LOCKED"
       /\ contract' = [contract EXCEPT ![b] = [@ EXCEPT !.status = "RETURNED", !.finish = now]]
       /\ booking' = [booking EXCEPT ![b] = [@ EXCEPT !.status = "RETURNED", !.assignment = "RELEASED"]]
  /\ vehicle' = [vehicle EXCEPT ![v] = Available]
  /\ UNCHANGED <<now, fleet>>

-----------------------------------------------------------------------------
\* Expiry and recovery.

Due(b) ==
  LET r == booking[b] IN
  /\ now >= Deadline(r)
  /\ \/ r.status = "HANDOVER_PENDING"
     \/ r.status \in {"REQUESTED", "APPROVED"} /\ r.onsite # None

Expired(r) ==
  IF r.status = "HANDOVER_PENDING" THEN [r EXCEPT !.status = "EXPIRED"]
  ELSE Released(r, "EXPIRED")

\* Mutants: an expired handover lets the vehicle go; only requests expire.
ExpireAndFree ==
  /\ \E b \in Bookings : Due(b)
  /\ booking' = [b \in Bookings |-> IF Due(b) THEN Expired(booking[b]) ELSE booking[b]]
  /\ vehicle' = [v \in Vehicles |-> IF \E b \in Bookings : Due(b) /\ booking[b].vehicle = v
                                    THEN Available ELSE vehicle[v]]
  /\ UNCHANGED <<now, fleet, contract>>
ExpireRequests ==
  /\ \E b \in Bookings : Due(b) /\ ~booking[b].handed
  /\ booking' = [b \in Bookings |-> IF Due(b) /\ ~booking[b].handed THEN Expired(booking[b]) ELSE booking[b]]
  /\ UNCHANGED <<now, fleet, contract, vehicle>>

\* expire_receipts(): all that is due, in one transaction.
ExpireReceipts ==
  /\ \E b \in Bookings : Due(b)
  /\ booking' = [b \in Bookings |-> IF Due(b) THEN Expired(booking[b]) ELSE booking[b]]
  /\ UNCHANGED <<now, fleet, contract, vehicle>>

\* recover_receipt(): the shop has the vehicle and the keys back.
Recover(b) ==
  LET v == booking[b].vehicle IN
  /\ booking[b].status \in {"HANDOVER_PENDING", "EXPIRED"} /\ booking[b].handed
  /\ contract[b].status = "NONE"
  /\ v \in fleet /\ vehicle[v] = HeldFor(b) /\ OpenOn(v) = {}
  /\ Release(b, "CANCELED")
  /\ vehicle' = [vehicle EXCEPT ![v] = Available]
  /\ UNCHANGED <<now, fleet, contract>>

-----------------------------------------------------------------------------
\* The vehicle itself.

\* Maintenance until the end of a day, beginning now or prolonged or cut short.
Repair(v, last) ==
  LET begin == IF Swept[v].status = "MAINTENANCE" THEN vehicle[v].since ELSE now
      until == (last + 1) * DayLength
  IN /\ v \in fleet /\ vehicle[v].hold = None /\ OpenOn(v) = {}
     /\ Swept[v].status \in {"AVAILABLE", "MAINTENANCE"}
     /\ until > now
     /\ \E a \in Plans(booking, Live(booking), [Swept EXCEPT ![v] = Available], Needs(v, begin, until)) :
          booking' = Apply(a, booking)
     /\ vehicle' = [Swept EXCEPT ![v] = InRepair(begin, until)]
     /\ UNCHANGED <<now, fleet, contract>>

\* The maintenance timer.
ExpireMaintenance ==
  /\ vehicle' = Swept /\ vehicle' # vehicle
  /\ UNCHANGED <<now, fleet, booking, contract>>

\* Transfer to another shop.
Move(v) ==
  /\ Moves /\ v \in fleet
  /\ vehicle[v].hold = None /\ OpenOn(v) = {}
  /\ \A b \in Bookings :
       booking[b].vehicle = v => booking[b].status \notin {"REQUESTED", "APPROVED", "HANDED_OVER"}
  /\ fleet' = fleet \ {v}
  /\ UNCHANGED <<now, booking, contract, vehicle>>

Tick ==
  /\ now < Horizon /\ now' = now + 1
  /\ UNCHANGED <<fleet, booking, contract, vehicle>>

DayNumbers == 0..(LastDay - 1)

Next ==
  \/ \E b \in Bookings :
       \/ \E first \in DayNumbers : \E last \in first..(LastDay - 1) : Request(b, first, last)
       \/ \E v \in Vehicles, last \in DayNumbers : OnsiteRequest(b, v, last) \/ WalkIn(b, v, last)
       \/ \E v \in Vehicles : HandOver(b, v)
       \/ Approve(b) \/ Reject(b) \/ Cancel(b) \/ ExpireUnpaid(b) \/ Receive(b) \/ Recover(b)
  \/ \E v \in Vehicles : Return(v) \/ Move(v) \/ \E last \in DayNumbers : Repair(v, last)
  \/ ExpireReceipts \/ ExpireMaintenance \/ Tick

Spec == Init /\ [][Next]_vars

\* Time passes and the receipt timer runs every minute.
FairSpec == Spec /\ WF_vars(Tick) /\ WF_vars(ExpireReceipts)

-----------------------------------------------------------------------------
\* Types of the tables.
TypeOK ==
  /\ now \in Times
  /\ fleet \subseteq Vehicles
  /\ booking \in [Bookings -> Booking]
  /\ contract \in [Bookings -> Contract]
  /\ vehicle \in [Vehicles -> Vehicle]

\* A customer, or nobody yet, has the keys of a vehicle that was handed over.
KeysOut(b) ==
  \/ booking[b].status = "HANDOVER_PENDING"
  \/ booking[b].status = "EXPIRED" /\ booking[b].handed

\* Reservation, contract and vehicle state, which four endpoints and a timer
\* write, tell one story: a vehicle is held for exactly the booking whose keys
\* are out, on rent for exactly the booking that was received, and never two.
RecordsAgree ==
  /\ \A b \in Bookings : KeysOut(b) =>
       booking[b].vehicle # None /\ vehicle[booking[b].vehicle] = HeldFor(b)
  /\ \A b \in Bookings :
       /\ (booking[b].status = "HANDED_OVER") = (contract[b].status = "ON_RENT")
       /\ contract[b].status = "ON_RENT" =>
            /\ contract[b].vehicle = booking[b].vehicle /\ booking[b].vehicle # None
            /\ vehicle[booking[b].vehicle] = OnRent
  /\ \A v \in Vehicles :
       /\ vehicle[v].hold # None => KeysOut(vehicle[v].hold) /\ booking[vehicle[v].hold].vehicle = v
       /\ vehicle[v].status = "ON_RENT" => \E b \in Bookings : OpenOn(v) = {b}

\* Ticks from now on in which a vehicle is promised to somebody: a rental until
\* its planned end, and maintenance.  A handover that awaits its receipt is not
\* among them: receive() moves whoever is in its way.
Ahead(S) == {t \in S : t >= now}
Promised(v) ==
  (UNION {Ahead(Days(booking[b])) : b \in OpenOn(v)})
    \cup (IF vehicle[v].status = "MAINTENANCE" THEN Ahead(Span(vehicle[v].since, vehicle[v].until)) ELSE {})

LiveApproved == {b \in Live(booking) : booking[b].status = "APPROVED"}

\* No vehicle is promised twice: approved bookings are moved whenever a receipt
\* or a repair takes their vehicle, and never overlap one another.
NoDoubleBooking ==
  \A b \in LiveApproved :
    LET v == booking[b].vehicle IN
    /\ v \in fleet
    /\ Ahead(Days(booking[b])) \cap Promised(v) = {}
    /\ \A c \in LiveApproved \ {b} : booking[c].vehicle = v =>
         Ahead(Days(booking[b])) \cap Days(booking[c]) = {}

\* "Requests too occupy capacity, first come first served, until they are
\* approved" (app/availability.py:83-84): whatever was accepted after them,
\* there is a vehicle for every live request and booking at once.
RequestsKeepCapacity ==
  LET live == Live(booking)
      promised == [v \in Vehicles |-> Promised(v) \cup
                     UNION {Ahead(Days(booking[b])) : b \in {c \in Bookings : vehicle[v] = HeldFor(c)}}]
  IN \E a \in [live -> fleet] :
       /\ \A b \in live : /\ booking[b].onsite \in {None, a[b]}
                          /\ Ahead(Days(booking[b])) \cap promised[a[b]] = {}
       /\ \A b, c \in live : b # c /\ a[b] = a[c] => Ahead(Days(booking[b])) \cap Days(booking[c]) = {}

\* "A physical handover hold survives reservation expiry" (app/receipt.py:1):
\* only the receipt of that very booking or a recovery ends a hold.
HoldOutlivesExpiry ==
  [][\A v \in Vehicles : LET b == vehicle[v].hold IN
       b # None /\ vehicle'[v] # vehicle[v] =>
         \/ vehicle'[v] = OnRent /\ booking'[b].status = "HANDED_OVER" /\ now < Deadline(booking[b])
         \/ vehicle'[v] = Available /\ booking'[b].status = "CANCELED"]_vars

CanReceive(b) == booking[b].status = "HANDOVER_PENDING" /\ now < Deadline(booking[b])
ReceiptFits(b) ==
  LET v == booking[b].vehicle IN
  Plans(booking, Live(booking), [vehicle EXCEPT ![v] = Available], Needs(v, now, booking[b].end)) # {}

\* Customers who wait for each other: a held vehicle counts as taken for good, so
\* one pending receipt may block another, but never do they all.
SomeReceiptIsPossible ==
  (\E b \in Bookings : CanReceive(b)) => \E b \in Bookings : CanReceive(b) /\ ReceiptFits(b)

\* "The customer checks HANDOVER_PENDING and canReceive=true and calls receive"
\* (docs/frontend-qr-onsite-receipt-handoff-2026-11-03.md:159): where view() says
\* canReceive, receive() has a feasible assignment.
ReceiptStaysPossible == \A b \in Bookings : CanReceive(b) => ReceiptFits(b)

\* No on-site request and no handover outlives its day for long.
EveryDeadlineEnds ==
  \A b \in Bookings :
    (booking[b].status = "HANDOVER_PENDING" \/ (booking[b].onsite # None /\ booking[b].status = "REQUESTED"))
      ~> (booking[b].status \notin {"REQUESTED", "APPROVED", "HANDOVER_PENDING"})

\* The custody protocol this module implements, and what it knows of a vehicle.
Holder(v) ==
  IF vehicle[v].hold # None THEN [place |-> "KEYS", booking |-> vehicle[v].hold]
  ELSE IF vehicle[v].status = "ON_RENT"
       THEN [place |-> "ROAD", booking |-> CHOOSE b \in Bookings : OpenOn(v) = {b}]
  ELSE [place |-> "SHOP", booking |-> None]

Custody == INSTANCE VehicleCustody WITH
  holder <- [v \in Vehicles |-> Holder(v)],
  prepared <- {b \in Bookings : booking[b].handed}

\* Every step of the endpoints and timers is a step, or a stutter, of it.
ImplementsCustody == Custody!Spec
=============================================================================
