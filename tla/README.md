# Nadree rental backend: verification project

TLA+ models of the Nadree backend (`src/app`, `src/chat/functions`): a FastAPI
service through which the shops of a motorbike rental business and their
customers book, hand over, pay for and return vehicles. The service keeps its
state in MySQL (READ COMMITTED, `SELECT ... FOR UPDATE` row locks, `GET_LOCK`
named locks), takes money through PayPal, keeps chat rooms in Firestore and
sends pushes through FCM. Several processes run side by side: API workers,
systemd timers (`deployment/*.timer`), a cron job and the Firebase functions.

The models are written from the code. TLC checks them on small instances; TLAPS
proves safety for every size, module by module (section 7).

| file | what it is |
| --- | --- |
| `RequestRegister.tla` | what a customer may conclude about a request key |
| `OnsiteRequest.tla` | the ledger of on-site requests that implements it |
| `OnsiteRequest_proofs.tla` | proofs of its invariants and of the implementation |
| `RefundRecovery.tla` | one payment's refund: cancellation, attempts, webhooks, PayPal |
| `RefundRecovery_proofs.tla` | sums over refunds, and proofs of its safety |
| `VehicleCustody.tla` | what handover, receipt and return promise about a vehicle |
| `Rental.tla` | the life of rentals at a shop, with vehicle assignment |
| `Rental_proofs.tla` | proofs of its agreement of tables and of the custody protocol |
| `BookingLedger.tla` | what a booking's payment promises about money |
| `BookingLedger_proofs.tla` | what follows from the ledger alone |
| `Checkout.tla` | the online payment of a booking: orders, captures, settlement, deadline |
| `Checkout_proofs.tla` | proofs of its safety and of the ledger |
| `Shops.tla` | members of two shops, and the deletion of accounts and shops |
| `Shops_proofs.tla` | proofs of its safety |
| `Accounts.tla` | sessions, tokens, push token and chat session of one account |
| `ChatRooms.tla` | the chat rooms of a customer and a shop, and their retention |
| `ChatPush.tla` | the delivery of one chat message to its recipients |
| `ChatPush_proofs.tla` | proof of its bound on deliveries |
| `Services_proofs.tla` | proofs about Accounts and ChatRooms, and about the four side by side |
| `MC*.tla`, `*.cfg` | the instances TLC checks |

## 1. Inventory

For each part: its state, its operations, who it works with, what is hard about
it, and what makes it correct.

**On-site request outcomes** (`onsite_requests.py`, the request endpoints of
`customer_qr.py`, the named lock of `db.py`). State: the ledger
`MSP_RENTAL_ONSITE_REQUEST` (key, fingerprint, PROCESSING / ACCEPTED /
REJECTED) and `client_request_id` of a reservation. Operations: submit, status,
close. Hard: the intent commits before the booking, so the row locks are gone
and only the connection's named lock covers the gap; calls are repeated,
delayed, lost; the status endpoint reads three things without a lock. Correct
when a rejection is final, a booking is final, and a customer who follows
`canStartNewRequest` gets one booking.

**Rental operations** (`rentals.py`, `customer_rentals.py`, `customer_qr.py`,
`receipt.py`) and **vehicle assignment** (`availability.py`,
`rental_common.py`). State: `MSP_RESERVATION`, `MSP_RENTAL_CONTRACT`,
`MSP_VEHICLE_STATUS`. Operations: request, approve, reject, cancel, hand over,
receive, return, recover, and two expiry timers. Every operation that takes
capacity locks the shop row and solves an assignment of vehicles to bookings.
Hard: customer confirmation races the end of the day; an expired handover still
has its keys outside; bookings are reassigned under the feet of a handover.
Correct when the three tables agree, no vehicle is promised twice, and a
request that was accepted keeps its place.

**Vehicles, QR codes and transfer** (`vehicles.py`). State: fleet membership,
maintenance, QR codes and their history, sensors. Operations: create, repair,
transfer, detach. Hard: each must leave the shop's assignment feasible.

**Checkout** (`customer_rentals.py:880-1072`, `payment_attempts.py`,
`payment_recovery.py`, `reservation_payments.py`, the order and capture part of
`paypal.py`). State: `MSP_RENTAL_PAYMENT`, PayPal's orders and captures.
Operations: order, capture, webhook, reconciliation, payment expiry. Hard: the
capture is checkpointed, its answer may be lost, the customer may pay again, and
the deadline timer may expire the booking meanwhile. Correct when one capture
of a booking is kept and every other is refunded.

**Refunds** (`refunds.py`, `refund_recovery.py`, `payment_policy.py`, the refund
part of `paypal.py`). State: the refund columns of a payment and the durable
attempt (JSON), the processed webhook events, PayPal's refunds. Operations:
cancellation, `execute_refund()` from a background task, the timer or an
operator, webhook. Hard: two transactions around a request to PayPal, retries
with PayPal's 45-day idempotency, webhooks that are late and repeated. Correct
when no money is refunded twice, what is shown is true, and no request is
forgotten.

**Account deletion** (`account_deletion*.py`). State: a Firestore request with
an owner claim, the SQL gate `deletion_request_id` of a shop. Operations:
submit, reconfirm, withdraw, worker run, operator action. Hard: Firestore is
written before SQL; work may start while the gate goes up. Correct when a gated
shop accepts no new work and a request ends done, withdrawn or visibly stuck.

**Sessions** (`auth.py`, `security.py`, `firebase_auth.py`, `headers.py`).
State: refresh tokens with their hash and revocation, `user_access_revoked_at`.
Operations: login (revokes the other device), refresh (rotates), logout,
account deletion. Hard: rotation races logout; chat access, in Firestore, is
revoked before SQL commits.

**Chat rooms** (`chat_core.py`, `chat.py`, `chat_sync.py`, `chat_retention.py`).
State: rooms, members, messages and cursors in Firestore. Operations: ensure,
send, read, synchronise a booking, block, purge. Hard: synchronisation of an
older status arrives late.

**Chat push** (`chat_push.py`, `chat_push_endpoint.py`,
`chat_push_dispatch.py`). State: the push event with frozen recipients, attempt
count and outcome. Hard: the function, the endpoint and the scheduler deliver
the same event; a crash between send and checkpoint sends again.

**Notifications** (`fcm.py`, `notifications.py`, `mail.py`). Pushes queued on
the session and sent after its commit, at most five tries in an hour, to the
recipients whose token is still the same; an inbox keyed by event.

**Shops, administrators, onboarding** (`management.py`, `admin_signup.py`,
`admin_customers.py`, `merchant_accounts.py`, `paypal_onboarding.py`). State:
spots, roles, scopes, one-time invite codes, join requests, PayPal merchants.
Hard: a shop has exactly one primary administrator, whatever sign-ups,
approvals, role changes and removals meet.

**Prices and delivery** (`pricing.py`, `delivery.py`): tiers per engine size;
pure functions and single-statement updates.

**Read models, passports, locations, schema, shell** (`readmodels.py`,
`passport.py`, `locations.py`, `migrate.py`, `rental_schema.py`,
`schema_check.py`, `main.py`, `config.py`, `errors.py` and the request and
response shapes): queries, object storage, one-off DDL, routing.

`PROJECT.json` lists the hazards one by one, at the line where each bites.

## 2. OnsiteRequest

| variable | in the code |
| --- | --- |
| `ledger` | `MSP_RENTAL_ONSITE_REQUEST`: state and request fingerprint per key |
| `booked` | reservations by the unique `client_request_id` |
| `lock` | the connection that owns the key's `GET_LOCK` |
| `call` | the call each server connection carries, between its transactions |
| `told` | every answer that reached the customer |
| `current` | the key the customer's app is using |

`RequestArrives`, `AlreadyBooked`, `StartRefused`, `Start`, `Book`, `Refuse` and
`Fault` are the paths of the submit handler: the lookup and `start()` up to the
commit of the intent, then the booking and `accept()` in one transaction, or a
rollback and `reject()` in another. `CloseArrives`/`Close` and
`PollArrives`/`Poll` are the other two endpoints, the poll with a step per
read. `Crash` ends any call at any step: what is not committed is rolled back
and the connection's lock is freed. `Busy` is a call that finds the key locked.
`NewKey` is the app, which gives a key up only where `canStartNewRequest` lets
it. What the booking itself needs is abstracted to "it may be accepted or
refused"; `Rental` has it.

`RequestRegister` is the abstract specification: per key a decision that is
OPEN, ACCEPTED or REJECTED and changes once, and answers, of which ACCEPTED and
REJECTED may be given only when they are true. The refinement takes a key's
decision from the two tables and nothing else, so a handler's plans do not
count until they are committed.

Run `OnsiteRequest` (2 keys, 2 bodies, 3 connections, symmetric): type
correctness, `ClosedKeyNeverBooks`, `LedgerMatchesBookings`,
`OneBookingPerPurchase`, `ImplementsRegister`. Two keys are a purchase given up
once, three connections a repeat, a close and a poll at once. Init admits a
booking without a ledger row, which is what the migration leaves behind for
older bookings.

Run `OnsiteRequestLive` (1 key, 2 bodies, 2 connections): under fairness every
committed intent is decided. Fairness: a handler that has begun returns (it has
no unbounded loop and its calls time out); the customer who has no final answer
keeps closing the key, as the hand-over document tells the app to, and not every
one of those attempts is killed before its commit.

**Proved** (`OnsiteRequest_proofs`), for any number of keys, bodies and
connections: the five properties of the run, and `DecisionIsPermanent`, which
says of the ledger's rows what the register says of decisions. The inductive invariant
adds to `TypeOK` and `LedgerMatchesBookings`:

- `LockIsHeld`: a call that may write has the named lock of its key;
- `StartedKeyIsUntouched`: between `Start` and `Book` the key has a PROCESSING
  row with the call's fingerprint and no booking. This is what the named lock
  is for, as the intent's commit has released every row lock;
- `AnswersAreTrue`: ACCEPTED and REJECTED, told or about to be told, agree with
  the tables;
- `KeysInOrder`: every key before the current one was rejected, every key after
  it is unused.

`OneBookingPerPurchase` needs the last two together: a second booking would be
of an older, hence rejected, key.

## 3. RefundRecovery

One captured payment. `Cancel` is `prepare_booking_refund()` in the transaction
of the cancellation. `Checkpoint` and `GiveUp` are the first transaction of
`execute_refund()`; `Answered`, `NotAnswered` and `Overtaken` the second, which
holds the row lock while it talks to PayPal; `Crash` a process that dies
between or in them, before or after PayPal acted. `ReadRefund`, `ReadCapture`
and `ProcessEvent` are a webhook delivery: the snapshot's two reads and the
transaction that applies it. PayPal is modelled from how the code uses it: it
remembers an identity until `PayPalForgets`, refunds no more than was captured,
and a refund may stay PENDING and complete or fail later. The seller may refund
in PayPal's dashboard, and a release may change the payment deadline (the
constant `PAYMENT_DEADLINE` of `payment_policy.py`, 72 hours), which makes a
settled capture late.

`waiting` and `old` abstract the clocks of the attempt: whether `retryAt` is in
the future and whether `startedAt` is 44 days back. Amounts are whole shares of
the price.

Runs:

- `RefundRecovery` (price 2, customer's share 1, two tries, two identities, two
  workers, one webhook): `RefundsWithinTarget`, `OneRefundPerKey`,
  `RefundedIsBacked`, `FreshKeyOnlyAfterOutcome`. Two workers let a retry
  overtake a call that hangs between its transactions; two identities let a
  second request follow a first that failed, or one for a raised target.
- `RefundSeller` (one identity, one dashboard refund): `CompletedIsPaid` and
  `RequestedHasBalance`, where refunds exist that this code did not ask for.
- `RefundLive` (price 1): a REQUESTED refund is completed or handed to an
  operator (`manualRequired`). Fairness: the timer calls `retry_refunds()`
  every run (`jobs.py`), calls return, `retryAt` passes, PayPal delivers an
  event again until it is acknowledged.
- `RefundBalance` finds `BalanceIsRequested` violated: see section 8.

The runs do not check for deadlock: a refund may be settled for good.

**Proved** (`RefundRecovery_proofs`), for any amounts and any number of
identities, tries, dashboard refunds, callers and webhooks: every safety
property of the three passing runs. The properties compare sums over PayPal's
refunds. A sum is the fold of the community modules; that the fold exists, and
what one more element adds to it, is proved by a least subset on which the claim
would fail, as induction over data is not available. The inductive invariant
`RefundInv` is stated for a list of refunds, so that an answered request is two
moves: PayPal's list changes and the row does not, then the row learns and the
list does not. Its parts beyond the types:

- `KeysInv`: an identity PayPal has forgotten is never sent again. An attempt
  gives its identity up after 44 days and PayPal keeps it for 45, so what is
  forgotten belongs to an old attempt or to a caller that knows its refund;
- `RowInv`: what the status says of target and refunded amount;
- `PayPalInv`: the refunds add up to no more than the payment, one for each
  identity;
- `AttemptInv`: the refunds of the current identity have the attempt's amount,
  and its base is money the others returned;
- `OthersInv`: every request under another identity has its outcome, and what
  completed is counted. This is what "unknown results never get a fresh key"
  comes to, and `RefundsWithinTarget` rests on it;
- `ReportsInv`, `BackedInv`: a webhook reports what PayPal has, and no more than
  PayPal returned is on record.

One theorem goes beyond the runs: `FinishedRefundsStay`. The amount returned
never falls, a target only rises, to the whole price, when the payment turns out
late, and a refund that is COMPLETED or NOT_REQUIRED under its target stays so,
although every webhook computes the status anew and events come late and
repeated. `RowMoves` reduces the steps to four kinds (an attempt, a
cancellation, a report, none of these); the induction needs one more fact, that
NOT_REQUIRED is the status of exactly the rows with nothing to return
(`NothingIsNotRequired`).

Read with these in mind: a refund the seller made that FAILED leaves the row
FAILED when there is no attempt, and nothing resumes it; REVERSED payments are
outside the module; what raises the target is a late or a duplicate capture.

## 4. Rental

One shop and one model of vehicle, all in one price group, so any vehicle may
replace any other. `now` counts ticks, `DayLength` of them a day; deadlines are
the end of the local day, as in the code.

An operation that takes capacity (request, approve, hand over, receive, return,
repair, transfer, recover) locks the row of the shop in `MSP_SPOT_MASTER` at
its start, hence one atomic step each. A customer's cancellation and the timers
do not take that lock; they lock the reservation rows and are steps of their
own. `Plans` is what `compute_assignment()` may return: every feasible
assignment, for the solver stops at a time limit with any that it has, and only
preferences tell them apart. `Apply` is `apply_assignments()`.

Not in this module: payments (whether `ExpireUnpaid` is due is left open),
passports, locations, delivery. The dates of an ended booking are dropped, as
nothing reads them. OVERDUE is read by the code but written by none of it.
LOCKED is set by the handover only, so no live booking has it.

`VehicleCustody` is the abstract specification: each vehicle is at the shop, or
its keys are out for a booking, or it is on the road for one; a booking takes a
vehicle once. `ImplementsCustody` maps the vehicle's state and the open
contracts to it.

Runs:

- `Rental` (2 vehicles, 2 bookings, 2 days of 2 ticks, transfers): type
  correctness, `RecordsAgree`, `HoldOutlivesExpiry`, `ImplementsCustody` and,
  under the fairness of the clock and of the receipt timer (every minute,
  `deployment/nadree-receipts.timer`), `EveryDeadlineEnds`. Two ticks put a
  receipt and a deadline on both sides of an hour in the day.
- `RentalCapacity` (3 bookings, 3 days, no transfers): `NoDoubleBooking`,
  `RequestsKeepCapacity`, `SomeReceiptIsPossible`. Three bookings on two
  vehicles over three days are the least in which moving one booking makes
  place for another. `NoDoubleBooking` says nothing of a handover that awaits
  its receipt: an approved booking may stay planned on that vehicle until
  `receive()` moves whoever is in its way. `RequestsKeepCapacity` counts it.
- `RentalReceipt` and `RentalMove` find the two divergences of section 8.

The runs do not check for deadlock: days and bookings run out.

**Proved** (`Rental_proofs`), for any fleet, any bookings and any length of days:
`TypeOK`, `RecordsAgree`, `HoldOutlivesExpiry` and `ImplementsCustody`. The
inductive invariant adds `HandedAgrees` to the first two: `handed_over_at` is
empty before the handover and set during it. Without it an expired request
could not be told from an expired handover, whose keys are still out. The
argument goes by kinds of steps: `StepsHaveKinds` shows every operation and
timer to be a handover, a receipt, a return, a recovery, or `Quiet`, that is, it
leaves every booking's keys and rental and every vehicle's place as they are;
the four theorems then need five cases each instead of seventeen. What the
solver answers enters by `ApplyEffect` alone: an assignment touches approved
bookings, none of which has keys out.

`NoDoubleBooking`, `RequestsKeepCapacity` and `SomeReceiptIsPossible` are proved
too. Their inductive invariant adds `DatesInv`: a booking starts before its end,
which is the end of a day; a pending handover's booking and an open rental have
started, and a returned one lies in the past. A step then does one of three
things to the assignment that exists before it:

- it finds a feasible one of all live bookings: a request, an on-site request,
  an approval, a receipt, a repair; the last three also write down the part of
  the approved bookings (`Placed`), which keeps them apart;
- it promises a vehicle it has looked at (`HandOver`, `WalkIn`), and tests that
  the receipt it makes possible still fits;
- it only makes room (`Loosening`): a rejection, a cancellation, an expiry, a
  return, a recovery or the clock. A feasible assignment stays feasible.

`SomeReceiptIsPossible` is needed for `RequestsKeepCapacity`, because a handover
holds its vehicle against every other plan until the receipt ends the hold: that
one receipt fits means that all live bookings fit. All pending receipts have one
deadline, the end of the day, and no rental runs out before it.

The last two assume `Moves = FALSE`, no transfer of vehicles to another shop.
With transfers they are false, by the divergence that `RentalMove` finds.
`NoDoubleBooking` needs no such assumption.

An approved booking paid outside the app whose start passes without a handover
keeps its place until its end; nothing expires it.

## 5. Checkout

One approved booking, its rows of `MSP_RENTAL_PAYMENT` and PayPal's order and
capture of each. `OrderBegin`/`OrderFinish` and `CaptureBegin`/`CaptureFinish`
are the two transactions of the two endpoints: the first commits what will be
asked (`order_requested_at`, `capture_requested_at`), the second locks the
booking again, repeats the checks and asks. `calls` has the second transactions
that are still to come, so a call that dies or hangs is one that stays there.
A PayPal request whose answer was lost stays in `sent` and may act later
(`LateCapture`).

`Read` and `Process` are a webhook or a visit of the reconciliation that others
overtake: the snapshot of PayPal is taken before the row is locked. `Deliver`
is one that nothing overtakes. Both end in `Apply`, which is `process_event()`:
the row as reported, the money kept or owed back, the older payments looked at
first. `ExpireUnpaid` is the payment deadline, `CustomerCancels` and
`ShopCancels` are `prepare_booking_refund()`, `HandOver` is the check of
`paid_booking_payment()`. `Inherited` is a payment older than the checkpoint
columns. PayPal is modelled from what the code asks of it.

Run `Checkout` (two payments, one delivery that is overtaken):

- `NoSecondCharge`: no step makes PayPal charge a booking it charges already.
  Two payments are the least for it; lost answers, a capture that arrives after
  its caller has given up, a reversed approval and five-hour-old attempts are
  the ways to get there.
- `OriginalIsKept`: of two charges the earlier is the one that is kept, in
  whatever order they are reported.
- `ExpiredWasUnpaid`: the timer ends a booking only when nothing in time was
  paid or is under way.
- `ClosedBookingsOwe`: money of a booking that is over is asked back, by the
  exception's rule or by the policy of the cancellation.
- `HandedOverIsPaid`: exactly one good payment stands against a handover.
- `ChargesAreSettled`: every completed capture reaches its row. Fairness: the
  reconciliation (`payment_recovery.py`, a cron job) visits every unsettled
  order again and again, strongly fair because a row leaves and enters its
  query; PayPal decides pending captures and drops orders that are not
  captured. Webhooks may all be lost.
- `ImplementsLedger`: the module implements `BookingLedger`.

`BookingLedger` is the abstract specification. A charge is NONE, OPEN (made or
being decided at PayPal), KEPT as the booking's payment, or RETURNED. One is made
at a time; one made in time pays; every other is given back in full; what is owed
of a charge is set when it is settled or, for the payment, when the booking is
cancelled, once; the booking is delivered only with its payment and expires
only without a charge in time. The mapping at the end of `Checkout` reads the
charge from PayPal's capture and the row's flags, what is owed from
`refund_requested_amount`, and the stage from the reservation. Most of what the
code does is a stutter of the ledger: checkpoints, orders, requests whose answer
is lost, snapshots, repeated deliveries.

**Proved** (`Checkout_proofs`), for any number of payments: `ImplementsLedger`
and the other safety properties of the run. The invariant (`CheckoutInv`) says
what may still be charged. An order is created or captured only when every other
attempt of the booking is dead: no order, one PayPal dropped, or a declined
capture. A request whose answer was lost can capture only if nothing else can
(`SentAlone`), and two live charges are the two inherited without a checkpoint
(`TwoAreInherited`). `RowsAreRight` and `OneIsKept` then say that a row tells
the truth of its capture, that one charge at most is kept, and that a later
charge was settled only when the fate of the earlier was known;
`ReadersAreRight` that an overtaken delivery still reads true. `NullAssumption`
says that NULL is neither an amount nor a snapshot.

The refinement (`CheckoutImplementsLedger`) takes one lemma for each kind of
step: a capture charges (`CapturesCharge`), with no other charge there by the
argument of `NoSecondCharge`; a delivery settles one charge and touches no settled
one (`SettlesOnce`, `PaidRowsStay`); a cancellation sets what is owed of the
payment (`CancelsOnce`); the deadline and the handover need `ExpiredWasUnpaid`
and `HandedOverIsPaid`. It needs one more part of the invariant,
`NothingIsOwedYet`: before a cancellation only what is to be returned in full has
a target, so that no cancellation overwrites one. `BookingLedger_proofs` shows
of the ledger alone that one payment is kept and that every charge is settled
for good; by the refinement that holds of the rows too (`ChargesAreSettledOnce`):
whether a settled charge is kept or returned, and what is returned of it, no
later webhook or cancellation changes. This target is where `RefundRecovery`
starts.

Not in this module: REVERSED payments, rows without order id that are older
than `order_requested_at`, `WebhookReplayGuard` and signatures, the re-validated
price. A reversal of the approval that is delivered after the payer approved
again is a delivery that read the order before; that it may learn of a new
capture as well is left out. What a requested refund becomes is in `RefundRecovery`.

Read with these in mind: a CREATED row whose order creation died stays unproven
after five hours and waits for an operator; an approved order that PayPal lets
lapse blocks a new payment until the deadline; a booking with a refunded
duplicate is refused at the handover even when its original payment is good,
because every row of it must be free of refunds.

## 6. Services

`MCServices` runs the four modules of this section side by side in one model:
`moving` says whose steps are taken, for they share no state in the code but
what each of them models for itself.

**Shops.** A company with its representative, another administrator, a shop
below another. `SignupWithCode`, `Apply`, `Approve`, `RejectApplicant`, `ChangeRole`,
`RemoveAdmin`, `Leave` and `DeleteOwn` are the membership operations;
`OpenChat` and `ChatLost` the chat session that is taken back in Firestore
before SQL commits. `Submit` is `submit_deletion()`: the request in Firestore
first, the gate of its shops in SQL after it, or not. `Reconfirm`,
`AskAgain`, `AwaitWork`, `Withdraw`, `WithdrawFails`, `Clean`, `AskReview`,
`Finish`, `Defer`, `Overdue` are the worker (`account_deletion_jobs.py`),
`Resume` and `SettleExternal` the operator; a settlement an operator confirmed
counts for the scope it was confirmed for (`settled`), not for a new one.

`work` is what `outstanding()` counts, by kind: a booking or rental, money to
give back, a rental paid outside PayPal, and, beside what it counts, a payment
PayPal may still report about. `NewWork` is any booking, request or rental a
shop accepts, `EndWork` its end, which may leave a refund or an external
settlement; `PaidBack` a refund that is complete. `ReportedLate` is a capture
that was under way when the shop cancelled its booking (`refunds.py:64` makes
the row CANCELED with nothing to return) and settles later (`paypal.py:532`
then asks for all of it back), or a dashboard refund that is not complete. It
asks neither for an open shop nor for an open gate.

- `ScopesAreDisjoint`: no shop is in two unfinished requests.
- `GateHasRequest`: a gate in SQL has its request in Firestore, or it is
  completed.
- `ClosedShopsAreIdle`: a shop whose request took effect, and every shop below
  it, is closed and has no booking, rental or staff, though bookings are
  accepted until the gate is up and again after a reconfirmation. It says
  nothing of money, which may be owed again afterwards.
- `ChatIsBacked`: a chat session has a member behind it.

**Accounts.** One account of an administrator or a customer. A call reads the
account, locks it and reads again: `calls` has those that have only read, so a
login, a logout or a withdrawal may come in between, and a repeated call may be
under way twice. The actions are the endpoints; what Firebase was told before a
transaction fails stays told (`WithdrawCustomer`, `LoseChat`). A customer's
identity goes before the chat session, so a withdrawal that fails between the
two leaves the session.

- `RefreshTokensWork`: the refresh token an app was given last is good as long
  as the session.
- `WithdrawnStaysOut`: nothing of a withdrawn or removed account comes back.

**ChatRooms.** Rooms of one customer and shop. `EndBegin` is the block mark
that precedes the commit of a termination, `EndFinish` the commit or the
rollback; `Sync` runs after a commit or in the reconciliation, with the
booking's row locked. `PurgeBegin` … `PurgeFinish` are the steps of
`purge_booking()`, `PurgeCrash` leaves it anywhere.

- `NoWritesAfterTheEnd`: no message in a room whose booking has ended.
- `NothingIsOrphaned`: what is below a deleted room can be found again.

**ChatPush.** One message. Two callers (the function's endpoint and the
scheduler) take the event's lock, freeze the recipients, record the inbox row,
put the attempt on record, send, and record the answers; they may die anywhere
and the provider may have accepted what nobody heard of. Recipients leave their
context; the retention job deletes the event; `EraseRead` and `EraseWrite` are
the erasure of an administrator's traces, which takes no lock. A caller judges
by the copy it read whether the recipients are frozen (`Start`), so `Freeze`
writes over what the erasure of the sender (`EraseSender`) wrote in between.

- `PushesAreBounded`: a recipient gets the message again only when its
  acceptance is unknown to the event, and no more often than there are attempts
  unless an erasure has written older rows back.

Run `Services` (two administrators, two shops of which the branch trades, two
requests; two logins, three
tokens, two calls; two bookings, three rooms; two recipients, two callers, two
attempts). Two of each is the least for one to overtake the other; three tokens
let a rotation follow a rotation, three rooms let an inquiry follow two
bookings. Work at the branch is enough: it is in the scope of the company's
request and of its own representative's, and reports of either shop's money are
the same step. It does not check for deadlock: requests, rooms and attempts run out.

Read with these in mind: `outstanding()` makes a withdrawal wait for refunds, as
`docs/admin-privacy-server-apply-2026-11-06.md:65` says, but a capture under way
at the shop's cancellation is none yet, and becomes one at a shop that may be
closed by then; the refund timer pays it all the same, as it asks for no shop. A
customer's access token outlives a new login of
another device, so the older device may take the push token back; a logout or a
withdrawal that was delayed past a new login ends that one too; a profile update
without a push token takes no lock and may write a name back after a
withdrawal; the receipt deadline ends a booking without the block mark, so its
room is writable until it is synchronised (`LapseReceipt`, which
`NoWritesAfterTheEnd` leaves out); a dispatcher that holds an older copy may
write an erased recipient back.

**Proved** (`Shops_proofs`), for any accounts, tree of shops and number of
requests: the four. The owner of a request loses the role only by its
withdrawal, so the role tells whether the withdrawal took effect, and the
invariant (`ShopsInv`) splits on it. Until then the owner stands and the scope
can only grow (`OwnersBelong`, `OwnersStand`). Afterwards nobody of it can come
back, as the shops they would have to join are gated (`MembersAreOut`), and
below a gate there is no booking (`GoneIsIdle`); what PayPal reports changes
neither. A gate in SQL belongs to a shop of its
request or to a completed one (`GatesAreHeld`). A by-product: the branch of a
reconfirmation that opens shops left out of the new scope never finds any.

**Proved** (`Services_proofs`), for any number of logins, tokens and calls:
`OneDevice`, `RefreshTokensWork`, `WithdrawnStaysOut`. The inductive invariant
adds `Latest` (a live session is the last login's, and tokens are of past
logins), `ChatOfSession` and `StaysOut` (a withdrawn customer has no Firebase
account and no access token younger than `user_access_revoked_at`): without it a
call that was admitted before could bring the account back. Steps are a sign-in,
a rotation, or one that `Lessens` what is live.

**Proved** (`Services_proofs`), for any bookings and rooms:
`NoWritesAfterTheEnd`, `RoomsHaveOneOwner`, `NothingIsOrphaned`. The inductive
invariant says of each room that the link of its booking leads back to it while
there is something to find (`RoomOK`), of each booking that an end under way or
committed is marked in its link and that a deletion under way has its room
(`BookingOK`), and that the current inquiry is an inquiry (`InquiryOK`). The
lock of the booking's row enters in `SyncKeeps`: a synchronisation never runs
between the mark and the commit.

**Proved** (`ChatPush_proofs`), for any recipients, callers and attempts:
`PushesAreBounded`. The invariant (`PushInv`) says that only the holder of the
event's lock has a copy (`OneHolds`), that nothing was heard of an event whose
recipients are not frozen, in itself or in the copy a caller is about to judge by
(`NotFrozenYet`), that what a recipient heard is in the event, in the
hands of the caller that was told, or lost with one (`AcceptedIsKnown`), and that
the caller's copy is never behind the event (`CopiesAreAhead`) nor an erasure's
ahead of it (`EraserIsBehind`). `AttemptsCount` gives every hearing an attempt of
its own as long as no erasure wrote older rows back.

Also in `Services_proofs`: a behaviour of the model of all four is a behaviour of
each (`ServicesAreApart`), so that every safety property the run checks
(`ServicesAreSafe`) and the types (`ServicesAreTyped`) hold of the specification
the run uses. That the four share no variable is a statement about the models;
where their code meets, as a withdrawal ends sessions and chat access, each
module has its own picture of it.

## 7. What is proved and what is only checked

Proved, for every value of the constants: the theorems of sections 2 to 6, which
PROJECT.json lists. They state every safety property that a passing run checks,
and the three refinements.

Model-checked only is liveness (`EveryDeadlineEnds`, `RefundIsResolved`,
`ChargesAreSettled` and `EveryIntentIsDecided`): fairness and ENABLED are
outside the reach of the prover. The divergences of section 8 are
counterexamples TLC finds.

The assumptions of the proofs are the named `ASSUME`s of the modules: bounds are
natural numbers, and NULL is no value. Two theorems of section 4 also assume that
no vehicle is transferred.

Not modelled: prices and delivery fees (pure functions), read models, passports
and locations, merchant onboarding, business notifications (best effort, in
memory), one-off migrations, MFA, rate limits and webhook signatures.

## 8. Where the code and its documents differ

1. `RefundBalance`: after a dashboard refund and a later cancellation, the
   balance is REQUESTED and never asked for, because the row has a
   `paypal_refund_id` and no attempt (`refund_recovery.py:34`).
2. `RentalReceipt`: `canReceive` may be shown while `receive()` has no feasible
   assignment, because another vehicle that awaits its own receipt counts as
   taken for good (`availability.py:111`).
3. `RentalMove`: a transfer looks at assigned vehicles only, so it can take
   away the capacity a pending request was accepted for (`vehicles.py:224`).

## 9. Plan

Done: every module of the table above, with the proofs of section 7. Open:

1. Pricing as operators: effective tiers against the price of every engine
   size.
2. One model of Checkout and RefundRecovery. Today they meet in the target: the
   ledger shows it is set once, `RefundRecovery` starts from it and shows that
   no more is returned and that a finished refund stays finished.
