------------------------------ MODULE Checkout ------------------------------
(***************************************************************************)
(* The online payment of one approved booking: the orders and captures a   *)
(* customer asks for (app/customer_rentals.py, app/payment_attempts.py),   *)
(* the webhooks and the reconciliation that settle them (app/paypal.py,    *)
(* app/payment_recovery.py), the payment deadline (app/jobs.py), the       *)
(* cancellations (app/refunds.py), the handover's payment check            *)
(* (app/reservation_payments.py), and PayPal.                              *)
(*                                                                         *)
(* /payment/order and /payment/capture are two transactions each: the      *)
(* first records what will be asked and commits, the second locks the      *)
(* booking again, re-checks everything and asks PayPal.  A webhook or the  *)
(* reconciliation reads PayPal before it locks anything.  What PayPal is   *)
(* asked inside a transaction is final or needs the locks it holds, so a   *)
(* transaction with its reads is one step.  What becomes of a refund once  *)
(* it is requested is in RefundRecovery.                                   *)
(***************************************************************************)
EXTENDS Naturals, FiniteSets, FiniteSetsExt

CONSTANTS
  MaxPayments,  \* bound: rows of MSP_RENTAL_PAYMENT of the booking
  Readers,      \* webhook deliveries and reconciliations that others overtake
  None          \* SQL NULL; no snapshot

ASSUME CheckoutAssumption == MaxPayments \in Nat \ {0}

VARIABLES
  booking,   \* reservation_status; NOT_RECEIVED is EXPIRED after a handover
  overdue,   \* the payment deadline has passed
  pay,       \* the rows, by payment_id
  old,       \* rows whose order or capture was first requested 5 hours ago
  calls,     \* calls between their two transactions; of several alike, one
  reader,    \* PayPal's state as a delivery has read it
  order,     \* PayPal: the order of a payment
  capture,   \* PayPal: the capture of an order; late: created after the booking ended
  sent       \* capture requests whose answer will never be seen

db == <<booking, overdue, pay, old>>
paypal == <<order, capture, sent>>
vars == <<db, calls, reader, paypal>>

Payments == 1..MaxPayments
Shares == {"NOTHING", "PART", "ALL"}   \* 0, 90 and 100 percent of the price
Exceptions == {"LATE_CAPTURE", "DUPLICATE_CAPTURE"}

\* orderId, captureId: known to the row.  captureAsked: capture_requested_at.
\* paid: paid_at.  target: refund_requested_amount.  percent: refund_percentage.
Row == [status : {"NONE", "CREATED", "PENDING", "PAID", "FAILED", "CANCELED"},
        orderId : BOOLEAN, captureAsked : BOOLEAN, captureId : BOOLEAN, paid : BOOLEAN,
        reason : Exceptions \cup {"NONE"}, target : Shares \cup {None},
        refund : {"NONE", "NOT_REQUIRED", "REQUESTED"}, percent : Shares \cup {None}]

NoRow == [status |-> "NONE", orderId |-> FALSE, captureAsked |-> FALSE, captureId |-> FALSE,
          paid |-> FALSE, reason |-> "NONE", target |-> None, refund |-> "NONE", percent |-> None]

\* REVERTED is PAYER_ACTION_REQUIRED after a reversed approval; GONE is VOIDED,
\* EXPIRED or CANCELED.
OrderStates == {"NONE", "CREATED", "REVERTED", "APPROVED", "COMPLETED", "GONE"}
Alive == {"CREATED", "REVERTED", "APPROVED"}
Capture == [status : {"NONE", "PENDING", "COMPLETED", "DECLINED"}, late : BOOLEAN]
NoCapture == [status |-> "NONE", late |-> FALSE]
Snapshot == [p : Payments, order : OrderStates, capture : {"NONE", "PENDING", "COMPLETED", "DECLINED"},
             reversed : BOOLEAN]

ASSUME NullAssumption == None \notin Shares /\ None \notin Snapshot

Rows == {p \in Payments : pay[p].status # "NONE"}
Open == {p \in Rows : pay[p].status \in {"CREATED", "PENDING"}}
Exceptional(p) == pay[p].reason \in Exceptions
Live(p) == capture[p].status \in {"PENDING", "COMPLETED"}

\* An attempt older than the checkpoint columns: whatever was asked for it
\* was done long ago, and the row does not tell.
Inherited(p, o, c, known) ==
  [row |-> [NoRow EXCEPT !.status = "PENDING", !.orderId = TRUE, !.captureId = known],
   order |-> o, capture |-> [status |-> c, late |-> FALSE]]

\* An approved booking without payments, or with two inherited attempts.
Init ==
  /\ booking = "APPROVED" /\ overdue = FALSE
  /\ calls = {} /\ reader = [r \in Readers |-> None]
  /\ old = {} /\ sent = {}
  /\ \/ /\ pay = [p \in Payments |-> NoRow]
        /\ order = [p \in Payments |-> "NONE"] /\ capture = [p \in Payments |-> NoCapture]
     \/ \E known \in BOOLEAN, c \in {"NONE", "PENDING", "COMPLETED"} :
          LET first == Inherited(1, IF c = "NONE" THEN "APPROVED" ELSE "COMPLETED", c, known /\ c # "NONE")
              second == Inherited(2, "COMPLETED", "COMPLETED", known)
              At(p, a, b, c0) == IF p = 1 THEN a ELSE IF p = 2 THEN b ELSE c0
          IN /\ MaxPayments >= 2
             /\ pay = [p \in Payments |-> At(p, first.row, second.row, NoRow)]
             /\ order = [p \in Payments |-> At(p, first.order, second.order, "NONE")]
             /\ capture = [p \in Payments |-> At(p, first.capture, second.capture, NoCapture)]

-----------------------------------------------------------------------------
\* Guards shared by the operations.

\* inspect_order(): an order that has a capture is never proof of anything.
Inspected(p, states) == capture[p].status = "NONE" /\ order[p] \in states

\* Mutant: an order that can still be paid counts as unpaid.
UnpaidUnlessCaptured(p, terminal) ==
  IF pay[p].captureId THEN capture[p].status = "DECLINED" ELSE capture[p].status = "NONE"

\* confirmed_unpaid(): a row that never got its order id is never confirmed.
ConfirmedUnpaid(p, terminal) ==
  IF pay[p].captureId THEN capture[p].status = "DECLINED"
  ELSE /\ pay[p].orderId
       /\ \/ Inspected(p, {"GONE"})
          \/ ~terminal /\ ~pay[p].captureAsked /\ Inspected(p, Alive \cup {"GONE"})

\* guard_other_attempts()
OthersOK(p) ==
  \A q \in Rows \ {p} : /\ ~pay[q].paid /\ pay[q].status \in {"FAILED", "CANCELED"}
                        /\ ConfirmedUnpaid(q, TRUE)

\* _reservation_for_payment() and _ensure_payment_window()
Payable == booking = "APPROVED" /\ ~overdue

\* The second transaction of a call.  It may be refused, or its process die
\* before it: such a call stays behind and means no more than one not made.
Finishes(op, p) == <<op, p>> \in calls /\ calls' = calls \ {<<op, p>>}

SetRow(p, r) == pay' = [pay EXCEPT ![p] = r]
Fresh(p) == p \notin Rows /\ \A q \in 1..(p - 1) : q \in Rows
Existing(p) == p \in Open /\ \A q \in Open : q <= p

-----------------------------------------------------------------------------
\* POST /payment/order, first transaction.

\* An attempt without an order id is asked for again, under its old identity.
AskAgain(p) ==
  /\ Existing(p) /\ ~pay[p].orderId /\ OthersOK(p) /\ <<"order", p>> \notin old
  /\ UNCHANGED pay

\* The first attempt, or the one after an order that PayPal gave up.
AskNew(p) ==
  /\ Fresh(p)
  /\ LET created == [NoRow EXCEPT !.status = "CREATED"]
     IN \/ Open = {} /\ OthersOK(p) /\ SetRow(p, created)
        \/ \E q \in Open :
             /\ Existing(q) /\ OthersOK(q) /\ pay[q].orderId /\ Inspected(q, {"GONE"})
             /\ ~pay[q].captureAsked /\ pay[q].status = "CREATED"
             /\ pay' = [pay EXCEPT ![p] = created, ![q].status = "CANCELED", ![q].refund = "NOT_REQUIRED"]

OrderBegin(p) ==
  /\ Payable
  /\ AskAgain(p) \/ AskNew(p)
  /\ calls' = calls \cup {<<"order", p>>}
  /\ UNCHANGED <<booking, overdue, old, reader, paypal>>

\* PayPal makes one order of an identity, whether or not its answer arrives and
\* is committed.
CreateOrder(p) ==
  /\ order' = [order EXCEPT ![p] = IF @ = "NONE" THEN "CREATED" ELSE @]
  /\ \E recorded \in BOOLEAN : SetRow(p, [pay[p] EXCEPT !.orderId = recorded])

\* The second transaction.
OrderFinish(p) ==
  /\ Finishes("order", p)
  /\ Payable /\ OthersOK(p) /\ pay[p].status = "CREATED"
  /\ \/ /\ pay[p].orderId /\ Inspected(p, Alive \cup {"GONE"})
        /\ UNCHANGED <<pay, order>>
     \/ /\ ~pay[p].orderId /\ <<"order", p>> \notin old
        /\ CreateOrder(p)
  /\ UNCHANGED <<booking, overdue, old, reader, capture, sent>>

-----------------------------------------------------------------------------
\* POST /payment/capture.

\* The first transaction: a capture is recorded before it is asked for.
CaptureBegin(p) ==
  /\ booking = "APPROVED"
  /\ p \in Open /\ pay[p].orderId /\ ~(pay[p].status = "PENDING" /\ pay[p].captureId)
  /\ OthersOK(p) /\ ~overdue /\ <<"capture", p>> \notin old
  /\ IF pay[p].captureAsked THEN UNCHANGED pay
     ELSE /\ Inspected(p, {"APPROVED"})
          /\ SetRow(p, [pay[p] EXCEPT !.captureAsked = TRUE, !.status = "PENDING"])
  /\ calls' = calls \cup {<<"capture", p>>}
  /\ UNCHANGED <<booking, overdue, old, reader, paypal>>

\* PayPal captures an approved order once, whoever asks and however often.
Captures(p) ==
  /\ order[p] = "APPROVED"
  /\ order' = [order EXCEPT ![p] = "COMPLETED"]
  /\ \E s \in {"PENDING", "COMPLETED", "DECLINED"} :
       capture' = [capture EXCEPT ![p] = [status |-> s, late |-> overdue \/ booking # "APPROVED"]]

\* What the answer makes of the row: only a webhook says that it is paid.
Answered(p) ==
  /\ Captures(p) /\ UNCHANGED sent
  /\ \E s \in {"PENDING", "FAILED"} :
       /\ s = "FAILED" => capture'[p].status = "DECLINED"
       /\ SetRow(p, [pay[p] EXCEPT !.status = s, !.captureId = TRUE])

\* PayPalClient.call() raises when there is no answer: the transaction rolls
\* back, and the request may still be on its way.
Unanswered(p) == sent' = sent \cup {p} /\ UNCHANGED <<pay, order, capture>>

\* The second transaction asks PayPal under its locks.
CaptureFinish(p) ==
  /\ Finishes("capture", p)
  /\ booking = "APPROVED" /\ OthersOK(p)
  /\ pay[p].status = "PENDING" /\ ~pay[p].captureId
  /\ ~overdue /\ <<"capture", p>> \notin old
  /\ Inspected(p, {"APPROVED"})
  /\ Answered(p) \/ Unanswered(p)
  /\ UNCHANGED <<booking, overdue, old, reader>>

Age(kind, p) ==
  /\ IF kind = "order" THEN p \in Rows /\ ~pay[p].orderId ELSE pay[p].captureAsked /\ ~pay[p].captureId
  /\ <<kind, p>> \notin old /\ old' = old \cup {<<kind, p>>}
  /\ UNCHANGED <<booking, overdue, pay, calls, reader, paypal>>

-----------------------------------------------------------------------------
\* PayPal and the payer, with or without this service.

PayerApproves(p) ==
  /\ order[p] \in {"CREATED", "REVERTED"} /\ order' = [order EXCEPT ![p] = "APPROVED"]
  /\ UNCHANGED <<db, calls, reader, capture, sent>>

\* The payer's approval is taken back; it may be given again.
ApprovalReversed(p) ==
  /\ order[p] = "APPROVED" /\ order' = [order EXCEPT ![p] = "REVERTED"]
  /\ UNCHANGED <<db, calls, reader, capture, sent>>

\* An order that is not captured in time lapses.
OrderLapses(p) ==
  /\ order[p] \in Alive /\ order' = [order EXCEPT ![p] = "GONE"]
  /\ UNCHANGED <<db, calls, reader, capture, sent>>

\* A capture request whose caller heard nothing arrives after all.
LateCapture(p) ==
  /\ p \in sent /\ Captures(p) /\ sent' = sent \ {p}
  /\ UNCHANGED <<db, calls, reader>>

CaptureResolves(p) ==
  /\ capture[p].status = "PENDING"
  /\ \E s \in {"COMPLETED", "DECLINED"} : capture' = [capture EXCEPT ![p].status = s]
  /\ UNCHANGED <<db, calls, reader, order, sent>>

DeadlinePasses ==
  /\ ~overdue /\ overdue' = TRUE
  /\ UNCHANGED <<booking, pay, old, calls, reader, paypal>>

-----------------------------------------------------------------------------
\* Settlement: handle_webhook() or reconcile_payments() takes a snapshot of
\* PayPal and process_event() applies it, maybe long after and out of order.
\* Webhooks and reconciliation have identities of their own, so a state may be
\* reported again after it was processed.

\* Mutant: what becomes of closed attempts is not looked at.
SnapshotsOfOpen(p) ==
  {s \in [p : {p}, order : {order[p]}, capture : {capture[p].status}, reversed : BOOLEAN] :
     /\ pay[p].orderId /\ p \in Open
     /\ IF s.reversed THEN order[p] \in {"REVERTED", "GONE"} ELSE order[p] \in {"APPROVED", "COMPLETED"}}

\* What a delivery can read of p.  An event finds its row by the order id; a
\* reversed approval comes with CHECKOUT.PAYMENT-APPROVAL.REVERSED.  One that
\* comes after the payer has approved again is a delivery that has read the
\* order before; that it may learn of a new capture as well is left out.
Snapshots(p) ==
  {s \in [p : {p}, order : {order[p]}, capture : {capture[p].status}, reversed : BOOLEAN] :
     /\ pay[p].orderId
     /\ IF s.reversed THEN order[p] \in {"REVERTED", "GONE"} ELSE order[p] \in {"APPROVED", "COMPLETED"}}

Read(r, p) ==
  /\ reader[r] = None
  /\ \E s \in Snapshots(p) : reader' = [reader EXCEPT ![r] = s]
  /\ UNCHANGED <<db, calls, paypal>>

\* Mutant: earlier attempts are taken to have failed.
OlderIgnored(p) == TRUE

\* An unpaid earlier attempt must be known to have failed before this one can
\* be called the original or the duplicate.
OlderResolved(p) ==
  \A q \in Rows : q < p /\ ~pay[q].paid => ConfirmedUnpaid(q, TRUE)

\* Mutant: other payments are not looked at.
KeptElsewhereIgnored(p) == FALSE

KeptElsewhere(p) == \E q \in Rows \ {p} : pay[q].paid /\ ~Exceptional(q)

\* What a completed capture makes of its row.
SettledRow(p) ==
  LET special == capture[p].late \/ KeptElsewhere(p) \/ Exceptional(p)
      policy == booking = "CANCELED" /\ pay[p].percent # None
      target == IF special THEN "ALL" ELSE IF policy THEN pay[p].percent ELSE pay[p].target
  IN [pay[p] EXCEPT
        !.status = "PAID", !.paid = TRUE, !.captureId = TRUE, !.target = target,
        !.reason = IF ~special \/ Exceptional(p) THEN @
                   ELSE IF capture[p].late THEN "LATE_CAPTURE" ELSE "DUPLICATE_CAPTURE",
        !.percent = IF special THEN "ALL" ELSE @,
        !.refund = IF target = None THEN @ ELSE IF target = "NOTHING" THEN "NOT_REQUIRED" ELSE "REQUESTED"]

\* Mutant: PayPal's word is taken for the row's.
ReportedAsRead(p, seen) ==
  [pay[p] EXCEPT !.captureId = @ \/ seen.capture # "NONE",
                 !.status = IF pay[p].paid \/ seen.capture = "NONE" THEN @ ELSE seen.capture]

\* What any other snapshot makes of it.
ReportedRow(p, seen) ==
  [pay[p] EXCEPT
     !.captureId = @ \/ seen.capture # "NONE",
     !.status = IF pay[p].paid THEN @
                ELSE IF seen.capture = "DECLINED" \/ seen.reversed THEN "FAILED"
                ELSE IF seen.capture = "PENDING" \/ seen.order = "APPROVED" THEN "PENDING" ELSE @]

\* process_event(): a refused snapshot changes nothing.
Apply(seen) ==
  IF seen.capture = "COMPLETED"
  THEN IF OlderResolved(seen.p) THEN SetRow(seen.p, SettledRow(seen.p)) ELSE UNCHANGED pay
  ELSE SetRow(seen.p, ReportedRow(seen.p, seen))

Process(r) ==
  /\ reader[r] # None /\ Apply(reader[r])
  /\ reader' = [reader EXCEPT ![r] = None]
  /\ UNCHANGED <<booking, overdue, old, calls, paypal>>

\* A delivery that nothing overtakes.
Deliver(p) ==
  /\ \E s \in Snapshots(p) : Apply(s)
  /\ UNCHANGED <<booking, overdue, old, calls, reader, paypal>>

-----------------------------------------------------------------------------
\* The booking ends or is handed over.

\* Mutant: the timer looks at its own rows only.
ExpireByRows ==
  /\ booking = "APPROVED" /\ overdue
  /\ \A p \in Rows : ~Exceptional(p) => ~pay[p].paid /\ ~pay[p].captureId
  /\ booking' = "EXPIRED"
  /\ pay' = [p \in Payments |-> IF p \in Open THEN [pay[p] EXCEPT !.status = "CANCELED", !.refund = "NOT_REQUIRED"]
                                ELSE pay[p]]
  /\ UNCHANGED <<overdue, old, calls, reader, paypal>>

\* expire_unpaid_payments(): every attempt that could count is confirmed unpaid.
ExpireUnpaid ==
  /\ booking = "APPROVED" /\ overdue
  /\ \A p \in Rows : ~Exceptional(p) => pay[p].status # "PAID" /\ ConfirmedUnpaid(p, FALSE)
  /\ booking' = "EXPIRED"
  /\ pay' = [p \in Payments |-> IF p \in Open THEN [pay[p] EXCEPT !.status = "CANCELED", !.refund = "NOT_REQUIRED"]
                                ELSE pay[p]]
  /\ UNCHANGED <<overdue, old, calls, reader, paypal>>

\* prepare_booking_refund() in the transaction that cancels the booking.
Captured == {p \in Rows : /\ ~Exceptional(p)
                          /\ pay[p].paid \/ (pay[p].status = "PENDING" /\ pay[p].captureId)}

\* Mutant: a cancelled attempt forgets the policy it was cancelled under.
CanceledRowForgets(p, share) ==
  IF p \notin Rows \/ Exceptional(p) THEN pay[p]
  ELSE IF p \in Captured
       THEN [pay[p] EXCEPT !.target = share, !.percent = share,
                           !.refund = IF share = "NOTHING" THEN "NOT_REQUIRED" ELSE "REQUESTED"]
  ELSE IF p \in Open
       THEN [pay[p] EXCEPT !.status = "CANCELED", !.refund = "NOT_REQUIRED", !.target = "NOTHING"]
  ELSE pay[p]

CanceledRow(p, share) ==
  IF p \notin Rows \/ Exceptional(p) THEN pay[p]
  ELSE IF p \in Captured
       THEN [pay[p] EXCEPT !.target = share, !.percent = share,
                           !.refund = IF share = "NOTHING" THEN "NOT_REQUIRED" ELSE "REQUESTED"]
  ELSE IF p \in Open
       THEN [pay[p] EXCEPT !.status = "CANCELED", !.refund = "NOT_REQUIRED", !.target = "NOTHING",
                           !.percent = share]
  ELSE [pay[p] EXCEPT !.percent = share]

CloseCanceled(share) ==
  /\ Cardinality(Captured) <= 1
  /\ pay' = [p \in Payments |-> CanceledRow(p, share)]
  /\ booking' = "CANCELED"
  /\ UNCHANGED <<overdue, old, calls, reader, paypal>>

\* A customer gets 90 %, or nothing from the rental day on, and must wait for
\* an attempt in progress.
CustomerCancels ==
  /\ booking = "APPROVED" /\ \A p \in Rows : pay[p].status # "PENDING"
  /\ \E share \in {"PART", "NOTHING"} : CloseCanceled(share)

\* The shop cancels, or takes back a vehicle that was not received: 100 %.
ShopCancels ==
  /\ booking \in {"APPROVED", "HANDOVER_PENDING", "NOT_RECEIVED"}
  /\ CloseCanceled("ALL")

\* What paid_booking_payment() takes for the payment.
PaidFor(p) == pay[p].status = "PAID" /\ pay[p].captureId

\* Mutant: money that is to be returned counts as the payment.
HandOverForAnyMoney ==
  /\ booking = "APPROVED"
  /\ Cardinality({p \in Rows : PaidFor(p)}) = 1
  /\ \A p \in Rows : pay[p].status \notin {"CREATED", "PENDING"}
  /\ booking' = "HANDOVER_PENDING"
  /\ UNCHANGED <<overdue, pay, old, calls, reader, paypal>>

\* paid_booking() in the transaction that prepares the handover.
HandOver ==
  /\ booking = "APPROVED"
  /\ Cardinality({p \in Rows : PaidFor(p)}) = 1
  /\ \A p \in Rows : /\ pay[p].status \notin {"CREATED", "PENDING"}
                     /\ pay[p].refund # "REQUESTED" /\ pay[p].target \in {None, "NOTHING"}
  /\ booking' = "HANDOVER_PENDING"
  /\ UNCHANGED <<overdue, pay, old, calls, reader, paypal>>

\* expire_receipts()
ReceiptExpires ==
  /\ booking = "HANDOVER_PENDING" /\ booking' = "NOT_RECEIVED"
  /\ UNCHANGED <<overdue, pay, old, calls, reader, paypal>>

-----------------------------------------------------------------------------
CustomerStep ==
  \E p \in Payments : \/ OrderBegin(p) \/ OrderFinish(p)
                      \/ CaptureBegin(p) \/ CaptureFinish(p)

PayPalStep ==
  \E p \in Payments : \/ PayerApproves(p) \/ ApprovalReversed(p) \/ OrderLapses(p)
                      \/ LateCapture(p) \/ CaptureResolves(p)

SettlementStep ==
  \/ \E r \in Readers : Process(r) \/ \E p \in Payments : Read(r, p)
  \/ \E p \in Payments : Deliver(p)

BookingStep == ExpireUnpaid \/ CustomerCancels \/ ShopCancels \/ HandOver \/ ReceiptExpires

Next ==
  \/ CustomerStep \/ PayPalStep \/ SettlementStep \/ BookingStep
  \/ DeadlinePasses \/ \E kind \in {"order", "capture"}, p \in Payments : Age(kind, p)

\* payment_maintenance() runs from cron, and its reconciliation visits every
\* unsettled order again and again; PayPal decides every capture and drops orders that are not captured.
Fairness ==
  /\ \A r \in Readers : WF_vars(Process(r))
  /\ \A p \in Payments : /\ SF_vars(\E r \in Readers : Read(r, p))
                         /\ WF_vars(CaptureResolves(p)) /\ WF_vars(OrderLapses(p))

Spec == Init /\ [][Next]_vars
FairSpec == Spec /\ Fairness

-----------------------------------------------------------------------------
\* Properties.

\* Types of the rows and of what PayPal and the calls remember.
CheckoutTypes ==
  /\ booking \in {"APPROVED", "HANDOVER_PENDING", "NOT_RECEIVED", "CANCELED", "EXPIRED"}
  /\ overdue \in BOOLEAN /\ pay \in [Payments -> Row]
  /\ old \subseteq {"order", "capture"} \X Payments /\ sent \subseteq Payments
  /\ calls \subseteq {"order", "capture"} \X Payments
  /\ reader \in [Readers -> {None} \cup Snapshot]
  /\ order \in [Payments -> OrderStates] /\ capture \in [Payments -> Capture]

\* Whatever answers are lost and whatever the customer repeats, PayPal is never
\* brought to charge a booking that it already charges: the checks around the
\* capture exclude every order that still has or may get a capture.
NoSecondCharge ==
  [][\A p \in Payments : Live(p)' /\ ~Live(p) => \A q \in Payments \ {p} : ~Live(q)]_vars

\* The payment timer gives up a booking only when no payment in time exists or
\* is under way at PayPal.
ExpiredWasUnpaid ==
  booking = "EXPIRED" => \A p \in Payments : Live(p) => capture[p].late \/ Exceptional(p)

\* A vehicle is handed over against exactly one payment that was captured in
\* time and that nothing asks back.
HandedOverIsPaid ==
  booking = "HANDOVER_PENDING" =>
    Cardinality({p \in Payments : capture[p].status = "COMPLETED" /\ pay[p].paid
                                  /\ ~Exceptional(p) /\ pay[p].target \in {None, "NOTHING"}}) = 1

\* Of several charges the earliest is the one that is kept, in whatever order
\* PayPal reports them; the others are to be returned in full.
OriginalIsKept ==
  \A p, q \in Payments :
    p < q /\ pay[p].paid /\ pay[q].paid =>
      /\ Exceptional(q) /\ pay[q].target = "ALL"
      /\ ~capture[p].late => ~Exceptional(p)

\* Money that arrived for a booking that is over is never just kept: it is
\* asked back in full, or as the policy of the cancellation says.
ClosedBookingsOwe ==
  \A p \in Payments :
    pay[p].paid /\ booking \in {"CANCELED", "EXPIRED"} =>
      /\ pay[p].target = IF Exceptional(p) THEN "ALL" ELSE pay[p].percent
      /\ pay[p].target # None
      /\ pay[p].refund = IF pay[p].target = "NOTHING" THEN "NOT_REQUIRED" ELSE "REQUESTED"

\* Every charge PayPal completes reaches its row, however many webhooks are
\* lost and whatever became of the booking.
ChargesAreSettled ==
  \A p \in Payments : capture[p].status = "COMPLETED" /\ pay[p].orderId ~> pay[p].paid

\* What the rows and PayPal together say of the booking's money.
ChargeOf(p) == IF ~Live(p) THEN "NONE" ELSE IF ~pay[p].paid THEN "OPEN"
               ELSE IF Exceptional(p) THEN "RETURNED" ELSE "KEPT"
Charges == [p \in Payments |-> ChargeOf(p)]
InTime == {p \in Payments : Live(p) /\ ~capture[p].late}
Owed == [p \in Payments |-> IF pay[p].paid THEN pay[p].target ELSE None]
Stage == IF booking = "APPROVED" THEN "OPEN"
         ELSE IF booking \in {"HANDOVER_PENDING", "NOT_RECEIVED"} THEN "DELIVERED" ELSE "ENDED"

Ledger == INSTANCE BookingLedger WITH
  charge <- Charges, inTime <- InTime, owed <- Owed, stage <- Stage, All <- "ALL"

\* Calls, deliveries, timers and cancellations, in any order, together keep the
\* booking's ledger: each charge is settled once, and never unsettled.
ImplementsLedger == Ledger!Spec
=============================================================================
