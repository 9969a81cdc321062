--------------------------- MODULE RefundRecovery ---------------------------
(***************************************************************************)
(* The refund of one captured PayPal payment: the cancellation that asks   *)
(* for it (app/refunds.py), the durable attempt that several callers of    *)
(* execute_refund() drive towards PayPal (app/refund_recovery.py), the     *)
(* webhooks that report what PayPal did (app/paypal.py), and PayPal.       *)
(*                                                                         *)
(* execute_refund() is two transactions: the first checkpoints the attempt *)
(* and commits, the second locks the row again and holds the lock across   *)
(* the request to PayPal.  A webhook reads PayPal before it locks the row. *)
(* Money is counted in whole shares of the price.                          *)
(***************************************************************************)
EXTENDS Naturals, Sequences, FiniteSets, FiniteSetsExt

CONSTANTS
  Total,            \* the captured price
  CustomerTarget,   \* what a customer who cancels in time gets back
  MaxTries,         \* requests of one attempt before an operator must look
  MaxKeys,          \* bound: request identities; an operator's runs end with them
  MerchantRefunds,  \* bound: refunds the seller makes in PayPal's dashboard
  DeadlineChanges,  \* may a deployment change the payment deadline?
  Workers,          \* running calls of execute_refund()
  Handlers,         \* running webhook deliveries
  None              \* SQL NULL

ASSUME AmountAssumption ==
  /\ Total \in Nat \ {0} /\ CustomerTarget \in 1..Total
  /\ MaxTries \in Nat \ {0} /\ MaxKeys \in Nat /\ MerchantRefunds \in Nat
  /\ DeadlineChanges \in BOOLEAN

VARIABLES
  canceled,     \* the reservation is CANCELED
  status,       \* refund_status
  target,       \* refund_requested_amount
  refunded,     \* refunded_amount
  refundId,     \* paypal_refund_id
  exceptional,  \* refund_reason is LATE_CAPTURE or DUPLICATE_CAPTURE
  attempt,      \* refund_attempt_state
  waiting,      \* the attempt's retryAt is in the future
  old,          \* the attempt's startedAt is 44 days or more ago
  lastKey,      \* request identities generated so far
  worker,       \* calls of execute_refund() between their two transactions
  handler,      \* webhook deliveries between their reads and their transaction
  processed,    \* MSP_PAYPAL_WEBHOOK_EVENT rows that are PROCESSED
  deadlinePassed, \* the capture counts as late under the present deadline
  refunds,      \* PayPal: the refunds of the capture, in order of creation
  forgotten     \* PayPal: request identities past its idempotency window

row == <<status, target, refunded, refundId, exceptional, attempt, waiting, old, lastKey>>
paypal == <<refunds, forgotten>>
vars == <<canceled, row, worker, handler, processed, deadlinePassed, paypal>>

Statuses == {"NONE", "REQUESTED", "PENDING", "FAILED", "COMPLETED", "NOT_REQUIRED"}
Outcomes == {"PENDING", "COMPLETED", "FAILED"}
Ids == 1..(MaxKeys + MerchantRefunds)
Amounts == 0..Total

Attempt == [key : 1..MaxKeys, amount : Amounts, base : Amounts, tries : 0..MaxTries,
            status : Outcomes \cup {"UNKNOWN"}, id : Ids \cup {0}, manualRequired : BOOLEAN]

ASSUME NoneAssumption == None \notin Amounts /\ None \notin Attempt

\* A refund at PayPal; key 0 is the dashboard.  born: its status when created.
Refund == [key : 0..MaxKeys, amount : Amounts, status : Outcomes, born : Outcomes]

\* Webhook events.  Both kinds of capture event report a completed capture.
CaptureEvents == {<<0, "CAPTURE">>, <<0, "ORDER">>}
Events == CaptureEvents \cup (Ids \X Outcomes)

Delivery == [phase : {"capture", "row"}, event : Events, status : Outcomes \cup {"NONE"},
             completed : SUBSET Ids]

Higher(a, b) == IF a >= b THEN a ELSE b

SumOf(ids) == MapThenSumSet(LAMBDA i : refunds[i].amount, ids)
WithStatus(s) == {i \in DOMAIN refunds : refunds[i].status = s}
Completed == SumOf(WithStatus("COMPLETED"))
Outstanding == SumOf(DOMAIN refunds \ WithStatus("FAILED"))

\* A settled payment; a late or duplicate one already asks for its refund.
Init ==
  /\ canceled = FALSE
  /\ exceptional \in BOOLEAN
  /\ status = IF exceptional THEN "REQUESTED" ELSE "NONE"
  /\ target = IF exceptional THEN Total ELSE None
  /\ refunded = 0 /\ refundId = 0 /\ attempt = None
  /\ waiting = FALSE /\ old = FALSE /\ lastKey = 0
  /\ worker = [w \in Workers |-> None]
  /\ handler = [h \in Handlers |-> None]
  /\ \E e \in CaptureEvents : processed = {e}
  /\ deadlinePassed = exceptional
  /\ refunds = <<>> /\ forgotten = {}

-----------------------------------------------------------------------------
\* Mutant: what was refunded before is not looked at.
CancelIgnoresRefunds(t) ==
  /\ ~canceled
  /\ canceled' = TRUE
  /\ IF exceptional THEN UNCHANGED row
     ELSE /\ status \notin {"REQUESTED", "PENDING"}
          /\ target' = t /\ status' = IF t = 0 THEN "NOT_REQUIRED" ELSE "REQUESTED"
          /\ UNCHANGED <<refunded, refundId, exceptional, attempt, waiting, old, lastKey>>
  /\ UNCHANGED <<worker, handler, processed, deadlinePassed, paypal>>

\* prepare_booking_refund() in the transaction that cancels the reservation:
\* t is the policy's amount.  A dashboard refund under way blocks it (409).
Cancel(t) ==
  /\ ~canceled
  /\ canceled' = TRUE
  /\ IF exceptional THEN UNCHANGED row
     ELSE /\ status \notin {"REQUESTED", "PENDING"}
          /\ target' = t
          /\ status' = IF t = 0 THEN "NOT_REQUIRED" ELSE IF refunded >= t THEN "COMPLETED" ELSE "REQUESTED"
          /\ UNCHANGED <<refunded, refundId, exceptional, attempt, waiting, old, lastKey>>
  /\ UNCHANGED <<worker, handler, processed, deadlinePassed, paypal>>

-----------------------------------------------------------------------------
\* execute_refund(), first transaction.

\* Mutant: the timer takes up new requests only.
MayTryRequested(manual) ==
  /\ status = "REQUESTED" /\ target # None
  /\ IF attempt = None THEN refundId = 0
                       ELSE manual \/ ~(attempt.manualRequired \/ waiting)

\* What it takes to go on.  Without an attempt only a fresh request may start.
MayTry(manual) ==
  /\ status \in {"REQUESTED", "FAILED", "PENDING"} /\ target # None
  /\ IF attempt = None THEN status = "REQUESTED" /\ refundId = 0
                       ELSE manual \/ ~(attempt.manualRequired \/ waiting)

\* Mutants: an unanswered request gets a fresh identity, at once or after 44 days.
NeedsKeyWhenUnknown == attempt = None \/ attempt.id = 0 \/ attempt.status = "FAILED"
NeedsKeyWhenOld == attempt = None \/ attempt.status = "FAILED" \/ (old /\ attempt.id = 0)

\* Only a first request, or one whose failure a GET confirmed, gets a new identity.
NeedsKey == attempt = None \/ attempt.status = "FAILED"

Prepared ==
  IF attempt = None
  THEN [key |-> lastKey + 1, amount |-> target - refunded, base |-> refunded, tries |-> 0,
        status |-> "UNKNOWN", id |-> 0, manualRequired |-> FALSE]
  ELSE IF NeedsKey
  THEN [attempt EXCEPT !.key = lastKey + 1, !.id = 0, !.status = "UNKNOWN"]
  ELSE attempt

\* Mutant: the age of the request is not checked.
HopelessAfterTries(manual) == ~manual /\ Prepared.tries >= MaxTries

\* An unknown result past the idempotency window, or too many tries.
Hopeless(manual) ==
  \/ Prepared.id = 0 /\ old /\ ~NeedsKey
  \/ ~manual /\ Prepared.tries >= MaxTries

GiveUp(w, manual) ==
  /\ worker[w] = None
  /\ MayTry(manual) /\ Hopeless(manual)
  /\ NeedsKey => lastKey < MaxKeys
  /\ attempt' = [Prepared EXCEPT !.manualRequired = TRUE]
  /\ status' = "FAILED"
  /\ lastKey' = IF NeedsKey THEN lastKey + 1 ELSE lastKey
  /\ old' = (old /\ ~NeedsKey)
  /\ UNCHANGED <<canceled, target, refunded, refundId, exceptional, waiting>>
  /\ UNCHANGED <<worker, handler, processed, deadlinePassed, paypal>>

Checkpoint(w, manual) ==
  /\ worker[w] = None
  /\ MayTry(manual) /\ ~Hopeless(manual)
  /\ NeedsKey => lastKey < MaxKeys
  /\ attempt' = [Prepared EXCEPT !.manualRequired = FALSE,
                                 !.tries = IF @ < MaxTries THEN @ + 1 ELSE @]
  /\ status' = "PENDING"
  /\ lastKey' = IF NeedsKey THEN lastKey + 1 ELSE lastKey
  /\ old' = (old /\ ~NeedsKey)
  /\ waiting' = TRUE
  /\ worker' = [worker EXCEPT ![w] = attempt']
  /\ UNCHANGED <<canceled, target, refunded, refundId, exceptional>>
  /\ UNCHANGED <<handler, processed, deadlinePassed, paypal>>

-----------------------------------------------------------------------------
\* execute_refund(), second transaction.

\* Nobody else has touched the attempt or settled the refund meanwhile.
StillMine(w) == worker[w] # None /\ attempt = worker[w] /\ status = "PENDING"

\* PayPal has refund i for request identity k: the one it remembers, or a new
\* one if the capture's money allows it.
Accepts(k, amount, i) ==
  LET known == {j \in DOMAIN refunds : refunds[j].key = k /\ k \notin forgotten} IN
  \/ i \in known /\ UNCHANGED refunds
  \/ /\ known = {} /\ Outstanding + amount <= Total /\ i = Len(refunds) + 1
     /\ \E s \in Outcomes :
          refunds' = Append(refunds, [key |-> k, amount |-> amount, status |-> s, born |-> s])

\* The request reached PayPal, whatever happens to its answer.
Reaches(i) ==
  \/ attempt.id = 0 /\ Accepts(attempt.key, attempt.amount, i)
  \/ attempt.id # 0 /\ i = attempt.id /\ UNCHANGED refunds

\* The answer is committed.  A failure counts only when a GET reports it.
Record(i) ==
  LET s == refunds'[i].status
      confirmed == IF attempt.id # 0 \/ s # "FAILED" THEN s ELSE "PENDING"
  IN IF s = "COMPLETED"
     THEN /\ refunded' = Higher(refunded, attempt.base + attempt.amount)
          /\ IF refunded' >= target
             THEN /\ status' = "COMPLETED" /\ refundId' = i
                  /\ attempt' = [attempt EXCEPT !.id = i, !.status = s]
                  /\ UNCHANGED <<waiting, old>>
             ELSE /\ status' = "REQUESTED" /\ refundId' = 0
                  /\ attempt' = None /\ waiting' = FALSE /\ old' = FALSE
     ELSE /\ status' = "PENDING" /\ refundId' = i
          /\ attempt' = [attempt EXCEPT !.id = i, !.status = confirmed]
          /\ UNCHANGED <<refunded, waiting, old>>

Leave(w) == worker' = [worker EXCEPT ![w] = None]

Answered(w) ==
  /\ StillMine(w)
  /\ \E i \in Ids : Reaches(i) /\ Record(i)
  /\ Leave(w)
  /\ UNCHANGED <<canceled, target, exceptional, lastKey, handler, processed, deadlinePassed, forgotten>>

\* Timeout, transport error or a refusal: the row says so, the identity stays.
NotAnswered(w) ==
  /\ StillMine(w)
  /\ UNCHANGED refunds \/ \E i \in Ids : Reaches(i)
  /\ status' = "FAILED"
  /\ Leave(w)
  /\ UNCHANGED <<canceled, target, refunded, refundId, exceptional, attempt, waiting, old, lastKey>>
  /\ UNCHANGED <<handler, processed, deadlinePassed, forgotten>>

\* The process dies after its checkpoint, before or after PayPal acted.
Crash(w) ==
  /\ worker[w] # None
  /\ UNCHANGED refunds \/ (StillMine(w) /\ \E i \in Ids : Reaches(i))
  /\ Leave(w)
  /\ UNCHANGED <<canceled, row, handler, processed, deadlinePassed, forgotten>>

Overtaken(w) ==
  /\ worker[w] # None /\ ~StillMine(w)
  /\ Leave(w)
  /\ UNCHANGED <<canceled, row, handler, processed, deadlinePassed, paypal>>

-----------------------------------------------------------------------------
\* Webhooks.  An event is delivered any number of times, in any order.

Happened(e) ==
  \/ e \in CaptureEvents
  \/ e[1] \in DOMAIN refunds /\ e[2] \in {refunds[e[1]].status, refunds[e[1]].born}

\* snapshot(): the refund is read first ...
ReadRefund(h, e) ==
  /\ handler[h] = None
  /\ Happened(e) /\ e \notin processed
  /\ handler' = [handler EXCEPT ![h] =
       [phase |-> "capture", event |-> e, completed |-> {},
        status |-> IF e \in CaptureEvents THEN "NONE" ELSE refunds[e[1]].status]]
  /\ UNCHANGED <<canceled, row, worker, processed, deadlinePassed, paypal>>

\* ... then the capture and its order, which lists the completed refunds.
ReadCapture(h) ==
  /\ handler[h] # None /\ handler[h].phase = "capture"
  /\ handler' = [handler EXCEPT ![h].phase = "row", ![h].completed = WithStatus("COMPLETED")]
  /\ UNCHANGED <<canceled, row, worker, processed, deadlinePassed, paypal>>

\* Mutant: the snapshot is added to what is already recorded.
ReportedAdded(d) == refunded + SumOf(d.completed)

\* The amount refunded as far as the snapshot and earlier events tell.  A capture
\* that PayPal calls REFUNDED has all of its refunds in the snapshot's list.
Reported(d) ==
  LET own == IF d.status = "COMPLETED" THEN {d.event[1]} ELSE {}
      past == {i \in Ids : <<i, "COMPLETED">> \in processed}
  IN Higher(refunded, SumOf(d.completed \cup own \cup past))

\* What the refund in the event says overrides the status ...
EventStatus(d, paid) ==
  IF d.status # "NONE" THEN d.status
  ELSE IF /\ d.completed = {} /\ canceled /\ target # None /\ paid < target
          /\ status \notin {"NOT_REQUIRED", "COMPLETED", "PENDING"}
       THEN "REQUESTED" ELSE status

\* Mutant: a completed refund completes the request, whatever its amount.
StatusOfAnyRefund(s, paid, goal) ==
  IF goal = None \/ s = "COMPLETED" THEN s
  ELSE IF paid >= goal THEN (IF goal = 0 THEN "NOT_REQUIRED" ELSE "COMPLETED")
  ELSE IF s \in {"PENDING", "FAILED"} THEN s ELSE "REQUESTED"

\* ... and the amounts override that.
SettledStatus(s, paid, goal) ==
  IF goal = None THEN s
  ELSE IF paid >= goal THEN (IF goal = 0 THEN "NOT_REQUIRED" ELSE "COMPLETED")
  ELSE IF s \in {"PENDING", "FAILED"} THEN s ELSE "REQUESTED"

\* process_event(): one transaction on the row, once per event.
ProcessEvent(h) ==
  LET d == handler[h]
      late == exceptional \/ (deadlinePassed /\ <<0, "CAPTURE">> \notin processed)
      goal == IF late THEN Total ELSE target
      paid == Reported(d)
      s == SettledStatus(EventStatus(d, paid), paid, goal)
      clear == d.status = "COMPLETED" /\ s = "REQUESTED" /\ attempt = None
  IN /\ handler[h] # None /\ d.phase = "row"
     /\ handler' = [handler EXCEPT ![h] = None]
     /\ IF d.event \in processed THEN UNCHANGED <<row, processed>>
        ELSE /\ processed' = processed \cup {d.event}
             /\ exceptional' = late /\ target' = goal
             /\ refunded' = paid /\ status' = s
             /\ refundId' = IF d.status = "NONE" THEN refundId ELSE IF clear THEN 0 ELSE d.event[1]
             /\ UNCHANGED <<attempt, waiting, old, lastKey>>
     /\ UNCHANGED <<canceled, worker, deadlinePassed, paypal>>

\* The delivery dies; PayPal sends the event again.
DeliveryLost(h) ==
  /\ handler[h] # None
  /\ handler' = [handler EXCEPT ![h] = None]
  /\ UNCHANGED <<canceled, row, worker, processed, deadlinePassed, paypal>>

-----------------------------------------------------------------------------
\* Time, PayPal and the seller.

RetryIsDue ==
  /\ waiting /\ waiting' = FALSE
  /\ UNCHANGED <<canceled, status, target, refunded, refundId, exceptional, attempt, old, lastKey>>
  /\ UNCHANGED <<worker, handler, processed, deadlinePassed, paypal>>

WindowCloses ==
  /\ attempt # None /\ ~old /\ old' = TRUE
  /\ UNCHANGED <<canceled, status, target, refunded, refundId, exceptional, attempt, waiting, lastKey>>
  /\ UNCHANGED <<worker, handler, processed, deadlinePassed, paypal>>

\* PayPal keeps an identity 45 days.  No call lasts from the 44th to the 45th.
PayPalForgets ==
  /\ old /\ attempt.key \notin forgotten
  /\ \A w \in Workers : worker[w] = None
  /\ forgotten' = forgotten \cup {attempt.key}
  /\ UNCHANGED <<canceled, row, worker, handler, processed, deadlinePassed, refunds>>

RefundResolves ==
  /\ \E i \in WithStatus("PENDING"), s \in {"COMPLETED", "FAILED"} :
       refunds' = [refunds EXCEPT ![i].status = s]
  /\ UNCHANGED <<canceled, row, worker, handler, processed, deadlinePassed, forgotten>>

SellerRefunds ==
  /\ Cardinality({i \in DOMAIN refunds : refunds[i].key = 0}) < MerchantRefunds
  /\ Outstanding < Total
  /\ \E s \in {"PENDING", "COMPLETED"} :
       refunds' = Append(refunds, [key |-> 0, amount |-> 1, status |-> s, born |-> s])
  /\ UNCHANGED <<canceled, row, worker, handler, processed, deadlinePassed, forgotten>>

DeadlineChange ==
  /\ DeadlineChanges /\ ~deadlinePassed /\ deadlinePassed' = TRUE
  /\ UNCHANGED <<canceled, row, worker, handler, processed, paypal>>

WorkerStep(w) == Answered(w) \/ NotAnswered(w) \/ Overtaken(w)
Retry(w) == Checkpoint(w, FALSE) \/ GiveUp(w, FALSE)
Receive(h) == \E e \in Events : ReadRefund(h, e)

Next ==
  \/ \E t \in {0, CustomerTarget, Total} : Cancel(t)
  \/ \E w \in Workers : \/ \E m \in {FALSE, lastKey < MaxKeys} : Checkpoint(w, m) \/ GiveUp(w, m)
                        \/ WorkerStep(w) \/ Crash(w)
  \/ \E h \in Handlers : Receive(h) \/ ReadCapture(h) \/ ProcessEvent(h) \/ DeliveryLost(h)
  \/ RetryIsDue \/ WindowCloses \/ PayPalForgets
  \/ RefundResolves \/ SellerRefunds \/ DeadlineChange

Spec == Init /\ [][Next]_vars

\* The payment timer calls retry_refunds() again and again, and an operator's
\* manual runs do not come before it every time; running calls return, time
\* passes, and PayPal delivers an event until it is processed.
Fairness ==
  /\ \A w \in Workers : SF_vars(Retry(w)) /\ WF_vars(WorkerStep(w))
  /\ WF_vars(RetryIsDue)
  /\ \A h \in Handlers : WF_vars(Receive(h)) /\ SF_vars(ReadCapture(h)) /\ SF_vars(ProcessEvent(h))

FairSpec == Spec /\ Fairness

-----------------------------------------------------------------------------
\* Types of the payment row, of the calls under way and of PayPal's records.
TypeOK ==
  /\ canceled \in BOOLEAN /\ exceptional \in BOOLEAN /\ deadlinePassed \in BOOLEAN
  /\ status \in Statuses
  /\ target \in Amounts \cup {None}
  /\ refunded \in Amounts
  /\ refundId \in Ids \cup {0}
  /\ attempt \in Attempt \cup {None}
  /\ waiting \in BOOLEAN /\ old \in BOOLEAN
  /\ lastKey \in 0..MaxKeys
  /\ worker \in [Workers -> Attempt \cup {None}]
  /\ handler \in [Handlers -> Delivery \cup {None}]
  /\ processed \subseteq Events
  /\ refunds \in Seq(Refund)
  /\ forgotten \subseteq 1..MaxKeys

OwnRefunds == {i \in DOMAIN refunds : refunds[i].key # 0}

\* However calls crash, repeat and overtake each other, the refunds this code
\* asked for and PayPal did not fail never add up to more than the target.
RefundsWithinTarget ==
  LET asked == OwnRefunds \ WithStatus("FAILED")
  IN asked # {} => target # None /\ SumOf(asked) <= target

\* refunded_amount never claims money PayPal has not returned.
RefundedIsBacked == refunded <= Completed

\* A refund shown as COMPLETED has returned the whole target.
CompletedIsPaid == status = "COMPLETED" /\ target # None => Completed >= target

\* A refund shown as REQUESTED has a balance left to request, which is why the
\* shortcut of refund_recovery.py:36-40 is never taken.
RequestedHasBalance == status = "REQUESTED" => target # None /\ refunded < target

\* No request identity refunds twice, although PayPal forgets identities: the
\* 44-day limit stops unknown requests in time.
OneRefundPerKey ==
  \A i, j \in OwnRefunds : refunds[i].key = refunds[j].key => i = j

\* "unknown results never get a fresh key" (app/refund_recovery.py:1): when a
\* new identity is generated, every earlier request has failed at PayPal or has
\* completed and is counted in refunded_amount.
FreshKeyOnlyAfterOutcome ==
  [][lastKey' # lastKey =>
       /\ \A i \in OwnRefunds : refunds[i].status # "PENDING"
       /\ SumOf(OwnRefunds \cap WithStatus("COMPLETED")) <= refunded]_vars

\* A requested refund is not forgotten: the timer completes it or hands it to
\* an operator, whatever PayPal answers and however often calls crash.
RefundIsResolved ==
  status = "REQUESTED" ~> \/ status \in {"COMPLETED", "NOT_REQUIRED"}
                         \/ (attempt # None /\ attempt.manualRequired)

\* "Where a partial refund exists, the server requests only the balance"
\* (docs/nadree-cancellation-auth-change-handoff-2026-10-08.md:77): after a
\* cancellation, a balance beside a partial refund is some day asked for.
BalanceIsRequested ==
  (canceled /\ status = "REQUESTED" /\ refunded > 0) ~>
    (attempt # None \/ status \in {"COMPLETED", "NOT_REQUIRED"})
=============================================================================
