--------------------------- MODULE Checkout_proofs --------------------------
(***************************************************************************)
(* Theorems about Checkout, for any number of payments and of deliveries   *)
(* under way.                                                              *)
(***************************************************************************)
EXTENDS Checkout, FiniteSetTheorems, TLAPS

\* An order without a capture that can get none any more, or with one that
\* failed.  Nothing brings it back.
Dead(p) == \/ order[p] \in {"NONE", "GONE"}
           \/ capture[p].status = "DECLINED"

Kept(p) == pay[p].paid /\ ~Exceptional(p)

\* PayPal and the rows: captures are those of completed orders, orders those of
\* rows, and rows are numbered in the order of their creation.
OrdersHaveRows ==
  /\ \A p \in Payments : /\ capture[p].status # "NONE" <=> order[p] = "COMPLETED"
                         /\ p \notin Rows => order[p] = "NONE" /\ pay[p] = NoRow
                         /\ pay[p].orderId => p \in Rows
  /\ \A p, q \in Payments : q < p /\ p \in Rows => q \in Rows
  /\ sent \subseteq Rows

\* What a delivery has read of a completed capture stays true.
ReadersAreRight ==
  \A r \in Readers : reader[r] # None =>
    /\ reader[r].p \in Rows
    /\ reader[r].capture = "COMPLETED" => capture[reader[r].p].status = "COMPLETED"

\* A request whose answer was lost can still capture only if nothing else can.
SentAlone ==
  \A p \in sent : order[p] \in Alive => \A q \in Payments \ {p} : Dead(q)

\* Two charges are the two inherited ones, both made in time.
TwoAreInherited ==
  \A p, q \in Payments : p # q /\ Live(p) /\ Live(q) =>
    p \in {1, 2} /\ ~capture[p].late

\* What a row says of its capture.
RowsAreRight ==
  \A p \in Payments :
    /\ pay[p].paid <=> pay[p].status = "PAID"
    /\ pay[p].paid => pay[p].captureId /\ capture[p].status = "COMPLETED"
    /\ Exceptional(p) => pay[p].paid /\ pay[p].target = "ALL" /\ pay[p].refund = "REQUESTED"
    /\ Kept(p) => ~capture[p].late

\* At most one charge is kept, every other one is late or a duplicate of it, and
\* when a later charge was settled the fate of the earlier ones was known.
OneIsKept ==
  /\ \A p, q \in Payments : Kept(p) /\ Kept(q) => p = q
  /\ \A p \in Payments : Exceptional(p) => capture[p].late \/ \E q \in Payments : Kept(q)
  /\ \A p, q \in Payments : p < q /\ pay[q].paid => pay[p].paid \/ Dead(p)

\* Every row of a cancelled booking knows the policy.
PolicyIsKnown ==
  booking = "CANCELED" => \A p \in Rows : Exceptional(p) \/ pay[p].percent # None

\* Until a cancellation, only what is to be returned in full is owed.
NothingIsOwedYet ==
  booking # "CANCELED" => \A p \in Payments : Exceptional(p) \/ pay[p].target = None

CheckoutInv ==
  /\ CheckoutTypes /\ OrdersHaveRows /\ ReadersAreRight /\ SentAlone /\ TwoAreInherited
  /\ RowsAreRight /\ OneIsKept /\ PolicyIsKnown /\ NothingIsOwedYet
  /\ OriginalIsKept /\ ExpiredWasUnpaid /\ HandedOverIsPaid /\ ClosedBookingsOwe

-----------------------------------------------------------------------------
\* The initial states.

\* The rows of an initial state: none, or two inherited attempts.
RowsAtFirst ==
  /\ pay \in [Payments -> Row] /\ order \in [Payments -> OrderStates] /\ capture \in [Payments -> Capture]
  /\ \A p \in Payments :
       /\ ~pay[p].paid /\ pay[p].status # "PAID" /\ pay[p].reason = "NONE" /\ ~capture[p].late
       /\ pay[p].target = None
       /\ capture[p].status # "NONE" <=> order[p] = "COMPLETED"
       /\ (pay[p] = NoRow /\ order[p] = "NONE") \/ (pay[p].status = "PENDING" /\ p \in {1, 2})
  /\ \/ \A p \in Payments : pay[p] = NoRow
     \/ \A p \in Payments : pay[p] # NoRow <=> p \in {1, 2}

LEMMA NoRowIs ==
  /\ NoRow \in Row /\ NoRow.status = "NONE" /\ ~NoRow.paid /\ ~NoRow.orderId /\ NoRow.reason = "NONE"
  /\ NoRow.target = None
BY DEF NoRow, Row

LEMMA InitialRows == Init => RowsAtFirst
<1> SUFFICES ASSUME Init PROVE RowsAtFirst
  OBVIOUS
<1>1. CASE pay = [p \in Payments |-> NoRow] /\ order = [p \in Payments |-> "NONE"]
           /\ capture = [p \in Payments |-> NoCapture]
  <2>1. NoCapture \in Capture /\ NoCapture.status = "NONE" /\ NoCapture.late = FALSE /\ "NONE" \in OrderStates
    BY DEF NoCapture, Capture, OrderStates
  <2> QED BY NoRowIs, <1>1, <2>1 DEF RowsAtFirst
<1>2. ASSUME MaxPayments >= 2, NEW known \in BOOLEAN, NEW c \in {"NONE", "PENDING", "COMPLETED"},
             NEW first, first = Inherited(1, IF c = "NONE" THEN "APPROVED" ELSE "COMPLETED", c, known /\ c # "NONE"),
             NEW second, second = Inherited(2, "COMPLETED", "COMPLETED", known),
             pay = [p \in Payments |-> IF p = 1 THEN first.row ELSE IF p = 2 THEN second.row ELSE NoRow],
             order = [p \in Payments |-> IF p = 1 THEN first.order ELSE IF p = 2 THEN second.order ELSE "NONE"],
             capture = [p \in Payments |-> IF p = 1 THEN first.capture
                                           ELSE IF p = 2 THEN second.capture ELSE NoCapture]
      PROVE  RowsAtFirst
  <2>1. /\ first.row \in Row /\ ~first.row.paid /\ first.row.status = "PENDING" /\ first.row.reason = "NONE"
        /\ first.row.target = None
        /\ first.order = (IF c = "NONE" THEN "APPROVED" ELSE "COMPLETED")
        /\ first.capture = [status |-> c, late |-> FALSE]
    BY <1>2 DEF Inherited, NoRow, Row
  <2>2. /\ second.row \in Row /\ ~second.row.paid /\ second.row.status = "PENDING" /\ second.row.reason = "NONE"
        /\ second.row.target = None
        /\ second.order = "COMPLETED" /\ second.capture = [status |-> "COMPLETED", late |-> FALSE]
    BY <1>2 DEF Inherited, NoRow, Row
  <2>3. /\ NoCapture.status = "NONE" /\ NoCapture.late = FALSE /\ NoCapture \in Capture
        /\ first.capture \in Capture /\ second.capture \in Capture
        /\ first.order \in OrderStates /\ second.order \in OrderStates
    BY <2>1, <2>2 DEF NoCapture, Capture, OrderStates
  <2>4. first.row # NoRow /\ second.row # NoRow
    BY NoRowIs, <2>1, <2>2
  <2>5. "NONE" \in OrderStates
    BY DEF OrderStates
  <2>6. /\ pay \in [Payments -> Row] /\ order \in [Payments -> OrderStates] /\ capture \in [Payments -> Capture]
    BY NoRowIs, <1>2, <2>1, <2>2, <2>3, <2>5
  <2>7. ASSUME NEW p \in Payments
        PROVE  /\ ~pay[p].paid /\ pay[p].status # "PAID" /\ pay[p].reason = "NONE" /\ ~capture[p].late
               /\ pay[p].target = None
               /\ capture[p].status # "NONE" <=> order[p] = "COMPLETED"
               /\ (pay[p] = NoRow /\ order[p] = "NONE") \/ (pay[p].status = "PENDING" /\ p \in {1, 2})
               /\ pay[p] # NoRow <=> p \in {1, 2}
    <3>1. CASE p = 1
      BY <1>2, <2>1, <2>4, <3>1
    <3>2. CASE p = 2
      BY <1>2, <2>2, <2>4, <3>2
    <3>3. CASE p \notin {1, 2}
      BY NoRowIs, <1>2, <2>3, <3>3
    <3> QED BY <3>1, <3>2, <3>3
  <2> QED BY <2>6, <2>7 DEF RowsAtFirst
<1> QED BY <1>1, <1>2 DEF Init, RowsAtFirst

LEMMA InitCheckout == Init => CheckoutInv
<1> SUFFICES ASSUME Init PROVE CheckoutInv
  OBVIOUS
<1>1. /\ booking = "APPROVED" /\ overdue = FALSE /\ calls = {} /\ old = {} /\ sent = {}
      /\ reader = [r \in Readers |-> None]
  BY DEF Init
<1>2. RowsAtFirst
  BY InitialRows
<1> USE DEF RowsAtFirst
<1>3. CheckoutTypes
  BY <1>1, <1>2 DEF CheckoutTypes
<1>4. OrdersHaveRows
  BY <1>1, NoRowIs, <1>2, CheckoutAssumption DEF OrdersHaveRows, Rows, Payments
<1>5. RowsAreRight /\ OneIsKept /\ OriginalIsKept /\ ClosedBookingsOwe
  BY <1>1, <1>2 DEF RowsAreRight, OneIsKept, OriginalIsKept, ClosedBookingsOwe, Kept, Exceptional, Exceptions
<1>6. NothingIsOwedYet
  BY <1>2 DEF NothingIsOwedYet
<1>7. TwoAreInherited
  BY NoRowIs, <1>2 DEF TwoAreInherited, Live
<1> QED
  BY <1>1, <1>3, <1>4, <1>5, <1>6, <1>7
  DEF CheckoutInv, ReadersAreRight, SentAlone, PolicyIsKnown, ExpiredWasUnpaid, HandedOverIsPaid

-----------------------------------------------------------------------------
\* Steps that settle nothing and leave the booking as it is.

\* No charge is settled, and what was settled stays so.
PaidRowsStay == \A p \in Payments : /\ pay[p].paid => pay'[p] = pay[p]
                                    /\ ~pay[p].paid => ~pay'[p].paid

LEMMA QuietKeeps ==
  ASSUME CheckoutInv, booking' = booking, pay' \in [Payments -> Row],
         \A p \in Payments : /\ pay[p].paid => pay'[p] = pay[p]
                             /\ ~pay[p].paid => /\ ~pay'[p].paid /\ pay'[p].status # "PAID" /\ pay'[p].reason = pay[p].reason
                                                /\ pay'[p].target \in {None, pay[p].target}
                             /\ capture[p].status = "COMPLETED" => capture'[p] = capture[p],
         \A p, q \in Payments : p < q /\ pay[q].paid /\ Dead(p) => Dead(p)',
         booking = "CANCELED" => \A p \in Rows' : p \in Rows /\ pay'[p].percent = pay[p].percent,
         booking = "EXPIRED" => \A p \in Payments : Live(p)' => capture'[p].late \/ (Live(p) /\ capture'[p].late = capture[p].late)
  PROVE  /\ RowsAreRight' /\ OneIsKept' /\ PolicyIsKnown' /\ NothingIsOwedYet'
         /\ OriginalIsKept' /\ ExpiredWasUnpaid' /\ HandedOverIsPaid' /\ ClosedBookingsOwe'
<1>1. \A p \in Payments : /\ pay'[p].paid = pay[p].paid /\ (Exceptional(p)' <=> Exceptional(p)) /\ (Kept(p)' <=> Kept(p))
                          /\ pay[p].paid => pay'[p] = pay[p] /\ capture'[p] = capture[p]
                          /\ Exceptional(p) => pay[p].paid
                          /\ pay[p].target = None => pay'[p].target = None
  BY DEF CheckoutInv, CheckoutTypes, RowsAreRight, Exceptional, Kept, Row
<1>2. RowsAreRight'
  BY <1>1 DEF CheckoutInv, RowsAreRight, Kept
<1>3. OneIsKept'
  BY <1>1 DEF CheckoutInv, OneIsKept
<1>4. PolicyIsKnown'
  BY <1>1 DEF CheckoutInv, PolicyIsKnown, Rows
<1>5. OriginalIsKept'
  BY <1>1 DEF CheckoutInv, OriginalIsKept
<1>6. ExpiredWasUnpaid'
  BY <1>1 DEF CheckoutInv, ExpiredWasUnpaid
<1>7. HandedOverIsPaid'
  <2> DEFINE S == {p \in Payments : capture[p].status = "COMPLETED" /\ pay[p].paid
                                    /\ ~Exceptional(p) /\ pay[p].target \in {None, "NOTHING"}}
  <2>1. S' = S
    BY <1>1
  <2> QED BY <2>1 DEF CheckoutInv, HandedOverIsPaid
<1>8. ClosedBookingsOwe'
  BY <1>1 DEF CheckoutInv, ClosedBookingsOwe
<1>9. NothingIsOwedYet'
  BY <1>1 DEF CheckoutInv, NothingIsOwedYet
<1> QED BY <1>2, <1>3, <1>4, <1>5, <1>6, <1>7, <1>8, <1>9

\* Steps that leave PayPal alone and only add the next row.
LEMMA PayPalAloneKeeps ==
  ASSUME CheckoutInv, UNCHANGED paypal, Rows \subseteq Rows',
         \A p \in Payments : /\ p \in Rows' => p \in Rows \/ Fresh(p)
                             /\ p \notin Rows' => pay'[p] = pay[p]
                             /\ pay'[p].orderId => p \in Rows',
         \A r \in Readers : reader'[r] \in {None, reader[r]}
  PROVE  OrdersHaveRows' /\ ReadersAreRight' /\ SentAlone' /\ TwoAreInherited'
<1>1. \A p \in Payments : p \notin Rows' => order'[p] = "NONE" /\ pay'[p] = NoRow
  BY DEF CheckoutInv, OrdersHaveRows, paypal, Rows, Fresh, NoRow
<1>2. \A p, q \in Payments : q < p /\ p \in Rows' => q \in Rows'
  <2> SUFFICES ASSUME NEW p \in Payments, NEW q \in Payments, q < p, p \in Rows', p \notin Rows PROVE q \in Rows
    BY DEF CheckoutInv, OrdersHaveRows
  <2>1. Fresh(p)
    BY DEF Rows
  <2> QED BY <2>1, CheckoutAssumption DEF Fresh, Payments
<1>3. OrdersHaveRows'
  BY <1>1, <1>2 DEF CheckoutInv, OrdersHaveRows, paypal
<1>4. ReadersAreRight'
  BY NullAssumption DEF CheckoutInv, ReadersAreRight, paypal
<1>5. SentAlone' /\ TwoAreInherited'
  BY DEF CheckoutInv, SentAlone, TwoAreInherited, Dead, Live, paypal
<1> QED BY <1>3, <1>4, <1>5

-----------------------------------------------------------------------------
\* POST /payment/order and /payment/capture.

\* What is confirmed unpaid cannot be charged any more.
LEMMA ConfirmedIsDead ==
  ASSUME CheckoutInv, NEW p \in Payments, ConfirmedUnpaid(p, TRUE)
  PROVE  Dead(p) /\ ~Live(p) /\ order[p] \notin Alive
BY DEF CheckoutInv, OrdersHaveRows, ConfirmedUnpaid, Inspected, Dead, Live, Alive

\* The guard of the other attempts: none of them is or can be charged.
LEMMA OthersAreDead ==
  ASSUME CheckoutInv, NEW p \in Payments, OthersOK(p), NEW q \in Payments \ {p}
  PROVE  Dead(q) /\ ~Live(q) /\ order[q] \notin Alive /\ ~pay[q].paid
<1>1. CASE q \in Rows
  BY <1>1, ConfirmedIsDead DEF OthersOK
<1>2. CASE q \notin Rows
  BY <1>2 DEF CheckoutInv, OrdersHaveRows, Dead, Live, Alive, NoRow
<1> QED BY <1>1, <1>2

\* A row whose attempt is given up.
LEMMA GivenUpRow ==
  ASSUME NEW row \in Row
  PROVE  LET given == [row EXCEPT !.status = "CANCELED", !.refund = "NOT_REQUIRED"]
         IN /\ given \in Row /\ given.status = "CANCELED" /\ given.refund = "NOT_REQUIRED"
            /\ given.orderId = row.orderId /\ given.paid = row.paid /\ given.reason = row.reason
            /\ given.percent = row.percent /\ given.target = row.target
BY DEF Row

LEMMA OrderBeginKeeps == ASSUME CheckoutInv, NEW p \in Payments, OrderBegin(p) PROVE CheckoutInv' /\ PaidRowsStay
<1>1. /\ booking' = booking /\ booking = "APPROVED" /\ calls' = calls \cup {<<"order", p>>}
      /\ UNCHANGED <<overdue, old, reader, paypal>> /\ UNCHANGED <<order, capture, sent>>
  BY DEF OrderBegin, Payable, paypal
<1> DEFINE created == [NoRow EXCEPT !.status = "CREATED"]
<1>2. created \in Row /\ created.status = "CREATED" /\ ~created.paid /\ created.reason = "NONE" /\ ~created.orderId
      /\ created.target = None
  BY DEF NoRow, Row
<1>3. /\ NoRow.status = "NONE" /\ ~NoRow.paid /\ NoRow.reason = "NONE"
      /\ \A q \in Payments : q \notin Rows => pay[q] = NoRow
      /\ pay \in [Payments -> Row]
  BY DEF NoRow, CheckoutInv, OrdersHaveRows, CheckoutTypes
<1> HIDE DEF created
<1>4. /\ pay' \in [Payments -> Row]
      /\ \A q \in Payments : \/ pay'[q] = pay[q]
                             \/ Fresh(q) /\ pay'[q] = created
                             \/ /\ q \in Rows /\ pay[q].status = "CREATED"
                                /\ pay'[q] = [pay[q] EXCEPT !.status = "CANCELED", !.refund = "NOT_REQUIRED"]
  <2>1. CASE AskAgain(p)
    BY <1>3, <2>1 DEF AskAgain
  <2>2. CASE AskNew(p)
    <3>1. CASE pay' = [pay EXCEPT ![p] = created]
      BY <1>2, <1>3, <2>2, <3>1 DEF AskNew
    <3>2. ASSUME NEW q \in Open, pay[q].status = "CREATED",
                 pay' = [pay EXCEPT ![p] = created, ![q].status = "CANCELED", ![q].refund = "NOT_REQUIRED"]
          PROVE  <1>4
      <4>1. q \in Rows /\ q \in Payments /\ p \notin Rows /\ p # q /\ Fresh(p)
        BY <2>2 DEF AskNew, Open, Rows, Fresh
      <4>2. [pay[q] EXCEPT !.status = "CANCELED", !.refund = "NOT_REQUIRED"] \in Row
        BY <1>3, <4>1, GivenUpRow
      <4>3. pay' = [x \in Payments |-> IF x = q THEN [pay[q] EXCEPT !.status = "CANCELED", !.refund = "NOT_REQUIRED"]
                                       ELSE IF x = p THEN created ELSE pay[x]]
        BY <1>3, <3>2, <4>1
      <4> QED BY <1>2, <1>3, <3>2, <4>1, <4>2, <4>3, ZenonT(60)
    <3> QED BY <2>2, <3>1, <3>2 DEF AskNew, SetRow, created
  <2> QED BY <2>1, <2>2 DEF OrderBegin
<1>5. \A q \in Payments :
        /\ pay[q].paid => pay'[q] = pay[q]
        /\ ~pay[q].paid => /\ ~pay'[q].paid /\ pay'[q].status # "PAID" /\ pay'[q].reason = pay[q].reason
                           /\ pay'[q].target \in {None, pay[q].target}
        /\ q \in Rows => q \in Rows'
        /\ q \in Rows' => q \in Rows \/ Fresh(q)
        /\ q \notin Rows' => pay'[q] = pay[q]
        /\ pay'[q].orderId => q \in Rows'
  <2> TAKE q \in Payments
  <2>1. /\ pay[q].paid <=> pay[q].status = "PAID"
        /\ pay[q].orderId => q \in Rows
        /\ pay[q] \in Row
    BY <1>3 DEF CheckoutInv, RowsAreRight, OrdersHaveRows
  <2>2. CASE pay'[q] = pay[q]
    BY <2>1, <2>2 DEF Rows
  <2>3. CASE Fresh(q) /\ pay'[q] = created
    BY <1>2, <1>3, <2>1, <2>3 DEF Rows, Fresh
  <2>4. CASE /\ q \in Rows /\ pay[q].status = "CREATED"
             /\ pay'[q] = [pay[q] EXCEPT !.status = "CANCELED", !.refund = "NOT_REQUIRED"]
    BY <2>1, <2>4, GivenUpRow DEF Rows
  <2> QED BY <1>4, <2>2, <2>3, <2>4
<1>6. CheckoutTypes'
  <2>1. calls' \subseteq {"order", "capture"} \X Payments
    BY <1>1 DEF CheckoutInv, CheckoutTypes
  <2> QED BY <1>1, <1>4, <2>1 DEF CheckoutInv, CheckoutTypes
<1>7. OrdersHaveRows' /\ ReadersAreRight' /\ SentAlone' /\ TwoAreInherited'
  BY <1>1, <1>5, PayPalAloneKeeps DEF Rows
<1>8. /\ RowsAreRight' /\ OneIsKept' /\ PolicyIsKnown' /\ NothingIsOwedYet'
      /\ OriginalIsKept' /\ ExpiredWasUnpaid' /\ HandedOverIsPaid' /\ ClosedBookingsOwe'
  BY <1>1, <1>4, <1>5, QuietKeeps DEF Dead
<1> QED BY <1>5, <1>6, <1>7, <1>8 DEF CheckoutInv, PaidRowsStay

LEMMA OrderFinishKeeps == ASSUME CheckoutInv, NEW p \in Payments, OrderFinish(p) PROVE CheckoutInv' /\ PaidRowsStay
<1>1. /\ booking' = booking /\ booking = "APPROVED" /\ calls' \subseteq calls
      /\ UNCHANGED <<overdue, old, reader, capture, sent>>
      /\ pay[p].status = "CREATED" /\ p \in Rows /\ OthersOK(p)
  BY DEF OrderFinish, Payable, Finishes, Rows
<1>2. pay \in [Payments -> Row] /\ order \in [Payments -> OrderStates] /\ ~pay[p].paid
  BY <1>1 DEF CheckoutInv, CheckoutTypes, RowsAreRight
<1>3. /\ pay' \in [Payments -> Row] /\ order' \in [Payments -> OrderStates]
      /\ \A q \in Payments \ {p} : pay'[q] = pay[q] /\ order'[q] = order[q]
      /\ (order'[p] = order[p] \/ (order[p] = "NONE" /\ order'[p] = "CREATED"))
      /\ ~pay'[p].paid /\ pay'[p].status = "CREATED" /\ pay'[p].reason = pay[p].reason /\ pay'[p].target = pay[p].target
  <2>1. CASE CreateOrder(p)
    <3>1. PICK recorded \in BOOLEAN : pay' = [pay EXCEPT ![p] = [pay[p] EXCEPT !.orderId = recorded]]
      BY <2>1 DEF CreateOrder, SetRow
    <3>2. pay[p] \in Row /\ [pay[p] EXCEPT !.orderId = recorded] \in Row
      BY <1>2 DEF Row
    <3>3. /\ pay' \in [Payments -> Row] /\ \A q \in Payments \ {p} : pay'[q] = pay[q]
          /\ pay'[p] = [pay[p] EXCEPT !.orderId = recorded]
      BY <1>2, <3>1, <3>2
    <3>4. ~pay'[p].paid /\ pay'[p].status = "CREATED" /\ pay'[p].reason = pay[p].reason /\ pay'[p].target = pay[p].target
      BY <1>1, <1>2, <3>2, <3>3 DEF Row
    <3>5. /\ order' \in [Payments -> OrderStates] /\ \A q \in Payments \ {p} : order'[q] = order[q]
          /\ (order'[p] = order[p] \/ (order[p] = "NONE" /\ order'[p] = "CREATED"))
      BY <1>2, <2>1 DEF CreateOrder, OrderStates
    <3> QED BY <3>3, <3>4, <3>5
  <2>2. CASE UNCHANGED <<pay, order>>
    BY <1>1, <1>2, <2>2
  <2> QED BY <2>1, <2>2 DEF OrderFinish
<1>4. \A q \in Payments \ {p} : Dead(q) /\ ~Live(q) /\ order[q] \notin Alive /\ ~pay[q].paid
  BY <1>1, OthersAreDead
<1>5. CheckoutTypes'
  BY <1>1, <1>3 DEF CheckoutInv, CheckoutTypes
<1>6. Rows' = Rows
  BY <1>1, <1>3 DEF Rows
<1>7. OrdersHaveRows'
  BY <1>1, <1>3, <1>6 DEF CheckoutInv, OrdersHaveRows
<1>8. ReadersAreRight' /\ TwoAreInherited'
  BY <1>1, <1>6 DEF CheckoutInv, ReadersAreRight, TwoAreInherited, Live
<1>9. SentAlone'
  <2> SUFFICES ASSUME NEW q \in sent, order'[q] \in Alive, NEW x \in Payments \ {q} PROVE Dead(x)'
    BY <1>1 DEF SentAlone, Alive
  <2>1. q = p
    BY <1>1, <1>3, <1>4 DEF CheckoutInv, CheckoutTypes
  <2> QED BY <1>1, <1>3, <1>4, <2>1 DEF Dead
<1>10. /\ RowsAreRight' /\ OneIsKept' /\ PolicyIsKnown' /\ NothingIsOwedYet'
       /\ OriginalIsKept' /\ ExpiredWasUnpaid' /\ HandedOverIsPaid' /\ ClosedBookingsOwe'
  <2>1. \A x, q \in Payments : x < q /\ pay[q].paid /\ Dead(x) => Dead(x)'
    BY <1>1, <1>2, <1>3, <1>4 DEF Dead
  <2>2. \A q \in Payments : /\ pay[q].paid => pay'[q] = pay[q]
                            /\ ~pay[q].paid => /\ ~pay'[q].paid /\ pay'[q].status # "PAID" /\ pay'[q].reason = pay[q].reason
                                               /\ pay'[q].target = pay[q].target
                            /\ capture[q].status = "COMPLETED" => capture'[q] = capture[q]
    BY <1>1, <1>2, <1>3 DEF CheckoutInv, RowsAreRight
  <2> QED BY <1>1, <1>3, <2>1, <2>2, QuietKeeps DEF CheckoutInv
<1>11. PaidRowsStay
  BY <1>2, <1>3 DEF PaidRowsStay
<1> QED BY <1>5, <1>7, <1>8, <1>9, <1>10, <1>11 DEF CheckoutInv

LEMMA CaptureBeginKeeps == ASSUME CheckoutInv, NEW p \in Payments, CaptureBegin(p) PROVE CheckoutInv' /\ PaidRowsStay
<1>1. /\ booking' = booking /\ booking = "APPROVED" /\ calls' = calls \cup {<<"capture", p>>}
      /\ UNCHANGED <<overdue, old, reader, paypal>> /\ UNCHANGED <<order, capture, sent>>
      /\ p \in Rows /\ pay[p].status \in {"CREATED", "PENDING"}
  BY DEF CaptureBegin, Open, paypal
<1>2. pay \in [Payments -> Row] /\ ~pay[p].paid
  BY <1>1 DEF CheckoutInv, CheckoutTypes, RowsAreRight
<1>3. /\ pay' \in [Payments -> Row] /\ \A q \in Payments \ {p} : pay'[q] = pay[q]
      /\ ~pay'[p].paid /\ pay'[p].status \in {"CREATED", "PENDING"} /\ pay'[p].reason = pay[p].reason
      /\ pay'[p].target = pay[p].target
  <2>1. CASE UNCHANGED pay
    BY <1>1, <1>2, <2>1
  <2>2. CASE pay' = [pay EXCEPT ![p] = [pay[p] EXCEPT !.captureAsked = TRUE, !.status = "PENDING"]]
    <3>1. pay[p] \in Row
      BY <1>2
    <3>2. [pay[p] EXCEPT !.captureAsked = TRUE, !.status = "PENDING"] \in Row
      BY <3>1 DEF Row
    <3>3. pay'[p] = [pay[p] EXCEPT !.captureAsked = TRUE, !.status = "PENDING"]
      BY <1>2, <2>2
    <3>4. ~pay'[p].paid /\ pay'[p].status = "PENDING" /\ pay'[p].reason = pay[p].reason /\ pay'[p].target = pay[p].target
      BY <1>2, <3>1, <3>3 DEF Row
    <3> QED BY <1>2, <2>2, <3>2, <3>4
  <2> QED BY <2>1, <2>2 DEF CaptureBegin, SetRow
<1>4. CheckoutTypes'
  <2>1. calls' \subseteq {"order", "capture"} \X Payments
    BY <1>1 DEF CheckoutInv, CheckoutTypes
  <2> QED BY <1>1, <1>3, <2>1 DEF CheckoutInv, CheckoutTypes
<1>5. Rows' = Rows
  BY <1>1, <1>3 DEF Rows
<1>6. OrdersHaveRows' /\ ReadersAreRight' /\ SentAlone' /\ TwoAreInherited'
  <2>1. \A q \in Payments : pay'[q].orderId => q \in Rows'
    BY <1>1, <1>3, <1>5 DEF CheckoutInv, OrdersHaveRows
  <2>2. \A q \in Payments : q \notin Rows' => pay'[q] = pay[q]
    BY <1>1, <1>3, <1>5
  <2> QED BY <1>1, <1>5, <2>1, <2>2, PayPalAloneKeeps DEF Rows
<1>7. /\ RowsAreRight' /\ OneIsKept' /\ PolicyIsKnown' /\ NothingIsOwedYet'
      /\ OriginalIsKept' /\ ExpiredWasUnpaid' /\ HandedOverIsPaid' /\ ClosedBookingsOwe'
  <2>1. \A q \in Payments : /\ pay[q].paid => pay'[q] = pay[q]
                            /\ ~pay[q].paid => /\ ~pay'[q].paid /\ pay'[q].status # "PAID" /\ pay'[q].reason = pay[q].reason
                                               /\ pay'[q].target = pay[q].target
    BY <1>1, <1>2, <1>3 DEF CheckoutInv, RowsAreRight
  <2> QED BY <1>1, <1>3, <2>1, QuietKeeps DEF Dead
<1>8. PaidRowsStay
  BY <1>2, <1>3 DEF PaidRowsStay
<1> QED BY <1>4, <1>6, <1>7, <1>8 DEF CheckoutInv

\* A capture, whenever it is made: nothing else is charged.
LEMMA CapturesKeeps ==
  ASSUME CheckoutInv, NEW p \in Payments, Captures(p), \A q \in Payments \ {p} : Dead(q),
         sent' \subseteq sent, UNCHANGED <<booking, overdue, old, reader>>, calls' \subseteq calls,
         \A q \in Payments \ {p} : pay'[q] = pay[q],
         pay' \in [Payments -> Row], pay'[p].orderId = pay[p].orderId, pay'[p].status # "NONE",
         ~pay[p].paid => ~pay'[p].paid /\ pay'[p].status # "PAID" /\ pay'[p].reason = pay[p].reason,
         pay'[p].target = pay[p].target,
         booking = "CANCELED" => pay'[p].percent = pay[p].percent
  PROVE  CheckoutInv' /\ \A q \in Payments : Live(q)' /\ ~Live(q) => \A x \in Payments \ {q} : ~Live(x)
<1>1. PICK s \in {"PENDING", "COMPLETED", "DECLINED"} :
        capture' = [capture EXCEPT ![p] = [status |-> s, late |-> overdue \/ booking # "APPROVED"]]
  BY DEF Captures
<1>2. order[p] = "APPROVED" /\ order' = [order EXCEPT ![p] = "COMPLETED"]
  BY DEF Captures
<1>3. /\ order \in [Payments -> OrderStates] /\ capture \in [Payments -> Capture] /\ overdue \in BOOLEAN
      /\ pay \in [Payments -> Row] /\ sent \subseteq Payments
  BY DEF CheckoutInv, CheckoutTypes
<1>4. /\ order'[p] = "COMPLETED" /\ capture'[p].status = s /\ capture'[p].late = (overdue \/ booking # "APPROVED")
      /\ \A q \in Payments \ {p} : order'[q] = order[q] /\ capture'[q] = capture[q]
      /\ order' \in [Payments -> OrderStates] /\ capture' \in [Payments -> Capture]
  BY <1>1, <1>2, <1>3 DEF Capture, OrderStates
<1>5. capture[p].status = "NONE" /\ p \in Rows /\ ~pay[p].paid
  BY <1>2, <1>3 DEF CheckoutInv, OrdersHaveRows, RowsAreRight
<1>6. CheckoutTypes'
  BY <1>3, <1>4 DEF CheckoutInv, CheckoutTypes
<1>7. Rows' = Rows
  BY <1>5 DEF Rows
<1>8. OrdersHaveRows'
  BY <1>4, <1>5, <1>7 DEF CheckoutInv, OrdersHaveRows
<1>9. ReadersAreRight'
  BY <1>4, <1>5, <1>7 DEF CheckoutInv, ReadersAreRight, Rows
<1>10. \A q \in Payments \ {p} : Dead(q)' /\ ~Live(q)' /\ ~Live(q)
  BY <1>4 DEF CheckoutInv, OrdersHaveRows, Dead, Live
<1>11. SentAlone'
  BY <1>3, <1>4, <1>10 DEF CheckoutInv, OrdersHaveRows, SentAlone, Dead, Alive
<1>12. TwoAreInherited'
  BY <1>10 DEF TwoAreInherited
<1>13. /\ RowsAreRight' /\ OneIsKept' /\ PolicyIsKnown' /\ NothingIsOwedYet'
       /\ OriginalIsKept' /\ ExpiredWasUnpaid' /\ HandedOverIsPaid' /\ ClosedBookingsOwe'
  <2>1. \A q \in Payments : /\ pay[q].paid => pay'[q] = pay[q]
                            /\ ~pay[q].paid => /\ ~pay'[q].paid /\ pay'[q].status # "PAID" /\ pay'[q].reason = pay[q].reason
                                               /\ pay'[q].target = pay[q].target
                            /\ capture[q].status = "COMPLETED" => capture'[q] = capture[q]
                            /\ Dead(q) => Dead(q)'
    BY <1>2, <1>4, <1>5, <1>10 DEF CheckoutInv, RowsAreRight, Dead
  <2>2. booking = "CANCELED" => \A q \in Rows' : q \in Rows /\ pay'[q].percent = pay[q].percent
    BY <1>7 DEF Rows
  <2>3. booking = "EXPIRED" => \A q \in Payments : Live(q)' => capture'[q].late
    BY <1>4, <1>10
  <2> QED BY <2>1, <2>2, <2>3, QuietKeeps
<1> QED BY <1>6, <1>8, <1>9, <1>10, <1>11, <1>12, <1>13 DEF CheckoutInv

\* The condition of NoSecondCharge on one step.
NoneIsChargedTwice ==
  \A p \in Payments : Live(p)' /\ ~Live(p) => \A q \in Payments \ {p} : ~Live(q)

LEMMA CaptureFinishKeeps ==
  ASSUME CheckoutInv, NEW p \in Payments, CaptureFinish(p) PROVE CheckoutInv' /\ NoneIsChargedTwice /\ PaidRowsStay
<1>1. /\ booking = "APPROVED" /\ calls' \subseteq calls /\ UNCHANGED <<booking, overdue, old, reader>>
      /\ OthersOK(p) /\ pay[p].status = "PENDING" /\ p \in Rows
  BY DEF CaptureFinish, Finishes, Rows
<1>2. pay \in [Payments -> Row] /\ ~pay[p].paid
  BY <1>1 DEF CheckoutInv, CheckoutTypes, RowsAreRight
<1>3. \A q \in Payments \ {p} : Dead(q) /\ ~Live(q) /\ order[q] \notin Alive /\ ~pay[q].paid
  BY <1>1, OthersAreDead
<1>4. CASE Answered(p)
  <2>1. Captures(p) /\ sent' = sent
    BY <1>4 DEF Answered
  <2>2. PICK s \in {"PENDING", "FAILED"} : pay' = [pay EXCEPT ![p] = [pay[p] EXCEPT !.status = s, !.captureId = TRUE]]
    BY <1>4 DEF Answered, SetRow
  <2> DEFINE answered == [pay[p] EXCEPT !.status = s, !.captureId = TRUE]
  <2>3. /\ answered \in Row /\ answered.status = s /\ answered.paid = pay[p].paid /\ answered.reason = pay[p].reason
        /\ answered.orderId = pay[p].orderId /\ answered.target = pay[p].target
    <3>1. pay[p] \in Row
      BY <1>2
    <3> QED BY <3>1 DEF Row
  <2> HIDE DEF answered
  <2>4. /\ pay' \in [Payments -> Row] /\ pay'[p] = answered
        /\ \A q \in Payments \ {p} : pay'[q] = pay[q]
    BY <1>2, <2>2, <2>3 DEF answered
  <2> QED BY <1>1, <1>2, <1>3, <2>1, <2>3, <2>4, CapturesKeeps DEF NoneIsChargedTwice, PaidRowsStay
<1>5. CASE Unanswered(p)
  <2>1. sent' = sent \cup {p} /\ UNCHANGED <<pay, order, capture>>
    BY <1>5 DEF Unanswered
  <2>2. CheckoutTypes'
    BY <1>1, <2>1 DEF CheckoutInv, CheckoutTypes
  <2>3. OrdersHaveRows' /\ ReadersAreRight' /\ TwoAreInherited' /\ NoneIsChargedTwice
    BY <1>1, <2>1 DEF CheckoutInv, OrdersHaveRows, ReadersAreRight, TwoAreInherited, NoneIsChargedTwice, Rows, Live
  <2>4. SentAlone'
    BY <1>3, <2>1 DEF CheckoutInv, SentAlone, Dead
  <2>5. \A q \in Payments : ~pay[q].paid => pay[q].status # "PAID"
    BY DEF CheckoutInv, RowsAreRight
  <2>6. /\ RowsAreRight' /\ OneIsKept' /\ PolicyIsKnown' /\ NothingIsOwedYet'
        /\ OriginalIsKept' /\ ExpiredWasUnpaid' /\ HandedOverIsPaid' /\ ClosedBookingsOwe'
    BY <1>1, <1>2, <2>1, <2>5, QuietKeeps DEF Dead, Rows
  <2>7. PaidRowsStay
    BY <2>1 DEF PaidRowsStay
  <2> QED BY <2>2, <2>3, <2>4, <2>6, <2>7 DEF CheckoutInv
<1> QED BY <1>4, <1>5 DEF CaptureFinish

-----------------------------------------------------------------------------
\* PayPal and the payer.

\* An order that can be paid moves on; no capture is made.
LEMMA OrderMovesKeeps ==
  ASSUME CheckoutInv, NEW p \in Payments, order[p] \in Alive, NEW s \in {"REVERTED", "APPROVED", "GONE"},
         order' = [order EXCEPT ![p] = s], UNCHANGED <<db, calls, reader, capture, sent>>
  PROVE  CheckoutInv' /\ NoneIsChargedTwice
<1>1. /\ UNCHANGED <<booking, overdue, pay, old, calls, reader, capture, sent>> /\ Rows' = Rows
      /\ pay \in [Payments -> Row] /\ order \in [Payments -> OrderStates] /\ sent \subseteq Payments
  BY DEF db, Rows, CheckoutInv, CheckoutTypes
<1>2. /\ order' \in [Payments -> OrderStates] /\ order'[p] = s
      /\ \A q \in Payments \ {p} : order'[q] = order[q]
  BY <1>1 DEF OrderStates
<1>3. capture[p].status = "NONE" /\ p \in Rows
  BY DEF CheckoutInv, OrdersHaveRows, Alive
<1>4. CheckoutTypes' /\ NoneIsChargedTwice
  BY <1>1, <1>2 DEF CheckoutInv, CheckoutTypes, NoneIsChargedTwice, Live
<1>5. OrdersHaveRows' /\ ReadersAreRight' /\ TwoAreInherited'
  BY <1>1, <1>2, <1>3 DEF CheckoutInv, OrdersHaveRows, ReadersAreRight, TwoAreInherited, Live
<1>6. \A q \in Payments : Dead(q) => Dead(q)'
  BY <1>1, <1>2, <1>3 DEF Dead, Alive
<1>7. SentAlone'
  BY <1>1, <1>2, <1>6 DEF CheckoutInv, SentAlone, Alive
<1>8. /\ RowsAreRight' /\ OneIsKept' /\ PolicyIsKnown' /\ NothingIsOwedYet'
      /\ OriginalIsKept' /\ ExpiredWasUnpaid' /\ HandedOverIsPaid' /\ ClosedBookingsOwe'
  <2>1. \A q \in Payments : ~pay[q].paid => pay[q].status # "PAID"
    BY DEF CheckoutInv, RowsAreRight
  <2> QED BY <1>1, <1>6, <2>1, QuietKeeps DEF Live, Rows
<1> QED BY <1>4, <1>5, <1>7, <1>8 DEF CheckoutInv

LEMMA LateCaptureKeeps ==
  ASSUME CheckoutInv, NEW p \in Payments, LateCapture(p) PROVE CheckoutInv' /\ NoneIsChargedTwice
<1>1. /\ p \in sent /\ Captures(p) /\ sent' \subseteq sent
      /\ UNCHANGED <<booking, overdue, pay, old, calls, reader>> /\ order[p] = "APPROVED"
  BY DEF LateCapture, db, Captures
<1>2. \A q \in Payments \ {p} : Dead(q)
  BY <1>1 DEF CheckoutInv, SentAlone, Alive
<1>3. pay \in [Payments -> Row] /\ pay[p].status # "NONE" /\ (~pay[p].paid => pay[p].status # "PAID")
  BY <1>1 DEF CheckoutInv, CheckoutTypes, OrdersHaveRows, RowsAreRight, Rows
<1> QED BY <1>1, <1>2, <1>3, CapturesKeeps DEF NoneIsChargedTwice

LEMMA CaptureResolvesKeeps ==
  ASSUME CheckoutInv, NEW p \in Payments, CaptureResolves(p) PROVE CheckoutInv' /\ NoneIsChargedTwice
<1>1. PICK s \in {"COMPLETED", "DECLINED"} : capture' = [capture EXCEPT ![p].status = s]
  BY DEF CaptureResolves
<1>2. /\ UNCHANGED <<booking, overdue, pay, old, calls, reader, order, sent>> /\ Rows' = Rows
      /\ capture[p].status = "PENDING" /\ order[p] = "COMPLETED" /\ p \in Rows
      /\ pay \in [Payments -> Row] /\ capture \in [Payments -> Capture] /\ sent \subseteq Payments
  BY DEF CaptureResolves, db, Rows, CheckoutInv, CheckoutTypes, OrdersHaveRows
<1>3. /\ capture' \in [Payments -> Capture] /\ capture'[p].status = s /\ capture'[p].late = capture[p].late
      /\ \A q \in Payments \ {p} : capture'[q] = capture[q]
  BY <1>1, <1>2 DEF Capture
<1>4. CheckoutTypes' /\ NoneIsChargedTwice
  BY <1>2, <1>3 DEF CheckoutInv, CheckoutTypes, NoneIsChargedTwice, Live
<1>5. OrdersHaveRows' /\ ReadersAreRight' /\ TwoAreInherited'
  <2>1. OrdersHaveRows'
    BY <1>2, <1>3 DEF CheckoutInv, OrdersHaveRows
  <2>2. ReadersAreRight'
    BY <1>2, <1>3 DEF CheckoutInv, ReadersAreRight, Rows
  <2>3. TwoAreInherited'
    BY <1>2, <1>3 DEF CheckoutInv, TwoAreInherited, Live
  <2> QED BY <2>1, <2>2, <2>3
<1>6. \A q \in Payments : Dead(q) => Dead(q)'
  BY <1>2, <1>3 DEF Dead
<1>7. SentAlone'
  BY <1>2, <1>6 DEF CheckoutInv, SentAlone
<1>8. /\ RowsAreRight' /\ OneIsKept' /\ PolicyIsKnown' /\ NothingIsOwedYet'
      /\ OriginalIsKept' /\ ExpiredWasUnpaid' /\ HandedOverIsPaid' /\ ClosedBookingsOwe'
  <2>1. \A q \in Payments : /\ ~pay[q].paid => pay[q].status # "PAID"
                            /\ capture[q].status = "COMPLETED" => capture'[q] = capture[q]
                            /\ Live(q)' => Live(q) /\ capture'[q].late = capture[q].late
    BY <1>2, <1>3 DEF CheckoutInv, RowsAreRight, Live
  <2> QED BY <1>2, <1>6, <2>1, QuietKeeps DEF Rows
<1> QED BY <1>4, <1>5, <1>7, <1>8 DEF CheckoutInv

\* Time passes, and deliveries read.
LEMMA IdleKeeps ==
  ASSUME CheckoutInv, UNCHANGED <<booking, pay, calls, paypal>>, CheckoutTypes',
         \A r \in Readers : reader'[r] \in {None, reader[r]} \/ reader'[r] \in UNION {Snapshots(p) : p \in Payments}
  PROVE  CheckoutInv' /\ NoneIsChargedTwice
<1>1. UNCHANGED <<order, capture, sent>> /\ Rows' = Rows
  BY DEF paypal, Rows
<1>2. OrdersHaveRows' /\ SentAlone' /\ TwoAreInherited' /\ NoneIsChargedTwice
  BY <1>1 DEF CheckoutInv, OrdersHaveRows, SentAlone, TwoAreInherited, NoneIsChargedTwice, Dead, Live
<1>3. ReadersAreRight'
  <2> SUFFICES ASSUME NEW r \in Readers, reader'[r] # None
               PROVE  /\ reader'[r].p \in Rows
                      /\ reader'[r].capture = "COMPLETED" => capture[reader'[r].p].status = "COMPLETED"
    BY <1>1 DEF ReadersAreRight
  <2>1. CASE reader'[r] = reader[r]
    BY <2>1 DEF CheckoutInv, ReadersAreRight
  <2>2. ASSUME NEW p \in Payments, reader'[r] \in Snapshots(p)
        PROVE  /\ reader'[r].p \in Rows
               /\ reader'[r].capture = "COMPLETED" => capture[reader'[r].p].status = "COMPLETED"
    BY <2>2 DEF Snapshots, CheckoutInv, OrdersHaveRows
  <2> QED BY <2>1, <2>2
<1>4. /\ RowsAreRight' /\ OneIsKept' /\ PolicyIsKnown' /\ NothingIsOwedYet'
      /\ OriginalIsKept' /\ ExpiredWasUnpaid' /\ HandedOverIsPaid' /\ ClosedBookingsOwe'
  <2>1. \A q \in Payments : ~pay[q].paid => pay[q].status # "PAID"
    BY DEF CheckoutInv, RowsAreRight
  <2>2. pay \in [Payments -> Row]
    BY DEF CheckoutInv, CheckoutTypes
  <2> QED BY <1>1, <2>1, <2>2, QuietKeeps DEF Dead, Live
<1> QED BY <1>2, <1>3, <1>4 DEF CheckoutInv

-----------------------------------------------------------------------------
\* Settlement.

\* What makes a charge one to be returned.
Special(p) == capture[p].late \/ KeptElsewhere(p) \/ Exceptional(p)

\* What a completed capture makes of its row.
LEMMA SettledRowIs ==
  ASSUME CheckoutTypes, NEW p \in Payments
  PROVE  /\ SettledRow(p) \in Row
         /\ SettledRow(p).status = "PAID" /\ SettledRow(p).paid /\ SettledRow(p).captureId
         /\ SettledRow(p).orderId = pay[p].orderId
         /\ SettledRow(p).reason \in Exceptions <=> Special(p)
         /\ Special(p) => /\ SettledRow(p).target = "ALL" /\ SettledRow(p).percent = "ALL"
                          /\ SettledRow(p).refund = "REQUESTED"
         /\ ~Special(p) =>
              /\ SettledRow(p).percent = pay[p].percent
              /\ SettledRow(p).target = IF booking = "CANCELED" /\ pay[p].percent # None
                                        THEN pay[p].percent ELSE pay[p].target
              /\ SettledRow(p).target # None =>
                   SettledRow(p).refund = IF SettledRow(p).target = "NOTHING" THEN "NOT_REQUIRED" ELSE "REQUESTED"
<1> DEFINE target == IF Special(p) THEN "ALL"
                     ELSE IF booking = "CANCELED" /\ pay[p].percent # None THEN pay[p].percent ELSE pay[p].target
           reason == IF ~Special(p) \/ Exceptional(p) THEN pay[p].reason
                     ELSE IF capture[p].late THEN "LATE_CAPTURE" ELSE "DUPLICATE_CAPTURE"
           percent == IF Special(p) THEN "ALL" ELSE pay[p].percent
           refund == IF target = None THEN pay[p].refund ELSE IF target = "NOTHING" THEN "NOT_REQUIRED" ELSE "REQUESTED"
<1>1. pay[p] \in Row
  BY DEF CheckoutTypes
<1>2. "ALL" # None /\ "ALL" \in Shares
  BY NullAssumption DEF Shares
<1>3. /\ target \in Shares \cup {None} /\ percent \in Shares \cup {None}
      /\ reason \in Exceptions \cup {"NONE"} /\ refund \in {"NONE", "NOT_REQUIRED", "REQUESTED"}
      /\ reason \in Exceptions <=> Special(p)
  BY <1>1, <1>2 DEF Row, Exceptions, Exceptional, Special
<1> HIDE DEF target, reason, percent, refund
<1>4. SettledRow(p) = [pay[p] EXCEPT !.status = "PAID", !.paid = TRUE, !.captureId = TRUE, !.target = target,
                                     !.reason = reason, !.percent = percent, !.refund = refund]
  BY DEF SettledRow, Special, target, reason, percent, refund
<1>5. /\ SettledRow(p) \in Row
      /\ SettledRow(p).status = "PAID" /\ SettledRow(p).paid /\ SettledRow(p).captureId
      /\ SettledRow(p).orderId = pay[p].orderId
      /\ SettledRow(p).target = target /\ SettledRow(p).reason = reason
      /\ SettledRow(p).percent = percent /\ SettledRow(p).refund = refund
  BY <1>1, <1>3, <1>4 DEF Row
<1> QED BY <1>2, <1>3, <1>5 DEF target, percent, refund

\* A kept charge is never made an exception.
LEMMA KeptStaysKept ==
  ASSUME CheckoutInv, NEW p \in Payments, Kept(p)
  PROVE  ~Special(p)
BY DEF CheckoutInv, RowsAreRight, OneIsKept, Special, Kept, KeptElsewhere, Rows

LEMMA SettleKeeps ==
  ASSUME CheckoutInv, NEW p \in Rows, capture[p].status = "COMPLETED", OlderResolved(p), SetRow(p, SettledRow(p)),
         UNCHANGED <<booking, overdue, old, calls, paypal>>, \A r \in Readers : reader'[r] \in {None, reader[r]},
         CheckoutTypes'
  PROVE  CheckoutInv' /\ NoneIsChargedTwice
<1>1. p \in Payments /\ UNCHANGED <<order, capture, sent>> /\ pay \in [Payments -> Row]
  BY DEF Rows, paypal, CheckoutInv, CheckoutTypes
<1>2. /\ pay'[p] = SettledRow(p) /\ \A q \in Payments \ {p} : pay'[q] = pay[q]
  BY <1>1 DEF SetRow
<1>3. /\ pay'[p].status = "PAID" /\ pay'[p].paid /\ pay'[p].captureId /\ pay'[p].orderId = pay[p].orderId
      /\ (Exceptional(p)' <=> Special(p))
      /\ Special(p) => pay'[p].target = "ALL" /\ pay'[p].refund = "REQUESTED"
  BY <1>1, <1>2, SettledRowIs DEF CheckoutInv, Exceptional
<1>4. /\ Rows' = Rows
      /\ \A q \in Payments : pay[q].paid => q \in Rows /\ capture[q].status = "COMPLETED" /\ Live(q) /\ pay'[q].paid
      /\ \A q \in Payments : pay'[q].paid => capture[q].status = "COMPLETED" /\ Live(q)
  BY <1>1, <1>2, <1>3 DEF Rows, CheckoutInv, RowsAreRight, Live
<1>5. \A q \in Payments \ {p} : (Exceptional(q)' <=> Exceptional(q)) /\ (Kept(q)' <=> Kept(q))
  BY <1>2 DEF Exceptional, Kept
<1>6. /\ (Kept(p)' <=> ~Special(p)) /\ (Kept(p) => Kept(p)')
      /\ (Exceptional(p) => Exceptional(p)')
  BY <1>1, <1>3, KeptStaysKept DEF Kept, Special
<1>7. OrdersHaveRows' /\ ReadersAreRight' /\ SentAlone' /\ TwoAreInherited' /\ NoneIsChargedTwice
  <2>1. \A q \in Payments : /\ q \in Rows' => q \in Rows \/ Fresh(q)
                            /\ q \notin Rows' => pay'[q] = pay[q]
                            /\ pay'[q].orderId => q \in Rows'
    BY <1>2, <1>3, <1>4 DEF CheckoutInv, OrdersHaveRows
  <2>2. NoneIsChargedTwice
    BY <1>1 DEF NoneIsChargedTwice, Live
  <2> QED BY <1>4, <2>1, <2>2, PayPalAloneKeeps
<1>8. RowsAreRight'
  <2> SUFFICES ASSUME NEW q \in Payments
               PROVE  /\ pay'[q].paid <=> pay'[q].status = "PAID"
                      /\ pay'[q].paid => pay'[q].captureId /\ capture[q].status = "COMPLETED"
                      /\ Exceptional(q)' => pay'[q].paid /\ pay'[q].target = "ALL" /\ pay'[q].refund = "REQUESTED"
                      /\ Kept(q)' => ~capture[q].late
    BY <1>1 DEF RowsAreRight
  <2>1. CASE q = p
    BY <1>3, <1>6, <2>1 DEF Special
  <2>2. CASE q # p
    BY <1>2, <1>5, <2>2 DEF CheckoutInv, RowsAreRight
  <2> QED BY <2>1, <2>2
<1>9. OneIsKept'
  <2>1. \A x, q \in Payments : Kept(x)' /\ Kept(q)' => x = q
    BY <1>4, <1>5, <1>6 DEF CheckoutInv, OneIsKept, Special, KeptElsewhere, Kept
  <2>2. ASSUME NEW x \in Payments, Exceptional(x)' PROVE capture'[x].late \/ \E q \in Payments : Kept(q)'
    <3>1. ASSUME Exceptional(x) PROVE capture'[x].late \/ \E q \in Payments : Kept(q)'
      BY <1>1, <1>5, <1>6, <3>1 DEF CheckoutInv, OneIsKept
    <3>2. CASE ~Exceptional(x)
      <4>1. x = p /\ (capture[p].late \/ KeptElsewhere(p))
        BY <1>3, <1>5, <2>2, <3>2 DEF Special
      <4> QED BY <1>1, <1>5, <4>1 DEF KeptElsewhere, Kept, Rows
    <3> QED BY <3>1, <3>2
  <2>3. ASSUME NEW x \in Payments, NEW q \in Payments, x < q, pay'[q].paid PROVE pay'[x].paid \/ Dead(x)'
    <3>1. CASE q # p
      BY <1>1, <1>2, <1>4, <2>3, <3>1 DEF CheckoutInv, OneIsKept, Dead
    <3>2. CASE q = p
      <4>1. x \in Rows
        BY <2>3, <3>2 DEF CheckoutInv, OrdersHaveRows
      <4>2. pay[x].paid \/ Dead(x)
        BY <2>3, <3>2, <4>1, ConfirmedIsDead DEF OlderResolved
      <4> QED BY <1>1, <1>4, <4>2 DEF Dead
    <3> QED BY <3>1, <3>2
  <2> QED BY <2>1, <2>2, <2>3 DEF OneIsKept
<1>10. PolicyIsKnown'
  <2> SUFFICES ASSUME booking = "CANCELED", NEW q \in Rows PROVE Exceptional(q)' \/ pay'[q].percent # None
    BY <1>4 DEF PolicyIsKnown
  <2>1. q \in Payments /\ (Exceptional(q) \/ pay[q].percent # None)
    BY DEF CheckoutInv, PolicyIsKnown, Rows
  <2>2. CASE q # p
    BY <1>2, <1>5, <2>1, <2>2
  <2>3. CASE q = p
    BY <1>1, <1>2, <1>3, <2>1, <2>3, SettledRowIs DEF CheckoutInv, Special
  <2> QED BY <2>2, <2>3
<1>11. OriginalIsKept'
  <2> SUFFICES ASSUME NEW x \in Payments, NEW q \in Payments, x < q, pay'[x].paid, pay'[q].paid
               PROVE  /\ Exceptional(q)' /\ pay'[q].target = "ALL"
                      /\ ~capture[x].late => ~Exceptional(x)'
    BY <1>1 DEF OriginalIsKept
  <2>1. x # q /\ Live(x) /\ Live(q)
    BY <1>1, <1>4, CheckoutAssumption DEF Payments
  <2>2. CASE x # p /\ q # p
    BY <1>2, <1>5, <2>2 DEF CheckoutInv, OriginalIsKept
  <2>3. CASE q = p
    <3>1. pay[x].paid
      BY <1>2, <2>1, <2>3
    <3>2. \A k \in Payments : Live(k) => k \in {x, p}
      BY <1>1, <2>1, <2>3 DEF CheckoutInv, TwoAreInherited
    <3>3. ~Exceptional(x)
      <4> SUFFICES ASSUME Exceptional(x) PROVE FALSE
        OBVIOUS
      <4>1. ~capture[x].late
        BY <1>1, <2>1, <2>3 DEF CheckoutInv, TwoAreInherited
      <4>2. PICK k \in Payments : Kept(k)
        BY <4>1 DEF CheckoutInv, OneIsKept
      <4>3. k = p
        BY <1>4, <3>2, <4>2 DEF Kept
      <4> QED BY <2>3, <3>1, <4>2, <4>3 DEF CheckoutInv, OriginalIsKept, Kept
    <3>4. Special(p)
      BY <1>4, <2>1, <2>3, <3>1, <3>3 DEF Special, KeptElsewhere
    <3> QED BY <1>3, <1>5, <2>1, <2>3, <3>3, <3>4
  <2>4. CASE x = p
    <3>1. pay[q].paid /\ ~Dead(p)
      BY <1>1, <1>2, <2>1, <2>4 DEF CheckoutInv, OrdersHaveRows, Dead
    <3>2. pay[p].paid
      BY <1>1, <2>4, <3>1 DEF CheckoutInv, OneIsKept
    <3>3. Exceptional(q) /\ pay[q].target = "ALL" /\ (~capture[p].late => ~Exceptional(p))
      BY <1>1, <2>4, <3>1, <3>2 DEF CheckoutInv, OriginalIsKept
    <3> QED BY <1>1, <1>2, <1>5, <1>6, <2>1, <2>4, <3>2, <3>3 DEF Kept
  <2> QED BY <2>2, <2>3, <2>4
<1>12. ExpiredWasUnpaid'
  BY <1>1, <1>5, <1>6 DEF CheckoutInv, ExpiredWasUnpaid, Live
<1>13. HandedOverIsPaid'
  <2> DEFINE S == {x \in Payments : capture[x].status = "COMPLETED" /\ pay[x].paid
                                    /\ ~Exceptional(x) /\ pay[x].target \in {None, "NOTHING"}}
  <2> SUFFICES ASSUME booking = "HANDOVER_PENDING" PROVE Cardinality(S') = 1
    BY DEF HandedOverIsPaid
  <2>1. Cardinality(S) = 1
    BY DEF CheckoutInv, HandedOverIsPaid
  <2>2. PICK k : k \in S
    <3> HIDE DEF S
    <3>1. S # {}
      BY <2>1, FS_EmptySet
    <3> QED BY <3>1
  <2>3. Kept(k) /\ k \in Payments
    BY <2>2 DEF Kept
  <2>4. ASSUME NEW x \in Payments PROVE x \in S' <=> x \in S
    <3>1. CASE x # p
      BY <1>1, <1>2, <1>5, <3>1
    <3>2. CASE x = p /\ Kept(p)
      <4>1. ~Special(p)
        BY <1>1, <3>2, KeptStaysKept
      <4>2. SettledRow(p).target = pay[p].target
        BY <1>1, <4>1, SettledRowIs DEF CheckoutInv
      <4> QED BY <1>1, <1>2, <1>3, <3>2, <4>1, <4>2 DEF Kept
    <3>3. CASE x = p /\ ~Kept(p)
      <4>1. Special(p)
        BY <1>4, <2>3, <3>3 DEF Special, KeptElsewhere, Kept
      <4> QED BY <1>3, <3>3, <4>1 DEF Kept
    <3> QED BY <3>1, <3>2, <3>3
  <2>5. S' = S
    BY <2>4
  <2> QED BY <2>1, <2>5
<1>14. ClosedBookingsOwe'
  <2> SUFFICES ASSUME NEW q \in Payments, pay'[q].paid, booking \in {"CANCELED", "EXPIRED"}
               PROVE  /\ pay'[q].target = IF Exceptional(q)' THEN "ALL" ELSE pay'[q].percent
                      /\ pay'[q].target # None
                      /\ pay'[q].refund = IF pay'[q].target = "NOTHING" THEN "NOT_REQUIRED" ELSE "REQUESTED"
    BY DEF ClosedBookingsOwe
  <2>1. CASE q # p
    BY <1>2, <1>5, <2>1 DEF CheckoutInv, ClosedBookingsOwe
  <2>2. CASE q = p /\ Special(p)
    BY <1>3, <2>2, NullAssumption DEF Shares
  <2>3. CASE q = p /\ ~Special(p)
    <3>1. booking = "CANCELED" /\ pay[p].percent # None
      BY <1>1, <2>3 DEF CheckoutInv, ExpiredWasUnpaid, PolicyIsKnown, Live, Special
    <3> QED BY <1>1, <1>2, <1>3, <2>3, <3>1, SettledRowIs DEF CheckoutInv
  <2> QED BY <2>1, <2>2, <2>3
<1>15. NothingIsOwedYet'
  <2> SUFFICES ASSUME booking # "CANCELED", NEW q \in Payments PROVE Exceptional(q)' \/ pay'[q].target = None
    BY <1>1 DEF NothingIsOwedYet
  <2>1. Exceptional(q) \/ pay[q].target = None
    BY DEF CheckoutInv, NothingIsOwedYet
  <2>2. CASE q # p
    BY <1>2, <1>5, <2>1, <2>2
  <2>3. CASE q = p
    BY <1>1, <1>2, <1>3, <2>1, <2>3, SettledRowIs DEF CheckoutInv, Special
  <2> QED BY <2>2, <2>3
<1> QED BY <1>7, <1>8, <1>9, <1>10, <1>11, <1>12, <1>13, <1>14, <1>15 DEF CheckoutInv

\* A row with the capture and the status a snapshot reports.
WithReport(r, c, t) == [r EXCEPT !.captureId = c, !.status = t]

\* n is the row r with capture c and status t.
Reports(n, r, c, t) ==
  /\ n \in Row /\ n.status = t /\ n.captureId = c
  /\ n.paid = r.paid /\ n.reason = r.reason /\ n.percent = r.percent /\ n.orderId = r.orderId
  /\ n.target = r.target
  /\ c = r.captureId /\ t = r.status => n = r

LEMMA NewFields ==
  ASSUME NEW r \in Row, NEW c \in BOOLEAN, NEW t \in {"NONE", "CREATED", "PENDING", "PAID", "FAILED", "CANCELED"}
  PROVE  Reports(WithReport(r, c, t), r, c, t)
<1> DEFINE m == [r EXCEPT !.captureId = c]
           n == [m EXCEPT !.status = t]
<1>1. m \in Row /\ m.captureId = c /\ m.status = r.status
      /\ m.paid = r.paid /\ m.reason = r.reason /\ m.percent = r.percent /\ m.orderId = r.orderId
      /\ m.target = r.target
  BY DEF Row
<1>2. c = r.captureId => m = r
  BY DEF Row
<1> HIDE DEF m
<1>3. n \in Row /\ n.status = t /\ n.captureId = m.captureId
      /\ n.paid = m.paid /\ n.reason = m.reason /\ n.percent = m.percent /\ n.orderId = m.orderId
      /\ n.target = m.target
  BY <1>1 DEF Row
<1>4. t = m.status => n = m
  BY <1>1 DEF Row
<1>5. n = WithReport(r, c, t)
  BY DEF m, WithReport
<1> HIDE DEF n
<1> QED
  BY <1>1, <1>2, <1>3, <1>4, <1>5 DEF Reports

\* A snapshot that reports no completed capture settles nothing.
LEMMA ReportKeeps ==
  ASSUME CheckoutInv, NEW p \in Rows, NEW seen \in Snapshot, seen.p = p, seen.capture # "COMPLETED",
         SetRow(p, ReportedRow(p, seen)),
         UNCHANGED <<booking, overdue, old, calls, paypal>>, \A r \in Readers : reader'[r] \in {None, reader[r]},
         reader' \in [Readers -> {None} \cup Snapshot]
  PROVE  CheckoutInv' /\ NoneIsChargedTwice /\ PaidRowsStay
<1>1. p \in Payments /\ UNCHANGED <<order, capture, sent>> /\ pay \in [Payments -> Row] /\ pay[p].status # "NONE"
  BY DEF Rows, paypal, CheckoutInv, CheckoutTypes
<1>2. PICK known \in BOOLEAN, status \in {"NONE", "CREATED", "PENDING", "PAID", "FAILED", "CANCELED"} :
        /\ ReportedRow(p, seen) = WithReport(pay[p], known, status)
        /\ pay[p].paid => known = pay[p].captureId /\ status = pay[p].status
        /\ ~pay[p].paid => status # "PAID"
        /\ status # "NONE"
  <2> DEFINE k == pay[p].captureId \/ seen.capture # "NONE"
             t == IF pay[p].paid THEN pay[p].status
                  ELSE IF seen.capture = "DECLINED" \/ seen.reversed THEN "FAILED"
                  ELSE IF seen.capture = "PENDING" \/ seen.order = "APPROVED" THEN "PENDING" ELSE pay[p].status
  <2>1. pay[p] \in Row /\ k \in BOOLEAN /\ t \in {"NONE", "CREATED", "PENDING", "PAID", "FAILED", "CANCELED"}
    BY <1>1 DEF Row
  <2>2. /\ pay[p].paid => k = pay[p].captureId /\ t = pay[p].status
        /\ ~pay[p].paid => t # "PAID"
        /\ t # "NONE"
    BY <1>1, <2>1 DEF CheckoutInv, RowsAreRight, Row
  <2>3. ReportedRow(p, seen) = WithReport(pay[p], k, t)
    BY DEF ReportedRow, WithReport
  <2> HIDE DEF k, t
  <2> QED
    BY <2>1, <2>2, <2>3
<1>3. pay[p] \in Row
  BY <1>1
<1> DEFINE reported == WithReport(pay[p], known, status)
<1>4. ReportedRow(p, seen) = reported
  BY <1>2
<1>5. /\ reported \in Row /\ reported.status = status /\ reported.captureId = known
      /\ reported.paid = pay[p].paid /\ reported.reason = pay[p].reason
      /\ reported.percent = pay[p].percent /\ reported.orderId = pay[p].orderId /\ reported.target = pay[p].target
      /\ pay[p].paid => reported = pay[p]
  <2>1. Reports(reported, pay[p], known, status)
    BY <1>3, NewFields
  <2> HIDE DEF reported
  <2> QED
    BY <1>2, <2>1 DEF Reports
<1> HIDE DEF reported
<1>6. /\ pay' \in [Payments -> Row] /\ pay'[p] = reported /\ \A q \in Payments \ {p} : pay'[q] = pay[q]
  BY <1>1, <1>4, <1>5 DEF SetRow
<1>7. \A q \in Payments : /\ pay[q].paid => pay'[q] = pay[q]
                          /\ ~pay[q].paid => ~pay'[q].paid /\ pay'[q].status # "PAID" /\ pay'[q].reason = pay[q].reason
                          /\ pay'[q].target = pay[q].target
                          /\ pay'[q].percent = pay[q].percent /\ pay'[q].orderId = pay[q].orderId
  BY <1>1, <1>2, <1>5, <1>6 DEF CheckoutInv, RowsAreRight
<1>8. Rows' = Rows
  BY <1>1, <1>2, <1>5, <1>6 DEF Rows
<1>9. CheckoutTypes'
  BY <1>1, <1>6 DEF CheckoutInv, CheckoutTypes
<1>10. OrdersHaveRows' /\ ReadersAreRight' /\ SentAlone' /\ TwoAreInherited'
  <2>1. \A q \in Payments : /\ q \notin Rows' => pay'[q] = pay[q]
                            /\ pay'[q].orderId => q \in Rows'
    BY <1>6, <1>7, <1>8 DEF CheckoutInv, OrdersHaveRows
  <2> QED BY <1>8, <2>1, PayPalAloneKeeps
<1>11. /\ RowsAreRight' /\ OneIsKept' /\ PolicyIsKnown' /\ NothingIsOwedYet'
       /\ OriginalIsKept' /\ ExpiredWasUnpaid' /\ HandedOverIsPaid' /\ ClosedBookingsOwe'
  BY <1>1, <1>6, <1>7, <1>8, QuietKeeps DEF Dead, Live, Rows
<1>12. NoneIsChargedTwice
  BY <1>1 DEF NoneIsChargedTwice, Live
<1> QED BY <1>7, <1>9, <1>10, <1>11, <1>12 DEF CheckoutInv, PaidRowsStay

\* process_event(), whatever was read and whenever.
LEMMA ApplyKeeps ==
  ASSUME CheckoutInv, NEW seen \in Snapshot, seen.p \in Rows,
         seen.capture = "COMPLETED" => capture[seen.p].status = "COMPLETED",
         Apply(seen), UNCHANGED <<booking, overdue, old, calls, paypal>>,
         \A r \in Readers : reader'[r] \in {None, reader[r]}, reader' \in [Readers -> {None} \cup Snapshot]
  PROVE  CheckoutInv' /\ NoneIsChargedTwice
<1>1. seen.p \in Payments /\ UNCHANGED <<order, capture, sent>> /\ pay \in [Payments -> Row]
  BY DEF Rows, paypal, CheckoutInv, CheckoutTypes
<1>2. CASE UNCHANGED pay
  <2>1. CheckoutTypes'
    BY <1>1, <1>2 DEF CheckoutInv, CheckoutTypes
  <2> QED BY <1>2, <2>1, IdleKeeps
<1>3. CASE seen.capture = "COMPLETED" /\ OlderResolved(seen.p) /\ SetRow(seen.p, SettledRow(seen.p))
  <2>1. CheckoutTypes'
    BY <1>1, <1>3, SettledRowIs DEF CheckoutInv, CheckoutTypes, SetRow
  <2> QED BY <1>3, <2>1, SettleKeeps
<1>4. CASE seen.capture # "COMPLETED" /\ SetRow(seen.p, ReportedRow(seen.p, seen))
  BY <1>4, ReportKeeps
<1> QED BY <1>2, <1>3, <1>4 DEF Apply

-----------------------------------------------------------------------------
\* The booking ends or is handed over.

LEMMA ExpireUnpaidKeeps == ASSUME CheckoutInv, ExpireUnpaid PROVE CheckoutInv' /\ NoneIsChargedTwice /\ PaidRowsStay
<1>1. /\ booking = "APPROVED" /\ booking' = "EXPIRED"
      /\ UNCHANGED <<overdue, old, calls, reader, paypal>> /\ UNCHANGED <<order, capture, sent>>
      /\ pay \in [Payments -> Row]
  BY DEF ExpireUnpaid, paypal, CheckoutInv, CheckoutTypes
<1>2. /\ pay' \in [Payments -> Row]
      /\ \A p \in Payments : \/ pay'[p] = pay[p]
                             \/ p \in Open /\ pay'[p] = [pay[p] EXCEPT !.status = "CANCELED", !.refund = "NOT_REQUIRED"]
  BY <1>1, GivenUpRow DEF ExpireUnpaid
<1>3. \A p \in Payments :
        /\ pay[p].paid => pay'[p] = pay[p]
        /\ ~pay[p].paid => ~pay'[p].paid /\ pay'[p].status # "PAID" /\ pay'[p].reason = pay[p].reason
        /\ pay'[p].status # "NONE" <=> pay[p].status # "NONE"
        /\ pay'[p].orderId = pay[p].orderId /\ pay'[p].target = pay[p].target
  <2> TAKE p \in Payments
  <2>1. pay[p] \in Row /\ (pay[p].paid <=> pay[p].status = "PAID")
    BY <1>1 DEF CheckoutInv, RowsAreRight
  <2>2. CASE pay'[p] = pay[p]
    BY <2>1, <2>2
  <2>3. CASE p \in Open /\ pay'[p] = [pay[p] EXCEPT !.status = "CANCELED", !.refund = "NOT_REQUIRED"]
    BY <2>1, <2>3, GivenUpRow, ZenonT(60) DEF Open
  <2> QED BY <1>2, <2>2, <2>3
<1>4. \A p \in Rows : Exceptional(p) \/ (~pay[p].paid /\ ~Live(p))
  <2> SUFFICES ASSUME NEW p \in Rows, ~Exceptional(p) PROVE ~pay[p].paid /\ ~Live(p)
    OBVIOUS
  <2>1. p \in Payments /\ pay[p].status # "PAID" /\ ConfirmedUnpaid(p, FALSE)
    BY DEF ExpireUnpaid, Rows
  <2>2. ~pay[p].paid
    BY <2>1 DEF CheckoutInv, RowsAreRight
  <2>3. ~Live(p)
    BY <2>1 DEF ConfirmedUnpaid, Inspected, Live
  <2> QED BY <2>2, <2>3
<1>5. Rows' = Rows
  BY <1>3 DEF Rows
<1>6. \A p \in Payments : /\ pay'[p].paid = pay[p].paid /\ (Exceptional(p)' <=> Exceptional(p)) /\ (Kept(p)' <=> Kept(p))
                          /\ Exceptional(p) => pay[p].paid
  <2> TAKE p \in Payments
  <2>1. pay[p] \in Row /\ pay'[p] \in Row /\ (Exceptional(p) => pay[p].paid)
    BY <1>1, <1>2 DEF CheckoutInv, RowsAreRight
  <2>2. CASE pay[p].paid
    BY <1>3, <2>1, <2>2 DEF Exceptional, Kept
  <2>3. CASE ~pay[p].paid
    BY <1>3, <2>1, <2>3 DEF Exceptional, Kept, Row
  <2> QED BY <2>2, <2>3
<1>7. CheckoutTypes'
  BY <1>1, <1>2 DEF CheckoutInv, CheckoutTypes
<1>8. OrdersHaveRows' /\ ReadersAreRight' /\ SentAlone' /\ TwoAreInherited'
  <2>1. \A q \in Payments : /\ q \notin Rows' => pay'[q] = pay[q]
                            /\ pay'[q].orderId => q \in Rows'
    BY <1>2, <1>3, <1>5 DEF CheckoutInv, OrdersHaveRows, Rows, Open
  <2> QED BY <1>1, <1>5, <2>1, PayPalAloneKeeps
<1>9. RowsAreRight' /\ OneIsKept' /\ OriginalIsKept'
  BY <1>1, <1>3, <1>6 DEF CheckoutInv, RowsAreRight, OneIsKept, OriginalIsKept, Kept, Dead
<1>10. PolicyIsKnown' /\ HandedOverIsPaid' /\ NoneIsChargedTwice
  BY <1>1 DEF PolicyIsKnown, HandedOverIsPaid, NoneIsChargedTwice, Live
<1>11. ExpiredWasUnpaid'
  BY <1>1, <1>4, <1>6 DEF ExpiredWasUnpaid, CheckoutInv, OrdersHaveRows, Live
<1>12. ClosedBookingsOwe'
  <2>1. \A p \in Payments : pay[p].paid => Exceptional(p) /\ pay'[p] = pay[p]
    BY <1>3, <1>4 DEF CheckoutInv, OrdersHaveRows, NoRow
  <2> QED BY <1>6, <2>1, NullAssumption DEF ClosedBookingsOwe, CheckoutInv, RowsAreRight, Shares
<1>13. NothingIsOwedYet'
  BY <1>1, <1>3, <1>6 DEF CheckoutInv, NothingIsOwedYet
<1> QED BY <1>3, <1>7, <1>8, <1>9, <1>10, <1>11, <1>12, <1>13 DEF CheckoutInv, PaidRowsStay

\* What a cancellation makes of a row.
LEMMA CanceledRowIs ==
  ASSUME CheckoutInv, NEW p \in Payments, NEW share \in Shares
  PROVE  LET r == CanceledRow(p, share)
         IN /\ r \in Row /\ r.paid = pay[p].paid /\ r.reason = pay[p].reason /\ r.orderId = pay[p].orderId
            /\ r.captureId = pay[p].captureId
            /\ r.status = "NONE" <=> pay[p].status = "NONE"
            /\ r.status = "PAID" <=> pay[p].status = "PAID"
            /\ p \notin Rows \/ Exceptional(p) => r = pay[p]
            /\ p \in Rows /\ ~Exceptional(p) => r.percent = share
            /\ Kept(p) => /\ r.target = share
                          /\ r.refund = IF share = "NOTHING" THEN "NOT_REQUIRED" ELSE "REQUESTED"
<1>1. pay[p] \in Row /\ (pay[p].paid <=> pay[p].status = "PAID")
  BY DEF CheckoutInv, CheckoutTypes, RowsAreRight
<1>2. "NOTHING" \in Shares
  BY DEF Shares
<1>3. CASE p \notin Rows \/ Exceptional(p)
  BY <1>1, <1>3 DEF CanceledRow, Kept, Rows
<1>4. CASE p \in Captured
  <2>1. p \in Rows /\ ~Exceptional(p)
    BY <1>4 DEF Captured
  <2>2. CanceledRow(p, share) = [pay[p] EXCEPT !.target = share, !.percent = share,
                                               !.refund = IF share = "NOTHING" THEN "NOT_REQUIRED" ELSE "REQUESTED"]
    BY <1>4, <2>1 DEF CanceledRow
  <2> QED BY <1>1, <2>1, <2>2 DEF Row
<1>5. CASE p \in Rows /\ ~Exceptional(p) /\ p \notin Captured /\ p \in Open
  <2>1. CanceledRow(p, share) = [pay[p] EXCEPT !.status = "CANCELED", !.refund = "NOT_REQUIRED", !.target = "NOTHING",
                                               !.percent = share]
    BY <1>5 DEF CanceledRow
  <2>2. pay[p].status \in {"CREATED", "PENDING"} /\ ~pay[p].paid
    BY <1>1, <1>5 DEF Open
  <2> QED BY <1>1, <1>2, <1>5, <2>1, <2>2 DEF Row, Kept
<1>6. CASE p \in Rows /\ ~Exceptional(p) /\ p \notin Captured /\ p \notin Open
  <2>1. CanceledRow(p, share) = [pay[p] EXCEPT !.percent = share]
    BY <1>6 DEF CanceledRow
  <2>2. ~pay[p].paid
    BY <1>6 DEF Captured
  <2> QED BY <1>1, <1>6, <2>1, <2>2 DEF Row, Kept
<1> QED BY <1>3, <1>4, <1>5, <1>6

LEMMA CloseCanceledKeeps ==
  ASSUME CheckoutInv, NEW share \in Shares, CloseCanceled(share) PROVE CheckoutInv' /\ NoneIsChargedTwice
<1>1. /\ booking' = "CANCELED" /\ pay \in [Payments -> Row]
      /\ UNCHANGED <<overdue, old, calls, reader, paypal>> /\ UNCHANGED <<order, capture, sent>>
  BY DEF CloseCanceled, paypal, CheckoutInv, CheckoutTypes
<1>2. pay' = [p \in Payments |-> CanceledRow(p, share)]
  BY DEF CloseCanceled
<1>3. /\ pay' \in [Payments -> Row]
      /\ \A p \in Payments :
           /\ pay'[p].paid = pay[p].paid /\ (Exceptional(p)' <=> Exceptional(p)) /\ (Kept(p)' <=> Kept(p))
           /\ pay'[p].captureId = pay[p].captureId /\ pay'[p].orderId = pay[p].orderId
           /\ pay'[p].status = "NONE" <=> pay[p].status = "NONE"
           /\ pay'[p].status = "PAID" <=> pay[p].status = "PAID"
           /\ p \notin Rows \/ Exceptional(p) => pay'[p] = pay[p]
           /\ p \in Rows /\ ~Exceptional(p) => pay'[p].percent = share
           /\ Kept(p) => /\ pay'[p].target = share
                         /\ pay'[p].refund = IF share = "NOTHING" THEN "NOT_REQUIRED" ELSE "REQUESTED"
  BY <1>2, CanceledRowIs DEF Exceptional, Kept
<1>4. Rows' = Rows
  BY <1>3 DEF Rows
<1>5. CheckoutTypes'
  BY <1>1, <1>3 DEF CheckoutInv, CheckoutTypes
<1>6. OrdersHaveRows' /\ ReadersAreRight' /\ SentAlone' /\ TwoAreInherited'
  <2>1. \A q \in Payments : /\ q \notin Rows' => pay'[q] = pay[q]
                            /\ pay'[q].orderId => q \in Rows'
    BY <1>3, <1>4 DEF CheckoutInv, OrdersHaveRows
  <2> QED BY <1>1, <1>4, <2>1, PayPalAloneKeeps
<1>7. RowsAreRight' /\ OneIsKept' /\ OriginalIsKept'
  BY <1>1, <1>3 DEF CheckoutInv, RowsAreRight, OneIsKept, OriginalIsKept, Dead
<1>8. PolicyIsKnown'
  BY <1>3, <1>4, NullAssumption DEF PolicyIsKnown, Rows
<1>9. NothingIsOwedYet'
  BY <1>1 DEF NothingIsOwedYet
<1>10. HandedOverIsPaid' /\ ExpiredWasUnpaid' /\ NoneIsChargedTwice
  BY <1>1 DEF HandedOverIsPaid, ExpiredWasUnpaid, NoneIsChargedTwice, Live
<1>11. ClosedBookingsOwe'
  <2> SUFFICES ASSUME NEW p \in Payments, pay[p].paid
               PROVE  /\ pay'[p].target = IF Exceptional(p) THEN "ALL" ELSE pay'[p].percent
                      /\ pay'[p].target # None
                      /\ pay'[p].refund = IF pay'[p].target = "NOTHING" THEN "NOT_REQUIRED" ELSE "REQUESTED"
    BY <1>3 DEF ClosedBookingsOwe
  <2>1. CASE Exceptional(p)
    BY <1>3, <2>1, NullAssumption DEF CheckoutInv, RowsAreRight, Shares
  <2>2. CASE ~Exceptional(p)
    <3>1. Kept(p) /\ p \in Rows
      BY <2>2 DEF Kept, CheckoutInv, OrdersHaveRows, NoRow
    <3> QED BY <1>3, <2>2, <3>1, NullAssumption
  <2> QED BY <2>1, <2>2
<1> QED BY <1>5, <1>6, <1>7, <1>8, <1>9, <1>10, <1>11 DEF CheckoutInv

\* A change of the booking's status alone.
LEMMA BookingMovesKeeps ==
  ASSUME CheckoutInv, UNCHANGED <<overdue, pay, old, calls, reader, paypal>>,
         booking # "CANCELED", booking' \in {"HANDOVER_PENDING", "NOT_RECEIVED"}, HandedOverIsPaid'
  PROVE  CheckoutInv' /\ NoneIsChargedTwice
<1>1. UNCHANGED <<order, capture, sent>> /\ Rows' = Rows
  BY DEF paypal, Rows
<1>2. CheckoutTypes'
  BY <1>1 DEF CheckoutInv, CheckoutTypes
<1>3. OrdersHaveRows' /\ ReadersAreRight' /\ SentAlone' /\ TwoAreInherited' /\ NoneIsChargedTwice
  BY <1>1 DEF CheckoutInv, OrdersHaveRows, ReadersAreRight, SentAlone, TwoAreInherited, NoneIsChargedTwice, Dead, Live
<1>4. RowsAreRight' /\ OneIsKept' /\ OriginalIsKept'
  BY <1>1 DEF CheckoutInv, RowsAreRight, OneIsKept, OriginalIsKept, Kept, Exceptional, Dead
<1>5. PolicyIsKnown' /\ ExpiredWasUnpaid' /\ ClosedBookingsOwe'
  BY DEF PolicyIsKnown, ExpiredWasUnpaid, ClosedBookingsOwe
<1>6. NothingIsOwedYet'
  BY DEF CheckoutInv, NothingIsOwedYet, Exceptional
<1> QED BY <1>2, <1>3, <1>4, <1>5, <1>6 DEF CheckoutInv

LEMMA HandOverKeeps == ASSUME CheckoutInv, HandOver PROVE CheckoutInv' /\ NoneIsChargedTwice
<1>1. /\ UNCHANGED <<overdue, pay, old, calls, reader, paypal>> /\ UNCHANGED capture
      /\ booking = "APPROVED" /\ booking' = "HANDOVER_PENDING"
  BY DEF HandOver, paypal
<1> DEFINE S == {p \in Payments : capture[p].status = "COMPLETED" /\ pay[p].paid
                                  /\ ~Exceptional(p) /\ pay[p].target \in {None, "NOTHING"}}
           T == {p \in Rows : PaidFor(p)}
<1>2. \A p \in Payments : p \in T <=> p \in S
  <2> TAKE p \in Payments
  <2>1. p \in Rows => pay[p].target \in {None, "NOTHING"} /\ pay[p].refund # "REQUESTED"
    BY DEF HandOver
  <2>2. /\ pay[p].paid <=> pay[p].status = "PAID"
        /\ pay[p].paid => pay[p].captureId /\ capture[p].status = "COMPLETED" /\ p \in Rows
        /\ Exceptional(p) => pay[p].refund = "REQUESTED"
    BY DEF CheckoutInv, RowsAreRight, OrdersHaveRows, NoRow
  <2> QED BY <2>1, <2>2 DEF PaidFor
<1>3. T = S /\ Cardinality(T) = 1
  BY <1>2 DEF HandOver, Rows
<1>4. HandedOverIsPaid'
  <2>1. S' = S
    BY <1>1 DEF Exceptional
  <2> QED BY <1>3, <2>1 DEF HandedOverIsPaid
<1> QED BY <1>1, <1>4, BookingMovesKeeps

-----------------------------------------------------------------------------
\* Every step.

LEMMA SnapshotsAre ==
  ASSUME CheckoutInv, NEW p \in Payments, NEW s \in Snapshots(p)
  PROVE  s \in Snapshot /\ s.p = p /\ p \in Rows /\ (s.capture = "COMPLETED" => capture[p].status = "COMPLETED")
<1>1. order[p] \in OrderStates /\ capture[p].status \in {"NONE", "PENDING", "COMPLETED", "DECLINED"}
  BY DEF CheckoutInv, CheckoutTypes, Capture
<1> QED BY <1>1 DEF Snapshots, Snapshot, CheckoutInv, OrdersHaveRows

LEMMA CustomerKeeps == ASSUME CheckoutInv, CustomerStep PROVE CheckoutInv' /\ NoneIsChargedTwice
<1>1. ASSUME NEW p \in Payments, OrderBegin(p) PROVE CheckoutInv' /\ NoneIsChargedTwice
  BY <1>1, OrderBeginKeeps DEF OrderBegin, paypal, NoneIsChargedTwice, Live
<1>2. ASSUME NEW p \in Payments, OrderFinish(p) PROVE CheckoutInv' /\ NoneIsChargedTwice
  BY <1>2, OrderFinishKeeps DEF OrderFinish, NoneIsChargedTwice, Live
<1>3. ASSUME NEW p \in Payments, CaptureBegin(p) PROVE CheckoutInv' /\ NoneIsChargedTwice
  BY <1>3, CaptureBeginKeeps DEF CaptureBegin, paypal, NoneIsChargedTwice, Live
<1>4. ASSUME NEW p \in Payments, CaptureFinish(p) PROVE CheckoutInv' /\ NoneIsChargedTwice
  BY <1>4, CaptureFinishKeeps
<1> QED BY <1>1, <1>2, <1>3, <1>4 DEF CustomerStep

LEMMA PayPalKeeps == ASSUME CheckoutInv, PayPalStep PROVE CheckoutInv' /\ NoneIsChargedTwice
<1>1. ASSUME NEW p \in Payments, PayerApproves(p) \/ ApprovalReversed(p) \/ OrderLapses(p)
      PROVE  CheckoutInv' /\ NoneIsChargedTwice
  BY <1>1, OrderMovesKeeps DEF PayerApproves, ApprovalReversed, OrderLapses, Alive
<1>2. ASSUME NEW p \in Payments, LateCapture(p) PROVE CheckoutInv' /\ NoneIsChargedTwice
  BY <1>2, LateCaptureKeeps
<1>3. ASSUME NEW p \in Payments, CaptureResolves(p) PROVE CheckoutInv' /\ NoneIsChargedTwice
  BY <1>3, CaptureResolvesKeeps
<1> QED BY <1>1, <1>2, <1>3 DEF PayPalStep

LEMMA SettlementKeeps == ASSUME CheckoutInv, SettlementStep PROVE CheckoutInv' /\ NoneIsChargedTwice
<1>1. ASSUME NEW r \in Readers, Process(r) PROVE CheckoutInv' /\ NoneIsChargedTwice
  <2>1. /\ reader[r] # None /\ Apply(reader[r]) /\ reader' = [reader EXCEPT ![r] = None]
        /\ UNCHANGED <<booking, overdue, old, calls, paypal>> /\ reader \in [Readers -> {None} \cup Snapshot]
    BY <1>1 DEF Process, CheckoutInv, CheckoutTypes
  <2>2. /\ reader[r] \in Snapshot /\ reader[r].p \in Rows
        /\ reader[r].capture = "COMPLETED" => capture[reader[r].p].status = "COMPLETED"
    BY <2>1 DEF CheckoutInv, ReadersAreRight
  <2>3. reader' \in [Readers -> {None} \cup Snapshot] /\ \A x \in Readers : reader'[x] \in {None, reader[x]}
    BY <2>1
  <2> QED BY <2>1, <2>2, <2>3, ApplyKeeps
<1>2. ASSUME NEW r \in Readers, NEW p \in Payments, Read(r, p) PROVE CheckoutInv' /\ NoneIsChargedTwice
  <2>1. PICK s \in Snapshots(p) : reader' = [reader EXCEPT ![r] = s]
    BY <1>2 DEF Read
  <2>2. UNCHANGED <<booking, overdue, pay, old, calls, paypal>> /\ UNCHANGED <<order, capture, sent>>
    BY <1>2 DEF Read, db, paypal
  <2>3. reader \in [Readers -> {None} \cup Snapshot] /\ s \in Snapshot
    BY SnapshotsAre DEF CheckoutInv, CheckoutTypes
  <2>4. /\ reader' \in [Readers -> {None} \cup Snapshot]
        /\ \A x \in Readers : reader'[x] = reader[x] \/ reader'[x] \in Snapshots(p)
    BY <2>1, <2>3
  <2>5. CheckoutTypes'
    BY <2>2, <2>4 DEF CheckoutInv, CheckoutTypes
  <2> QED BY <2>2, <2>4, <2>5, IdleKeeps
<1>3. ASSUME NEW p \in Payments, Deliver(p) PROVE CheckoutInv' /\ NoneIsChargedTwice
  <2>1. PICK s \in Snapshots(p) : Apply(s)
    BY <1>3 DEF Deliver
  <2>2. UNCHANGED <<booking, overdue, old, calls, reader, paypal>> /\ reader \in [Readers -> {None} \cup Snapshot]
    BY <1>3 DEF Deliver, CheckoutInv, CheckoutTypes
  <2> QED BY <2>1, <2>2, SnapshotsAre, ApplyKeeps
<1> QED BY <1>1, <1>2, <1>3 DEF SettlementStep

LEMMA BookingKeeps == ASSUME CheckoutInv, BookingStep PROVE CheckoutInv' /\ NoneIsChargedTwice
<1>1. ASSUME CustomerCancels \/ ShopCancels PROVE CheckoutInv' /\ NoneIsChargedTwice
  BY <1>1, CloseCanceledKeeps DEF CustomerCancels, ShopCancels, Shares
<1>2. ASSUME ReceiptExpires PROVE CheckoutInv' /\ NoneIsChargedTwice
  BY <1>2, BookingMovesKeeps DEF ReceiptExpires, HandedOverIsPaid
<1> QED BY <1>1, <1>2, ExpireUnpaidKeeps, HandOverKeeps DEF BookingStep

LEMMA StepKeeps == ASSUME CheckoutInv, [Next]_vars PROVE CheckoutInv' /\ NoneIsChargedTwice
<1>1. ASSUME UNCHANGED <<booking, pay, calls, reader, paypal>>, overdue' \in BOOLEAN,
             old' \subseteq {"order", "capture"} \X Payments
      PROVE  CheckoutInv' /\ NoneIsChargedTwice
  <2>1. CheckoutTypes'
    BY <1>1 DEF CheckoutInv, CheckoutTypes, paypal
  <2> QED BY <1>1, <2>1, IdleKeeps
<1>2. CASE DeadlinePasses
  BY <1>1, <1>2 DEF DeadlinePasses, CheckoutInv, CheckoutTypes
<1>3. ASSUME NEW kind \in {"order", "capture"}, NEW p \in Payments, Age(kind, p)
      PROVE  CheckoutInv' /\ NoneIsChargedTwice
  <2>1. UNCHANGED <<booking, overdue, pay, calls, reader, paypal>> /\ old' = old \cup {<<kind, p>>}
    BY <1>3 DEF Age
  <2>2. overdue' \in BOOLEAN /\ old' \subseteq {"order", "capture"} \X Payments
    BY <2>1 DEF CheckoutInv, CheckoutTypes
  <2> QED BY <1>1, <2>1, <2>2
<1>4. CASE UNCHANGED vars
  BY <1>1, <1>4 DEF vars, db, CheckoutInv, CheckoutTypes
<1> QED BY <1>2, <1>3, <1>4, CustomerKeeps, PayPalKeeps, SettlementKeeps, BookingKeeps DEF Next

LEMMA CheckoutInvariant == Spec => []CheckoutInv
BY InitCheckout, StepKeeps, PTL DEF Spec

-----------------------------------------------------------------------------
\* No answer that is lost and no call that is repeated makes PayPal charge a
\* booking that it charges already (customer_rentals.py:1045, payment_attempts.py:15).
THEOREM NoBookingIsChargedTwice == Spec => NoSecondCharge
<1>1. CheckoutInv /\ [Next]_vars => [\A p \in Payments : Live(p)' /\ ~Live(p) => \A q \in Payments \ {p} : ~Live(q)]_vars
  BY StepKeeps DEF NoneIsChargedTwice
<1> QED BY <1>1, CheckoutInvariant, PTL DEF Spec, NoSecondCharge

\* The payment timer never expires a booking that was paid in time, or is being
\* paid (jobs.py:105).
THEOREM ExpiredBookingsWereUnpaid == Spec => []ExpiredWasUnpaid
BY CheckoutInvariant, PTL DEF CheckoutInv

\* A vehicle is handed over against exactly one payment (reservation_payments.py:41).
THEOREM HandoversArePaid == Spec => []HandedOverIsPaid
BY CheckoutInvariant, PTL DEF CheckoutInv

\* Of several charges the earliest is kept, in whatever order they are reported
\* (paypal.py:511).
THEOREM TheOriginalIsKept == Spec => []OriginalIsKept
BY CheckoutInvariant, PTL DEF CheckoutInv

\* Whatever arrives for a booking that is over is asked back (paypal.py:514, refunds.py:23).
THEOREM ClosedBookingsOweTheirMoney == Spec => []ClosedBookingsOwe
BY CheckoutInvariant, PTL DEF CheckoutInv

\* The rows, the calls and PayPal's records have their types.
THEOREM CheckoutIsTyped == Spec => []CheckoutTypes
BY CheckoutInvariant, PTL DEF CheckoutInv

-----------------------------------------------------------------------------
\* The ledger.

\* Steps that settle nothing and change no charge leave the ledger alone.
LEMMA LedgerStays ==
  ASSUME PaidRowsStay, Stage' = Stage,
         \A p \in Payments : (Live(p)' <=> Live(p)) /\ (Live(p) => capture'[p].late = capture[p].late)
  PROVE  UNCHANGED Ledger!vars
<1>1. \A p \in Payments : ChargeOf(p)' = ChargeOf(p)
  BY DEF PaidRowsStay, ChargeOf, Exceptional
<1>2. Charges' = Charges
  BY <1>1 DEF Charges
<1>3. InTime' = InTime
  BY DEF InTime
<1>4. Owed' = Owed
  BY DEF PaidRowsStay, Owed
<1> QED BY <1>2, <1>3, <1>4 DEF Ledger!vars

\* A capture is a charge, unless PayPal declines it.
LEMMA CapturesCharge ==
  ASSUME CheckoutInv, NEW p \in Payments, Captures(p), PaidRowsStay, booking' = booking,
         \A q \in Payments \ {p} : Dead(q)
  PROVE  Ledger!Charge(p) \/ UNCHANGED Ledger!vars
<1>1. PICK s \in {"PENDING", "COMPLETED", "DECLINED"} :
        capture' = [capture EXCEPT ![p] = [status |-> s, late |-> overdue \/ booking # "APPROVED"]]
  BY DEF Captures
<1>2. /\ capture \in [Payments -> Capture] /\ capture[p].status = "NONE" /\ ~pay[p].paid
      /\ Stage' = Stage /\ overdue \in BOOLEAN
  BY DEF CheckoutInv, CheckoutTypes, OrdersHaveRows, RowsAreRight, Captures, Stage
<1>3. /\ capture'[p].status = s /\ capture'[p].late = (overdue \/ booking # "APPROVED")
      /\ \A q \in Payments \ {p} : capture'[q] = capture[q]
  BY <1>1, <1>2
<1>4. \A q \in Payments : ~Live(q)
  BY <1>2 DEF CheckoutInv, OrdersHaveRows, Dead, Live
<1>5. CASE s = "DECLINED"
  <2>1. \A q \in Payments : ~Live(q)'
    BY <1>3, <1>4, <1>5 DEF Live
  <2> QED BY <1>2, <1>4, <2>1, LedgerStays
<1>6. CASE s # "DECLINED"
  <2>1. Live(p)' /\ \A q \in Payments \ {p} : ~Live(q)'
    BY <1>3, <1>4, <1>6 DEF Live
  <2>2. Charges = [q \in Payments |-> "NONE"] /\ Ledger!With("NONE") = Payments
    BY <1>4 DEF Charges, ChargeOf, Ledger!With
  <2>3. Charges' = [Charges EXCEPT ![p] = "OPEN"]
    <3>1. ~pay'[p].paid
      BY <1>2 DEF PaidRowsStay
    <3>2. \A q \in Payments : ChargeOf(q)' = IF q = p THEN "OPEN" ELSE "NONE"
      BY <2>1, <3>1 DEF ChargeOf
    <3>3. Charges' = [q \in Payments |-> IF q = p THEN "OPEN" ELSE "NONE"]
      BY <3>2 DEF Charges
    <3> QED BY <2>2, <3>3
  <2>4. UNCHANGED InTime \/ (Stage = "OPEN" /\ InTime' = InTime \cup {p})
    <3>1. CASE capture'[p].late
      BY <1>4, <2>1, <3>1 DEF InTime
    <3>2. CASE ~capture'[p].late
      <4>1. Stage = "OPEN"
        BY <1>3, <3>2 DEF Stage
      <4> QED BY <1>4, <2>1, <3>2, <4>1 DEF InTime
    <3> QED BY <3>1, <3>2
  <2>5. Owed' = Owed
    BY DEF PaidRowsStay, Owed
  <2> QED BY <1>2, <2>2, <2>3, <2>4, <2>5 DEF Ledger!Charge
<1> QED BY <1>5, <1>6

\* PayPal completes a pending capture, or refuses the charge.
LEMMA CaptureResolvesRefuses ==
  ASSUME CheckoutInv, NEW p \in Payments, CaptureResolves(p)
  PROVE  Ledger!Refuse(p) \/ UNCHANGED Ledger!vars
<1>1. PICK s \in {"COMPLETED", "DECLINED"} : capture' = [capture EXCEPT ![p].status = s]
  BY DEF CaptureResolves
<1>2. /\ capture \in [Payments -> Capture] /\ capture[p].status = "PENDING" /\ ~pay[p].paid
      /\ Stage' = Stage /\ pay' = pay /\ PaidRowsStay
  BY DEF CheckoutInv, CheckoutTypes, RowsAreRight, CaptureResolves, db, Stage, PaidRowsStay
<1>3. /\ capture'[p].status = s /\ capture'[p].late = capture[p].late
      /\ \A q \in Payments \ {p} : capture'[q] = capture[q]
  BY <1>1, <1>2 DEF Capture
<1>4. Live(p) /\ (Live(p)' <=> s = "COMPLETED") /\ \A q \in Payments \ {p} : Live(q)' <=> Live(q)
  BY <1>2, <1>3 DEF Live
<1>5. CASE s = "COMPLETED"
  BY <1>2, <1>3, <1>4, <1>5, LedgerStays
<1>6. CASE s = "DECLINED"
  <2>1. Charges[p] = "OPEN"
    BY <1>2, <1>4 DEF Charges, ChargeOf
  <2>2. Charges' = [Charges EXCEPT ![p] = "NONE"]
    <3>1. \A q \in Payments : ChargeOf(q)' = IF q = p THEN "NONE" ELSE ChargeOf(q)
      BY <1>2, <1>4, <1>6 DEF ChargeOf, Exceptional
    <3> QED BY <3>1 DEF Charges
  <2>3. InTime' = InTime \ {p}
    BY <1>3, <1>4, <1>6 DEF InTime
  <2>4. Owed' = Owed
    BY <1>2 DEF Owed
  <2> QED BY <1>2, <2>1, <2>2, <2>3, <2>4 DEF Ledger!Refuse
<1> QED BY <1>5, <1>6

\* A completed capture that is applied: the first time it is kept or given back.
LEMMA SettlesOnce ==
  ASSUME CheckoutInv, NEW p \in Rows, capture[p].status = "COMPLETED", SetRow(p, SettledRow(p)),
         UNCHANGED <<booking, capture>>
  PROVE  Ledger!Keep(p) \/ Ledger!GiveBack(p) \/ UNCHANGED Ledger!vars
<1>1. p \in Payments /\ pay \in [Payments -> Row] /\ Live(p)
  BY DEF Rows, CheckoutInv, CheckoutTypes, Live
<1>2. pay'[p] = SettledRow(p) /\ \A q \in Payments \ {p} : pay'[q] = pay[q]
  BY <1>1 DEF SetRow
<1>3. /\ pay'[p].paid /\ (Exceptional(p)' <=> Special(p))
      /\ Special(p) => pay'[p].target = "ALL"
      /\ ~Special(p) => pay'[p].target = IF booking = "CANCELED" /\ pay[p].percent # None
                                         THEN pay[p].percent ELSE pay[p].target
  BY <1>1, <1>2, SettledRowIs DEF CheckoutInv, Exceptional
<1>4. \A q \in Payments : /\ Live(q)' <=> Live(q)
                          /\ Kept(q) <=> ChargeOf(q) = "KEPT"
  BY DEF Live, Kept, ChargeOf, CheckoutInv, RowsAreRight
<1>5. \A q \in Payments \ {p} : ChargeOf(q)' = ChargeOf(q)
  BY <1>2, <1>4 DEF ChargeOf, Exceptional
<1>6. ChargeOf(p)' = IF Special(p) THEN "RETURNED" ELSE "KEPT"
  BY <1>1, <1>3, <1>4 DEF ChargeOf
<1>7. /\ Charges' = [Charges EXCEPT ![p] = ChargeOf(p)']
      /\ Owed' = [Owed EXCEPT ![p] = pay'[p].target]
  BY <1>1, <1>2, <1>3, <1>5 DEF Charges, Owed
<1>8. InTime' = InTime /\ Stage' = Stage /\ (p \in InTime <=> ~capture[p].late)
  BY <1>1, <1>4 DEF InTime, Stage
<1>9. KeptElsewhere(p) => Ledger!With("KEPT") # {}
  BY <1>4 DEF KeptElsewhere, Kept, Ledger!With, Charges, Rows
<1>10. CASE pay[p].paid
  <2>1. Charges[p] = ChargeOf(p)'
    BY <1>1, <1>6, <1>10, KeptStaysKept DEF Charges, ChargeOf, Kept, Special
  <2>2. Owed[p] = pay'[p].target
    <3>1. CASE Special(p)
      <4>1. Exceptional(p)
        BY <1>1, <1>10, <3>1, KeptStaysKept DEF Kept
      <4> QED BY <1>1, <1>3, <1>10, <3>1, <4>1 DEF Owed, CheckoutInv, RowsAreRight
    <3>2. CASE ~Special(p)
      BY <1>1, <1>3, <1>10, <3>2 DEF Owed, Special, CheckoutInv, ClosedBookingsOwe
    <3> QED BY <3>1, <3>2
  <2>3. Charges' = Charges /\ Owed' = Owed
    BY <1>7, <2>1, <2>2 DEF Charges, Owed
  <2> QED BY <1>8, <2>3 DEF Ledger!vars
<1>11. CASE ~pay[p].paid /\ Special(p)
  <2>1. Charges[p] = "OPEN"
    BY <1>1, <1>11 DEF Charges, ChargeOf
  <2>2. p \in InTime => Ledger!With("KEPT") # {}
    BY <1>1, <1>8, <1>9, <1>11 DEF Special, CheckoutInv, RowsAreRight
  <2> QED BY <1>3, <1>6, <1>7, <1>8, <1>11, <2>1, <2>2 DEF Ledger!GiveBack
<1>12. CASE ~pay[p].paid /\ ~Special(p)
  <2>1. Charges[p] = "OPEN" /\ p \in InTime
    BY <1>1, <1>8, <1>12 DEF Charges, ChargeOf, Special
  <2>2. Ledger!With("KEPT") = {}
    <3>1. ASSUME NEW q \in Payments, Charges[q] = "KEPT" PROVE FALSE
      BY <1>4, <1>12, <3>1 DEF Charges, Special, KeptElsewhere, Kept, CheckoutInv, OrdersHaveRows, NoRow
    <3> QED BY <3>1 DEF Ledger!With
  <2>3. pay'[p].target \in IF Stage = "ENDED" THEN Shares ELSE {None}
    <3>1. CASE booking = "CANCELED"
      <4>1. pay[p].percent # None /\ pay[p].percent \in Shares \cup {None}
        BY <1>1, <1>12, <3>1 DEF CheckoutInv, PolicyIsKnown, Special, Row
      <4> QED BY <1>3, <1>12, <3>1, <4>1 DEF Stage
    <3>2. CASE booking # "CANCELED"
      <4>1. booking # "EXPIRED"
        BY <1>1, <1>12 DEF CheckoutInv, ExpiredWasUnpaid, Special
      <4>2. Stage # "ENDED"
        BY <3>2, <4>1 DEF Stage, CheckoutInv, CheckoutTypes
      <4> QED BY <1>1, <1>3, <1>12, <3>2, <4>2 DEF CheckoutInv, NothingIsOwedYet, Special
    <3> QED BY <3>1, <3>2
  <2> QED BY <1>6, <1>7, <1>8, <1>12, <2>1, <2>2, <2>3 DEF Ledger!Keep
<1> QED BY <1>10, <1>11, <1>12

LEMMA CancelsOnce == ASSUME CheckoutInv, NEW share \in Shares, CloseCanceled(share), booking \notin {"CANCELED", "EXPIRED"}
                     PROVE  Ledger!Cancel(share)
<1>1. \A p \in Payments : /\ pay'[p].paid = pay[p].paid /\ (Exceptional(p)' <=> Exceptional(p))
                          /\ Exceptional(p) => pay'[p] = pay[p]
                          /\ Kept(p) => pay'[p].target = share
                          /\ Live(p)' <=> Live(p)
  BY CanceledRowIs DEF CloseCanceled, Exceptional, paypal, Live
<1>2. Charges' = Charges
  BY <1>1 DEF Charges, ChargeOf
<1>3. Owed' = [p \in Payments |-> IF Charges[p] = "KEPT" THEN share ELSE Owed[p]]
  <2>1. ASSUME NEW p \in Payments
        PROVE  (IF pay'[p].paid THEN pay'[p].target ELSE None)
                 = IF Charges[p] = "KEPT" THEN share ELSE IF pay[p].paid THEN pay[p].target ELSE None
    <3>1. Charges[p] = "KEPT" <=> Kept(p)
      BY DEF Charges, ChargeOf, Kept, Live, CheckoutInv, RowsAreRight
    <3> QED BY <1>1, <3>1 DEF Kept
  <2> QED BY <2>1 DEF Owed
<1>4. InTime' = InTime /\ Stage # "ENDED" /\ Stage' = "ENDED"
  <2>1. capture' = capture /\ booking' = "CANCELED"
    BY DEF CloseCanceled, paypal
  <2>2. InTime' = InTime
    BY <2>1 DEF InTime, Live
  <2>3. booking \in {"APPROVED", "HANDOVER_PENDING", "NOT_RECEIVED"}
    BY DEF CheckoutInv, CheckoutTypes
  <2>4. Stage # "ENDED" /\ Stage' = "ENDED"
    BY <2>1, <2>3 DEF Stage
  <2> QED BY <2>2, <2>4
<1> QED BY <1>2, <1>3, <1>4 DEF Ledger!Cancel

\* A booking that is given up has no charge made in time.
LEMMA ExpiresUncharged == ASSUME CheckoutInv, ExpireUnpaid PROVE Ledger!Expire
<1>1. CheckoutInv' /\ PaidRowsStay
  BY ExpireUnpaidKeeps
<1>2. /\ UNCHANGED <<order, capture, sent>> /\ Stage = "OPEN" /\ Stage' = "ENDED" /\ booking' = "EXPIRED"
  <2>1. booking = "APPROVED" /\ booking' = "EXPIRED" /\ UNCHANGED paypal
    BY Zenon DEF ExpireUnpaid
  <2> QED BY <2>1 DEF Stage, paypal
<1>3. \A p \in Payments : Live(p) => capture[p].late
  <2>1. \A p \in Payments : Live(p)' => capture'[p].late \/ Exceptional(p)'
    BY <1>1, <1>2 DEF CheckoutInv, ExpiredWasUnpaid
  <2>2. \A p \in Payments : ~Kept(p)'
    BY <1>1, <2>1 DEF CheckoutInv, RowsAreRight, Kept, Live
  <2>3. \A p \in Payments : Exceptional(p)' => capture'[p].late
    BY <1>1, <2>2 DEF CheckoutInv, OneIsKept
  <2> QED BY <1>2, <2>1, <2>3 DEF Live
<1>4. Charges' = Charges /\ InTime' = InTime /\ Owed' = Owed
  <2>1. \A p \in Payments : ChargeOf(p)' = ChargeOf(p)
    BY <1>1, <1>2 DEF PaidRowsStay, ChargeOf, Exceptional, Live
  <2> QED BY <1>1, <1>2, <2>1 DEF Charges, InTime, Owed, Live, PaidRowsStay
<1> QED BY <1>2, <1>3, <1>4 DEF Ledger!Expire, InTime

LEMMA HandOverDelivers == ASSUME CheckoutInv, HandOver PROVE Ledger!Deliver
<1>1. /\ UNCHANGED <<pay, order, capture>> /\ Stage = "OPEN" /\ Stage' = "DELIVERED"
      /\ Cardinality({p \in Rows : PaidFor(p)}) = 1
  BY DEF HandOver, paypal, Stage
<1>2. PICK p \in Rows : PaidFor(p)
  <2> DEFINE T == {p \in Rows : PaidFor(p)}
  <2>1. T # {}
    <3> HIDE DEF T
    <3>1. Cardinality(T) = 1
      BY <1>1 DEF T
    <3> QED BY <3>1, FS_EmptySet
  <2> QED BY <2>1
<1>3. Charges[p] = "KEPT" /\ p \in Payments
  <2>1. p \in Payments /\ pay[p].paid /\ Live(p) /\ ~Exceptional(p)
    BY <1>2 DEF PaidFor, Rows, HandOver, Live, CheckoutInv, RowsAreRight
  <2> QED BY <2>1 DEF Charges, ChargeOf
<1>4. Charges' = Charges /\ InTime' = InTime /\ Owed' = Owed
  BY <1>1 DEF Charges, ChargeOf, InTime, Owed, Live, Exceptional
<1> QED BY <1>1, <1>3, <1>4 DEF Ledger!Deliver, Ledger!With

-----------------------------------------------------------------------------
\* Every step is one of the ledger's, or none.

LEMMA LedgerIsOpened == Init => Ledger!Init
<1> SUFFICES ASSUME Init PROVE Ledger!Init
  OBVIOUS
<1>1. CheckoutInv /\ booking = "APPROVED"
  BY InitCheckout DEF Init
<1>2. \A p \in Payments : ~pay[p].paid /\ ~capture[p].late
  BY InitialRows DEF RowsAtFirst
<1>3. Charges = [p \in Payments |-> IF Live(p) THEN "OPEN" ELSE "NONE"]
  BY <1>2 DEF Charges, ChargeOf
<1>4. InTime = Ledger!With("OPEN")
  BY <1>2, <1>3 DEF InTime, Ledger!With
<1>5. Owed = [p \in Payments |-> None] /\ Stage = "OPEN"
  BY <1>1, <1>2 DEF Owed, Stage
<1> QED BY <1>3, <1>4, <1>5 DEF Ledger!Init

LEMMA CustomerLedger == ASSUME CheckoutInv, CustomerStep PROVE [Ledger!Next]_(Ledger!vars)
<1>1. ASSUME NEW p \in Payments, OrderBegin(p) \/ OrderFinish(p) \/ CaptureBegin(p) PROVE UNCHANGED Ledger!vars
  <2>1. PaidRowsStay
    BY <1>1, OrderBeginKeeps, OrderFinishKeeps, CaptureBeginKeeps
  <2>2. UNCHANGED <<booking, capture>>
    BY <1>1 DEF OrderBegin, OrderFinish, CaptureBegin, paypal
  <2> QED BY <2>1, <2>2, LedgerStays DEF Stage, Live
<1>2. ASSUME NEW p \in Payments, CaptureFinish(p) PROVE [Ledger!Next]_(Ledger!vars)
  <2>1. PaidRowsStay /\ UNCHANGED booking /\ OthersOK(p)
    BY <1>2, CaptureFinishKeeps DEF CaptureFinish
  <2>2. CASE Answered(p)
    BY <2>1, <2>2, OthersAreDead, CapturesCharge DEF Answered, Ledger!Next
  <2>3. CASE Unanswered(p)
    BY <2>1, <2>3, LedgerStays DEF Unanswered, Stage, Live
  <2> QED BY <1>2, <2>2, <2>3 DEF CaptureFinish
<1> QED BY <1>1, <1>2 DEF CustomerStep

LEMMA PayPalLedger == ASSUME CheckoutInv, PayPalStep PROVE [Ledger!Next]_(Ledger!vars)
<1>1. ASSUME NEW p \in Payments, PayerApproves(p) \/ ApprovalReversed(p) \/ OrderLapses(p) PROVE UNCHANGED Ledger!vars
  <2>1. UNCHANGED <<booking, pay, capture>>
    BY <1>1 DEF PayerApproves, ApprovalReversed, OrderLapses, db
  <2> QED BY <2>1, LedgerStays DEF Stage, Live, PaidRowsStay
<1>2. ASSUME NEW p \in Payments, LateCapture(p) PROVE [Ledger!Next]_(Ledger!vars)
  <2>1. Captures(p) /\ UNCHANGED <<booking, pay>> /\ PaidRowsStay
    BY <1>2 DEF LateCapture, db, PaidRowsStay
  <2>2. \A q \in Payments \ {p} : Dead(q)
    BY <1>2 DEF LateCapture, Captures, CheckoutInv, SentAlone, Alive
  <2> QED BY <2>1, <2>2, CapturesCharge DEF Ledger!Next
<1>3. ASSUME NEW p \in Payments, CaptureResolves(p) PROVE [Ledger!Next]_(Ledger!vars)
  BY <1>3, CaptureResolvesRefuses DEF Ledger!Next
<1> QED BY <1>1, <1>2, <1>3 DEF PayPalStep

LEMMA ApplyLedger ==
  ASSUME CheckoutInv, NEW seen \in Snapshot, seen.p \in Rows,
         seen.capture = "COMPLETED" => capture[seen.p].status = "COMPLETED",
         Apply(seen), UNCHANGED <<booking, overdue, old, calls, paypal>>,
         \A r \in Readers : reader'[r] \in {None, reader[r]}, reader' \in [Readers -> {None} \cup Snapshot]
  PROVE  [Ledger!Next]_(Ledger!vars)
<1>1. UNCHANGED <<order, capture, sent>> /\ seen.p \in Payments
  BY DEF paypal, Rows
<1>2. CASE seen.capture = "COMPLETED" /\ SetRow(seen.p, SettledRow(seen.p))
  BY <1>1, <1>2, SettlesOnce DEF Ledger!Next
<1>3. CASE seen.capture # "COMPLETED" /\ SetRow(seen.p, ReportedRow(seen.p, seen))
  BY <1>1, <1>3, ReportKeeps, LedgerStays DEF Stage, Live
<1>4. CASE UNCHANGED pay
  BY <1>1, <1>4, LedgerStays DEF Stage, Live, PaidRowsStay
<1> QED BY <1>2, <1>3, <1>4 DEF Apply

LEMMA SettlementLedger == ASSUME CheckoutInv, SettlementStep PROVE [Ledger!Next]_(Ledger!vars)
<1>1. ASSUME NEW r \in Readers, Process(r) PROVE [Ledger!Next]_(Ledger!vars)
  <2>1. /\ reader[r] # None /\ Apply(reader[r]) /\ reader' = [reader EXCEPT ![r] = None]
        /\ UNCHANGED <<booking, overdue, old, calls, paypal>> /\ reader \in [Readers -> {None} \cup Snapshot]
    BY <1>1 DEF Process, CheckoutInv, CheckoutTypes
  <2>2. /\ reader[r] \in Snapshot /\ reader[r].p \in Rows
        /\ reader[r].capture = "COMPLETED" => capture[reader[r].p].status = "COMPLETED"
    BY <2>1 DEF CheckoutInv, ReadersAreRight
  <2>3. reader' \in [Readers -> {None} \cup Snapshot] /\ \A x \in Readers : reader'[x] \in {None, reader[x]}
    BY <2>1
  <2> QED BY <2>1, <2>2, <2>3, ApplyLedger
<1>2. ASSUME NEW r \in Readers, NEW p \in Payments, Read(r, p) PROVE UNCHANGED Ledger!vars
  <2>1. UNCHANGED <<booking, pay, capture>>
    BY <1>2 DEF Read, db, paypal
  <2> QED BY <2>1, LedgerStays DEF Stage, Live, PaidRowsStay
<1>3. ASSUME NEW p \in Payments, Deliver(p) PROVE [Ledger!Next]_(Ledger!vars)
  <2>1. PICK s \in Snapshots(p) : Apply(s)
    BY <1>3 DEF Deliver
  <2>2. UNCHANGED <<booking, overdue, old, calls, reader, paypal>> /\ reader \in [Readers -> {None} \cup Snapshot]
    BY <1>3 DEF Deliver, CheckoutInv, CheckoutTypes
  <2> QED BY <2>1, <2>2, SnapshotsAre, ApplyLedger
<1> QED BY <1>1, <1>2, <1>3 DEF SettlementStep

LEMMA BookingLedgerStep == ASSUME CheckoutInv, BookingStep PROVE [Ledger!Next]_(Ledger!vars)
<1>1. ASSUME CustomerCancels \/ ShopCancels PROVE Ledger!Next
  <2>1. PICK share \in Shares : CloseCanceled(share)
    BY <1>1 DEF CustomerCancels, ShopCancels, Shares
  <2>2. booking \notin {"CANCELED", "EXPIRED"}
    BY <1>1 DEF CustomerCancels, ShopCancels
  <2> QED BY <2>1, <2>2, CancelsOnce DEF Ledger!Next
<1>2. ASSUME ReceiptExpires PROVE UNCHANGED Ledger!vars
  <2>1. UNCHANGED <<pay, order, capture>> /\ Stage' = Stage
    BY <1>2 DEF ReceiptExpires, paypal, Stage
  <2> QED BY <2>1, LedgerStays DEF Live, PaidRowsStay
<1> QED BY <1>1, <1>2, ExpiresUncharged, HandOverDelivers DEF BookingStep, Ledger!Next

LEMMA StepLedger == ASSUME CheckoutInv, [Next]_vars PROVE [Ledger!Next]_(Ledger!vars)
<1>1. ASSUME UNCHANGED <<booking, pay, capture>> PROVE UNCHANGED Ledger!vars
  BY <1>1, LedgerStays DEF Stage, Live, PaidRowsStay
<1>2. CASE DeadlinePasses
  BY <1>1, <1>2 DEF DeadlinePasses, paypal
<1>3. ASSUME NEW kind \in {"order", "capture"}, NEW p \in Payments, Age(kind, p) PROVE UNCHANGED Ledger!vars
  BY <1>1, <1>3 DEF Age, paypal
<1>4. CASE UNCHANGED vars
  BY <1>1, <1>4 DEF vars, db, paypal
<1> QED BY <1>2, <1>3, <1>4, CustomerLedger, PayPalLedger, SettlementLedger, BookingLedgerStep DEF Next

\* The calls, the deliveries, the timer and the cancellations together keep the
\* booking's ledger: one charge at a time, each settled once, and none kept
\* that the booking's end gives back (customer_rentals.py:1061, paypal.py:511).
THEOREM CheckoutImplementsLedger == Spec => ImplementsLedger
BY LedgerIsOpened, StepLedger, CheckoutInvariant, PTL DEF Spec, ImplementsLedger, Ledger!Spec

-----------------------------------------------------------------------------
\* What the ledger promises, said of the rows.
Promised == INSTANCE BookingLedger_proofs WITH
  charge <- Charges, inTime <- InTime, owed <- Owed, stage <- Stage, All <- "ALL"

\* A settled charge stays settled as it was, and what is to be returned of it
\* is decided once.
SettledOnce ==
  \A p \in Payments : pay[p].paid =>
    /\ pay'[p].paid /\ (Exceptional(p)' <=> Exceptional(p))
    /\ pay[p].target # None => pay'[p].target = pay[p].target

LEMMA SettledCharges ==
  ASSUME CheckoutInv, CheckoutInv', [Promised!OwesOnce]_(Promised!vars)
  PROVE  SettledOnce
<1> SUFFICES ASSUME NEW p \in Payments, pay[p].paid
             PROVE  /\ pay'[p].paid /\ (Exceptional(p)' <=> Exceptional(p))
                    /\ pay[p].target # None => pay'[p].target = pay[p].target
  BY DEF SettledOnce
<1>1. Live(p) /\ (Exceptional(p)' => pay'[p].paid)
  BY DEF CheckoutInv, RowsAreRight, Live
<1>2. Charges[p] = (IF Exceptional(p) THEN "RETURNED" ELSE "KEPT") /\ Owed[p] = pay[p].target
  BY <1>1 DEF Charges, ChargeOf, Owed
<1>3. Charges'[p] = Charges[p] /\ (Owed[p] # None => Owed'[p] = Owed[p])
  <2>1. CASE UNCHANGED Promised!vars
    BY <2>1 DEF Promised!vars
  <2>2. CASE Promised!OwesOnce
    BY <1>2, <2>2 DEF Promised!OwesOnce
  <2> QED BY <2>1, <2>2
<1>4. /\ Charges'[p] = IF ~Live(p)' THEN "NONE" ELSE IF ~pay'[p].paid THEN "OPEN"
                       ELSE IF Exceptional(p)' THEN "RETURNED" ELSE "KEPT"
      /\ Owed'[p] = IF pay'[p].paid THEN pay'[p].target ELSE None
  BY DEF Charges, ChargeOf, Owed
<1>5. pay'[p].paid /\ (Exceptional(p)' <=> Exceptional(p))
  BY <1>2, <1>3, <1>4
<1> QED BY <1>2, <1>3, <1>4, <1>5

\* No webhook, however late or often it comes, and no cancellation changes what
\* was decided about a charge (paypal.py:514, refunds.py:36).
THEOREM ChargesAreSettledOnce == Spec => [][SettledOnce]_vars
<1>1. None \notin Shares /\ "ALL" # None
  BY NullAssumption DEF Shares
<1>2. Spec => Promised!Spec
  <2>1. Ledger!Init => Promised!Init
    BY DEF Ledger!Init, Promised!Init, Ledger!With, Promised!With
  <2>2. [Ledger!Next]_(Ledger!vars) => [Promised!Next]_(Promised!vars)
    BY DEF Ledger!Next, Promised!Next, Ledger!vars, Promised!vars, Ledger!With, Promised!With,
           Ledger!Charge, Promised!Charge, Ledger!Refuse, Promised!Refuse, Ledger!Keep, Promised!Keep,
           Ledger!GiveBack, Promised!GiveBack, Ledger!Cancel, Promised!Cancel,
           Ledger!Deliver, Promised!Deliver, Ledger!Expire, Promised!Expire
  <2> QED BY <2>1, <2>2, CheckoutImplementsLedger, PTL DEF ImplementsLedger, Ledger!Spec, Promised!Spec
<1>3. Promised!Spec => [][Promised!OwesOnce]_(Promised!vars)
  BY <1>1, Promised!SettledForGood
<1>4. CheckoutInv /\ [Next]_vars /\ [Promised!OwesOnce]_(Promised!vars) => [SettledOnce]_vars
  BY StepKeeps, SettledCharges
<1> QED BY <1>2, <1>3, <1>4, CheckoutInvariant, PTL DEF Spec
=============================================================================
