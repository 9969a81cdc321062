--------------------------- MODULE OnsiteRequest ---------------------------
(***************************************************************************)
(* Durable outcomes of a customer's on-site rental requests                *)
(* (app/onsite_requests.py and the three endpoints of app/customer_qr.py). *)
(* A customer who wants one booking sends POST /onsite/requests under a    *)
(* clientRequestId.  Calls may be repeated, delayed, lost in a crash or    *)
(* answered "unknown"; GET and close tell the customer what became of the  *)
(* key, and only a final rejection lets the app go on to a new key.        *)
(*                                                                         *)
(* A worker is a server connection that carries one call.  A transaction   *)
(* is one step, taken when it commits; the connection-owned named lock of  *)
(* the key spans the steps of a call.                                      *)
(***************************************************************************)
EXTENDS Naturals

CONSTANTS
  LastKey,    \* number of request keys the customer's app may go through
  Bodies,     \* request bodies, as far as fingerprint() tells them apart
  Workers,    \* server connections
  NoBody,     \* SQL NULL: no fingerprint, no reservation
  NoWorker    \* the lock of a key is free

ASSUME LastKeyAssumption == LastKey \in Nat \ {0}
ASSUME NullAssumption == NoBody \notin Bodies /\ NoWorker \notin Workers

VARIABLES
  ledger,     \* MSP_RENTAL_ONSITE_REQUEST: state and fingerprint of each key
  booked,     \* MSP_RESERVATION by client_request_id: the body that was booked
  lock,       \* GET_LOCK owner of each key
  call,       \* what each worker is doing
  told,       \* every answer the customer received, per key
  current     \* the newest key the app has used

vars == <<ledger, booked, lock, call, told, current>>

Keys == 1..LastKey
Answers == {"ACCEPTED", "REJECTED", "PROCESSING", "UNKNOWN"}
Phases == {"idle", "request", "started", "close", "poll", "polled", "replying"}

LedgerRow == [state : {"NONE", "PROCESSING", "ACCEPTED", "REJECTED"}, print : Bodies \cup {NoBody}]
Call == [phase : Phases, key : Keys, body : Bodies \cup {NoBody}, answer : Answers]

Idle == [phase |-> "idle", key |-> 1, body |-> NoBody, answer |-> "UNKNOWN"]

\* Mutant: any answer but an acceptance lets the app go on.
AnyOtherAnswer(a) == a # "ACCEPTED"

\* outcome(): only a rejection is an answer after which a new key may be used.
CanStartNewRequest(a) == a = "REJECTED"

\* The ledger is younger than client_request_id: the first key may already
\* have a booking and no ledger row.
Init ==
  /\ ledger = [k \in Keys |-> [state |-> "NONE", print |-> NoBody]]
  /\ \E b \in Bodies \cup {NoBody} : booked = [k \in Keys |-> IF k = 1 THEN b ELSE NoBody]
  /\ lock = [k \in Keys |-> NoWorker]
  /\ call = [w \in Workers |-> Idle]
  /\ told = [k \in Keys |-> {}]
  /\ current = 1

-----------------------------------------------------------------------------
\* The lock of a key is taken without waiting and freed after the commit.

\* Mutant: the result of GET_LOCK is not looked at.
TryLockUnchecked(w, k) == lock' = [lock EXCEPT ![k] = w]

TryLock(w, k) == lock[k] = NoWorker /\ lock' = [lock EXCEPT ![k] = w]
ReleaseLocks(w) == lock' = [k \in Keys |-> IF lock[k] = w THEN NoWorker ELSE lock[k]]

\* The call ends with answer a; it reaches the customer in Reply.
Answer(w, a) == call' = [call EXCEPT ![w].phase = "replying", ![w].answer = a]

SetState(k, s) == ledger' = [ledger EXCEPT ![k].state = s]

\* A call begins for a key the app has used: now, repeated, or long delayed.
Arrive(w, phase, k, b) ==
  /\ call[w] = Idle
  /\ k <= current
  /\ call' = [call EXCEPT ![w] = [phase |-> phase, key |-> k, body |-> b, answer |-> "UNKNOWN"]]
  /\ UNCHANGED <<ledger, booked, told, current>>

RequestArrives(w, k, b) == Arrive(w, "request", k, b) /\ TryLock(w, k)
CloseArrives(w, k) == Arrive(w, "close", k, NoBody) /\ TryLock(w, k)

\* Another connection owns the lock: 202 PROCESSING, nothing is read.
Busy(w, k) ==
  /\ call[w] = Idle /\ k <= current /\ lock[k] # NoWorker
  /\ told' = [told EXCEPT ![k] = @ \cup {"PROCESSING"}]
  /\ UNCHANGED <<ledger, booked, lock, call, current>>

\* POST /onsite/requests, a reservation of this key exists: whatever body is
\* sent now, the outcome is ACCEPTED; a matching body restores a missing row.
AlreadyBooked(w) ==
  LET k == call[w].key  b == call[w].body IN
  /\ call[w].phase = "request"
  /\ booked[k] # NoBody
  /\ IF ledger[k].state = "NONE" /\ booked[k] = b
     THEN ledger' = [ledger EXCEPT ![k] = [state |-> "ACCEPTED", print |-> b]]
     ELSE UNCHANGED ledger
  /\ Answer(w, "ACCEPTED")
  /\ UNCHANGED <<booked, lock, told, current>>

\* start(): a decided key, or a key first used with another body, goes no further.
StartRefused(w) ==
  LET k == call[w].key IN
  /\ call[w].phase = "request"
  /\ booked[k] = NoBody
  /\ \/ ledger[k].state = "REJECTED" /\ Answer(w, "REJECTED")
     \/ ledger[k].state = "ACCEPTED" /\ Answer(w, "UNKNOWN")
     \/ ledger[k].state = "PROCESSING" /\ ledger[k].print # call[w].body /\ Answer(w, "UNKNOWN")
  /\ UNCHANGED <<ledger, booked, lock, told, current>>

\* start(): the intent is committed before anything is booked.
Start(w) ==
  LET k == call[w].key  b == call[w].body IN
  /\ call[w].phase = "request"
  /\ booked[k] = NoBody
  /\ \/ ledger[k].state = "NONE"
     \/ ledger[k].state = "PROCESSING" /\ ledger[k].print = b
  /\ ledger' = [ledger EXCEPT ![k] = [state |-> "PROCESSING", print |-> b]]
  /\ call' = [call EXCEPT ![w].phase = "started"]
  /\ UNCHANGED <<booked, lock, told, current>>

\* _submit_onsite() and accept() in one transaction.
Book(w) ==
  LET k == call[w].key  b == call[w].body IN
  /\ call[w].phase = "started"
  /\ booked[k] \in {NoBody, b}
  /\ booked' = [booked EXCEPT ![k] = b]
  /\ SetState(k, "ACCEPTED")
  /\ Answer(w, "ACCEPTED")
  /\ UNCHANGED <<lock, told, current>>

\* Mutant: the refusal is committed together with what was inserted.
RefuseWithoutRollback(w) ==
  LET k == call[w].key IN
  /\ call[w].phase = "started"
  /\ SetState(k, "REJECTED")
  /\ booked' \in {booked, [booked EXCEPT ![k] = call[w].body]}
  /\ Answer(w, "REJECTED")
  /\ UNCHANGED <<lock, told, current>>

\* reject(): the business transaction is rolled back, then the refusal committed.
Refuse(w) ==
  /\ call[w].phase = "started"
  /\ SetState(call[w].key, "REJECTED")
  /\ Answer(w, "REJECTED")
  /\ UNCHANGED <<booked, lock, told, current>>

\* A 5xx, RESOURCE_BUSY or RATE_LIMITED problem decides nothing.
Fault(w) ==
  /\ call[w].phase \in {"request", "started"}
  /\ Answer(w, "UNKNOWN")
  /\ UNCHANGED <<ledger, booked, lock, told, current>>

\* Mutant: closing has a state of its own.
CloseMarksClosed(w) ==
  LET k == call[w].key IN
  /\ call[w].phase = "close"
  /\ booked[k] = NoBody /\ Answer(w, "REJECTED") /\ SetState(k, "CLOSED")
  /\ UNCHANGED <<booked, lock, told, current>>

\* Mutant: an intent under way is left to its handler.
CloseLeavesIntents(w) ==
  LET k == call[w].key IN
  /\ call[w].phase = "close"
  /\ \/ booked[k] # NoBody /\ Answer(w, "ACCEPTED") /\ UNCHANGED ledger
     \/ booked[k] = NoBody /\ ledger[k].state = "PROCESSING" /\ Answer(w, "UNKNOWN") /\ UNCHANGED ledger
     \/ booked[k] = NoBody /\ ledger[k].state = "NONE" /\ Answer(w, "REJECTED") /\ SetState(k, "REJECTED")
  /\ UNCHANGED <<booked, lock, told, current>>

\* POST /onsite/requests/{key}/close
Close(w) ==
  LET k == call[w].key IN
  /\ call[w].phase = "close"
  /\ \/ booked[k] # NoBody /\ Answer(w, "ACCEPTED") /\ UNCHANGED ledger
     \/ booked[k] = NoBody /\ ledger[k].state = "ACCEPTED" /\ Answer(w, "UNKNOWN") /\ UNCHANGED ledger
     \/ booked[k] = NoBody /\ ledger[k].state # "ACCEPTED" /\ Answer(w, "REJECTED") /\ SetState(k, "REJECTED")
  /\ UNCHANGED <<booked, lock, told, current>>

\* GET /onsite/requests/{key}: three reads, no lock, READ COMMITTED.
PollArrives(w, k) ==
  \/ booked[k] = NoBody /\ Arrive(w, "poll", k, NoBody) /\ UNCHANGED lock
  \/ /\ call[w] = Idle /\ k <= current /\ booked[k] # NoBody
     /\ call' = [call EXCEPT ![w] = [phase |-> "replying", key |-> k, body |-> NoBody, answer |-> "ACCEPTED"]]
     /\ UNCHANGED <<ledger, booked, lock, told, current>>

\* Mutant: a key nobody has heard of is reported as rejected.
PollUnknownIsRejected(w) ==
  LET k == call[w].key IN
  /\ call[w].phase = "poll" /\ ledger[k].state \in {"NONE", "REJECTED"} /\ Answer(w, "REJECTED")
  /\ UNCHANGED <<ledger, booked, lock, told, current>>

\* The ledger row next, and when that decides nothing, whether the lock is in use.
Poll(w) ==
  LET k == call[w].key IN
  /\ \/ call[w].phase = "poll" /\ ledger[k].state = "REJECTED" /\ Answer(w, "REJECTED")
     \/ /\ call[w].phase = "poll" /\ ledger[k].state # "REJECTED"
        /\ call' = [call EXCEPT ![w].phase = "polled"]
     \/ call[w].phase = "polled" /\ lock[k] # NoWorker /\ Answer(w, "PROCESSING")
     \/ call[w].phase = "polled" /\ lock[k] = NoWorker /\ Answer(w, "UNKNOWN")
  /\ UNCHANGED <<ledger, booked, lock, told, current>>

\* After the commit the lock is released and the answer sent ...
Reply(w) ==
  /\ call[w].phase = "replying"
  /\ told' = [told EXCEPT ![call[w].key] = @ \cup {call[w].answer}]
  /\ call' = [call EXCEPT ![w] = Idle]
  /\ ReleaseLocks(w)
  /\ UNCHANGED <<ledger, booked, current>>

\* ... unless the process or its connection dies: MySQL rolls back what is not
\* committed and frees the connection's locks; the customer hears nothing.
Crash(w) ==
  /\ call[w] # Idle
  /\ call' = [call EXCEPT ![w] = Idle]
  /\ ReleaseLocks(w)
  /\ UNCHANGED <<ledger, booked, told, current>>

\* The app gives a key up for the next one only when an answer allows it.
NewKey ==
  /\ current < LastKey
  /\ \E a \in told[current] : CanStartNewRequest(a)
  /\ current' = current + 1
  /\ UNCHANGED <<ledger, booked, lock, call, told>>

WorkerStep(w) ==
  AlreadyBooked(w) \/ StartRefused(w) \/ Start(w) \/ Book(w) \/ Refuse(w)
    \/ Fault(w) \/ Close(w) \/ Poll(w) \/ Reply(w)

Next ==
  \/ \E w \in Workers, k \in Keys :
       \/ \E b \in Bodies : RequestArrives(w, k, b)
       \/ CloseArrives(w, k)
       \/ PollArrives(w, k)
       \/ Busy(w, k)
  \/ \E w \in Workers : WorkerStep(w) \/ Crash(w)
  \/ NewKey

Spec == Init /\ [][Next]_vars

\* A handler that has begun returns; a customer left without a final answer
\* keeps closing the key, and not every attempt at it is killed before its commit.
Fairness ==
  /\ \A w \in Workers : WF_vars(WorkerStep(w))
  /\ \A w \in Workers, k \in Keys : SF_vars(call[w].key = k /\ Close(w))
  /\ \A k \in Keys : SF_vars(ledger[k].state = "PROCESSING" /\ \E w \in Workers : CloseArrives(w, k))

FairSpec == Spec /\ Fairness

-----------------------------------------------------------------------------
\* Types of the tables and of the calls under way.
TypeOK ==
  /\ ledger \in [Keys -> LedgerRow]
  /\ booked \in [Keys -> Bodies \cup {NoBody}]
  /\ lock \in [Keys -> Workers \cup {NoWorker}]
  /\ call \in [Workers -> Call]
  /\ told \in [Keys -> SUBSET Answers]
  /\ current \in Keys

\* "A closed request key can never create a booking" (app/onsite_requests.py:1):
\* once any call has told the customer that a key is rejected, no call of that
\* key that is still under way, delayed or repeated leaves a reservation.
ClosedKeyNeverBooks == \A k \in Keys : "REJECTED" \in told[k] => booked[k] = NoBody

\* The ledger and the reservations, written by different statements and read by
\* different endpoints, never disagree on what was decided.
LedgerMatchesBookings ==
  \A k \in Keys :
    /\ ledger[k].state = "ACCEPTED" => booked[k] = ledger[k].print /\ booked[k] # NoBody
    /\ ledger[k].state \in {"PROCESSING", "REJECTED"} => booked[k] = NoBody

\* An app that obeys canStartNewRequest ends with at most one booking for the
\* purchase, however its keys, repeats and closes were interleaved.
OneBookingPerPurchase ==
  \A j, k \in Keys : booked[j] # NoBody /\ booked[k] # NoBody => j = k

\* What was answered as final stays final: a decided ledger row is never
\* rewritten and a booking is never replaced (requestFinal of outcome()).
DecisionIsPermanent ==
  [][\A k \in Keys :
       /\ ledger[k].state \in {"ACCEPTED", "REJECTED"} => ledger'[k] = ledger[k]
       /\ booked[k] # NoBody => booked'[k] = booked[k]]_vars

\* An intent whose handler died after start() is not stuck: with the customer
\* closing it, it is decided.
EveryIntentIsDecided ==
  \A k \in Keys : ledger[k].state = "PROCESSING" ~> ledger[k].state \in {"ACCEPTED", "REJECTED"}

\* The register this module implements.
Register == INSTANCE RequestRegister WITH
  decision <- [k \in Keys |-> IF booked[k] # NoBody THEN "ACCEPTED"
                             ELSE IF ledger[k].state = "REJECTED" THEN "REJECTED" ELSE "OPEN"]

\* Every step of the endpoints is a step, or a stutter, of the register.
ImplementsRegister == Register!Spec
=============================================================================
