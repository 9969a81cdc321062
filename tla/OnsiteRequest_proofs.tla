----------------------- MODULE OnsiteRequest_proofs ------------------------
(***************************************************************************)
(* For any number of keys, bodies and workers: the types, the agreement of *)
(* the ledger with the bookings, the promise that a closed key never books *)
(* and that a purchase ends with at most one booking, and that the         *)
(* endpoints implement RequestRegister.                                    *)
(***************************************************************************)
EXTENDS OnsiteRequest, TLAPS

\* A call that may still write owns the lock of its key.
LockIsHeld ==
  \A w \in Workers : call[w].phase \in {"request", "started", "close"} => lock[call[w].key] = w

\* Between start() and its outcome the key is exactly as start() left it.
StartedKeyIsUntouched ==
  \A w \in Workers :
    /\ call[w].phase \in {"request", "started"} => call[w].body \in Bodies
    /\ call[w].phase = "started" =>
         /\ ledger[call[w].key].state = "PROCESSING"
         /\ ledger[call[w].key].print = call[w].body
         /\ booked[call[w].key] = NoBody

\* An answer on its way, or received, is the truth about the tables.
Truth(k, a) ==
  /\ a = "ACCEPTED" => booked[k] # NoBody
  /\ a = "REJECTED" => ledger[k].state = "REJECTED"

AnswersAreTrue ==
  /\ \A w \in Workers : call[w].phase = "replying" => Truth(call[w].key, call[w].answer)
  /\ \A k \in Keys : \A a \in told[k] : Truth(k, a)

\* Keys given up are rejected, keys not yet used are blank.
KeysInOrder ==
  /\ \A k \in Keys : k < current => ledger[k].state = "REJECTED"
  /\ \A k \in Keys : k > current => ledger[k].state = "NONE" /\ booked[k] = NoBody
  /\ \A w \in Workers : call[w].key <= current

\* The inductive invariant.
IInv ==
  /\ TypeOK
  /\ LockIsHeld
  /\ StartedKeyIsUntouched
  /\ AnswersAreTrue
  /\ KeysInOrder
  /\ LedgerMatchesBookings

-----------------------------------------------------------------------------
\* What the building blocks of the actions do, field by field.

LEMMA KeysAreNat == Keys \subseteq Nat /\ 1 \in Keys
  BY LastKeyAssumption DEF Keys

LEMMA AnswerEffect ==
  ASSUME call \in [Workers -> Call], NEW w \in Workers, NEW a \in Answers, Answer(w, a)
  PROVE  /\ call' \in [Workers -> Call]
         /\ call'[w].phase = "replying" /\ call'[w].answer = a
         /\ call'[w].key = call[w].key /\ call'[w].body = call[w].body
         /\ \A v \in Workers \ {w} : call'[v] = call[v]
  BY DEF Answer, Call, Phases

LEMMA PhaseEffect ==
  ASSUME call \in [Workers -> Call], NEW w \in Workers, NEW p \in Phases,
         call' = [call EXCEPT ![w].phase = p]
  PROVE  /\ call' \in [Workers -> Call]
         /\ call'[w].phase = p /\ call'[w].answer = call[w].answer
         /\ call'[w].key = call[w].key /\ call'[w].body = call[w].body
         /\ \A v \in Workers \ {w} : call'[v] = call[v]
  BY DEF Call

LEMMA SetStateEffect ==
  ASSUME ledger \in [Keys -> LedgerRow], NEW k \in Keys,
         NEW s \in {"NONE", "PROCESSING", "ACCEPTED", "REJECTED"}, SetState(k, s)
  PROVE  /\ ledger' \in [Keys -> LedgerRow]
         /\ ledger'[k].state = s /\ ledger'[k].print = ledger[k].print
         /\ \A j \in Keys \ {k} : ledger'[j] = ledger[j]
  BY DEF SetState, LedgerRow

LEMMA ReleaseEffect ==
  ASSUME lock \in [Keys -> Workers \cup {NoWorker}], NEW w \in Workers, ReleaseLocks(w)
  PROVE  /\ lock' \in [Keys -> Workers \cup {NoWorker}]
         /\ \A k \in Keys : \A v \in Workers \ {w} : lock[k] = v => lock'[k] = v
  BY DEF ReleaseLocks

LEMMA IdleIsACall == Idle \in Call /\ Idle.phase = "idle" /\ Idle.key = 1
  BY KeysAreNat DEF Idle, Call, Phases, Answers

-----------------------------------------------------------------------------
\* A worker that owns the lock of its key rewrites the rows of that key only,
\* never undoes a decision, and goes on with a true answer or as "started".
LEMMA OwnerWrites ==
  ASSUME IInv, NEW w \in Workers, NEW k \in Keys,
         k = call[w].key, lock[k] = w,
         UNCHANGED <<lock, told, current>>,
         ledger' \in [Keys -> LedgerRow], booked' \in [Keys -> Bodies \cup {NoBody}],
         \A j \in Keys \ {k} : ledger'[j] = ledger[j] /\ booked'[j] = booked[j],
         booked[k] # NoBody => booked'[k] # NoBody,
         ledger[k].state = "REJECTED" => ledger'[k].state = "REJECTED",
         ledger'[k].state = "ACCEPTED" => booked'[k] = ledger'[k].print /\ booked'[k] # NoBody,
         ledger'[k].state \in {"PROCESSING", "REJECTED"} => booked'[k] = NoBody,
         call' \in [Workers -> Call], call'[w].key = k,
         \A v \in Workers \ {w} : call'[v] = call[v],
         \/ call'[w].phase = "replying" /\ Truth(k, call[w].answer)'
         \/ /\ call'[w].phase = "started" /\ call'[w].body \in Bodies
            /\ ledger'[k].state = "PROCESSING" /\ ledger'[k].print = call'[w].body
            /\ booked'[k] = NoBody
  PROVE  IInv'
<1> USE DEF IInv
<1>1. TypeOK'
  BY DEF TypeOK
<1>2. \A v \in Workers : call[v].key \in Keys
  BY DEF TypeOK, Call
<1>3. \A v \in Workers \ {w} : call[v].phase \in {"request", "started", "close"} => call[v].key # k
  BY DEF LockIsHeld
<1>4. LockIsHeld'
  BY DEF LockIsHeld
<1>5. StartedKeyIsUntouched'
  BY <1>2, <1>3 DEF StartedKeyIsUntouched
<1>6. \A j \in Keys : /\ booked[j] # NoBody => booked'[j] # NoBody
                      /\ ledger[j].state = "REJECTED" => ledger'[j].state = "REJECTED"
  OBVIOUS
<1>7. AnswersAreTrue'
  <2>1. \A v \in Workers : call'[v].phase = "replying" => Truth(call[v].key, call[v].answer)'
    BY <1>2, <1>6 DEF AnswersAreTrue, Truth
  <2>2. \A j \in Keys : \A a \in told'[j] : Truth(j, a)'
    BY <1>6 DEF AnswersAreTrue, Truth
  <2>3. QED BY <2>1, <2>2 DEF AnswersAreTrue
<1>8. KeysInOrder'
  BY <1>2, KeysAreNat DEF KeysInOrder, TypeOK
<1>9. LedgerMatchesBookings'
  BY DEF LedgerMatchesBookings
<1>10. QED BY <1>1, <1>4, <1>5, <1>7, <1>8, <1>9

\* The steps a worker takes under the lock of its key.
LEMMA OwnerSteps ==
  ASSUME IInv, NEW w \in Workers,
         AlreadyBooked(w) \/ StartRefused(w) \/ Start(w) \/ Book(w) \/ Refuse(w) \/ Fault(w) \/ Close(w)
  PROVE  IInv'
<1> DEFINE k == call[w].key
<1>1. /\ call \in [Workers -> Call] /\ ledger \in [Keys -> LedgerRow]
      /\ booked \in [Keys -> Bodies \cup {NoBody}] /\ k \in Keys /\ ledger[k] \in LedgerRow
      /\ {"ACCEPTED", "REJECTED", "UNKNOWN"} \subseteq Answers /\ "started" \in Phases
  BY DEF IInv, TypeOK, Call, Answers, Phases
<1>2. call[w].phase \in {"request", "started", "close"} /\ lock[k] = w
  BY DEF IInv, LockIsHeld, AlreadyBooked, StartRefused, Start, Book, Refuse, Fault, Close
<1>3. /\ call[w].phase \in {"request", "started"} => call[w].body \in Bodies
      /\ call[w].phase = "started" =>
           /\ ledger[k].state = "PROCESSING" /\ ledger[k].print = call[w].body /\ booked[k] = NoBody
      /\ ledger[k].state = "ACCEPTED" => booked[k] = ledger[k].print /\ booked[k] # NoBody
      /\ ledger[k].state \in {"PROCESSING", "REJECTED"} => booked[k] = NoBody
  BY <1>1 DEF IInv, StartedKeyIsUntouched, LedgerMatchesBookings
<1> HIDE DEF k
<1>4. CASE AlreadyBooked(w)
  <2>1. Answer(w, "ACCEPTED") /\ booked[k] # NoBody /\ UNCHANGED <<booked, lock, told, current>>
    BY <1>4 DEF AlreadyBooked, k
  <2>2. /\ ledger' \in [Keys -> LedgerRow] /\ \A j \in Keys \ {k} : ledger'[j] = ledger[j]
        /\ \/ ledger'[k] = ledger[k]
           \/ ledger'[k].state = "ACCEPTED" /\ ledger'[k].print = booked[k] /\ ledger[k].state = "NONE"
    BY <1>1, <1>2, <1>3, <1>4 DEF AlreadyBooked, k, LedgerRow
  <2>3. QED BY <1>1, <1>2, <1>3, <2>1, <2>2, AnswerEffect, OwnerWrites DEF Truth, k
<1>5. CASE StartRefused(w) \/ Fault(w)
  <2>1. /\ UNCHANGED <<ledger, booked, lock, told, current>>
        /\ Answer(w, "UNKNOWN") \/ (Answer(w, "REJECTED") /\ ledger[k].state = "REJECTED")
    BY <1>5 DEF StartRefused, Fault, k
  <2>2. QED BY <1>1, <1>2, <1>3, <2>1, AnswerEffect, OwnerWrites DEF Truth, k
<1>6. CASE Start(w)
  <2>1. /\ ledger' \in [Keys -> LedgerRow] /\ \A j \in Keys \ {k} : ledger'[j] = ledger[j]
        /\ ledger'[k].state = "PROCESSING" /\ ledger'[k].print = call[w].body /\ call[w].body \in Bodies
        /\ booked[k] = NoBody /\ ledger[k].state # "REJECTED"
    BY <1>1, <1>3, <1>6 DEF Start, k, LedgerRow
  <2>2. UNCHANGED <<booked, lock, told, current>> /\ call' = [call EXCEPT ![w].phase = "started"]
    BY <1>6 DEF Start
  <2>3. /\ call' \in [Workers -> Call] /\ \A v \in Workers \ {w} : call'[v] = call[v]
        /\ call'[w].phase = "started" /\ call'[w].key = k /\ call'[w].body = call[w].body
    BY <1>1, <2>2, PhaseEffect DEF k
  <2>4. QED BY <1>1, <1>2, <2>1, <2>2, <2>3, OwnerWrites DEF k
<1>7. CASE Book(w)
  <2>1. /\ SetState(k, "ACCEPTED") /\ Answer(w, "ACCEPTED") /\ UNCHANGED <<lock, told, current>>
        /\ booked' = [booked EXCEPT ![k] = call[w].body] /\ call[w].phase = "started"
    BY <1>7 DEF Book, k
  <2>2. /\ booked' \in [Keys -> Bodies \cup {NoBody}] /\ booked'[k] = call[w].body
        /\ \A j \in Keys \ {k} : booked'[j] = booked[j]
    BY <1>1, <1>3, <2>1
  <2>3. call[w].body \in Bodies /\ call[w].body # NoBody
    BY <1>3, <2>1, NullAssumption
  <2>4. QED
    BY <1>1, <1>2, <1>3, <2>1, <2>2, <2>3, SetStateEffect, AnswerEffect, OwnerWrites DEF Truth, k
<1>8. CASE Refuse(w)
  <2>1. /\ SetState(k, "REJECTED") /\ Answer(w, "REJECTED") /\ UNCHANGED <<booked, lock, told, current>>
        /\ call[w].phase = "started"
    BY <1>8 DEF Refuse, k
  <2>2. QED BY <1>1, <1>2, <1>3, <2>1, SetStateEffect, AnswerEffect, OwnerWrites DEF Truth, k
<1>9. CASE Close(w)
  <2>1. CASE UNCHANGED ledger
    <3>1. /\ UNCHANGED <<ledger, booked, lock, told, current>>
          /\ \/ Answer(w, "ACCEPTED") /\ booked[k] # NoBody
             \/ Answer(w, "UNKNOWN")
             \/ Answer(w, "REJECTED") /\ SetState(k, "REJECTED") /\ booked[k] = NoBody
      BY <1>9, <2>1 DEF Close, k
    <3>2. SetState(k, "REJECTED") => ledger[k].state = "REJECTED"
      BY <1>1, <3>1, SetStateEffect
    <3>3. QED BY <1>1, <1>2, <1>3, <3>1, <3>2, AnswerEffect, OwnerWrites DEF Truth, k
  <2>2. CASE SetState(k, "REJECTED") /\ Answer(w, "REJECTED") /\ booked[k] = NoBody
    <3>1. UNCHANGED <<booked, lock, told, current>>
      BY <1>9 DEF Close
    <3>2. QED BY <1>1, <1>2, <1>3, <2>2, <3>1, SetStateEffect, AnswerEffect, OwnerWrites DEF Truth, k
  <2>3. QED BY <1>9, <2>1, <2>2 DEF Close, k
<1>10. QED BY <1>4, <1>5, <1>6, <1>7, <1>8, <1>9

\* A call arrives, or is turned away at the lock.
LEMMA ArrivalSteps ==
  ASSUME IInv, NEW w \in Workers, NEW k \in Keys,
         \/ \E b \in Bodies : RequestArrives(w, k, b)
         \/ CloseArrives(w, k) \/ PollArrives(w, k) \/ Busy(w, k)
  PROVE  IInv'
<1> USE DEF IInv
<1>1. /\ \A v \in Workers : call[v].key \in Keys
      /\ call[w] = Idle /\ k <= current /\ UNCHANGED <<ledger, booked, current>>
  BY DEF TypeOK, Call, RequestArrives, CloseArrives, PollArrives, Busy, Arrive
<1>2. CASE Busy(w, k)
  <2>1. told' \in [Keys -> SUBSET Answers] /\ \A j \in Keys : told'[j] \subseteq told[j] \cup {"PROCESSING"}
    BY <1>2 DEF Busy, TypeOK, Answers
  <2>2. QED
    BY <1>1, <1>2, <2>1
    DEF Busy, TypeOK, LockIsHeld, StartedKeyIsUntouched, AnswersAreTrue, Truth, KeysInOrder, LedgerMatchesBookings
<1>3. CASE ~Busy(w, k)
  <2>1. PICK c \in Call : /\ call' = [call EXCEPT ![w] = c] /\ c.key = k /\ UNCHANGED told
                          /\ \/ lock[k] = NoWorker /\ lock' = [lock EXCEPT ![k] = w]
                             \/ UNCHANGED lock /\ c.phase \in {"poll", "replying"}
                          /\ c.phase # "started" /\ (c.phase = "request" => c.body \in Bodies)
                          /\ c.phase = "replying" => c.answer = "ACCEPTED" /\ booked[k] # NoBody
    <3>1. CASE \E b \in Bodies : RequestArrives(w, k, b)
      <4>1. PICK b \in Bodies : RequestArrives(w, k, b)
        BY <3>1
      <4>2. [phase |-> "request", key |-> k, body |-> b, answer |-> "UNKNOWN"] \in Call
        BY DEF Call, Phases, Answers
      <4>3. QED BY <4>1, <4>2 DEF RequestArrives, Arrive, TryLock
    <3>2. CASE CloseArrives(w, k)
      <4>1. [phase |-> "close", key |-> k, body |-> NoBody, answer |-> "UNKNOWN"] \in Call
        BY DEF Call, Phases, Answers
      <4>2. QED BY <3>2, <4>1 DEF CloseArrives, Arrive, TryLock
    <3>3. CASE PollArrives(w, k)
      <4>1. /\ [phase |-> "poll", key |-> k, body |-> NoBody, answer |-> "UNKNOWN"] \in Call
            /\ [phase |-> "replying", key |-> k, body |-> NoBody, answer |-> "ACCEPTED"] \in Call
        BY DEF Call, Phases, Answers
      <4>2. QED BY <3>3, <4>1 DEF PollArrives, Arrive
    <3>4. QED BY <1>3, <3>1, <3>2, <3>3
  <2>2. /\ call' \in [Workers -> Call] /\ call'[w] = c
        /\ \A v \in Workers \ {w} : call'[v] = call[v]
        /\ lock' \in [Keys -> Workers \cup {NoWorker}]
        /\ \A j \in Keys : lock[j] # NoWorker => lock'[j] = lock[j]
        /\ c.phase \in {"request", "started", "close"} => lock'[k] = w
    BY <2>1 DEF TypeOK
  <2>3. TypeOK'
    BY <1>1, <2>1, <2>2 DEF TypeOK
  <2>4. LockIsHeld'
    BY <1>1, <2>1, <2>2, NullAssumption DEF LockIsHeld
  <2>5. StartedKeyIsUntouched'
    BY <1>1, <2>1, <2>2 DEF StartedKeyIsUntouched
  <2>6. AnswersAreTrue'
    BY <1>1, <2>1, <2>2 DEF AnswersAreTrue, Truth
  <2>7. KeysInOrder' /\ LedgerMatchesBookings'
    BY <1>1, <2>1, <2>2 DEF KeysInOrder, LedgerMatchesBookings
  <2>8. QED BY <2>3, <2>4, <2>5, <2>6, <2>7
<1>4. QED BY <1>2, <1>3

\* GET looks at the tables without the lock and changes none of them.
LEMMA PollSteps ==
  ASSUME IInv, NEW w \in Workers, Poll(w)
  PROVE  IInv'
<1> USE DEF IInv
<1>1. /\ \A v \in Workers : call[v].key \in Keys
      /\ UNCHANGED <<ledger, booked, lock, told, current>>
  BY DEF TypeOK, Call, Poll
<1>2. /\ call' \in [Workers -> Call] /\ call'[w].key = call[w].key
      /\ \A v \in Workers \ {w} : call'[v] = call[v]
      /\ \/ call'[w].phase = "polled"
         \/ call'[w].phase = "replying" /\ Truth(call[w].key, call'[w].answer)
  <2>1. CASE \E a \in Answers : Answer(w, a) /\ Truth(call[w].key, a)
    BY <2>1, AnswerEffect DEF TypeOK
  <2>2. CASE call' = [call EXCEPT ![w].phase = "polled"]
    <3>1. "polled" \in Phases
      BY DEF Phases
    <3>2. QED BY <2>2, <3>1, PhaseEffect DEF TypeOK
  <2>3. QED BY <2>1, <2>2 DEF Poll, Truth, Answers
<1>3. TypeOK' /\ LockIsHeld' /\ StartedKeyIsUntouched'
  BY <1>1, <1>2 DEF TypeOK, LockIsHeld, StartedKeyIsUntouched
<1>4. AnswersAreTrue'
  BY <1>1, <1>2 DEF AnswersAreTrue, Truth
<1>5. KeysInOrder' /\ LedgerMatchesBookings'
  BY <1>1, <1>2 DEF KeysInOrder, LedgerMatchesBookings
<1>6. QED BY <1>3, <1>4, <1>5

\* A call ends, with its answer or without one, and frees the worker's locks.
LEMMA EndSteps ==
  ASSUME IInv, NEW w \in Workers, Reply(w) \/ Crash(w)
  PROVE  IInv'
<1> USE DEF IInv
<1>1. /\ \A v \in Workers : call[v].key \in Keys
      /\ UNCHANGED <<ledger, booked, current>> /\ ReleaseLocks(w)
      /\ call' = [call EXCEPT ![w] = Idle]
  BY DEF TypeOK, Call, Reply, Crash
<1>2. /\ call' \in [Workers -> Call] /\ call'[w] = Idle
      /\ \A v \in Workers \ {w} : call'[v] = call[v]
  BY <1>1, IdleIsACall DEF TypeOK
<1>3. /\ told' \in [Keys -> SUBSET Answers]
      /\ \A k \in Keys : \A a \in told'[k] : a \in told[k] \/ Truth(k, a)
  <2>1. call[w].key \in Keys /\ call[w].answer \in Answers
    BY DEF TypeOK, Call
  <2>2. CASE Reply(w)
    <3>1. Truth(call[w].key, call[w].answer)
      BY <2>2 DEF Reply, AnswersAreTrue
    <3>2. told' = [told EXCEPT ![call[w].key] = @ \cup {call[w].answer}]
      BY <2>2 DEF Reply
    <3>3. told' \in [Keys -> SUBSET Answers]
      BY <2>1, <3>2 DEF TypeOK
    <3>4. QED BY <2>1, <3>1, <3>2, <3>3 DEF TypeOK
  <2>3. CASE Crash(w)
    BY <2>3 DEF Crash, TypeOK
  <2>4. QED BY <2>2, <2>3
<1>4. TypeOK'
  BY <1>1, <1>2, <1>3, ReleaseEffect DEF TypeOK
<1>5. LockIsHeld' /\ StartedKeyIsUntouched'
  BY <1>1, <1>2, IdleIsACall, ReleaseEffect DEF TypeOK, LockIsHeld, StartedKeyIsUntouched
<1>6. AnswersAreTrue'
  BY <1>1, <1>2, <1>3, IdleIsACall DEF AnswersAreTrue, Truth
<1>7. KeysInOrder' /\ LedgerMatchesBookings'
  <2>1. current \in Keys /\ 1 <= current
    BY DEF TypeOK, Keys
  <2>2. QED BY <1>1, <1>2, <2>1, IdleIsACall DEF KeysInOrder, LedgerMatchesBookings
<1>8. QED BY <1>4, <1>5, <1>6, <1>7

\* The app moves on: what lets it is a rejection, and that was true.
LEMMA NewKeySteps ==
  ASSUME IInv, NewKey
  PROVE  IInv'
<1> USE DEF IInv
<1>1. /\ current \in Keys /\ current + 1 \in Keys /\ current' = current + 1
      /\ ledger[current].state = "REJECTED"
      /\ UNCHANGED <<ledger, booked, lock, call, told>>
  BY LastKeyAssumption DEF NewKey, TypeOK, CanStartNewRequest, AnswersAreTrue, Truth, Keys
<1>2. \A v \in Workers : call[v].key \in Keys
  BY DEF TypeOK, Call
<1>3. TypeOK' /\ LockIsHeld' /\ StartedKeyIsUntouched' /\ LedgerMatchesBookings'
  BY <1>1 DEF TypeOK, LockIsHeld, StartedKeyIsUntouched, LedgerMatchesBookings
<1>4. AnswersAreTrue'
  BY <1>1 DEF AnswersAreTrue, Truth
<1>5. KeysInOrder'
  <2>1. \A k \in Keys : (k < current' => k < current \/ k = current) /\ (k > current' => k > current)
    BY <1>1, KeysAreNat
  <2>2. \A v \in Workers : call[v].key <= current'
    <3> TAKE v \in Workers
    <3>1. call[v].key <= current
      BY DEF KeysInOrder
    <3>2. call[v].key \in Nat /\ current \in Nat /\ current' = current + 1
      BY <1>1, <1>2, KeysAreNat
    <3> HIDE DEF IInv
    <3>3. QED BY ONLY <3>1, <3>2
  <2>3. QED BY <1>1, <2>1, <2>2 DEF KeysInOrder
<1>6. QED BY <1>3, <1>4, <1>5

-----------------------------------------------------------------------------
LEMMA InitIInv == Init => IInv
<1> SUFFICES ASSUME Init PROVE IInv
  OBVIOUS
<1>1. PICK b \in Bodies \cup {NoBody} : booked = [k \in Keys |-> IF k = 1 THEN b ELSE NoBody]
  BY DEF Init
<1>2. \A k \in Keys : ledger[k].state = "NONE" /\ told[k] = {}
  BY DEF Init
<1>3. TypeOK
  <2>1. [state |-> "NONE", print |-> NoBody] \in LedgerRow
    BY DEF LedgerRow
  <2>2. QED BY <1>1, <2>1, IdleIsACall, KeysAreNat DEF Init, TypeOK
<1>4. \A w \in Workers : call[w].phase = "idle" /\ call[w].key = 1
  BY IdleIsACall DEF Init
<1>5. LockIsHeld /\ StartedKeyIsUntouched /\ AnswersAreTrue /\ LedgerMatchesBookings
  <2>1. LockIsHeld /\ StartedKeyIsUntouched
    BY <1>4 DEF LockIsHeld, StartedKeyIsUntouched
  <2>2. AnswersAreTrue /\ LedgerMatchesBookings
    BY <1>2, <1>4 DEF AnswersAreTrue, LedgerMatchesBookings
  <2>3. QED BY <2>1, <2>2
<1>6. KeysInOrder
  BY <1>1, <1>2, <1>4, LastKeyAssumption DEF Init, KeysInOrder, Keys
<1>7. QED BY <1>3, <1>5, <1>6 DEF IInv

LEMMA NextIInv == IInv /\ [Next]_vars => IInv'
<1> SUFFICES ASSUME IInv, [Next]_vars PROVE IInv'
  OBVIOUS
<1>1. CASE \E w \in Workers, k \in Keys :
             \/ \E b \in Bodies : RequestArrives(w, k, b)
             \/ CloseArrives(w, k) \/ PollArrives(w, k) \/ Busy(w, k)
  BY <1>1, ArrivalSteps
<1>2. CASE \E w \in Workers : WorkerStep(w) \/ Crash(w)
  BY <1>2, OwnerSteps, PollSteps, EndSteps DEF WorkerStep
<1>3. CASE NewKey
  BY <1>3, NewKeySteps
<1>4. CASE UNCHANGED vars
  <2>1. TypeOK' /\ LockIsHeld' /\ StartedKeyIsUntouched'
    BY <1>4 DEF vars, IInv, TypeOK, LockIsHeld, StartedKeyIsUntouched
  <2>2. AnswersAreTrue' /\ KeysInOrder' /\ LedgerMatchesBookings'
    BY <1>4 DEF vars, IInv, AnswersAreTrue, Truth, KeysInOrder, LedgerMatchesBookings
  <2>3. QED BY <2>1, <2>2 DEF IInv
<1>5. QED BY <1>1, <1>2, <1>3, <1>4 DEF Next

\* Every reachable state satisfies the inductive invariant.
LEMMA Inductive == Spec => []IInv
  BY InitIInv, NextIInv, PTL DEF Spec

-----------------------------------------------------------------------------
\* The tables, the locks and the calls keep their types.
THEOREM TypesAreKept == Spec => []TypeOK
  BY Inductive, PTL DEF IInv

\* ACCEPTED rows have the booking they name, undecided and rejected keys none.
THEOREM LedgerAgrees == Spec => []LedgerMatchesBookings
  BY Inductive, PTL DEF IInv

\* A key reported as rejected has no booking and never will have one.
THEOREM ClosedKeysStayClosed == Spec => []ClosedKeyNeverBooks
<1>1. IInv => ClosedKeyNeverBooks
  BY DEF IInv, AnswersAreTrue, Truth, LedgerMatchesBookings, ClosedKeyNeverBooks
<1>2. QED BY <1>1, Inductive, PTL

\* However many keys the app goes through, at most one of them is booked: the
\* ones before the newest are rejected, hence unbooked.
THEOREM AtMostOneBooking == Spec => []OneBookingPerPurchase
<1>1. IInv => OneBookingPerPurchase
  <2> SUFFICES ASSUME IInv, NEW j \in Keys, NEW k \in Keys, booked[j] # NoBody, booked[k] # NoBody
               PROVE  j = k
    BY DEF OneBookingPerPurchase
  <2>2. \A i \in Keys : booked[i] # NoBody => ~(i < current) /\ ~(i > current)
    BY DEF IInv, KeysInOrder, LedgerMatchesBookings
  <2>3. current \in Nat /\ j \in Nat /\ k \in Nat
    BY KeysAreNat DEF IInv, TypeOK
  <2>4. QED BY <2>2, <2>3
<1>2. QED BY <1>1, Inductive, PTL

-----------------------------------------------------------------------------
\* What each step does to the tables.  Only three kinds of step write: the
\* intent of an undecided key, the booking of a started key with its ledger
\* row, and the rejection of a key that has no booking.

Untouched == UNCHANGED <<ledger, booked>>

IntentWritten(k) ==
  /\ UNCHANGED booked
  /\ ledger[k].state \in {"NONE", "PROCESSING"} /\ ledger'[k].state # "REJECTED"
  /\ \A j \in Keys \ {k} : ledger'[j] = ledger[j]

BookingWritten(k) ==
  /\ ledger[k].state = "PROCESSING" /\ booked[k] = NoBody /\ k = current
  /\ ledger'[k].state = "ACCEPTED" /\ booked'[k] # NoBody
  /\ \A j \in Keys \ {k} : ledger'[j] = ledger[j] /\ booked'[j] = booked[j]

RejectionWritten(k) ==
  /\ UNCHANGED booked /\ booked[k] = NoBody
  /\ ledger[k].state # "ACCEPTED" /\ ledger'[k].state = "REJECTED"
  /\ ledger[k].state = "REJECTED" => ledger'[k] = ledger[k]
  /\ \A j \in Keys \ {k} : ledger'[j] = ledger[j]

Writes == Untouched \/ \E k \in Keys : IntentWritten(k) \/ BookingWritten(k) \/ RejectionWritten(k)

LEMMA SetRejected ==
  ASSUME IInv, NEW k \in Keys, SetState(k, "REJECTED"), UNCHANGED booked, booked[k] = NoBody
  PROVE  RejectionWritten(k)
<1>1. ledger \in [Keys -> LedgerRow] /\ ledger[k] \in LedgerRow
  BY DEF IInv, TypeOK
<1>2. ledger[k].state = "REJECTED" => ledger'[k] = ledger[k]
  BY <1>1 DEF SetState, LedgerRow
<1>3. ledger[k].state # "ACCEPTED"
  BY DEF IInv, LedgerMatchesBookings
<1>4. QED BY <1>1, <1>2, <1>3, SetStateEffect DEF RejectionWritten

LEMMA WorkerWrites ==
  ASSUME IInv, NEW w \in Workers, WorkerStep(w)
  PROVE  UNCHANGED current /\ Writes
<1> DEFINE k == call[w].key
<1>1. /\ k \in Keys /\ ledger \in [Keys -> LedgerRow] /\ ledger[k] \in LedgerRow
      /\ booked \in [Keys -> Bodies \cup {NoBody}]
  BY DEF IInv, TypeOK, Call
<1>2. CASE AlreadyBooked(w)
  <2>1. ledger[k].state = "NONE" \/ UNCHANGED ledger
    BY <1>2 DEF AlreadyBooked
  <2>2. CASE UNCHANGED ledger
    BY <1>2, <2>2 DEF AlreadyBooked, Writes, Untouched
  <2>3. CASE ledger' = [ledger EXCEPT ![k] = [state |-> "ACCEPTED", print |-> call[w].body]]
             /\ ledger[k].state = "NONE"
    BY <1>1, <1>2, <2>3 DEF AlreadyBooked, Writes, IntentWritten
  <2>4. QED BY <1>2, <2>2, <2>3 DEF AlreadyBooked
<1>3. CASE Start(w)
  <2>1. /\ ledger' = [ledger EXCEPT ![k] = [state |-> "PROCESSING", print |-> call[w].body]]
        /\ ledger[k].state \in {"NONE", "PROCESSING"} /\ UNCHANGED <<booked, current>>
    BY <1>3 DEF Start
  <2>2. QED BY <1>1, <2>1 DEF Writes, IntentWritten
<1>4. CASE Book(w)
  <2>1. /\ ledger[k].state = "PROCESSING" /\ booked[k] = NoBody /\ call[w].body \in Bodies
    BY <1>4 DEF Book, IInv, StartedKeyIsUntouched
  <2>2. k = current
    <3>1. ~(k < current) /\ ~(k > current)
      BY <1>1, <2>1 DEF IInv, KeysInOrder
    <3>2. k \in Nat /\ current \in Nat
      BY <1>1, KeysAreNat DEF IInv, TypeOK
    <3>3. QED BY <3>1, <3>2
  <2>3. /\ SetState(k, "ACCEPTED") /\ booked' = [booked EXCEPT ![k] = call[w].body] /\ UNCHANGED current
    BY <1>4 DEF Book
  <2>4. BookingWritten(k)
    BY <1>1, <2>1, <2>2, <2>3, SetStateEffect, NullAssumption DEF BookingWritten
  <2>5. QED BY <1>1, <2>3, <2>4 DEF Writes
<1>5. CASE Refuse(w)
  <2>1. booked[k] = NoBody
    BY <1>5 DEF Refuse, IInv, StartedKeyIsUntouched
  <2>2. QED BY <1>1, <1>5, <2>1, SetRejected DEF Refuse, Writes
<1>6. CASE Close(w)
  BY <1>1, <1>6, SetRejected DEF Close, Writes, Untouched
<1>7. CASE StartRefused(w) \/ Fault(w) \/ Poll(w) \/ Reply(w)
  BY <1>7 DEF StartRefused, Fault, Poll, Reply, Writes, Untouched
<1>8. QED BY <1>2, <1>3, <1>4, <1>5, <1>6, <1>7 DEF WorkerStep

LEMMA NextWrites == IInv /\ [Next]_vars => Writes
<1> SUFFICES ASSUME IInv, [Next]_vars PROVE Writes
  OBVIOUS
<1>1. CASE \E w \in Workers, k \in Keys :
             \/ \E b \in Bodies : RequestArrives(w, k, b)
             \/ CloseArrives(w, k) \/ PollArrives(w, k) \/ Busy(w, k)
  BY <1>1 DEF RequestArrives, CloseArrives, PollArrives, Arrive, Busy, Writes, Untouched
<1>2. CASE \E w \in Workers : WorkerStep(w)
  BY <1>2, WorkerWrites
<1>3. CASE \E w \in Workers : Crash(w)
  BY <1>3 DEF Crash, Writes, Untouched
<1>4. CASE NewKey \/ UNCHANGED vars
  BY <1>4 DEF NewKey, vars, Writes, Untouched
<1>5. QED BY <1>1, <1>2, <1>3, <1>4 DEF Next

\* No decided row is rewritten and no booking replaced, whatever step is taken.
THEOREM DecisionsArePermanent == Spec => DecisionIsPermanent
<1> DEFINE Kept == \A k \in Keys :
                     /\ ledger[k].state \in {"ACCEPTED", "REJECTED"} => ledger'[k] = ledger[k]
                     /\ booked[k] # NoBody => booked'[k] = booked[k]
<1>1. ASSUME IInv, [Next]_vars PROVE Kept
  <2>1. Writes
    BY <1>1, NextWrites
  <2>2. CASE Untouched
    BY <2>2 DEF Untouched
  <2>3. ASSUME NEW k \in Keys, IntentWritten(k) \/ BookingWritten(k) \/ RejectionWritten(k) PROVE Kept
    BY <2>3 DEF IntentWritten, BookingWritten, RejectionWritten
  <2>4. QED BY <2>1, <2>2, <2>3 DEF Writes
<1>2. IInv /\ [Next]_vars => [Kept]_vars
  BY <1>1
<1>3. QED BY <1>2, Inductive, PTL DEF Spec, DecisionIsPermanent

-----------------------------------------------------------------------------
\* The refinement.  Verdict is the register's decision of a key.

Verdict(k) == IF booked[k] # NoBody THEN "ACCEPTED"
              ELSE IF ledger[k].state = "REJECTED" THEN "REJECTED" ELSE "OPEN"

Decisions == [k \in Keys |-> Verdict(k)]

RegisterStep ==
  \/ UNCHANGED <<Decisions, told>>
  \/ \E k \in Keys : Register!Accept(k) \/ Register!Reject(k) \/ \E a \in Answers : Register!Tell(k, a)

LEMMA SameDecisions == UNCHANGED <<ledger, booked>> => UNCHANGED Decisions
  BY DEF Decisions, Verdict

LEMMA DecisionsDef == Decisions \in [Keys -> {"OPEN", "ACCEPTED", "REJECTED"}]
  BY DEF Decisions, Verdict

LEMMA WriteRefines ==
  ASSUME IInv, Writes, UNCHANGED <<told, current>>
  PROVE  RegisterStep
<1>1. CASE Untouched
  BY <1>1, SameDecisions DEF Untouched, RegisterStep
<1>2. ASSUME NEW k \in Keys, IntentWritten(k) PROVE RegisterStep
  <2>1. \A j \in Keys : Verdict(j)' = Verdict(j)
    BY <1>2 DEF IntentWritten, Verdict
  <2>2. Decisions' = Decisions
    BY <2>1 DEF Decisions
  <2>3. QED BY <2>2 DEF RegisterStep
<1>3. ASSUME NEW k \in Keys, BookingWritten(k) PROVE RegisterStep
  <2>1. \A j \in Keys \ {k} : Verdict(j)' = Verdict(j)
    BY <1>3 DEF BookingWritten, Verdict
  <2>2. Verdict(k) = "OPEN" /\ Verdict(k)' = "ACCEPTED"
    BY <1>3 DEF BookingWritten, Verdict
  <2>3. \A j \in Keys : Verdict(j) # "ACCEPTED"
    <3>1. \A j \in Keys : j < current \/ j > current \/ j = current
      BY KeysAreNat DEF IInv, TypeOK
    <3>2. \A j \in Keys \ {k} : booked[j] = NoBody
      BY <1>3, <3>1 DEF BookingWritten, IInv, KeysInOrder, LedgerMatchesBookings
    <3>3. QED BY <2>2, <3>2 DEF Verdict
  <2>4. Decisions' = [Decisions EXCEPT ![k] = "ACCEPTED"]
    BY <2>1, <2>2 DEF Decisions
  <2>5. Register!Accept(k)
    BY <2>2, <2>3, <2>4 DEF Register!Accept, Register!Keys, Keys, Decisions, Verdict
  <2>6. QED BY <2>5 DEF RegisterStep
<1>4. ASSUME NEW k \in Keys, RejectionWritten(k) PROVE RegisterStep
  <2>1. \A j \in Keys \ {k} : Verdict(j)' = Verdict(j)
    BY <1>4 DEF RejectionWritten, Verdict
  <2>2. Verdict(k) \in {"OPEN", "REJECTED"} /\ Verdict(k)' = "REJECTED"
    BY <1>4 DEF RejectionWritten, Verdict
  <2>3. Decisions' = [Decisions EXCEPT ![k] = "REJECTED"]
    BY <2>1, <2>2 DEF Decisions
  <2>4. CASE Verdict(k) = "OPEN"
    BY <2>3, <2>4 DEF Register!Reject, RegisterStep, Decisions, Verdict, Keys
  <2>5. CASE Verdict(k) = "REJECTED"
    <3>1. Decisions' = Decisions
      BY <2>1, <2>2, <2>5 DEF Decisions
    <3>2. QED BY <3>1 DEF RegisterStep
  <2>6. QED BY <2>2, <2>4, <2>5
<1>5. QED BY <1>1, <1>2, <1>3, <1>4 DEF Writes

LEMMA TellRefines ==
  ASSUME IInv, NEW k \in Keys, NEW a \in Answers, Truth(k, a), UNCHANGED <<ledger, booked>>,
         told' = [told EXCEPT ![k] = @ \cup {a}]
  PROVE  RegisterStep
<1>1. a \in {"ACCEPTED", "REJECTED"} => Decisions[k] = a
  BY DEF Truth, Decisions, Verdict, IInv, LedgerMatchesBookings
<1>2. Register!Tell(k, a)
  BY <1>1, SameDecisions DEF Register!Tell, Register!Final, Decisions, Verdict
<1>3. QED BY <1>2 DEF RegisterStep

LEMMA NextRefines == IInv /\ [Next]_vars => RegisterStep
<1> SUFFICES ASSUME IInv, [Next]_vars PROVE RegisterStep
  OBVIOUS
<1>1. CASE \E w \in Workers, k \in Keys :
             \/ \E b \in Bodies : RequestArrives(w, k, b)
             \/ CloseArrives(w, k) \/ PollArrives(w, k)
  BY <1>1, SameDecisions DEF RequestArrives, CloseArrives, PollArrives, Arrive, RegisterStep
<1>2. ASSUME NEW w \in Workers, NEW k \in Keys, Busy(w, k) PROVE RegisterStep
  BY <1>2, TellRefines DEF Busy, Truth, Answers
<1>3. ASSUME NEW w \in Workers, Reply(w) PROVE RegisterStep
  <2>1. call[w].key \in Keys /\ call[w].answer \in Answers
    BY DEF IInv, TypeOK, Call
  <2>2. Truth(call[w].key, call[w].answer)
    BY <1>3 DEF Reply, IInv, AnswersAreTrue
  <2>3. /\ told' = [told EXCEPT ![call[w].key] = @ \cup {call[w].answer}]
        /\ UNCHANGED <<ledger, booked>>
    BY <1>3 DEF Reply
  <2>4. QED BY <2>1, <2>2, <2>3, TellRefines
<1>4. ASSUME NEW w \in Workers, WorkerStep(w), ~Reply(w) PROVE RegisterStep
  <2>1. UNCHANGED told
    BY <1>4 DEF WorkerStep, AlreadyBooked, StartRefused, Start, Book, Refuse, Fault, Close, Poll
  <2>2. QED BY <1>4, <2>1, WorkerWrites, WriteRefines
<1>5. CASE (\E w \in Workers : Crash(w)) \/ NewKey \/ UNCHANGED vars
  BY <1>5, SameDecisions DEF Crash, NewKey, vars, RegisterStep
<1>6. QED BY <1>1, <1>2, <1>3, <1>4, <1>5 DEF Next

LEMMA InitRefines == Init => Register!Init
<1> SUFFICES ASSUME Init PROVE Register!Init
  OBVIOUS
<1>1. PICK b \in Bodies \cup {NoBody} : booked = [k \in Keys |-> IF k = 1 THEN b ELSE NoBody]
  BY DEF Init
<1>2. \A k \in Keys : Decisions[k] \in {"OPEN", "ACCEPTED"} /\ (Decisions[k] = "ACCEPTED" => k = 1)
  BY <1>1 DEF Init, Decisions, Verdict
<1>3. Decisions \in [Keys -> {"OPEN", "ACCEPTED"}]
  BY <1>2, DecisionsDef DEF Decisions
<1>4. told = [k \in Keys |-> {}]
  BY DEF Init
<1>5. QED BY <1>2, <1>3, <1>4 DEF Register!Init, Register!Keys, Keys, Decisions, Verdict

\* The endpoints implement the register of decisions: each key is decided at
\* most once, and every final answer repeats a decision that was taken.
THEOREM RegisterIsImplemented == Spec => ImplementsRegister
<1>1. RegisterStep => [Register!Next]_<<Decisions, told>>
  BY DEF RegisterStep, Register!Next, Register!Keys, Keys, Register!Answers, Register!Final, Answers
<1>2. IInv /\ [Next]_vars => [Register!Next]_(Register!vars)
  BY <1>1, NextRefines DEF Register!vars, Decisions, Verdict
<1>3. QED BY <1>2, InitRefines, Inductive, PTL DEF Spec, ImplementsRegister, Register!Spec
=============================================================================
