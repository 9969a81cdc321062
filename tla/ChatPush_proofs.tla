-------------------------- MODULE ChatPush_proofs --------------------------
(***************************************************************************)
(* Theorems about ChatPush, for any recipients, any number of processes    *)
(* and any number of attempts.                                             *)
(***************************************************************************)
EXTENDS ChatPush, TLAPS

Holding(c) == caller[c].at # "AWAY"
Status(rows, d) == rows[d].status
Final == {"failed", "skipped"}

\* Neither known to be heard nor out of the delivery.
Unheard(rows, d) == Status(rows, d) \notin {"accepted", "none"}

\* The lock of the event; whoever does not hold it has no copy.
OneHolds ==
  /\ \A c, x \in Callers : Holding(c) /\ Holding(x) => c = x
  /\ \A c \in Callers : ~Holding(c) => caller[c] = Away
  /\ \A c \in Callers : IF caller[c].at = "SENDING" THEN caller[c].sending \subseteq PendingRows(caller[c].rows)
                        ELSE caller[c].sending = {}

\* Nothing was sent before the recipients were frozen, nor before a caller that
\* has read the event earlier freezes them.
NotFrozenYet ==
  ~event.frozen \/ (\E c \in Callers : caller[c].at = "HOLDS") =>
    /\ event.rows = NoRows /\ eraser.of = {}
    /\ \A d \in Recipients : heard[d] = 0 /\ lost[d] = 0
    /\ \A c \in Callers : caller[c].at \in {"AWAY", "HOLDS"} /\ caller[c].rows = NoRows

\* A caller knows of an acceptance and has yet to write it down.
IsTold(d) == \E c \in Callers : caller[c].at = "ANSWERED" /\ Status(caller[c].rows, d) = "accepted"

AcceptedIsKnown ==
  \A d \in Recipients :
    /\ heard[d] <= 1 + lost[d]
    /\ Unheard(event.rows, d) => heard[d] <= lost[d] \/ IsTold(d)
    /\ \A c \in Callers : Unheard(caller[c].rows, d) => heard[d] <= lost[d]

\* What an erasure will write back has no row that the event has lost in the
\* meantime, and none that has ended otherwise.
EraserIsBehind ==
  eraser.of # {} =>
    /\ event.from = "customer"
    /\ \A d \in Recipients :
         /\ Status(event.rows, d) = "none" => Status(eraser.rows, d) = "none"
         /\ Status(eraser.rows, d) \in Final => Status(event.rows, d) = Status(eraser.rows, d)

\* The copy of the caller is never behind the event in the same sense.
CopiesAreAhead ==
  \A c \in Callers, d \in Recipients : Holding(c) =>
    /\ event.from = "customer" /\ Status(caller[c].rows, d) = "none" => Status(event.rows, d) = "none"
    /\ Status(event.rows, d) \in Final => Status(caller[c].rows, d) = Status(event.rows, d)

\* As long as nothing was written back, every hearing has an attempt of its own.
AttemptsCount ==
  eraser.done = {} => \A d \in Recipients :
    /\ heard[d] <= MaxAttempts
    /\ Status(event.rows, d) = "pending" => heard[d] <= event.rows[d].attempts
    /\ \A c \in Callers :
         /\ Status(caller[c].rows, d) = "pending" => heard[d] <= caller[c].rows[d].attempts
         /\ d \in caller[c].sending =>
              /\ heard[d] < caller[c].rows[d].attempts
              /\ Status(event.rows, d) = "pending" => heard[d] < event.rows[d].attempts

PushInv ==
  /\ PushTypes /\ OneHolds /\ NotFrozenYet /\ AcceptedIsKnown
  /\ EraserIsBehind /\ CopiesAreAhead /\ AttemptsCount

-----------------------------------------------------------------------------
\* Rows, the event and the callers.

DeliveryRow == [status : Statuses, attempts : 0..MaxAttempts]
Event == [from : {"customer", "admin"}, exists : BOOLEAN, frozen : BOOLEAN, rows : RowSet,
          pending : BOOLEAN, synced : BOOLEAN]
Caller == [at : {"AWAY", "HOLDS", "FROZEN", "RECORDED", "SYNCED", "SENDING", "ANSWERED"},
           rows : RowSet, sending : SUBSET Recipients]

LEMMA DeliveryRows ==
  /\ RowSet = [Recipients -> DeliveryRow]
  /\ NoRow \in DeliveryRow /\ NoRow.status = "none" /\ NoRow.attempts = 0
  /\ NoRows \in RowSet /\ \A d \in Recipients : Status(NoRows, d) = "none" /\ NoRows[d] = NoRow
  /\ Away \in Caller /\ Away.at = "AWAY" /\ Away.rows = NoRows /\ Away.sending = {}
<1>1. RowSet = [Recipients -> DeliveryRow]
  BY DEF RowSet, DeliveryRow
<1>2. NoRow \in DeliveryRow /\ NoRow.status = "none" /\ NoRow.attempts = 0
  BY ChatPushAssumption DEF NoRow, DeliveryRow, Statuses
<1>3. NoRows \in RowSet /\ \A d \in Recipients : Status(NoRows, d) = "none" /\ NoRows[d] = NoRow
  BY <1>1, <1>2 DEF NoRows, Status
<1>4. Away \in Caller /\ Away.at = "AWAY" /\ Away.rows = NoRows /\ Away.sending = {}
  BY <1>3 DEF Away, Caller
<1> QED BY <1>1, <1>2, <1>3, <1>4

LEMMA PushRecords ==
  ASSUME PushTypes
  PROVE  /\ event \in Event /\ caller \in [Callers -> Caller]
         /\ event.rows \in RowSet /\ eraser.rows \in RowSet
         /\ \A c \in Callers : caller[c] \in Caller /\ caller[c].rows \in RowSet /\ caller[c].sending \subseteq Recipients
         /\ \A d \in Recipients : heard[d] \in Nat /\ lost[d] \in Nat
BY DEF PushTypes, Event, Caller

\* checkpoint()
LEMMA Checkpoints ==
  ASSUME PushTypes, NEW rows \in RowSet, Checkpoint(rows)
  PROVE  /\ event' \in Event /\ event'.rows = rows /\ event'.frozen = TRUE /\ event'.from = event.from
<1>1. (PendingRows(rows) # {}) \in BOOLEAN
  OBVIOUS
<1> QED BY <1>1, PushRecords DEF Checkpoint, Event

LEMMA Going ==
  ASSUME PushTypes, NEW c \in Callers, NEW copy \in Caller, caller' = [caller EXCEPT ![c] = copy]
  PROVE  /\ caller' \in [Callers -> Caller] /\ caller'[c] = copy
         /\ \A x \in Callers \ {c} : caller'[x] = caller[x]
BY PushRecords

LEMMA InitPush == PushInit => PushInv
<1> SUFFICES ASSUME PushInit PROVE PushInv
  OBVIOUS
<1>1. PICK sender \in {"customer", "admin"} :
        event = [from |-> sender, exists |-> TRUE, frozen |-> FALSE, rows |-> NoRows, pending |-> FALSE, synced |-> FALSE]
  BY DEF PushInit
<1>2. event \in Event /\ event.rows = NoRows /\ event.frozen = FALSE
  BY <1>1, DeliveryRows DEF Event
<1>3. \A c \in Callers : caller[c] = Away
  BY DEF PushInit
<1>4. \A d \in Recipients : heard[d] = 0 /\ lost[d] = 0
  BY DEF PushInit
<1>5. eraser = NoEraser /\ NoEraser.of = {} /\ NoEraser.rows = NoRows
  BY DEF PushInit, NoEraser
<1>6. PushTypes
  <2>1. caller \in [Callers -> Caller]
    BY DeliveryRows DEF PushInit
  <2>2. eraser \in [of : SUBSET Recipients, done : SUBSET Recipients, rows : RowSet]
    BY <1>5, DeliveryRows DEF NoEraser
  <2> QED BY <1>2, <2>1, <2>2 DEF PushInit, PushTypes, Event, Caller
<1>7. OneHolds /\ NotFrozenYet
  BY <1>2, <1>3, <1>4, <1>5, DeliveryRows DEF OneHolds, NotFrozenYet, Holding
<1>8. AcceptedIsKnown /\ EraserIsBehind /\ CopiesAreAhead
  BY <1>2, <1>3, <1>4, <1>5, DeliveryRows DEF AcceptedIsKnown, EraserIsBehind, CopiesAreAhead, Holding, Unheard
<1>9. AttemptsCount
  <2>1. /\ \A d \in Recipients : Status(event.rows, d) = "none"
        /\ \A c \in Callers, d \in Recipients : Status(caller[c].rows, d) = "none" /\ caller[c].sending = {}
    BY <1>2, <1>3, DeliveryRows
  <2>2. 0 <= MaxAttempts
    BY ChatPushAssumption
  <2> QED BY <1>4, <2>1, <2>2 DEF AttemptsCount
<1> QED BY <1>6, <1>7, <1>8, <1>9 DEF PushInv

-----------------------------------------------------------------------------
\* Steps after which everybody still knows what they knew.

LEMMA QuietKeeps ==
  ASSUME PushInv, PushTypes', UNCHANGED <<heard, lost, eraser>>,
         event'.from = event.from, event'.frozen = event.frozen, event'.rows = event.rows,
         \A c \in Callers :
           /\ caller'[c].rows = caller[c].rows /\ caller'[c].sending = caller[c].sending
           /\ \/ caller'[c].at = caller[c].at /\ caller'[c] = caller[c]
              \/ /\ caller[c].at \in {"FROZEN", "RECORDED"} /\ event.frozen
                 /\ caller'[c].at \in {"FROZEN", "RECORDED", "SYNCED"}
  PROVE  PushInv'
<1> USE DEF PushInv
<1>1. /\ \A c \in Callers : /\ Holding(c)' <=> Holding(c)
                            /\ caller'[c].at = "SENDING" <=> caller[c].at = "SENDING"
                            /\ caller'[c].at = "ANSWERED" <=> caller[c].at = "ANSWERED"
                            /\ caller'[c].at = "HOLDS" <=> caller[c].at = "HOLDS"
      /\ \A d : IsTold(d)' <=> IsTold(d)
  BY DEF Holding, IsTold
<1>2. OneHolds'
  BY <1>1 DEF OneHolds, Holding
<1>3. NotFrozenYet'
  BY <1>1 DEF NotFrozenYet
<1>4. AcceptedIsKnown'
  BY <1>1 DEF AcceptedIsKnown
<1>5. EraserIsBehind' /\ CopiesAreAhead'
  BY <1>1 DEF EraserIsBehind, CopiesAreAhead
<1>6. AttemptsCount'
  BY DEF AttemptsCount
<1> QED BY <1>2, <1>3, <1>4, <1>5, <1>6

LEMMA ContextKeeps ==
  ASSUME PushInv, (\E d \in Recipients : LeaveContext(d)) \/ PurgeEvent
  PROVE  PushInv'
<1> USE DEF PushInv
<1>1. UNCHANGED <<inbox, caller, heard, lost, eraser>> /\ eligible' \subseteq eligible
  BY DEF LeaveContext, PurgeEvent
<1>2. event' \in Event /\ event'.from = event.from /\ event'.frozen = event.frozen /\ event'.rows = event.rows
  <2>1. CASE event' = event
    BY <2>1, PushRecords
  <2>2. CASE event' = [event EXCEPT !.exists = FALSE]
    BY <2>2, PushRecords DEF Event
  <2> QED BY <2>1, <2>2 DEF LeaveContext, PurgeEvent
<1>3. PushTypes'
  BY <1>1, <1>2 DEF PushTypes, Event
<1> QED BY <1>1, <1>2, <1>3, QuietKeeps

LEMMA InboxKeeps ==
  ASSUME PushInv, NEW c \in Callers, RecordInbox(c) \/ SyncInbox(c)
  PROVE  PushInv'
<1> USE DEF PushInv
<1>1. /\ caller[c].at \in {"FROZEN", "RECORDED"} /\ event.frozen
      /\ inbox' \in BOOLEAN /\ UNCHANGED <<eligible, heard, lost, eraser>>
  BY DEF RecordInbox, SyncInbox, NotFrozenYet, PushTypes
<1>2. PICK at \in {"FROZEN", "RECORDED", "SYNCED"} : Goes(c, at, caller[c].rows, {})
  BY DEF RecordInbox, SyncInbox
<1> DEFINE copy == [at |-> at, rows |-> caller[c].rows, sending |-> {}]
<1>3. /\ copy \in Caller /\ copy.at = at /\ copy.rows = caller[c].rows /\ copy.sending = {}
      /\ caller' = [caller EXCEPT ![c] = copy]
  BY <1>2, PushRecords DEF Caller, Goes
<1> HIDE DEF copy
<1>4. event' \in Event /\ event'.from = event.from /\ event'.frozen = event.frozen /\ event'.rows = event.rows
  <2>1. CASE event' = event
    BY <2>1, PushRecords
  <2>2. CASE event' = [event EXCEPT !.synced = TRUE]
    BY <2>2, PushRecords DEF Event
  <2> QED BY <2>1, <2>2 DEF RecordInbox, SyncInbox
<1>5. caller' \in [Callers -> Caller] /\ caller'[c] = copy /\ \A x \in Callers \ {c} : caller'[x] = caller[x]
  BY <1>3, Going
<1>6. PushTypes'
  BY <1>1, <1>4, <1>5 DEF PushTypes, Event, Caller
<1>7. caller[c].sending = {}
  BY <1>1 DEF OneHolds
<1> QED BY <1>1, <1>3, <1>4, <1>5, <1>6, <1>7, QuietKeeps

-----------------------------------------------------------------------------
\* The steps of a dispatcher.

LEMMA Alone ==
  ASSUME PushInv, NEW c \in Callers, Holding(c)
  PROVE  /\ \A x \in Callers \ {c} : /\ caller[x] = Away /\ ~Holding(x)
                                     /\ caller[x].sending = {} /\ caller[x].rows = NoRows
         /\ caller[c].at # "ANSWERED" => \A d \in Recipients : ~IsTold(d)
<1>1. \A x \in Callers \ {c} : caller[x] = Away /\ ~Holding(x)
  BY DEF PushInv, OneHolds
<1> QED BY <1>1, DeliveryRows DEF IsTold

LEMMA StartKeeps ==
  ASSUME PushInv, NEW c \in Callers, Start(c)
  PROVE  PushInv'
<1> USE DEF PushInv
<1>1. UNCHANGED <<event, inbox, eligible, heard, lost, eraser>> /\ \A x \in Callers : ~Holding(x)
  BY DEF Start, Holding
<1> DEFINE copy == [at |-> IF event.frozen THEN "FROZEN" ELSE "HOLDS", rows |-> event.rows, sending |-> {}]
<1>2. /\ copy \in Caller /\ copy.at = (IF event.frozen THEN "FROZEN" ELSE "HOLDS")
      /\ copy.rows = event.rows /\ copy.sending = {}
  BY PushRecords DEF Caller
<1>3. caller' = [caller EXCEPT ![c] = copy]
  BY DEF Start, Goes
<1> HIDE DEF copy
<1>4. /\ caller' \in [Callers -> Caller] /\ caller'[c] = copy
      /\ \A x \in Callers \ {c} : caller'[x] = Away /\ ~Holding(x)'
  <2>1. \A x \in Callers : caller[x] = Away
    BY <1>1 DEF OneHolds
  <2> QED BY <1>2, <1>3, <2>1, Going, DeliveryRows DEF Holding
<1>5. PushTypes'
  BY <1>1, <1>4 DEF PushTypes, Caller
<1>6. OneHolds'
  BY <1>2, <1>4, DeliveryRows DEF OneHolds, Holding
<1>7. NotFrozenYet'
  BY <1>1, <1>2, <1>4, DeliveryRows DEF NotFrozenYet
<1>8. \A d \in Recipients : Unheard(event.rows, d) => heard[d] <= lost[d]
  BY <1>1 DEF AcceptedIsKnown, IsTold, Holding
<1>9. AcceptedIsKnown'
  BY <1>1, <1>2, <1>4, <1>8, DeliveryRows DEF AcceptedIsKnown, Unheard
<1>10. EraserIsBehind' /\ CopiesAreAhead'
  BY <1>1, <1>2, <1>4 DEF EraserIsBehind, CopiesAreAhead
<1>11. AttemptsCount'
  <2>1. \A x \in Callers, d \in Recipients :
          /\ d \notin caller'[x].sending
          /\ Status(caller'[x].rows, d) = "pending" => caller'[x].rows = event.rows
    BY <1>2, <1>4, DeliveryRows
  <2> QED BY <1>1, <2>1 DEF AttemptsCount
<1> QED BY <1>5, <1>6, <1>7, <1>9, <1>10, <1>11

LEMMA FreezeKeeps ==
  ASSUME PushInv, NEW c \in Callers, Freeze(c)
  PROVE  PushInv'
<1> USE DEF PushInv
<1> DEFINE rows == [d \in Recipients |-> IF d \in eligible THEN [NoRow EXCEPT !.status = "pending"] ELSE NoRow]
           copy == [at |-> "FROZEN", rows |-> rows, sending |-> {}]
<1>1. /\ caller[c].at = "HOLDS" /\ Holding(c) /\ Checkpoint(rows) /\ Goes(c, "FROZEN", rows, {})
      /\ UNCHANGED <<inbox, eligible, heard, lost, eraser>>
  BY DEF Freeze, Holding
<1>2. rows \in RowSet
  BY DeliveryRows DEF NoRow, DeliveryRow, Statuses
<1>3. \A d \in Recipients : Status(rows, d) \in {"none", "pending"} /\ rows[d].attempts = 0
  BY DEF NoRow, Status
<1> HIDE DEF rows
<1>4. copy \in Caller /\ copy.at = "FROZEN" /\ copy.rows = rows /\ copy.sending = {}
  BY <1>2 DEF Caller
<1>5. caller' = [caller EXCEPT ![c] = copy]
  BY <1>1 DEF Goes
<1> HIDE DEF copy
<1>6. caller' \in [Callers -> Caller] /\ caller'[c] = copy /\ \A x \in Callers \ {c} : caller'[x] = Away /\ ~Holding(x)'
  BY <1>1, <1>4, <1>5, Going, Alone, DeliveryRows DEF Holding
<1>7. event' \in Event /\ event'.rows = rows /\ event'.frozen = TRUE /\ event'.from = event.from
  BY <1>1, <1>2, Checkpoints
<1>8. PushTypes'
  BY <1>1, <1>6, <1>7 DEF PushTypes, Event, Caller
<1>9. OneHolds' /\ NotFrozenYet'
  BY <1>4, <1>6, <1>7, DeliveryRows DEF OneHolds, NotFrozenYet, Holding
<1>10. /\ eraser.of = {} /\ \A d \in Recipients : heard[d] = 0 /\ lost[d] = 0
  BY <1>1 DEF NotFrozenYet
<1>11. AcceptedIsKnown'
  BY <1>1, <1>10 DEF AcceptedIsKnown
<1>12. EraserIsBehind' /\ CopiesAreAhead'
  BY <1>1, <1>4, <1>6, <1>7, <1>10 DEF EraserIsBehind, CopiesAreAhead
<1>13. AttemptsCount'
  <2>1. \A x \in Callers, d \in Recipients :
          /\ d \notin caller'[x].sending
          /\ Status(caller'[x].rows, d) = "pending" => caller'[x].rows = rows
    BY <1>4, <1>6, DeliveryRows
  <2>2. 0 <= MaxAttempts
    BY ChatPushAssumption
  <2> QED BY <1>1, <1>3, <1>7, <1>10, <2>1, <2>2 DEF AttemptsCount
<1> QED BY <1>8, <1>9, <1>11, <1>12, <1>13

LEMMA AttemptedRows ==
  ASSUME NEW rows \in RowSet, NEW due \in SUBSET PendingRows(rows), NEW late \in BOOLEAN
  PROVE  LET new == Attempted(rows, due, late)
         IN /\ new \in RowSet
            /\ \A d \in Recipients :
                 /\ d \notin due => new[d] = rows[d]
                 /\ d \in due => /\ Status(rows, d) = "pending" /\ Status(new, d) \in {"skipped", "failed", "pending"}
                                 /\ Status(new, d) = "pending" => new[d].attempts = rows[d].attempts + 1
<1> DEFINE new == Attempted(rows, due, late)
<1>1. ASSUME NEW d \in Recipients
      PROVE  /\ new[d] \in DeliveryRow
             /\ d \notin due => new[d] = rows[d]
             /\ d \in due => /\ rows[d].status = "pending" /\ new[d].status \in {"skipped", "failed", "pending"}
                             /\ new[d].status = "pending" => new[d].attempts = rows[d].attempts + 1
  <2>1. rows[d] \in DeliveryRow /\ rows[d].attempts \in 0..MaxAttempts
    BY DeliveryRows DEF DeliveryRow
  <2>2. CASE d \notin due
    BY <2>1, <2>2 DEF Attempted
  <2>3. CASE d \in due /\ d \notin eligible
    <3>1. rows[d].status = "pending" /\ new[d] = [rows[d] EXCEPT !.status = "skipped"]
      BY <2>3 DEF Attempted, PendingRows
    <3> HIDE DEF new
    <3> QED BY <2>1, <2>3, <3>1 DEF DeliveryRow, Statuses
  <2>4. CASE d \in due /\ d \in eligible /\ (late \/ rows[d].attempts >= MaxAttempts)
    <3>1. rows[d].status = "pending" /\ new[d] = [rows[d] EXCEPT !.status = "failed"]
      BY <2>4 DEF Attempted, PendingRows
    <3> HIDE DEF new
    <3> QED BY <2>1, <2>4, <3>1 DEF DeliveryRow, Statuses
  <2>5. CASE d \in due /\ d \in eligible /\ ~(late \/ rows[d].attempts >= MaxAttempts)
    <3>1. rows[d].status = "pending" /\ new[d] = [rows[d] EXCEPT !.attempts = rows[d].attempts + 1]
      BY <2>5 DEF Attempted, PendingRows
    <3>2. rows[d].attempts + 1 \in 0..MaxAttempts
      BY <2>1, <2>5, ChatPushAssumption
    <3> HIDE DEF new
    <3> QED BY <2>1, <2>5, <3>1, <3>2 DEF DeliveryRow, Statuses
  <2> QED BY <2>2, <2>3, <2>4, <2>5
<1>2. new = [d \in Recipients |-> new[d]]
  BY DEF Attempted
<1>3. new \in RowSet
  <2> HIDE DEF new
  <2> QED BY <1>1, <1>2, DeliveryRows
<1> QED BY <1>1, <1>3 DEF Status

LEMMA PrepareKeeps ==
  ASSUME PushInv, NEW c \in Callers, Prepare(c)
  PROVE  PushInv'
<1> USE DEF PushInv
<1> DEFINE old == caller[c].rows
<1>1. PICK due \in SUBSET PendingRows(old), late \in BOOLEAN :
        LET rows == Attempted(old, due, late)
            sending == PendingRows(rows) \cap due
        IN /\ IF due = {} THEN UNCHANGED event ELSE event.exists /\ Checkpoint(rows)
           /\ IF sending = {} THEN caller' = [caller EXCEPT ![c] = Away] ELSE Goes(c, "SENDING", rows, sending)
  BY DEF Prepare
<1> DEFINE rows == Attempted(old, due, late)
           sending == PendingRows(rows) \cap due
           copy == IF sending = {} THEN Away ELSE [at |-> "SENDING", rows |-> rows, sending |-> sending]
<1>2. caller[c].at = "SYNCED" /\ Holding(c) /\ UNCHANGED <<inbox, eligible, heard, lost, eraser>>
  BY DEF Prepare, Holding
<1>3. old \in RowSet
  BY PushRecords
<1>4. /\ rows \in RowSet
      /\ \A d \in Recipients :
           /\ d \notin due => rows[d] = old[d]
           /\ d \in due => /\ Status(old, d) = "pending" /\ Status(rows, d) \in {"skipped", "failed", "pending"}
                           /\ Status(rows, d) = "pending" => rows[d].attempts = old[d].attempts + 1
  BY <1>3, AttemptedRows
<1>5. /\ due = {} => UNCHANGED event
      /\ due # {} => event' \in Event /\ event'.rows = rows /\ event'.frozen = TRUE /\ event'.from = event.from
  BY <1>1, <1>4, Checkpoints
<1>6. /\ sending \subseteq due /\ sending \subseteq Recipients /\ sending \subseteq PendingRows(rows)
      /\ \A d \in sending : Status(rows, d) = "pending"
  BY DEF PendingRows, Status
<1>7. /\ copy \in Caller /\ copy.at \in {"AWAY", "SENDING"} /\ caller' = [caller EXCEPT ![c] = copy]
      /\ copy.at = "AWAY" => copy = Away /\ copy.sending = {} /\ copy.rows = NoRows
      /\ copy.at = "SENDING" => due # {} /\ copy.sending = sending /\ copy.rows = rows
  <2> HIDE DEF rows
  <2>1. CASE sending = {}
    BY <1>1, <2>1, DeliveryRows DEF rows
  <2>2. CASE sending # {}
    <3>1. Goes(c, "SENDING", rows, sending)
      BY <1>1, <2>2 DEF rows
    <3> QED BY <1>4, <1>6, <2>2, <3>1 DEF Caller, Goes
  <2> QED BY <2>1, <2>2
<1> HIDE DEF copy, sending, rows
<1>8. caller' \in [Callers -> Caller] /\ caller'[c] = copy /\ \A x \in Callers \ {c} : caller'[x] = Away /\ ~Holding(x)'
  BY <1>2, <1>7, Going, Alone, DeliveryRows DEF Holding
<1>9. PushTypes'
  BY <1>2, <1>5, <1>8 DEF PushTypes, Event, Caller
<1>10. event.frozen /\ event'.frozen /\ event'.from = event.from
  BY <1>2, <1>5 DEF NotFrozenYet
<1>11. OneHolds' /\ NotFrozenYet'
  BY <1>6, <1>7, <1>8, <1>10, DeliveryRows DEF OneHolds, NotFrozenYet, Holding
<1>12. AcceptedIsKnown'
  <2> SUFFICES ASSUME NEW d \in Recipients
               PROVE  /\ heard'[d] <= 1 + lost'[d]
                      /\ Unheard(event'.rows, d) => heard'[d] <= lost'[d]
                      /\ \A x \in Callers : Unheard(caller'[x].rows, d) => heard'[d] <= lost'[d]
    BY DEF AcceptedIsKnown
  <2>1. Unheard(rows, d) => heard[d] <= lost[d]
    BY <1>4 DEF AcceptedIsKnown, Unheard, Status
  <2>2. Unheard(event.rows, d) => heard[d] <= lost[d]
    BY <1>2, Alone DEF AcceptedIsKnown
  <2>3. ~Unheard(NoRows, d)
    BY DeliveryRows DEF Unheard
  <2>4. Unheard(event'.rows, d) => heard[d] <= lost[d]
    BY <1>5, <2>1, <2>2
  <2>5. ASSUME NEW x \in Callers, Unheard(caller'[x].rows, d) PROVE heard[d] <= lost[d]
    BY <1>7, <1>8, <2>1, <2>3, <2>5, DeliveryRows
  <2> QED BY <1>2, <2>4, <2>5 DEF AcceptedIsKnown
<1>13. EraserIsBehind'
  <2> SUFFICES ASSUME eraser.of # {}, NEW d \in Recipients
               PROVE  /\ Status(event'.rows, d) = "none" => Status(eraser.rows, d) = "none"
                      /\ Status(eraser.rows, d) \in Final => Status(event'.rows, d) = Status(eraser.rows, d)
    BY <1>2, <1>10 DEF EraserIsBehind
  <2>1. /\ event.from = "customer"
        /\ Status(event.rows, d) = "none" => Status(eraser.rows, d) = "none"
        /\ Status(eraser.rows, d) \in Final => Status(event.rows, d) = Status(eraser.rows, d)
    BY DEF EraserIsBehind
  <2>2. /\ Status(old, d) = "none" => Status(event.rows, d) = "none"
        /\ Status(event.rows, d) \in Final => Status(old, d) = Status(event.rows, d)
    BY <1>2, <2>1 DEF CopiesAreAhead
  <2>3. /\ Status(rows, d) = "none" => Status(old, d) = "none"
        /\ Status(old, d) \in Final => Status(rows, d) = Status(old, d)
    BY <1>4 DEF Status, Final
  <2> QED BY <1>5, <2>1, <2>2, <2>3
<1>14. CopiesAreAhead'
  BY <1>5, <1>7, <1>8 DEF CopiesAreAhead, Holding
<1>15. AttemptsCount'
  <2> SUFFICES ASSUME eraser.done = {}, NEW d \in Recipients
               PROVE  /\ heard[d] <= MaxAttempts
                      /\ Status(event'.rows, d) = "pending" => heard[d] <= event'.rows[d].attempts
                      /\ \A x \in Callers :
                           /\ Status(caller'[x].rows, d) = "pending" => heard[d] <= caller'[x].rows[d].attempts
                           /\ d \in caller'[x].sending =>
                                /\ heard[d] < caller'[x].rows[d].attempts
                                /\ Status(event'.rows, d) = "pending" => heard[d] < event'.rows[d].attempts
    BY <1>2 DEF AttemptsCount
  <2>1. /\ heard[d] \in Nat /\ heard[d] <= MaxAttempts /\ old[d].attempts \in Nat
        /\ Status(event.rows, d) = "pending" => heard[d] <= event.rows[d].attempts
        /\ Status(old, d) = "pending" => heard[d] <= old[d].attempts
    BY <1>3, PushRecords, DeliveryRows DEF AttemptsCount, DeliveryRow
  <2>2. Status(rows, d) = "pending" => heard[d] <= rows[d].attempts /\ (d \in due => heard[d] < rows[d].attempts)
    BY <1>4, <2>1 DEF Status
  <2>3. ASSUME NEW x \in Callers
        PROVE  /\ Status(caller'[x].rows, d) = "pending" => caller'[x].rows = rows
               /\ d \in caller'[x].sending => due # {} /\ caller'[x].rows = rows /\ d \in due /\ Status(rows, d) = "pending"
    BY <1>6, <1>7, <1>8, DeliveryRows
  <2> QED BY <1>5, <2>1, <2>2, <2>3
<1> QED BY <1>9, <1>11, <1>12, <1>13, <1>14, <1>15

LEMMA DeliverKeeps ==
  ASSUME PushInv, NEW c \in Callers, Deliver(c)
  PROVE  PushInv'
<1> USE DEF PushInv
<1> DEFINE old == caller[c].rows
           sending == caller[c].sending
           sent == sending \cap eligible
<1>1. PICK answer \in [sending -> Answers] :
       LET reached == {d \in sent : answer[d] \in {"accepted", "unheard"}}
           row(d) == CASE d \notin sent -> "skipped"
                       [] d \in sent /\ answer[d] \in {"accepted", "failed"} -> answer[d]
                       [] OTHER -> IF caller[c].rows[d].attempts >= MaxAttempts THEN "failed" ELSE "pending"
       IN /\ heard' = [d \in Recipients |-> IF d \in reached THEN heard[d] + 1 ELSE heard[d]]
          /\ lost' = [d \in Recipients |-> IF d \in reached /\ answer[d] = "unheard" THEN lost[d] + 1 ELSE lost[d]]
          /\ Goes(c, "ANSWERED", [d \in Recipients |-> IF d \in caller[c].sending
                                                       THEN [caller[c].rows[d] EXCEPT !.status = row(d)]
                                                       ELSE caller[c].rows[d]], {})
  BY DEF Deliver
<1> DEFINE reached == {d \in sent : answer[d] \in {"accepted", "unheard"}}
           row(d) == CASE d \notin sent -> "skipped"
                       [] d \in sent /\ answer[d] \in {"accepted", "failed"} -> answer[d]
                       [] OTHER -> IF caller[c].rows[d].attempts >= MaxAttempts THEN "failed" ELSE "pending"
           rows == [d \in Recipients |-> IF d \in sending THEN [old[d] EXCEPT !.status = row(d)] ELSE old[d]]
           copy == [at |-> "ANSWERED", rows |-> rows, sending |-> {}]
<1>2. caller[c].at = "SENDING" /\ Holding(c) /\ UNCHANGED <<event, inbox, eligible, eraser>>
  BY DEF Deliver, Holding
<1>3. /\ old \in RowSet /\ \A d \in Recipients : old[d] \in DeliveryRow
      /\ \A d \in sending : d \in Recipients /\ Status(old, d) = "pending"
  BY <1>2, PushRecords, DeliveryRows DEF OneHolds, PendingRows, Status
<1>4. ASSUME NEW d \in sending
      PROVE  /\ row(d) \in {"skipped", "failed", "pending", "accepted"}
             /\ d \in reached <=> d \in sent /\ answer[d] \in {"accepted", "unheard"}
             /\ row(d) = "accepted" <=> d \in sent /\ answer[d] = "accepted"
  <2>1. answer[d] \in Answers
    BY <1>4
  <2>2. CASE d \notin sent
    BY <2>2
  <2>3. CASE d \in sent /\ answer[d] \in {"accepted", "failed"}
    BY <2>3
  <2>4. CASE d \in sent /\ answer[d] \notin {"accepted", "failed"}
    BY <2>4
  <2> QED BY <2>2, <2>3, <2>4
<1>5. ASSUME NEW d \in Recipients
      PROVE  /\ rows[d] \in DeliveryRow /\ rows[d].attempts = old[d].attempts
             /\ d \notin sending => rows[d] = old[d]
             /\ d \in sending => Status(rows, d) \in {"skipped", "failed", "pending", "accepted"}
             /\ d \in sending => Status(rows, d) = row(d)
  <2>1. CASE d \in sending
    <3>1. rows[d] = [old[d] EXCEPT !.status = row(d)] /\ row(d) \in {"skipped", "failed", "pending", "accepted"}
      BY <1>4, <2>1
    <3> HIDE DEF rows, row
    <3> QED BY <1>3, <2>1, <3>1 DEF DeliveryRow, Statuses, Status
  <2>2. CASE d \notin sending
    BY <1>3, <2>2
  <2> QED BY <2>1, <2>2
<1>6. rows = [d \in Recipients |-> rows[d]]
  OBVIOUS
<1>7. /\ heard' = [d \in Recipients |-> IF d \in reached THEN heard[d] + 1 ELSE heard[d]]
      /\ lost' = [d \in Recipients |-> IF d \in reached /\ answer[d] = "unheard" THEN lost[d] + 1 ELSE lost[d]]
      /\ caller' = [caller EXCEPT ![c] = copy]
  BY <1>1 DEF Goes
<1>8. \A d \in reached : d \in sending
  OBVIOUS
<1> HIDE DEF rows, row, reached, sent
<1>9. rows \in RowSet
  BY <1>5, <1>6, DeliveryRows
<1>10. copy \in Caller /\ copy.at = "ANSWERED" /\ copy.rows = rows /\ copy.sending = {}
  BY <1>9 DEF Caller
<1> HIDE DEF copy
<1>11. caller' \in [Callers -> Caller] /\ caller'[c] = copy /\ \A x \in Callers \ {c} : caller'[x] = Away /\ ~Holding(x)'
  BY <1>2, <1>7, <1>10, Going, Alone, DeliveryRows DEF Holding
<1>12. PushTypes'
  <2>1. heard' \in [Recipients -> Nat] /\ lost' \in [Recipients -> Nat]
    BY <1>7, PushRecords
  <2> QED BY <1>2, <1>11, <2>1 DEF PushTypes, Caller
<1>13. event.frozen
  BY <1>2 DEF NotFrozenYet
<1>14. OneHolds' /\ NotFrozenYet'
  BY <1>2, <1>10, <1>11, <1>13, DeliveryRows DEF OneHolds, NotFrozenYet, Holding
<1>15. \A d \in Recipients : d \in sending => (Status(rows, d) = "accepted" <=> d \in reached /\ answer[d] # "unheard")
  BY <1>4, <1>5
<1>16. AcceptedIsKnown'
  <2> SUFFICES ASSUME NEW d \in Recipients
               PROVE  /\ heard'[d] <= 1 + lost'[d]
                      /\ Unheard(event.rows, d) => heard'[d] <= lost'[d] \/ Status(rows, d) = "accepted"
                      /\ \A x \in Callers : Unheard(caller'[x].rows, d) => heard'[d] <= lost'[d]
    BY <1>2, <1>10, <1>11 DEF AcceptedIsKnown, IsTold
  <2>1. /\ heard[d] \in Nat /\ lost[d] \in Nat /\ heard[d] <= 1 + lost[d]
        /\ Unheard(event.rows, d) => heard[d] <= lost[d]
        /\ Unheard(old, d) => heard[d] <= lost[d]
    BY <1>2, Alone, PushRecords DEF AcceptedIsKnown
  <2>2. /\ heard'[d] = IF d \in reached THEN heard[d] + 1 ELSE heard[d]
        /\ lost'[d] = IF d \in reached /\ answer[d] = "unheard" THEN lost[d] + 1 ELSE lost[d]
    BY <1>7
  <2>3. d \in sending => heard[d] <= lost[d]
    BY <1>3, <2>1 DEF Unheard
  <2>4. heard'[d] <= 1 + lost'[d]
    BY <1>8, <2>1, <2>2, <2>3
  <2>5. heard'[d] <= lost'[d] \/ Status(rows, d) = "accepted" \/ (d \notin sending /\ ~Unheard(old, d))
    BY <1>8, <1>15, <2>1, <2>2, <2>3
  <2>6. Unheard(event.rows, d) => heard'[d] <= lost'[d] \/ Status(rows, d) = "accepted"
    BY <1>8, <1>15, <2>1, <2>2, <2>3
  <2>7. Unheard(rows, d) => heard'[d] <= lost'[d]
    BY <1>5, <2>5 DEF Unheard, Status
  <2>8. \A x \in Callers : Unheard(caller'[x].rows, d) => heard'[d] <= lost'[d]
    BY <1>10, <1>11, <2>7, DeliveryRows DEF Unheard
  <2> QED BY <2>4, <2>6, <2>8
<1>17. EraserIsBehind'
  BY <1>2 DEF EraserIsBehind
<1>18. CopiesAreAhead'
  <2> SUFFICES ASSUME NEW d \in Recipients
               PROVE  /\ event.from = "customer" /\ Status(rows, d) = "none" => Status(event.rows, d) = "none"
                      /\ Status(event.rows, d) \in Final => Status(rows, d) = Status(event.rows, d)
    BY <1>2, <1>10, <1>11 DEF CopiesAreAhead
  <2>1. /\ event.from = "customer" /\ Status(old, d) = "none" => Status(event.rows, d) = "none"
        /\ Status(event.rows, d) \in Final => Status(old, d) = Status(event.rows, d)
    BY <1>2 DEF CopiesAreAhead
  <2>2. CASE d \in sending
    BY <1>3, <1>5, <2>1, <2>2 DEF Final
  <2>3. CASE d \notin sending
    BY <1>5, <2>1, <2>3 DEF Status
  <2> QED BY <2>2, <2>3
<1>19. AttemptsCount'
  <2> SUFFICES ASSUME eraser.done = {}, NEW d \in Recipients
               PROVE  /\ heard'[d] <= MaxAttempts
                      /\ Status(event.rows, d) = "pending" => heard'[d] <= event.rows[d].attempts
                      /\ \A x \in Callers :
                           /\ Status(caller'[x].rows, d) = "pending" => heard'[d] <= caller'[x].rows[d].attempts
                           /\ d \notin caller'[x].sending
    BY <1>2 DEF AttemptsCount
  <2>1. /\ heard[d] \in Nat /\ heard[d] <= MaxAttempts /\ old[d].attempts \in 0..MaxAttempts
        /\ event.rows[d].attempts \in 0..MaxAttempts
        /\ Status(event.rows, d) = "pending" => heard[d] <= event.rows[d].attempts
        /\ Status(old, d) = "pending" => heard[d] <= old[d].attempts
        /\ d \in sending => /\ heard[d] < old[d].attempts
                            /\ Status(event.rows, d) = "pending" => heard[d] < event.rows[d].attempts
    BY <1>3, PushRecords, DeliveryRows DEF AttemptsCount, DeliveryRow
  <2>2. heard'[d] = heard[d] \/ (d \in sending /\ heard'[d] = heard[d] + 1)
    BY <1>7, <1>8
  <2>3. heard'[d] <= MaxAttempts /\ (Status(event.rows, d) = "pending" => heard'[d] <= event.rows[d].attempts)
    BY <2>1, <2>2, ChatPushAssumption
  <2>4. Status(rows, d) = "pending" => heard'[d] <= rows[d].attempts
    <3>1. CASE d \in sending
      BY <1>5, <2>1, <2>2, <3>1
    <3>2. CASE d \notin sending
      BY <1>5, <2>1, <2>2, <3>2 DEF Status
    <3> QED BY <3>1, <3>2
  <2>5. ASSUME NEW x \in Callers
        PROVE  /\ Status(caller'[x].rows, d) = "pending" => caller'[x].rows = rows
               /\ d \notin caller'[x].sending
    BY <1>10, <1>11, DeliveryRows
  <2> QED BY <2>3, <2>4, <2>5
<1> QED BY <1>12, <1>14, <1>16, <1>17, <1>18, <1>19

LEMMA FinishAttemptKeeps ==
  ASSUME PushInv, NEW c \in Callers, FinishAttempt(c)
  PROVE  PushInv'
<1> USE DEF PushInv
<1> DEFINE rows == caller[c].rows
<1>1. /\ caller[c].at = "ANSWERED" /\ Holding(c) /\ Checkpoint(rows) /\ caller' = [caller EXCEPT ![c] = Away]
      /\ UNCHANGED <<inbox, eligible, heard, lost, eraser>>
  BY DEF FinishAttempt, Holding
<1>2. rows \in RowSet
  BY PushRecords
<1>3. \A x \in Callers : caller'[x] = Away
  BY <1>1, Going, Alone, DeliveryRows
<1>4. event' \in Event /\ event'.rows = rows /\ event'.frozen = TRUE /\ event'.from = event.from
  BY <1>1, <1>2, Checkpoints
<1>5. PushTypes'
  <2>1. caller' \in [Callers -> Caller]
    BY <1>1, Going, DeliveryRows
  <2> QED BY <1>1, <1>4, <2>1 DEF PushTypes, Event, Caller
<1>6. OneHolds' /\ NotFrozenYet'
  BY <1>3, <1>4, DeliveryRows DEF OneHolds, NotFrozenYet, Holding
<1>7. AcceptedIsKnown'
  BY <1>1, <1>3, <1>4, DeliveryRows DEF AcceptedIsKnown, Unheard
<1>8. EraserIsBehind'
  BY <1>1, <1>4 DEF EraserIsBehind, CopiesAreAhead
<1>9. CopiesAreAhead'
  BY <1>3, DeliveryRows DEF CopiesAreAhead, Holding
<1>10. AttemptsCount'
  <2>1. \A x \in Callers, d \in Recipients : Status(caller'[x].rows, d) = "none" /\ d \notin caller'[x].sending
    BY <1>3, DeliveryRows
  <2> QED BY <1>1, <1>4, <2>1 DEF AttemptsCount
<1> QED BY <1>5, <1>6, <1>7, <1>8, <1>9, <1>10

LEMMA DieKeeps ==
  ASSUME PushInv, NEW c \in Callers, Die(c)
  PROVE  PushInv'
<1> USE DEF PushInv
<1> DEFINE told(d) == caller[c].at = "ANSWERED" /\ caller[c].rows[d].status = "accepted" /\ event.rows[d].status # "accepted"
<1>1. /\ Holding(c) /\ caller' = [caller EXCEPT ![c] = Away]
      /\ lost' = [d \in Recipients |-> IF told(d) THEN lost[d] + 1 ELSE lost[d]]
      /\ UNCHANGED <<event, inbox, eligible, heard, eraser>>
  BY DEF Die, Holding
<1>2. \A x \in Callers : caller'[x] = Away
  BY <1>1, Going, Alone, DeliveryRows
<1>3. PushTypes'
  <2>1. caller' \in [Callers -> Caller]
    BY <1>1, Going, DeliveryRows
  <2>2. lost' \in [Recipients -> Nat]
    BY <1>1, PushRecords
  <2> QED BY <1>1, <2>1, <2>2 DEF PushTypes, Caller
<1>4. OneHolds'
  BY <1>2, DeliveryRows DEF OneHolds, Holding
<1>5. NotFrozenYet'
  <2>1. ~event.frozen => lost' = lost
    BY <1>1, PushRecords DEF NotFrozenYet, PushTypes
  <2> QED BY <1>1, <1>2, <2>1, DeliveryRows DEF NotFrozenYet
<1>6. AcceptedIsKnown'
  <2> SUFFICES ASSUME NEW d \in Recipients
               PROVE  heard[d] <= 1 + lost'[d] /\ (Unheard(event.rows, d) => heard[d] <= lost'[d])
    BY <1>1, <1>2, DeliveryRows DEF AcceptedIsKnown, Unheard
  <2>1. /\ heard[d] \in Nat /\ lost[d] \in Nat /\ heard[d] <= 1 + lost[d]
        /\ Unheard(event.rows, d) => heard[d] <= lost[d] \/ IsTold(d)
    BY PushRecords DEF AcceptedIsKnown
  <2>2. IsTold(d) /\ Unheard(event.rows, d) => told(d)
    BY <1>1, Alone, DeliveryRows DEF IsTold, Unheard, Status
  <2>3. lost'[d] = IF told(d) THEN lost[d] + 1 ELSE lost[d]
    BY <1>1
  <2> HIDE DEF told
  <2> QED BY <2>1, <2>2, <2>3
<1>7. EraserIsBehind' /\ CopiesAreAhead'
  BY <1>1, <1>2, DeliveryRows DEF EraserIsBehind, CopiesAreAhead, Holding
<1>8. AttemptsCount'
  <2>1. \A x \in Callers, d \in Recipients : Status(caller'[x].rows, d) = "none" /\ d \notin caller'[x].sending
    BY <1>2, DeliveryRows
  <2> QED BY <1>1, <2>1 DEF AttemptsCount
<1> QED BY <1>3, <1>4, <1>5, <1>6, <1>7, <1>8

-----------------------------------------------------------------------------
\* The erasures.

LEMMA EraseReadKeeps ==
  ASSUME PushInv, NEW d \in Recipients, EraseRead(d)
  PROVE  PushInv'
<1> USE DEF PushInv
<1>1. /\ event.from = "customer" /\ event.rows[d] # NoRow /\ UNCHANGED <<event, inbox, eligible, caller, heard, lost>>
      /\ eraser' = [eraser EXCEPT !.of = {d}, !.rows = event.rows]
  BY DEF EraseRead
<1>2. /\ eraser' \in [of : SUBSET Recipients, done : SUBSET Recipients, rows : RowSet]
      /\ eraser'.rows = event.rows /\ eraser'.done = eraser.done
  BY <1>1, PushRecords DEF PushTypes
<1>3. event.frozen /\ \A c \in Callers : caller[c].at # "HOLDS"
  BY <1>1, DeliveryRows DEF NotFrozenYet
<1>4. PushTypes'
  BY <1>1, <1>2 DEF PushTypes
<1>5. OneHolds' /\ NotFrozenYet' /\ CopiesAreAhead'
  BY <1>1, <1>3 DEF OneHolds, NotFrozenYet, CopiesAreAhead, Holding
<1>6. AcceptedIsKnown'
  BY <1>1 DEF AcceptedIsKnown, IsTold
<1>7. EraserIsBehind'
  BY <1>1, <1>2 DEF EraserIsBehind
<1>8. AttemptsCount'
  BY <1>1, <1>2 DEF AttemptsCount
<1> QED BY <1>4, <1>5, <1>6, <1>7, <1>8

LEMMA EraseWriteKeeps ==
  ASSUME PushInv, NEW d \in Recipients, EraseWrite(d)
  PROVE  PushInv'
<1> USE DEF PushInv
<1> DEFINE rows == [eraser.rows EXCEPT ![d] = NoRow]
           forgotten(x) == event.rows[x].status = "accepted" /\ rows[x].status = "pending"
<1>1. /\ eraser.of = {d} /\ eraser' = [NoEraser EXCEPT !.done = eraser.done \cup {d}]
      /\ UNCHANGED <<inbox, eligible, caller, heard>>
      /\ \/ UNCHANGED <<event, lost>>
         \/ /\ Checkpoint(rows)
            /\ lost' = [x \in Recipients |-> IF forgotten(x) THEN lost[x] + 1 ELSE lost[x]]
  BY DEF EraseWrite
<1>2. rows \in RowSet /\ \A x \in Recipients : rows[x] = IF x = d THEN NoRow ELSE eraser.rows[x]
  BY PushRecords, DeliveryRows
<1>3. /\ eraser' \in [of : SUBSET Recipients, done : SUBSET Recipients, rows : RowSet]
      /\ eraser'.of = {} /\ eraser'.done # {}
  BY <1>1, DeliveryRows DEF NoEraser, PushTypes
<1>4. event.frozen /\ event.from = "customer"
  BY <1>1 DEF NotFrozenYet, EraserIsBehind
<1>5. /\ event' \in Event /\ event'.frozen /\ event'.from = event.from
      /\ \/ event'.rows = event.rows /\ lost' = lost
         \/ /\ event'.rows = rows
            /\ lost' = [x \in Recipients |-> IF forgotten(x) THEN lost[x] + 1 ELSE lost[x]]
  BY <1>1, <1>2, <1>4, Checkpoints, PushRecords
<1>6. PushTypes'
  <2>1. lost' \in [Recipients -> Nat]
    BY <1>5, PushRecords DEF PushTypes
  <2> QED BY <1>1, <1>3, <1>5, <2>1 DEF PushTypes, Event
<1>7. OneHolds' /\ NotFrozenYet'
  BY <1>1, <1>5 DEF OneHolds, NotFrozenYet, Holding
<1>8. EraserIsBehind' /\ AttemptsCount'
  BY <1>3 DEF EraserIsBehind, AttemptsCount
<1>9. ASSUME NEW x \in Recipients
      PROVE  /\ Status(event.rows, x) = "none" => Status(rows, x) = "none"
             /\ Status(rows, x) \in Final => Status(event.rows, x) = Status(rows, x)
  <2>1. /\ Status(event.rows, x) = "none" => Status(eraser.rows, x) = "none"
        /\ Status(eraser.rows, x) \in Final => Status(event.rows, x) = Status(eraser.rows, x)
    BY <1>1 DEF EraserIsBehind
  <2>2. Status(rows, x) = IF x = d THEN "none" ELSE Status(eraser.rows, x)
    BY <1>2, DeliveryRows DEF Status
  <2> HIDE DEF rows
  <2> QED BY <2>1, <2>2 DEF Final
<1>10. AcceptedIsKnown'
  <2> SUFFICES ASSUME NEW x \in Recipients
               PROVE  /\ heard[x] <= 1 + lost'[x]
                      /\ Unheard(event'.rows, x) => heard[x] <= lost'[x] \/ IsTold(x)
                      /\ \A c \in Callers : Unheard(caller[c].rows, x) => heard[x] <= lost'[x]
    BY <1>1 DEF AcceptedIsKnown, IsTold
  <2>1. /\ heard[x] \in Nat /\ lost[x] \in Nat /\ heard[x] <= 1 + lost[x]
        /\ Unheard(event.rows, x) => heard[x] <= lost[x] \/ IsTold(x)
        /\ \A c \in Callers : Unheard(caller[c].rows, x) => heard[x] <= lost[x]
    BY PushRecords DEF AcceptedIsKnown
  <2>2. CASE event'.rows = event.rows /\ lost' = lost
    BY <2>1, <2>2
  <2>3. CASE event'.rows = rows /\ lost' = [y \in Recipients |-> IF forgotten(y) THEN lost[y] + 1 ELSE lost[y]]
    <3>1. lost'[x] = IF forgotten(x) THEN lost[x] + 1 ELSE lost[x]
      BY <2>3
    <3>2. forgotten(x) <=> Status(event.rows, x) = "accepted" /\ Status(rows, x) = "pending"
      BY DEF Status
    <3>3. Status(rows, x) \in Statuses /\ Status(event.rows, x) \in Statuses
      BY <1>2, PushRecords, DeliveryRows DEF Status, DeliveryRow
    <3> HIDE DEF rows, forgotten
    <3>4. Unheard(rows, x) => forgotten(x) \/ Unheard(event.rows, x)
      BY <1>9, <3>2, <3>3 DEF Unheard, Statuses, Final
    <3> QED BY <2>1, <2>3, <3>1, <3>4
  <2> QED BY <1>5, <2>2, <2>3
<1>11. CopiesAreAhead'
  <2> SUFFICES ASSUME NEW c \in Callers, Holding(c), NEW x \in Recipients
               PROVE  /\ Status(caller[c].rows, x) = "none" => Status(event'.rows, x) = "none"
                      /\ Status(event'.rows, x) \in Final => Status(caller[c].rows, x) = Status(event'.rows, x)
    BY <1>1 DEF CopiesAreAhead, Holding
  <2>1. /\ Status(caller[c].rows, x) = "none" => Status(event.rows, x) = "none"
        /\ Status(event.rows, x) \in Final => Status(caller[c].rows, x) = Status(event.rows, x)
    BY <1>4 DEF CopiesAreAhead
  <2> HIDE DEF rows, forgotten
  <2> QED BY <1>5, <1>9, <2>1
<1> QED BY <1>6, <1>7, <1>8, <1>10, <1>11

LEMMA EraseSenderKeeps ==
  ASSUME PushInv, EraseSender
  PROVE  PushInv'
<1> USE DEF PushInv
<1>1. /\ event.from = "admin" /\ UNCHANGED <<inbox, eligible, caller, heard, lost, eraser>>
      /\ event' = [event EXCEPT !.frozen = TRUE, !.rows = NoRows, !.pending = FALSE, !.synced = TRUE]
  BY DEF EraseSender
<1>2. event' \in Event /\ event'.frozen = TRUE /\ event'.rows = NoRows /\ event'.from = "admin"
  BY <1>1, PushRecords, DeliveryRows DEF Event
<1>3. PushTypes'
  BY <1>1, <1>2 DEF PushTypes, Event
<1>4. OneHolds' /\ NotFrozenYet'
  BY <1>1, <1>2 DEF OneHolds, NotFrozenYet, Holding
<1>5. AcceptedIsKnown'
  BY <1>1, <1>2, DeliveryRows DEF AcceptedIsKnown, Unheard
<1>6. EraserIsBehind' /\ CopiesAreAhead'
  BY <1>1, <1>2, DeliveryRows DEF EraserIsBehind, CopiesAreAhead, Final, Holding
<1>7. AttemptsCount'
  BY <1>1, <1>2, DeliveryRows DEF AttemptsCount
<1> QED BY <1>3, <1>4, <1>5, <1>6, <1>7

-----------------------------------------------------------------------------

LEMMA PushInvariant == PushSpec => []PushInv
<1>1. ASSUME PushInv, PushNext PROVE PushInv'
  <2>1. ASSUME NEW c \in Callers, Freeze(c) PROVE PushInv'
    BY <1>1, <2>1, FreezeKeeps
  <2>2. ASSUME NEW c \in Callers, Start(c) \/ RecordInbox(c) \/ SyncInbox(c) \/ Prepare(c) PROVE PushInv'
    BY <1>1, <2>2, StartKeeps, InboxKeeps, PrepareKeeps
  <2>3. ASSUME NEW c \in Callers, Deliver(c) \/ FinishAttempt(c) \/ Die(c) PROVE PushInv'
    BY <1>1, <2>3, DeliverKeeps, FinishAttemptKeeps, DieKeeps
  <2>4. ASSUME NEW d \in Recipients, EraseRead(d) \/ EraseWrite(d) PROVE PushInv'
    BY <1>1, <2>4, EraseReadKeeps, EraseWriteKeeps
  <2>5. ASSUME (\E d \in Recipients : LeaveContext(d)) \/ PurgeEvent \/ EraseSender PROVE PushInv'
    BY <1>1, <2>5, ContextKeeps, EraseSenderKeeps
  <2> QED BY <1>1, <2>1, <2>2, <2>3, <2>4, <2>5 DEF PushNext
<1>2. ASSUME PushInv, UNCHANGED pushVars PROVE PushInv'
  <2> USE <1>2 DEF pushVars, PushInv
  <2>1. PushTypes'
    BY DEF PushTypes
  <2> QED BY <2>1, QuietKeeps
<1> QED BY <1>1, <1>2, InitPush, PTL DEF PushSpec

\* The event, its copies and the counts of a delivery are what the code writes
\* into them; the attempts of a row never pass the limit (chat_push.py:134).
THEOREM PushIsTyped == PushSpec => []PushTypes
<1>1. PushInv => PushTypes
  BY DEF PushInv
<1> QED BY <1>1, PushInvariant, PTL

\* Callback and scheduler may die anywhere, the provider may not answer, and a
\* stale erasure may be written in between: a recipient hears a message again
\* only for an acceptance that the event has lost, and without such an erasure
\* never more often than MAX_ATTEMPTS (chat_push.py:134, 178).
THEOREM DeliveriesAreBounded == PushSpec => []PushesAreBounded
<1>1. PushInv => PushesAreBounded
  BY DEF PushInv, PushesAreBounded, AcceptedIsKnown, AttemptsCount
<1> QED BY <1>1, PushInvariant, PTL

=============================================================================
