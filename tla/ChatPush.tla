------------------------------ MODULE ChatPush ------------------------------
(***************************************************************************)
(* The push event of one chat message (app/chat_push.py).  The callback    *)
(* that Firestore triggers (app/chat_push_endpoint.py, its function in     *)
(* chat/functions) and the scheduler (app/chat_sync.py) dispatch it, each  *)
(* as often as it likes; both enter through the lock of the event.         *)
(*                                                                         *)
(* A step ends where something durable was written, or where the provider  *)
(* has answered.  A dispatcher that dies, or whose write fails, loses its  *)
(* copy of the delivery and the lock.                                      *)
(***************************************************************************)
EXTENDS Naturals

CONSTANTS
  Recipients,  \* subjects with a push token
  Callers,     \* the callback and the scheduler, one member per process
  MaxAttempts  \* MAX_ATTEMPTS

ASSUME ChatPushAssumption == MaxAttempts \in Nat \ {0}

VARIABLES
  event,     \* chatPushEvents: pushDelivery, pushPending, inboxSynced
  inbox,     \* the row of record_notification()
  eligible,  \* the recipients whose chat session and token are as they were
  caller,    \* where each caller is, its copy of the rows, whom it sends to
  heard,     \* how often the message was accepted for a recipient
  lost,      \* and how often the event does not know it
  eraser     \* whose identity is being erased, the rows it was found in

pushVars == <<event, inbox, eligible, caller, heard, lost, eraser>>

NoRow == [status |-> "none", attempts |-> 0]
NoRows == [d \in Recipients |-> NoRow]
NoEraser == [of |-> {}, done |-> {}, rows |-> NoRows]
Away == [at |-> "AWAY", rows |-> NoRows, sending |-> {}]
PendingRows(rows) == {d \in Recipients : rows[d].status = "pending"}

\* send() creates the event with the message: a customer writes to the
\* administrators of a shop, or one of them to a customer.
PushInit ==
  /\ \E sender \in {"customer", "admin"} :
       /\ event = [from |-> sender, exists |-> TRUE, frozen |-> FALSE, rows |-> NoRows, pending |-> FALSE,
                   synced |-> FALSE]
       /\ IF sender = "customer" THEN eligible = Recipients ELSE \E d \in Recipients : eligible = {d}
  /\ inbox = FALSE
  /\ caller = [c \in Callers |-> Away]
  /\ heard = [d \in Recipients |-> 0] /\ lost = [d \in Recipients |-> 0]
  /\ eraser = NoEraser

\* checkpoint()
Checkpoint(rows) ==
  event' = [event EXCEPT !.frozen = TRUE, !.rows = rows, !.pending = PendingRows(rows) # {}]

Goes(c, at, rows, sending) == caller' = [caller EXCEPT ![c] = [at |-> at, rows |-> rows, sending |-> sending]]

\* Mutant: a caller does not wait for the other one.
StartUnlocked(c) ==
  /\ caller[c].at = "AWAY"
  /\ event.exists /\ ~(event.synced /\ ~event.pending)
  /\ Goes(c, IF event.frozen THEN "FROZEN" ELSE "HOLDS", event.rows, {})
  /\ UNCHANGED <<event, inbox, eligible, heard, lost, eraser>>

\* dispatch_event(): busy, missing and completed change nothing.  Whoever holds
\* the lock has read an event whose recipients are frozen, or are not yet.
Start(c) ==
  /\ \A x \in Callers : caller[x].at = "AWAY"
  /\ event.exists /\ ~(event.synced /\ ~event.pending)
  /\ Goes(c, IF event.frozen THEN "FROZEN" ELSE "HOLDS", event.rows, {})
  /\ UNCHANGED <<event, inbox, eligible, heard, lost, eraser>>

\* process_event() freezes the recipients of an event that it has read without,
\* whatever an erasure has made of it in between.
Freeze(c) ==
  LET rows == [d \in Recipients |-> IF d \in eligible THEN [NoRow EXCEPT !.status = "pending"] ELSE NoRow]
  IN /\ caller[c].at = "HOLDS" /\ event.exists
     /\ Checkpoint(rows) /\ Goes(c, "FROZEN", rows, {})
     /\ UNCHANGED <<inbox, eligible, heard, lost, eraser>>

\* The inbox row, once; the event says so afterwards.
RecordInbox(c) ==
  /\ caller[c].at = "FROZEN" /\ inbox' = TRUE
  /\ Goes(c, "RECORDED", caller[c].rows, {})
  /\ UNCHANGED <<event, eligible, heard, lost, eraser>>

SyncInbox(c) ==
  /\ caller[c].at = "RECORDED" /\ (event.exists \/ event.synced)
  /\ event' = [event EXCEPT !.synced = TRUE]
  /\ Goes(c, "SYNCED", caller[c].rows, {})
  /\ UNCHANGED <<inbox, eligible, heard, lost, eraser>>

\* Mutant: only the retry window ends the attempts.
AttemptedForEver(rows, due, late) ==
  [d \in Recipients |->
     CASE d \notin due -> rows[d]
       [] d \in due \ eligible -> [rows[d] EXCEPT !.status = "skipped"]
       [] d \in due \cap eligible /\ late -> [rows[d] EXCEPT !.status = "failed"]
       [] OTHER -> [rows[d] EXCEPT !.attempts = @ + 1]]

\* What the next attempt makes of the rows that are due, when it comes after
\* the retry window (late) or within it.
Attempted(rows, due, late) ==
  [d \in Recipients |->
     CASE d \notin due -> rows[d]
       [] d \in due \ eligible -> [rows[d] EXCEPT !.status = "skipped"]
       [] d \in due \cap eligible /\ (late \/ rows[d].attempts >= MaxAttempts) -> [rows[d] EXCEPT !.status = "failed"]
       [] OTHER -> [rows[d] EXCEPT !.attempts = @ + 1]]

\* The attempt is on record before anything is sent.
Prepare(c) ==
  /\ caller[c].at = "SYNCED"
  /\ \E due \in SUBSET PendingRows(caller[c].rows), late \in BOOLEAN :
       LET rows == Attempted(caller[c].rows, due, late)
           sending == PendingRows(rows) \cap due
       IN /\ IF due = {} THEN UNCHANGED event ELSE event.exists /\ Checkpoint(rows)
          /\ IF sending = {} THEN caller' = [caller EXCEPT ![c] = Away] ELSE Goes(c, "SENDING", rows, sending)
  /\ UNCHANGED <<inbox, eligible, heard, lost, eraser>>

\* deliver_chat_once(): the provider accepts, rejects or is not available; it
\* may have accepted what it is not heard to accept.  Who is no longer in the
\* same context is skipped.
Answers == {"accepted", "failed", "transient", "unheard"}

Deliver(c) ==
  /\ caller[c].at = "SENDING"
  /\ \E answer \in [caller[c].sending -> Answers] :
       LET sent == caller[c].sending \cap eligible
           reached == {d \in sent : answer[d] \in {"accepted", "unheard"}}
           row(d) == CASE d \notin sent -> "skipped"
                       [] d \in sent /\ answer[d] \in {"accepted", "failed"} -> answer[d]
                       [] OTHER -> IF caller[c].rows[d].attempts >= MaxAttempts THEN "failed" ELSE "pending"
       IN /\ heard' = [d \in Recipients |-> IF d \in reached THEN heard[d] + 1 ELSE heard[d]]
          /\ lost' = [d \in Recipients |-> IF d \in reached /\ answer[d] = "unheard" THEN lost[d] + 1 ELSE lost[d]]
          /\ Goes(c, "ANSWERED", [d \in Recipients |-> IF d \in caller[c].sending
                                                       THEN [caller[c].rows[d] EXCEPT !.status = row(d)]
                                                       ELSE caller[c].rows[d]], {})
  /\ UNCHANGED <<event, inbox, eligible, eraser>>

FinishAttempt(c) ==
  /\ caller[c].at = "ANSWERED" /\ event.exists
  /\ Checkpoint(caller[c].rows) /\ caller' = [caller EXCEPT ![c] = Away]
  /\ UNCHANGED <<inbox, eligible, heard, lost, eraser>>

\* The process dies, or a write fails.
Die(c) ==
  /\ caller[c].at # "AWAY" /\ caller' = [caller EXCEPT ![c] = Away]
  /\ lost' = [d \in Recipients |->
       IF caller[c].at = "ANSWERED" /\ caller[c].rows[d].status = "accepted" /\ event.rows[d].status # "accepted"
       THEN lost[d] + 1 ELSE lost[d]]
  /\ UNCHANGED <<event, inbox, eligible, heard, eraser>>

\* A recipient logs out, loses its token or its chat session.
LeaveContext(d) ==
  /\ d \in eligible /\ eligible' = eligible \ {d}
  /\ UNCHANGED <<event, inbox, caller, heard, lost, eraser>>

\* The retention job deletes the room's events.
PurgeEvent ==
  /\ event.exists /\ event' = [event EXCEPT !.exists = FALSE]
  /\ UNCHANGED <<inbox, eligible, caller, heard, lost, eraser>>

\* cleanup_chat() reads an event and writes it back without a deleted
\* administrator, outside the lock of the event: what a dispatcher has written
\* in between is gone.
EraseRead(d) ==
  /\ eraser.of = {} /\ d \notin eligible \cup eraser.done
  /\ event.from = "customer" /\ event.exists /\ event.rows[d] # NoRow
  /\ eraser' = [eraser EXCEPT !.of = {d}, !.rows = event.rows]
  /\ UNCHANGED <<event, inbox, eligible, caller, heard, lost>>

EraseWrite(d) ==
  LET rows == [eraser.rows EXCEPT ![d] = NoRow]
      forgotten(x) == event.rows[x].status = "accepted" /\ rows[x].status = "pending"
  IN /\ eraser.of = {d}
     /\ eraser' = [NoEraser EXCEPT !.done = eraser.done \cup {d}]
     /\ IF event.exists
        THEN /\ Checkpoint(rows)
             /\ lost' = [x \in Recipients |-> IF forgotten(x) THEN lost[x] + 1 ELSE lost[x]]
        ELSE UNCHANGED <<event, lost>>
     /\ UNCHANGED <<inbox, eligible, caller, heard>>

\* The same for the sender of the message: nobody is to be told of it.
EraseSender ==
  /\ event.exists /\ event.from = "admin"
  /\ event' = [event EXCEPT !.frozen = TRUE, !.rows = NoRows, !.pending = FALSE, !.synced = TRUE]
  /\ UNCHANGED <<inbox, eligible, caller, heard, lost, eraser>>

PushNext ==
  \/ \E c \in Callers :
       Start(c) \/ Freeze(c) \/ RecordInbox(c) \/ SyncInbox(c) \/ Prepare(c) \/ Deliver(c) \/ FinishAttempt(c) \/ Die(c)
  \/ \E d \in Recipients : LeaveContext(d) \/ EraseRead(d) \/ EraseWrite(d)
  \/ EraseSender \/ PurgeEvent

PushSpec == PushInit /\ [][PushNext]_pushVars

-----------------------------------------------------------------------------
Statuses == {"none", "pending", "accepted", "failed", "skipped"}
RowSet == [Recipients -> [status : Statuses, attempts : 0..MaxAttempts]]

\* The event and the callers hold what the code writes into them.
PushTypes ==
  /\ event \in [from : {"customer", "admin"}, exists : BOOLEAN, frozen : BOOLEAN, rows : RowSet,
               pending : BOOLEAN, synced : BOOLEAN]
  /\ inbox \in BOOLEAN /\ eligible \subseteq Recipients
  /\ caller \in [Callers -> [at : {"AWAY", "HOLDS", "FROZEN", "RECORDED", "SYNCED", "SENDING", "ANSWERED"},
                             rows : RowSet, sending : SUBSET Recipients]]
  /\ eraser \in [of : SUBSET Recipients, done : SUBSET Recipients, rows : RowSet]
  /\ heard \in [Recipients -> Nat] /\ lost \in [Recipients -> Nat]

\* A recipient hears the message again only when the event does not know that
\* it was heard before; and never more often than there are attempts, however
\* often dispatchers die, unless an erasure wrote older rows back
\* (chat_push.py:134, 178).
PushesAreBounded ==
  \A d \in Recipients : /\ heard[d] <= 1 + lost[d]
                        /\ eraser.done = {} => heard[d] <= MaxAttempts
=============================================================================
