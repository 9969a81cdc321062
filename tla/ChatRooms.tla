----------------------------- MODULE ChatRooms ------------------------------
(***************************************************************************)
(* The chat rooms of one customer and one shop: the callables and the      *)
(* trusted synchronisation of chat/functions/chat_core.py, the marks that  *)
(* the API sets around its commits (app/chat.py, app/db.py), the           *)
(* reconciliation (app/chat_sync.py) and the retention job                 *)
(* (app/chat_retention.py).                                                *)
(*                                                                         *)
(* A Firestore transaction is one step.  The transaction that ends a       *)
(* booking is two, the mark and the commit; it holds the lock of the       *)
(* booking's row in between, as the retention job does during a deletion.  *)
(***************************************************************************)
EXTENDS Naturals

CONSTANTS
  Bookings,  \* the customer's bookings at the shop
  MaxRooms   \* bound: rooms

ASSUME ChatRoomsAssumption == 0 \notin Bookings /\ MaxRooms \in Nat

VARIABLES
  status,    \* reservation_status; LAPSED: EXPIRED by the receipt deadline
  ending,    \* the transaction that ends the booking is under way
  link,      \* bookingChatAccess
  room,      \* chatRoomAccess, with the messages and push events below it
  inquiry,   \* chatInquiryKeys: the room of the current inquiry, or 0
  purging    \* where purge_booking() is; IDLE after a crash too

roomVars == <<status, ending, link, room, inquiry, purging>>

Rooms == 1..MaxRooms
NoLink == [room |-> 0, closed |-> FALSE, blocked |-> FALSE, retention |-> "NONE"]
NoRoom == [kind |-> "NONE", booking |-> 0, open |-> FALSE, old |-> FALSE, deleting |-> FALSE, children |-> FALSE]

RoomsInit ==
  /\ status = [b \in Bookings |-> "NONE"] /\ ending = [b \in Bookings |-> FALSE]
  /\ link = [b \in Bookings |-> NoLink] /\ room = [r \in Rooms |-> NoRoom]
  /\ inquiry = 0 /\ purging = [b \in Bookings |-> "IDLE"]

-----------------------------------------------------------------------------
\* The bookings in SQL.

\* SELECT ... FOR UPDATE on the booking's row.
RowFree(b) == ~ending[b] /\ purging[b] = "IDLE"

Book(b) ==
  /\ status[b] = "NONE" /\ status' = [status EXCEPT ![b] = "ACTIVE"]
  /\ UNCHANGED <<ending, link, room, inquiry, purging>>

\* queue_booking_chat(), expire_unpaid_payments(): the mark precedes the
\* commit of a cancellation, rejection, expiry or return.
EndBegin(b) ==
  /\ status[b] \in {"ACTIVE", "LAPSED"} /\ RowFree(b)
  /\ ending' = [ending EXCEPT ![b] = TRUE]
  /\ link' = [link EXCEPT ![b].blocked = TRUE]
  /\ UNCHANGED <<status, room, inquiry, purging>>

EndFinish(b) ==
  /\ ending[b] /\ ending' = [ending EXCEPT ![b] = FALSE]
  /\ \E committed \in BOOLEAN : status' = IF committed THEN [status EXCEPT ![b] = "ENDED"] ELSE status
  /\ UNCHANGED <<link, room, inquiry, purging>>

\* expire_receipts() leaves the chat to the reconciliation.
LapseReceipt(b) ==
  /\ status[b] = "ACTIVE" /\ RowFree(b)
  /\ status' = [status EXCEPT ![b] = "LAPSED"]
  /\ UNCHANGED <<ending, link, room, inquiry, purging>>

-----------------------------------------------------------------------------
\* chat_core.

\* The room that room() makes.
NewRoom(r) == room[r].kind = "NONE" /\ \A q \in 1..(r - 1) : room[q].kind # "NONE"

Promotable(b) ==
  link[b].room = 0 /\ inquiry # 0 /\ room[inquiry].kind = "INQUIRY" /\ room[inquiry].open /\ ~room[inquiry].old

\* What sync_booking() makes of a booking whose status it has read.
Synced(b, closed, r, before) ==
  /\ room' = [room EXCEPT ![r] = [before EXCEPT !.kind = "BOOKING", !.booking = b, !.old = FALSE,
                                                !.open = ~closed /\ before.open]]
  /\ link' = [link EXCEPT ![b] = [NoLink EXCEPT !.room = r, !.closed = closed]]

\* Mutant: the booking is read without its lock.
SyncUnlocked(b) ==
  LET closed == status[b] # "ACTIVE" \/ link[b].closed
  IN /\ status[b] # "NONE" /\ purging[b] = "IDLE" /\ link[b].retention = "NONE"
     /\ IF ~closed /\ Promotable(b) THEN Synced(b, closed, inquiry, room[inquiry]) /\ inquiry' = 0
        ELSE /\ \E r \in Rooms :
                  IF link[b].room = 0 THEN NewRoom(r) /\ Synced(b, closed, r, [NoRoom EXCEPT !.open = TRUE])
                  ELSE r = link[b].room /\ Synced(b, closed, r, room[r])
             /\ UNCHANGED inquiry
     /\ UNCHANGED <<status, ending, purging>>

\* sync_booking(), after a commit or by the reconciliation, with the row
\* locked: the current inquiry becomes the room of a new booking, and a room
\* that was closed stays closed.
Sync(b) ==
  LET closed == status[b] # "ACTIVE" \/ link[b].closed
  IN /\ status[b] # "NONE" /\ RowFree(b) /\ link[b].retention = "NONE"
     /\ IF ~closed /\ Promotable(b) THEN Synced(b, closed, inquiry, room[inquiry]) /\ inquiry' = 0
        ELSE /\ \E r \in Rooms :
                  IF link[b].room = 0 THEN NewRoom(r) /\ Synced(b, closed, r, [NoRoom EXCEPT !.open = TRUE])
                  ELSE r = link[b].room /\ Synced(b, closed, r, room[r])
             /\ UNCHANGED inquiry
     /\ UNCHANGED <<status, ending, purging>>

\* ensure_inquiry(): nothing changes while there is a current inquiry.
EnsureInquiry(r) ==
  /\ NewRoom(r)
  /\ ~(inquiry # 0 /\ room[inquiry].kind = "INQUIRY" /\ room[inquiry].open /\ ~room[inquiry].old)
  /\ room' = [q \in Rooms |->
       IF q = r THEN [NoRoom EXCEPT !.kind = "INQUIRY", !.open = TRUE]
       ELSE IF q = inquiry /\ room[q].kind = "INQUIRY" THEN [room[q] EXCEPT !.open = FALSE] ELSE room[q]]
  /\ inquiry' = r
  /\ UNCHANGED <<status, ending, link, purging>>

\* access(write = True), for either side.
Writable(r) ==
  /\ room[r].kind \in {"INQUIRY", "BOOKING"} /\ ~room[r].deleting /\ room[r].open /\ ~room[r].old
  /\ room[r].kind = "BOOKING" => ~link[room[r].booking].blocked /\ ~link[room[r].booking].closed

\* send(): a message, its push event, and the read mark.
Send(r) ==
  /\ Writable(r)
  /\ room' = [room EXCEPT ![r].children = TRUE]
  /\ UNCHANGED <<status, ending, link, inquiry, purging>>

\* 168 hours without a message.
GrowOld(r) ==
  /\ room[r].kind = "INQUIRY" /\ room[r].open /\ ~room[r].old
  /\ room' = [room EXCEPT ![r].old = TRUE]
  /\ UNCHANGED <<status, ending, link, inquiry, purging>>

\* expire_inquiries()
ExpireInquiry(r) ==
  /\ room[r].kind = "INQUIRY" /\ room[r].open /\ room[r].old
  /\ room' = [room EXCEPT ![r].open = FALSE]
  /\ UNCHANGED <<status, ending, link, inquiry, purging>>

-----------------------------------------------------------------------------
\* Retention: purge_booking() of a booking returned 90 days ago.

\* eligible(), read again under the lock; one run of the job at a time.
PurgeDue(b) == status[b] = "ENDED" /\ RowFree(b) /\ \A c \in Bookings : purging[c] = "IDLE"

PurgeBegin(b) ==
  LET r == link[b].room
      deleted == [NoLink EXCEPT !.closed = TRUE, !.blocked = TRUE, !.retention = "DELETED"]
  IN /\ PurgeDue(b) /\ link[b].retention # "DELETED"
     /\ IF r = 0 THEN link' = [link EXCEPT ![b] = deleted] /\ UNCHANGED <<room, inquiry, purging>>
        ELSE /\ link' = [link EXCEPT ![b] = [deleted EXCEPT !.room = r, !.retention = "DELETING"]]
             /\ room' = IF room[r].kind = "GONE" THEN room
                        ELSE [room EXCEPT ![r] = [@ EXCEPT !.open = FALSE, !.deleting = TRUE]]
             /\ inquiry' = IF inquiry = r THEN 0 ELSE inquiry
             /\ purging' = [purging EXCEPT ![b] = "MARKED"]
     /\ UNCHANGED <<status, ending>>

\* The room goes first, then what is below it, then the link to it.
PurgeRoom(b) ==
  /\ purging[b] = "MARKED" /\ purging' = [purging EXCEPT ![b] = "HIDDEN"]
  /\ room' = [room EXCEPT ![link[b].room].kind = "GONE"]
  /\ UNCHANGED <<status, ending, link, inquiry>>

PurgeChildren(b) ==
  /\ purging[b] = "HIDDEN" /\ purging' = [purging EXCEPT ![b] = "EMPTIED"]
  /\ room' = [room EXCEPT ![link[b].room].children = FALSE]
  /\ UNCHANGED <<status, ending, link, inquiry>>

\* Mutant: the link is given up as soon as nobody sees the room.
PurgeFinishEarly(b) ==
  /\ purging[b] \in {"HIDDEN", "EMPTIED"} /\ purging' = [purging EXCEPT ![b] = "IDLE"]
  /\ link' = [link EXCEPT ![b] = [@ EXCEPT !.room = 0, !.retention = "DELETED"]]
  /\ UNCHANGED <<status, ending, room, inquiry>>

PurgeFinish(b) ==
  /\ purging[b] = "EMPTIED" /\ purging' = [purging EXCEPT ![b] = "IDLE"]
  /\ link' = [link EXCEPT ![b] = [@ EXCEPT !.room = 0, !.retention = "DELETED"]]
  /\ UNCHANGED <<status, ending, room, inquiry>>

\* The job dies or Firestore fails; the next run begins again.
PurgeCrash(b) ==
  /\ purging[b] # "IDLE" /\ purging' = [purging EXCEPT ![b] = "IDLE"]
  /\ UNCHANGED <<status, ending, link, room, inquiry>>

RoomsNext ==
  \/ \E b \in Bookings :
       \/ Book(b) \/ EndBegin(b) \/ EndFinish(b) \/ LapseReceipt(b) \/ Sync(b)
       \/ PurgeBegin(b) \/ PurgeRoom(b) \/ PurgeChildren(b) \/ PurgeFinish(b) \/ PurgeCrash(b)
  \/ \E r \in Rooms : EnsureInquiry(r) \/ Send(r) \/ GrowOld(r) \/ ExpireInquiry(r)

RoomsSpec == RoomsInit /\ [][RoomsNext]_roomVars

-----------------------------------------------------------------------------
\* Rows and documents hold what the code writes into them.
RoomTypes ==
  /\ status \in [Bookings -> {"NONE", "ACTIVE", "LAPSED", "ENDED"}] /\ ending \in [Bookings -> BOOLEAN]
  /\ link \in [Bookings -> [room : Rooms \cup {0}, closed : BOOLEAN, blocked : BOOLEAN,
                            retention : {"NONE", "DELETING", "DELETED"}]]
  /\ room \in [Rooms -> [kind : {"NONE", "INQUIRY", "BOOKING", "GONE"}, booking : Bookings \cup {0},
                         open : BOOLEAN, old : BOOLEAN, deleting : BOOLEAN, children : BOOLEAN]]
  /\ inquiry \in Rooms \cup {0}
  /\ purging \in [Bookings -> {"IDLE", "MARKED", "HIDDEN", "EMPTIED"}]

\* From the commit that ends a booking on, nobody writes into its room,
\* whichever synchronisation of the booking is still to come or was rolled
\* back around it (chat_core.py:153, db.py:67).
NoWritesAfterTheEnd ==
  \A b \in Bookings, r \in Rooms : status[b] = "ENDED" /\ room[r].booking = b => ~Writable(r)

\* A room belongs to one booking, the one whose link leads to it, and is not
\* the current inquiry any more (chat_core.py:137, 149).
RoomsHaveOneOwner ==
  /\ \A b \in Bookings : link[b].room # 0 => room[link[b].room].booking = b
  /\ \A r \in Rooms : room[r].kind = "BOOKING" => link[room[r].booking].room = r /\ inquiry # r

\* What is below a room that is gone can still be found: the retention job
\* takes the link back last, wherever it stopped before (chat_core.py:292).
NothingIsOrphaned ==
  \A r \in Rooms : room[r].kind = "GONE" /\ room[r].children =>
    \E b \in Bookings : link[b].room = r /\ link[b].retention = "DELETING"
=============================================================================
