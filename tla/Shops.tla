------------------------------- MODULE Shops -------------------------------
(***************************************************************************)
(* Shops, their administrators and the deletion of both:                   *)
(* app/admin_signup.py and app/management.py (membership), app/chat.py     *)
(* (what a member may do in the chat), app/account_deletions.py,           *)
(* app/account_deletion_scope.py, app/account_deletion_jobs.py,            *)
(* app/account_deletion_ops.py and app/account_deletion_data.py (the       *)
(* recoverable deletion request).                                          *)
(*                                                                         *)
(* Every operation locks the shops it is about and re-reads them, so its   *)
(* SQL transaction is one step.  What it writes to Firestore on the way is *)
(* not undone when the transaction fails: a deletion request is stored     *)
(* before the gate that closes the shop, chat access is taken back before  *)
(* the role is.                                                            *)
(***************************************************************************)
EXTENDS Naturals

CONSTANTS
  Admins,       \* accounts, those of later applicants included
  Founder,      \* the representative of the company
  Shared,       \* accounts that another service uses as well
  Spots,        \* shops: MSP_SPOT_MASTER, MSP_SPOT_RENT
  Below,        \* the shops of the subtree of a shop, by unit_code
  Company,      \* the shop at the top
  NoSpot,       \* primary_spot_master_id NULL
  MaxRequests,  \* bound: deletion requests
  Trading       \* bound: the shops that get bookings

Requests == 1..MaxRequests

ASSUME ShopsAssumption ==
  /\ Founder \in Admins /\ Shared \subseteq Admins
  /\ Company \in Spots /\ NoSpot \notin Spots
  /\ Below \in [Spots -> SUBSET Spots] /\ Below[Company] = Spots
  /\ \A s \in Spots : s \in Below[s] /\ \A t \in Below[s] : Below[t] \subseteq Below[s]
  /\ MaxRequests \in Nat

VARIABLES
  account,      \* MSP_ADMIN.is_active; NONE: no such account yet
  role,         \* MSP_ADMIN_ROLE, as far as the rental service is concerned
  home,         \* primary_spot_master_id, with the manage scope that goes with it
  application,  \* MSP_RENTAL_ADMIN_REQUEST: the status for a shop
  made,         \* the shops that exist
  open,         \* MSP_SPOT_MASTER.is_active
  invite,       \* the shop's invite code is not used up
  gate,         \* MSP_SPOT_RENT.deletion_request_id; 0 is NULL
  work,         \* what the shop's bookings, rentals and payments leave to be done
  chat,         \* Firestore: what the account may do in the shop's chat
  request       \* Firestore: the deletion requests

members == <<account, role, home, application>>
shops == <<made, open, invite, gate, work>>
shopVars == <<members, shops, chat, request>>

AdminRoles == {"GENERAL", "PRIMARY"}
Waiting == {"WAITING_OBLIGATIONS", "WAITING_RECONFIRMATION"}
\* REVIEW and OPERATOR are ACTION_REQUIRED with either next action.
States == {"NONE", "PROCESSING", "RETRYING", "REVIEW", "OPERATOR", "COMPLETED"} \cup Waiting

\* A booking or rental under way; money to give back; a rental that was paid
\* outside PayPal; a payment PayPal knows of, and may report about at any time.
Kinds == {"BOOKING", "REFUND", "OFFLINE", "PAYPAL"}

\* What capture() records, and its hash.
Scopes == [scope : {"SELF", "SUBTREE"}, spots : SUBSET (Spots \X BOOLEAN),
           members : SUBSET (Admins \X AdminRoles)]

NoScope == [scope |-> "SELF", spots |-> {}, members |-> {}]

\* settled is externalSettlementConfirmedHash.
RequestRow ==
  [state : States, owner : Admins, scope : {"SELF", "SUBTREE"},
   spots : SUBSET (Spots \X BOOLEAN), members : SUBSET (Admins \X AdminRoles),
   phase : {"NONE", "WITHDRAWING", "WITHDRAWN", "CLEANED"}, settled : Scopes]

NoRequest == [state |-> "NONE", owner |-> Founder, scope |-> "SELF", spots |-> {}, members |-> {},
              phase |-> "NONE", settled |-> NoScope]

ShopsInit ==
  /\ account = [a \in Admins |-> IF a = Founder THEN "ACTIVE" ELSE "NONE"]
  /\ role = [a \in Admins |-> IF a = Founder THEN "PRIMARY" ELSE "NONE"]
  /\ home = [a \in Admins |-> IF a = Founder THEN Company ELSE NoSpot]
  /\ application = [a \in Admins |-> [s \in Spots |-> "NONE"]]
  /\ made = {Company} /\ open = [s \in Spots |-> s = Company]
  /\ invite = [s \in Spots |-> FALSE]
  /\ gate = [s \in Spots |-> 0] /\ work = [s \in Spots |-> {}]
  /\ chat = [a \in Admins |-> "NONE"]
  /\ request = [r \in Requests |-> NoRequest]

-----------------------------------------------------------------------------
\* Guards shared by the operations.

Subtree(s) == Below[s] \cap made
Staff(s) == {a \in Admins : role[a] # "NONE" /\ home[a] = s}
Heads(s) == {a \in Staff(s) : role[a] = "PRIMARY"}

Pending(r) == request[r].state \notin {"NONE", "COMPLETED"}
SpotsOf(r) == {x[1] : x \in request[r].spots}
MembersOf(r) == {x[1] : x \in request[r].members}
ScopeOf(r) == [scope |-> request[r].scope, spots |-> request[r].spots, members |-> request[r].members]

\* account_change_allowed(): the account has no request of its own under way.
Unclaimed(a) == \A r \in Requests : Pending(r) => request[r].owner # a

\* new_work_allowed(), under the lock of the shop.
Admits(s) == gate[s] = 0

\* active_spot() for an operation of a representative or a member.
Acts(a, roles) == role[a] \in roles /\ open[home[a]] /\ Admits(home[a])

\* capture()
Snapshot(a) ==
  LET all == role[a] = "PRIMARY"
      spots == IF all THEN Subtree(home[a]) ELSE {home[a]}
      admins == IF all THEN UNION {Staff(s) : s \in spots} ELSE {a}
  IN [scope |-> IF all THEN "SUBTREE" ELSE "SELF",
      spots |-> {<<s, open[s]>> : s \in spots}, members |-> {<<m, role[m]>> : m \in admins}]

\* pending_scope_allowed(): no request under way is about the same account,
\* or would close the same shop.
Disjoint(snapshot, q) ==
  /\ {x[1] : x \in snapshot.members} \cap MembersOf(q) = {}
  /\ snapshot.scope = "SUBTREE" /\ request[q].scope = "SUBTREE"
       => {x[1] : x \in snapshot.spots} \cap SpotsOf(q) = {}

ScopeAllowed(snapshot, own) ==
  \A q \in Requests : Pending(q) /\ q # own => Disjoint(snapshot, q)

-----------------------------------------------------------------------------
\* Membership.

\* signup() with the invite code of a shop: the first account of the shop
\* is its representative at once.
SignupWithCode(a, s) ==
  /\ account[a] = "NONE" /\ s \in made /\ open[s] /\ invite[s] /\ Admits(s)
  /\ \E p \in Admins : role[p] = "PRIMARY" /\ open[home[p]] /\ s \in Subtree(home[p])
  /\ Heads(s) = {}
  /\ account' = [account EXCEPT ![a] = "ACTIVE"]
  /\ role' = [role EXCEPT ![a] = "PRIMARY"] /\ home' = [home EXCEPT ![a] = s]
  /\ invite' = [invite EXCEPT ![s] = FALSE]
  /\ UNCHANGED <<application, made, open, gate, work, chat, request>>

\* signup() with the address of a representative: an application, for a new
\* account or one that is not a rental administrator.
Apply(a, s) ==
  /\ \E p \in Heads(s) : account[p] = "ACTIVE"
  /\ open[s] /\ Admits(s)
  /\ account[a] # "ERASED" /\ role[a] = "NONE" /\ Unclaimed(a)
  /\ application[a][s] = "NONE"
  /\ account' = [account EXCEPT ![a] = "ACTIVE"]
  /\ application' = [application EXCEPT ![a][s] = "REQUESTED"]
  /\ UNCHANGED <<role, home, shops, chat, request>>

Decide(a, s, status) == application' = [application EXCEPT ![a][s] = status]

\* admin_request_action()
Approve(p, a, s) ==
  /\ Acts(p, {"PRIMARY"}) /\ s \in Subtree(home[p])
  /\ application[a][s] = "REQUESTED" /\ Admits(s) /\ Unclaimed(a)
  /\ account[a] = "ACTIVE" /\ open[s]
  /\ home[a] \in {NoSpot, s} /\ role[a] = "NONE"
  /\ role' = [role EXCEPT ![a] = "GENERAL"] /\ home' = [home EXCEPT ![a] = s]
  /\ Decide(a, s, "APPROVED")
  /\ UNCHANGED <<account, shops, chat, request>>

RejectApplicant(p, a, s) ==
  /\ Acts(p, {"PRIMARY"}) /\ s \in Subtree(home[p])
  /\ application[a][s] = "REQUESTED" /\ Decide(a, s, "REJECTED")
  /\ UNCHANGED <<account, role, home, shops, chat, request>>

\* Mutant: the outgoing representative keeps the chat session.
ChangeRoleKeepsChat(p, a) ==
  /\ Acts(p, {"PRIMARY"}) /\ Unclaimed(p) /\ Unclaimed(a)
  /\ role[a] = "GENERAL" /\ home[a] = home[p] /\ Heads(home[p]) = {p}
  /\ role' = [role EXCEPT ![p] = "GENERAL", ![a] = "PRIMARY"]
  /\ chat' = [chat EXCEPT ![a] = "NONE"]
  /\ UNCHANGED <<account, home, application, shops, request>>

\* change_role(): the representative hands over to a member of the shop.
ChangeRole(p, a) ==
  /\ Acts(p, {"PRIMARY"}) /\ Unclaimed(p) /\ Unclaimed(a)
  /\ role[a] = "GENERAL" /\ home[a] = home[p] /\ Heads(home[p]) = {p}
  /\ role' = [role EXCEPT ![p] = "GENERAL", ![a] = "PRIMARY"]
  /\ chat' = [chat EXCEPT ![p] = "NONE", ![a] = "NONE"]
  /\ UNCHANGED <<account, home, application, shops, request>>

\* delete_admin(): the account keeps its home and its application.
RemoveAdmin(p, a) ==
  /\ Acts(p, {"PRIMARY"}) /\ Unclaimed(a)
  /\ role[a] = "GENERAL" /\ home[a] = home[p]
  /\ role' = [role EXCEPT ![a] = "NONE"] /\ chat' = [chat EXCEPT ![a] = "NONE"]
  /\ UNCHANGED <<account, home, application, shops, request>>

\* Who loses the rental role, the sessions and the chat, and which shops close.
Leave(leaving, closing) ==
  /\ role' = [a \in Admins |-> IF a \in leaving THEN "NONE" ELSE role[a]]
  /\ chat' = [a \in Admins |-> IF a \in leaving THEN "NONE" ELSE chat[a]]
  /\ open' = [s \in Spots |-> open[s] /\ s \notin closing]

\* delete_own_admin_account(): at once, whatever is outstanding.
DeleteOwn(a) ==
  LET mine == Snapshot(a)
      leaving == {x[1] : x \in mine.members}
      spots == {x[1] : x \in mine.spots}
  IN /\ Acts(a, AdminRoles)
     /\ \A m \in leaving : Unclaimed(m)
     /\ ScopeAllowed(mine, 0) /\ \A s \in spots : Admits(s)
     /\ Leave(leaving, IF mine.scope = "SUBTREE" THEN spots ELSE {})
     /\ UNCHANGED <<account, home, application, made, invite, gate, work, request>>

\* create_spot()
CreateSpot(p, parent, s) ==
  /\ Acts(p, {"PRIMARY"})
  /\ parent \in Subtree(home[p]) /\ open[parent] /\ Admits(parent)
  /\ s \in Below[parent] \ made
  /\ \A t \in made : s \in Below[t] => parent \in Below[t]
  /\ made' = made \cup {s} /\ open' = [open EXCEPT ![s] = TRUE]
  /\ invite' = [invite EXCEPT ![s] = TRUE]
  /\ UNCHANGED <<members, gate, work, chat, request>>

\* admin_session(): members of an open shop read, its representative answers.
OpenChat(a) ==
  /\ role[a] # "NONE" /\ open[home[a]]
  /\ chat' = [chat EXCEPT ![a] = IF role[a] = "PRIMARY" THEN "REPLY" ELSE "READ"]
  /\ UNCHANGED <<members, shops, request>>

\* An operation that failed after it had revoked a chat session; a logout.
ChatLost(a) ==
  /\ chat[a] # "NONE" /\ chat' = [chat EXCEPT ![a] = "NONE"]
  /\ UNCHANGED <<members, shops, request>>

-----------------------------------------------------------------------------
\* The work of a shop.

\* outstanding(): what was paid outside PayPal counts until an operator has
\* confirmed that it is settled.
Outstanding(s, settled) ==
  work[s] \cap (IF settled THEN {"BOOKING", "REFUND"} ELSE {"BOOKING", "REFUND", "OFFLINE"}) # {}

\* A booking, an on-site request, a walk-in rental, with a PayPal payment or
\* without.
NewWork(s) ==
  /\ s \in made \cap Trading /\ open[s] /\ Admits(s)
  /\ \E paid \in SUBSET {"PAYPAL"} : work' = [work EXCEPT ![s] = @ \cup {"BOOKING"} \cup paid]
  /\ UNCHANGED <<members, made, open, invite, gate, chat, request>>

\* The last booking or rental ends; a cancelled one may be paid back.
EndWork(s) ==
  /\ "BOOKING" \in work[s]
  /\ \E left \in SUBSET {"REFUND", "OFFLINE"} :
       /\ "REFUND" \in left => "PAYPAL" \in work[s]
       /\ work' = [work EXCEPT ![s] = (@ \ {"BOOKING"}) \cup left]
  /\ UNCHANGED <<members, made, open, invite, gate, chat, request>>

\* The last refund is complete.
PaidBack(s) ==
  /\ "REFUND" \in work[s] /\ work' = [work EXCEPT ![s] = @ \ {"REFUND"}]
  /\ UNCHANGED <<members, made, open, invite, gate, chat, request>>

\* settle() of a capture that was under way when its booking ended, or of a
\* refund in the seller's dashboard that is not complete: money is owed again,
\* at whatever shop.
ReportedLate(s) ==
  /\ "PAYPAL" \in work[s] /\ work' = [work EXCEPT ![s] = @ \cup {"REFUND"}]
  /\ UNCHANGED <<members, made, open, invite, gate, chat, request>>

-----------------------------------------------------------------------------
\* Deletion requests.

Accepted(a, mine) ==
  [NoRequest EXCEPT !.owner = a, !.scope = mine.scope, !.spots = mine.spots, !.members = mine.members,
     !.state = IF mine.scope = "SUBTREE" /\ \E x \in mine.spots : Outstanding(x[1], FALSE)
               THEN "WAITING_OBLIGATIONS" ELSE "PROCESSING"]

\* The gate is closed for the shops of a SUBTREE request.
Gated(r, mine) ==
  [s \in Spots |-> IF mine.scope = "SUBTREE" /\ s \in {x[1] : x \in mine.spots} THEN r ELSE gate[s]]

\* Mutant: the gate is committed before the request is stored.
SubmitGateFirst(a, r) ==
  LET mine == Snapshot(a)
  IN /\ role[a] # "NONE" /\ account[a] = "ACTIVE"
     /\ request[r] = NoRequest /\ Unclaimed(a) /\ ScopeAllowed(mine, r)
     /\ \A x \in mine.spots : gate[x[1]] \in {0, r}
     /\ gate' = Gated(r, mine)
     /\ \E stored \in BOOLEAN : request' = IF stored THEN [request EXCEPT ![r] = Accepted(a, mine)] ELSE request
     /\ UNCHANGED <<members, made, open, invite, work, chat>>

\* store.create(): one unfinished request of an owner.
Store(a, r, mine) ==
  /\ request[r] = NoRequest /\ Unclaimed(a)
  /\ request' = [request EXCEPT ![r] = Accepted(a, mine)]

\* Mutant: other requests are not looked at.
SubmitOverlapping(a, r) ==
  LET mine == Snapshot(a)
  IN /\ role[a] # "NONE" /\ account[a] = "ACTIVE"
     /\ \A x \in mine.spots : gate[x[1]] \in {0, r}
     /\ Store(a, r, mine)
     /\ \E committed \in BOOLEAN : gate' = IF committed THEN Gated(r, mine) ELSE gate
     /\ UNCHANGED <<members, made, open, invite, work, chat>>

\* submit_deletion(), or an operator's register: the request is stored, then
\* the transaction that sets the gate commits or does not.
Submit(a, r) ==
  LET mine == Snapshot(a)
  IN /\ role[a] # "NONE" /\ account[a] = "ACTIVE"
     /\ ScopeAllowed(mine, r) /\ \A x \in mine.spots : gate[x[1]] \in {0, r}
     /\ Store(a, r, mine)
     /\ \E committed \in BOOLEAN : gate' = IF committed THEN Gated(r, mine) ELSE gate
     /\ UNCHANGED <<members, made, open, invite, work, chat>>

\* reconfirm_deletion(): the shops that are no longer in the scope reopen to
\* new work; a settlement that was confirmed stands for the scope it was for.
Reconfirm(r) ==
  LET a == request[r].owner
      mine == Snapshot(a)
      regated == [s \in Spots |-> IF mine.scope = "SUBTREE" /\ s \in {x[1] : x \in mine.spots} THEN r
                                  ELSE IF gate[s] = r THEN 0 ELSE gate[s]]
  IN /\ request[r].state = "WAITING_RECONFIRMATION" /\ role[a] # "NONE"
     /\ ScopeAllowed(mine, r) /\ \A x \in mine.spots : gate[x[1]] \in {0, r}
     /\ request' = [request EXCEPT ![r] = [Accepted(a, mine) EXCEPT !.phase = request[r].phase,
                                                                     !.settled = request[r].settled]]
     /\ \E committed \in BOOLEAN : gate' = IF committed THEN regated ELSE gate
     /\ UNCHANGED <<members, made, open, invite, work, chat>>

-----------------------------------------------------------------------------
\* The worker: process() for one request, in as many runs as it takes.

Processable(r) == request[r].state \in {"PROCESSING", "WAITING_OBLIGATIONS", "RETRYING", "REVIEW"}

SetState(r, state) == request' = [request EXCEPT ![r].state = state]

\* The roles are gone: an earlier run committed and could not record it.
Resumed(r) ==
  request[r].phase = "WITHDRAWING" /\ \A m \in MembersOf(r) : role[m] = "NONE"

Unchanged(r) == Snapshot(request[r].owner) = ScopeOf(r)

MayWithdraw(r) ==
  /\ Processable(r) /\ request[r].phase \in {"NONE", "WITHDRAWING"}
  /\ \A q \in Requests \ {r} : Pending(q) =>
       Disjoint(ScopeOf(r), q)
  /\ Resumed(r) \/ role[request[r].owner] # "NONE"

Gates(r) == request[r].scope = "SUBTREE"
GateFree(r) == Gates(r) => \A s \in SpotsOf(r) : gate[s] \in {0, r}
Settled(r) == request[r].settled = ScopeOf(r)
Busy(r) == Gates(r) /\ \E s \in SpotsOf(r) : Outstanding(s, Settled(r))
SetGate(r) == gate' = [s \in Spots |-> IF Gates(r) /\ s \in SpotsOf(r) THEN r ELSE gate[s]]

\* withdraw(): the scope is no longer the one the owner confirmed.
AskAgain(r) ==
  /\ MayWithdraw(r) /\ ~Resumed(r) /\ ~Unchanged(r)
  /\ SetState(r, "WAITING_RECONFIRMATION")
  /\ UNCHANGED <<members, shops, chat>>

\* withdraw(): something is outstanding, and nothing new may come.
AwaitWork(r) ==
  /\ MayWithdraw(r) /\ ~Resumed(r) /\ Unchanged(r) /\ GateFree(r) /\ Busy(r)
  /\ SetState(r, "WAITING_OBLIGATIONS") /\ SetGate(r)
  /\ UNCHANGED <<members, made, open, invite, work, chat>>

\* Mutant: a run that was interrupted goes on without looking again.
ReadyOnce(r) == Resumed(r) \/ request[r].phase = "WITHDRAWING" \/ (Unchanged(r) /\ GateFree(r) /\ ~Busy(r))

Ready(r) == Resumed(r) \/ (Unchanged(r) /\ GateFree(r) /\ ~Busy(r))

\* withdraw(): the transaction that takes everything back, and its record in
\* Firestore, which a crash may prevent.
Withdraw(r) ==
  /\ MayWithdraw(r) /\ Ready(r)
  /\ Leave(MembersOf(r), IF Gates(r) THEN SpotsOf(r) ELSE {})
  /\ IF Resumed(r) THEN UNCHANGED gate ELSE SetGate(r)
  /\ \E recorded \in BOOLEAN :
       request' = [request EXCEPT ![r].state = "PROCESSING",
                                  ![r].phase = IF recorded THEN "WITHDRAWN" ELSE "WITHDRAWING"]
  /\ UNCHANGED <<account, home, application, made, invite, work>>

\* withdraw(): the transaction fails after Firestore was told.
WithdrawFails(r) ==
  /\ MayWithdraw(r) /\ ~Resumed(r) /\ Unchanged(r) /\ GateFree(r) /\ ~Busy(r)
  /\ request' = [request EXCEPT ![r].state = "PROCESSING", ![r].phase = "WITHDRAWING"]
  /\ \E revoked \in SUBSET MembersOf(r) :
       chat' = [a \in Admins |-> IF a \in revoked THEN "NONE" ELSE chat[a]]
  /\ UNCHANGED <<members, shops>>

\* cleanup_sql()
Clean(r) ==
  LET erased == MembersOf(r) \ Shared
  IN /\ Processable(r) /\ request[r].phase = "WITHDRAWN"
     /\ account' = [a \in Admins |-> IF a \in erased THEN "ERASED" ELSE account[a]]
     /\ home' = [a \in Admins |-> IF a \in erased THEN NoSpot ELSE home[a]]
     /\ application' = [a \in Admins |-> IF a \in MembersOf(r) THEN [s \in Spots |-> "NONE"] ELSE application[a]]
     /\ invite' = [s \in Spots |-> invite[s] /\ ~(Gates(r) /\ s \in SpotsOf(r))]
     /\ \E recorded \in BOOLEAN :
          request' = IF recorded THEN [request EXCEPT ![r].phase = "CLEANED"] ELSE request
     /\ UNCHANGED <<role, made, open, gate, work, chat>>

\* process(): shared content or the retention policy needs a person.
AskReview(r) ==
  /\ Processable(r) /\ request[r].phase = "CLEANED"
  /\ SetState(r, "REVIEW")
  /\ UNCHANGED <<members, shops, chat>>

\* store.finish(): only a receipt is left of the request.
LeaveReceipt(r) == request' = [request EXCEPT ![r] = [NoRequest EXCEPT !.state = "COMPLETED"]]

Finish(r) ==
  /\ Processable(r) /\ request[r].phase = "CLEANED"
  /\ LeaveReceipt(r)
  /\ UNCHANGED <<members, shops, chat>>

\* run(): whatever fails is tried again, and given to an operator at the
\* fifth time or after seven days.
Defer(r) ==
  /\ Processable(r)
  /\ \E state \in {"RETRYING", "OPERATOR"} : SetState(r, state)
  /\ UNCHANGED <<members, shops, chat>>

\* run(): a request that is not done in seven days is given to an operator,
\* whoever was to act.
Overdue(r) ==
  /\ Pending(r) /\ request[r].state # "OPERATOR" /\ SetState(r, "OPERATOR")
  /\ UNCHANGED <<members, shops, chat>>

\* act(): an operator's resume or review.
Resume(r) ==
  /\ Pending(r) /\ request[r].state # "WAITING_RECONFIRMATION"
  /\ SetState(r, "PROCESSING")
  /\ UNCHANGED <<members, shops, chat>>

\* act(): an operator's settlement, once only external payments were left.
SettleExternal(r) ==
  /\ Pending(r) /\ Gates(r) /\ request[r].phase \in {"NONE", "WITHDRAWING"}
  /\ ~\E s \in SpotsOf(r) : Outstanding(s, TRUE)
  /\ request' = [request EXCEPT ![r].state = "PROCESSING", ![r].settled = ScopeOf(r)]
  /\ UNCHANGED <<members, shops, chat>>

-----------------------------------------------------------------------------
MemberStep ==
  \/ \E a \in Admins, s \in Spots : SignupWithCode(a, s) \/ Apply(a, s)
  \/ \E p, a \in Admins, s \in Spots : Approve(p, a, s) \/ RejectApplicant(p, a, s)
  \/ \E p, a \in Admins : ChangeRole(p, a) \/ RemoveAdmin(p, a)
  \/ \E a \in Admins : DeleteOwn(a) \/ OpenChat(a) \/ ChatLost(a)
  \/ \E p \in Admins, parent, s \in Spots : CreateSpot(p, parent, s)

WorkStep == \E s \in Spots : NewWork(s) \/ EndWork(s) \/ PaidBack(s) \/ ReportedLate(s)

WorkerStep(r) ==
  \/ AskAgain(r) \/ AwaitWork(r) \/ Withdraw(r) \/ WithdrawFails(r)
  \/ Clean(r) \/ AskReview(r) \/ Finish(r) \/ Defer(r)

RequestStep ==
  \/ \E a \in Admins, r \in Requests : Submit(a, r)
  \/ \E r \in Requests : Reconfirm(r) \/ WorkerStep(r) \/ Overdue(r) \/ Resume(r) \/ SettleExternal(r)

ShopsNext == MemberStep \/ WorkStep \/ RequestStep

ShopsSpec == ShopsInit /\ [][ShopsNext]_shopVars

-----------------------------------------------------------------------------
\* Tables and documents hold what the code writes into them.
ShopTypes ==
  /\ account \in [Admins -> {"NONE", "ACTIVE", "ERASED"}]
  /\ role \in [Admins -> AdminRoles \cup {"NONE"}]
  /\ home \in [Admins -> Spots \cup {NoSpot}]
  /\ application \in [Admins -> [Spots -> {"NONE", "REQUESTED", "APPROVED", "REJECTED"}]]
  /\ made \subseteq Spots
  /\ open \in [Spots -> BOOLEAN] /\ invite \in [Spots -> BOOLEAN]
  /\ work \in [Spots -> SUBSET Kinds]
  /\ gate \in [Spots -> Requests \cup {0}]
  /\ chat \in [Admins -> {"NONE", "READ", "REPLY"}]
  /\ request \in [Requests -> RequestRow]
  /\ \A a \in Admins : role[a] # "NONE" => account[a] = "ACTIVE" /\ home[a] \in made

\* Whatever is rolled back or fails, an account with chat access has the role
\* for it, and only a representative can answer (chat.py:66, management.py:71).
ChatIsBacked ==
  \A a \in Admins : /\ chat[a] # "NONE" => role[a] # "NONE" /\ open[home[a]]
                    /\ chat[a] = "REPLY" => role[a] = "PRIMARY"

\* Requests under way are about different people, and close different shops
\* (pending_scope_allowed()).
ScopesAreDisjoint ==
  \A r, q \in Requests : r # q /\ Pending(r) /\ Pending(q) =>
    Disjoint(ScopeOf(r), q)

\* A shop that closes has a stored request that will see to it, although the
\* two are written one after the other (account_deletions.py:150).
GateHasRequest ==
  \A s \in Spots : gate[s] # 0 =>
    \/ request[gate[s]].state = "COMPLETED"
    \/ Pending(gate[s]) /\ s \in SpotsOf(gate[s])

\* The withdrawal of a request took effect in SQL.
IsWithdrawn(r) ==
  \/ request[r].state = "COMPLETED" \/ request[r].phase \in {"WITHDRAWN", "CLEANED"}
  \/ Pending(r) /\ Resumed(r)

\* A shop is closed by a request only when no booking or rental is left in it
\* or below it, and nothing and nobody comes back afterwards: no booking, no
\* member, no new branch (account_deletion_scope.py:22, account_deletion_jobs.py:85).
\* Money may: a refund is paid by the timer, whether or not the shop is open.
ClosedShopsAreIdle ==
  \A s \in Spots : gate[s] # 0 /\ IsWithdrawn(gate[s]) =>
    \A t \in Subtree(s) : ~open[t] /\ "BOOKING" \notin work[t] /\ Staff(t) = {}
=============================================================================
