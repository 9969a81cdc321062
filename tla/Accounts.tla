------------------------------ MODULE Accounts ------------------------------
(***************************************************************************)
(* One account, of an administrator (app/auth.py, app/security.py) or of a *)
(* customer (app/customer_rentals.py, app/firebase_auth.py): its sessions, *)
(* refresh tokens, push token and chat session (app/chat.py).              *)
(*                                                                         *)
(* A call reads the account, locks it and reads it again.  The calls that  *)
(* have only read are in calls; the locked transaction is one step.  What  *)
(* it has told Firebase stays when it does not commit.                     *)
(***************************************************************************)
EXTENDS Naturals, FiniteSets

CONSTANTS
  MaxLogins,  \* bound: logins, each from a device of its own
  MaxTokens,  \* bound: refresh tokens of a session
  MaxCalls    \* bound: calls at the same time

ASSUME AccountsAssumption == MaxLogins \in Nat /\ MaxTokens \in Nat \ {0} /\ MaxCalls \in Nat

VARIABLES
  kind,      \* which tables the account is in
  member,    \* the rental role; a customer who has not withdrawn
  identity,  \* the account at Firebase
  logins,    \* how many there were; a device is the login it made
  session,   \* the sessions: revoked_at, expires_at
  token,     \* token_hash, as the number of the refresh token of the session
  held,      \* refresh tokens the apps hold and have not used
  cut,       \* user_access_revoked_at, as the last login before it
  push,      \* fcm_token: a device, or 0
  chatting,  \* chatUsers, chatPushTokens: the business session, the device
  calls      \* calls that have read and not locked

accountVars == <<kind, member, identity, logins, session, token, held, cut, push, chatting, calls>>

Logins == 1..MaxLogins
NoChat == [session |-> 0, device |-> 0]

AccountsInit ==
  /\ kind \in {"ADMIN", "CUSTOMER"} /\ member = TRUE /\ identity = TRUE
  /\ logins = 0 /\ session = [l \in Logins |-> "NONE"] /\ token = [l \in Logins |-> 0]
  /\ held = {} /\ cut = 0 /\ push = 0 /\ chatting = NoChat /\ calls = {}

LiveSessions == {l \in Logins : session[l] = "LIVE"}
AllRevoked == [l \in Logins |-> IF session[l] = "LIVE" THEN "REVOKED" ELSE session[l]]

\* principal() and user_principal(): an administrator's access token ends with
\* its session, a customer's with the account's last revocation.
Admitted(l) ==
  IF kind = "ADMIN" THEN member /\ session[l] = "LIVE" ELSE l \in 1..logins /\ l > cut

\* refresh_row() and _user_refresh_row()
Current(l, g) == session[l] = "LIVE" /\ token[l] = g

\* What the apps send, and the refresh token with it, or none: 0.
Sendable ==
  IF kind = "ADMIN"
  THEN ({"push", "chat"} \X {0}) \cup ({"refresh", "logout", "profile"} \X (1..MaxTokens))
  ELSE ({"push", "withdraw", "logout"} \X {0}) \cup ({"refresh", "logout", "chat"} \X (1..MaxTokens))

\* The first reads of a call with the access token of l.
Begin(op, l, g) ==
  /\ op # "refresh" => Admitted(l)
  /\ g # 0 => Current(l, g)
  /\ Cardinality(calls) < MaxCalls
  /\ calls' = calls \cup {<<op, l, g>>}
  /\ UNCHANGED <<kind, member, identity, logins, session, token, held, cut, push, chatting>>

\* lock_account(), the lock nadri-user.  A call may be under way more than once.
Ends(op, l, g) == <<op, l, g>> \in calls /\ calls' \in {calls, calls \ {<<op, l, g>>}}

\* verify_uid() and delete_uid(): the account at Firebase.
Identified == identity
DeleteIdentity == identity' = FALSE

\* The new session is the only one.
SignIn(withPush) ==
  LET l == logins + 1
  IN /\ l \in Logins
     /\ logins' = l
     /\ session' = [AllRevoked EXCEPT ![l] = "LIVE"]
     /\ token' = [token EXCEPT ![l] = 1] /\ held' = held \cup {<<l, 1>>}
     /\ push' = IF withPush THEN l ELSE push
     /\ chatting' = NoChat
     /\ UNCHANGED <<kind, member, identity, cut, calls>>

\* login()
LoginAdmin(withPush) == kind = "ADMIN" /\ member /\ SignIn(withPush)

\* nadree_login(): the customer has authenticated at Firebase after the last
\* revocation.
LoginCustomer(withPush) == kind = "CUSTOMER" /\ Identified /\ SignIn(withPush)

\* A new token in the row of the session; the app holds it instead of the old.
Rotate(l, g) ==
  /\ token[l] < MaxTokens /\ token' = [token EXCEPT ![l] = @ + 1]
  /\ held' = (held \ {<<l, g>>}) \cup {<<l, token[l] + 1>>}
  /\ UNCHANGED <<kind, member, identity, logins, session, cut, push, chatting>>

\* Mutant: the token is not read again under the lock.
RefreshUnlocked(l, g) ==
  kind = "ADMIN" /\ Ends("refresh", l, g) /\ member /\ session[l] = "LIVE" /\ Rotate(l, g)

\* refresh(): of two calls with one token, one is refused.
RefreshAdmin(l, g) ==
  kind = "ADMIN" /\ Ends("refresh", l, g) /\ member /\ Current(l, g) /\ Rotate(l, g)

\* nadree_refresh()
RefreshCustomer(l, g) ==
  kind = "CUSTOMER" /\ Ends("refresh", l, g) /\ l > cut /\ Current(l, g) /\ Rotate(l, g)

\* Another device than that of the chat session ends it.
TakePush(l) ==
  /\ push' = l /\ chatting' = IF push = l THEN chatting ELSE NoChat
  /\ UNCHANGED <<kind, member, identity, logins, session, token, held, cut>>

\* fcm_token()
SetPushAdmin(l) == kind = "ADMIN" /\ Ends("push", l, 0) /\ Admitted(l) /\ TakePush(l)

\* Mutant: the account is not read again under the lock.
SetPushUnlocked(l) == kind = "CUSTOMER" /\ Ends("push", l, 0) /\ TakePush(l)

\* nadree_profile()
SetPushCustomer(l) == kind = "CUSTOMER" /\ Ends("push", l, 0) /\ Admitted(l) /\ TakePush(l)

\* issue(): the chat session of l, for the device that gets the push messages.
Issue(l) ==
  /\ chatting' = [session |-> l, device |-> push]
  /\ UNCHANGED <<kind, member, identity, logins, session, token, held, cut, push>>

\* admin_session()
AdminSession(l) == kind = "ADMIN" /\ Ends("chat", l, 0) /\ Admitted(l) /\ Issue(l)

\* customer_session(): with the current refresh token and the Firebase account.
CustomerSession(l, g) ==
  kind = "CUSTOMER" /\ Ends("chat", l, g) /\ Admitted(l) /\ Current(l, g) /\ Identified /\ Issue(l)

\* The device forgets its own push token only.
Forget(l) ==
  /\ push' = IF push = l THEN 0 ELSE push
  /\ chatting' = NoChat
  /\ UNCHANGED <<kind, member, identity, logins, token, held>>

\* logout() ends the session it came from.
LogoutAdmin(l, g) ==
  /\ kind = "ADMIN" /\ Ends("logout", l, g) /\ Admitted(l) /\ Current(l, g)
  /\ session' = [session EXCEPT ![l] = "REVOKED"] /\ UNCHANGED cut
  /\ Forget(l)

\* nadree_logout() ends them all, and reads a refresh token again if it was
\* sent one, but not the access token.
LogoutCustomer(l, g) ==
  /\ kind = "CUSTOMER" /\ Ends("logout", l, g) /\ (g # 0 => Current(l, g))
  /\ session' = AllRevoked /\ cut' = logins
  /\ Forget(l)

\* profile() with a password or an address, and perhaps a push token.
UpdateProfile(l, g) ==
  /\ kind = "ADMIN" /\ Ends("profile", l, g) /\ Admitted(l) /\ Current(l, g)
  /\ session' = AllRevoked /\ chatting' = NoChat /\ push' \in {push, l}
  /\ UNCHANGED <<kind, member, identity, logins, token, held, cut>>

\* find_password()
FindPassword ==
  /\ kind = "ADMIN" /\ member
  /\ session' = AllRevoked /\ chatting' = NoChat
  /\ UNCHANGED <<kind, member, identity, logins, token, held, cut, push, calls>>

\* nadree_delete_account(): the Firebase account goes first, then the chat
\* session, then the rows.  It may be tried again when a later one of them
\* failed.
WithdrawCustomer(l) ==
  /\ kind = "CUSTOMER" /\ Ends("withdraw", l, 0)
  /\ DeleteIdentity
  /\ \/ /\ member' = FALSE /\ session' = AllRevoked /\ cut' = logins /\ push' = 0
        /\ chatting' = NoChat
     \/ chatting' \in {NoChat, chatting} /\ UNCHANGED <<member, session, cut, push>>
  /\ UNCHANGED <<kind, logins, token, held>>

\* delete_admin(), delete_own_admin_account(), withdraw(): the role goes, and
\* what hangs on it.
Expel ==
  /\ kind = "ADMIN" /\ member
  /\ member' = FALSE /\ session' = AllRevoked /\ push' = 0 /\ chatting' = NoChat
  /\ UNCHANGED <<kind, identity, logins, token, held, cut, calls>>

\* A transaction that has taken back the chat session does not commit, or an
\* operator disables the chat account.
LoseChat ==
  /\ chatting # NoChat /\ chatting' = NoChat
  /\ UNCHANGED <<kind, member, identity, logins, session, token, held, cut, push, calls>>

\* _clear_invalid_tokens(): Firebase no longer knows the device.
ClearPush ==
  /\ push # 0 /\ push' = 0
  /\ UNCHANGED <<kind, member, identity, logins, session, token, held, cut, chatting, calls>>

\* expires_at of the session, which is also that of its chat session.
ExpireSession(l) ==
  /\ session[l] = "LIVE" /\ session' = [session EXCEPT ![l] = "REVOKED"]
  /\ chatting' = IF chatting.session = l THEN NoChat ELSE chatting
  /\ UNCHANGED <<kind, member, identity, logins, token, held, cut, push, calls>>

AccountsNext ==
  \/ \E withPush \in BOOLEAN : LoginAdmin(withPush) \/ LoginCustomer(withPush)
  \/ \E l \in Logins :
       \/ \E r \in Sendable : Begin(r[1], l, r[2])
       \/ \E g \in 1..MaxTokens :
            RefreshAdmin(l, g) \/ RefreshCustomer(l, g) \/ CustomerSession(l, g) \/ LogoutAdmin(l, g) \/ UpdateProfile(l, g)
       \/ \E g \in 0..MaxTokens : LogoutCustomer(l, g)
       \/ SetPushAdmin(l) \/ SetPushCustomer(l) \/ AdminSession(l) \/ WithdrawCustomer(l) \/ ExpireSession(l)
  \/ FindPassword \/ Expel \/ LoseChat \/ ClearPush

AccountsSpec == AccountsInit /\ [][AccountsNext]_accountVars

-----------------------------------------------------------------------------
\* Rows and documents hold what the code writes into them.
AccountTypes ==
  /\ kind \in {"ADMIN", "CUSTOMER"} /\ member \in BOOLEAN /\ identity \in BOOLEAN
  /\ logins \in 0..MaxLogins /\ cut \in 0..logins /\ push \in 0..logins
  /\ session \in [Logins -> {"NONE", "LIVE", "REVOKED"}]
  /\ token \in [Logins -> 0..MaxTokens]
  /\ held \subseteq Logins \X (1..MaxTokens)
  /\ chatting \in [session : 0..logins, device : 0..logins]
  /\ calls \subseteq {"push", "logout", "withdraw", "refresh", "chat", "profile"} \X Logins \X (0..MaxTokens)

\* Only the device that logged in last has a session, and the chat session is
\* its: a call of an older device that was delayed past the login brings
\* neither back (auth.py:62, chat.py:205).
OneDevice ==
  /\ LiveSessions \subseteq {logins}
  /\ chatting # NoChat => chatting.session \in LiveSessions

\* The refresh token an app was given last works as long as its session does,
\* whatever else was sent with the one before (auth.py:102).
RefreshTokensWork ==
  \A h \in held : session[h[1]] = "LIVE" => token[h[1]] = h[2]

\* Nothing of an account that has withdrawn or was removed comes back through
\* a call that was under way: no session, access, chat or push token.
WithdrawnStaysOut ==
  ~member => /\ LiveSessions = {} /\ push = 0 /\ chatting = NoChat
             /\ \A l \in Logins : ~Admitted(l)
=============================================================================
