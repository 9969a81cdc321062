--------------------------- MODULE Services_proofs --------------------------
(***************************************************************************)
(* Theorems about Accounts, for any number of logins, tokens and calls,    *)
(* about ChatRooms, for any bookings and any number of rooms, and about    *)
(* the four services side by side.                                         *)
(***************************************************************************)
EXTENDS MCServices, Shops_proofs, ChatPush_proofs

-----------------------------------------------------------------------------
\* Accounts.

\* A session that lives is the last login's, and refresh tokens are those of
\* logins that have been.
Latest ==
  /\ \A l \in Logins : session[l] = "LIVE" => l = logins
  /\ \A h \in held : h[1] <= logins

\* The chat session is that of a live session.
ChatOfSession == chatting # NoChat => chatting.session \in Logins /\ session[chatting.session] = "LIVE"

\* What keeps a withdrawn account out: an administrator needs the role, and a
\* customer an account at Firebase and a login after the last revocation.
StaysOut ==
  ~member => /\ \A l \in Logins : session[l] # "LIVE"
             /\ push = 0 /\ chatting = NoChat
             /\ kind = "CUSTOMER" => ~identity /\ cut = logins

AccountsInv == AccountTypes /\ Latest /\ ChatOfSession /\ RefreshTokensWork /\ StaysOut

LEMMA InitAccounts == AccountsInit => AccountsInv
BY AccountsAssumption DEF AccountsInit, AccountsInv, AccountTypes, Latest, ChatOfSession, RefreshTokensWork,
   StaysOut, Logins, NoChat, LiveSessions

\* Who is admitted has logged in, and is not withdrawn.
LEMMA AdmittedHasLoggedIn ==
  ASSUME AccountsInv, NEW l \in Logins, Admitted(l)
  PROVE  l \in 1..logins /\ member
<1>1. CASE kind = "ADMIN"
  BY <1>1 DEF AccountsInv, Latest, Admitted, AccountTypes, Logins
<1>2. CASE kind = "CUSTOMER"
  BY <1>2, AccountsAssumption DEF AccountsInv, StaysOut, Admitted, AccountTypes, Logins
<1> QED BY <1>1, <1>2 DEF AccountsInv, AccountTypes

\* What AllRevoked leaves.
LEMMA AllRevokedType ==
  ASSUME AccountTypes
  PROVE  /\ AllRevoked \in [Logins -> {"NONE", "REVOKED"}]
         /\ \A l \in Logins : AllRevoked[l] # "LIVE"
BY DEF AllRevoked, AccountTypes

\* A new call changes the set of calls only.
LEMMA BeginKeeps ==
  ASSUME AccountsInv, NEW l \in Logins, NEW r \in Sendable, Begin(r[1], l, r[2])
  PROVE  AccountsInv'
<1>1. calls' \subseteq {"push", "logout", "withdraw", "refresh", "chat", "profile"} \X Logins \X (0..MaxTokens)
  BY AccountsAssumption DEF AccountsInv, AccountTypes, Begin, Sendable
<1>2. UNCHANGED <<kind, member, identity, logins, session, token, held, cut, push, chatting>>
  BY DEF Begin
<1>3. AccountTypes'
  BY <1>1, <1>2 DEF AccountsInv, AccountTypes, Logins
<1> QED
  BY <1>2, <1>3 DEF AccountsInv, Latest, ChatOfSession, RefreshTokensWork, StaysOut, Logins, NoChat

\* The only session of an account is that of the last login.
LEMMA SignInKeeps ==
  ASSUME AccountsInv, member, NEW withPush \in BOOLEAN, SignIn(withPush)
  PROVE  AccountsInv'
<1> DEFINE l == logins + 1
<1>1. /\ l \in Logins /\ logins' = l
      /\ UNCHANGED <<kind, member, identity, cut, calls>>
      /\ session' = [AllRevoked EXCEPT ![l] = "LIVE"]
      /\ token' = [token EXCEPT ![l] = 1] /\ held' = held \cup {<<l, 1>>}
      /\ push' \in {push, l} /\ chatting' = NoChat
  BY DEF SignIn
<1>2. AllRevoked \in [Logins -> {"NONE", "REVOKED"}] /\ \A k \in Logins : AllRevoked[k] # "LIVE"
  BY AllRevokedType DEF AccountsInv
<1>3. session' \in [Logins -> {"NONE", "LIVE", "REVOKED"}] /\ \A k \in Logins : session'[k] = "LIVE" => k = l
  BY <1>1, <1>2
<1>4. AccountTypes'
  <2>1. token' \in [Logins -> 0..MaxTokens] /\ held' \subseteq Logins \X (1..MaxTokens)
    BY <1>1, AccountsAssumption DEF AccountsInv, AccountTypes
  <2>2. logins' \in 0..MaxLogins /\ cut' \in 0..logins' /\ push' \in 0..logins' /\ chatting' \in [session : 0..logins', device : 0..logins']
    BY <1>1, AccountsAssumption DEF AccountsInv, AccountTypes, Logins, NoChat
  <2> QED BY <1>1, <1>3, <2>1, <2>2 DEF AccountsInv, AccountTypes, Logins
<1>5. Latest'
  BY <1>1, <1>3, AccountsAssumption DEF AccountsInv, AccountTypes, Latest, Logins
<1>6. RefreshTokensWork'
  <2> SUFFICES ASSUME NEW h \in held', session'[h[1]] = "LIVE" PROVE token'[h[1]] = h[2]
    BY DEF RefreshTokensWork
  <2>1. h \in Logins \X (1..MaxTokens)
    BY <1>4 DEF AccountTypes, Logins
  <2>2. h[1] = l
    BY <1>3, <2>1
  <2>3. h = <<l, 1>>
    BY <1>1, <2>2, AccountsAssumption DEF AccountsInv, Latest, AccountTypes, Logins
  <2> QED BY <1>1, <2>3 DEF AccountsInv, AccountTypes
<1>7. ChatOfSession' /\ StaysOut'
  BY <1>1 DEF ChatOfSession, StaysOut, NoChat
<1> QED BY <1>4, <1>5, <1>6, <1>7 DEF AccountsInv

\* The new token replaces the one the app had.
LEMMA RotateKeeps ==
  ASSUME AccountsInv, NEW l \in Logins, NEW g \in 1..MaxTokens, Current(l, g), Rotate(l, g), calls' \subseteq calls
  PROVE  AccountsInv'
<1>1. /\ token' = [token EXCEPT ![l] = token[l] + 1] /\ token[l] = g /\ g < MaxTokens
      /\ held' = (held \ {<<l, g>>}) \cup {<<l, g + 1>>}
      /\ UNCHANGED <<kind, member, identity, logins, session, cut, push, chatting>>
  BY DEF Rotate, Current
<1>2. session[l] = "LIVE" /\ l = logins
  BY DEF Current, AccountsInv, Latest
<1>3. AccountTypes'
  <2>1. token' \in [Logins -> 0..MaxTokens]
    BY <1>1, AccountsAssumption DEF AccountsInv, AccountTypes
  <2>2. held' \subseteq Logins \X (1..MaxTokens)
    BY <1>1, AccountsAssumption DEF AccountsInv, AccountTypes
  <2> QED BY <1>1, <2>1, <2>2 DEF AccountsInv, AccountTypes, Logins
<1>4. Latest'
  BY <1>1, <1>2, AccountsAssumption DEF AccountsInv, AccountTypes, Latest, Logins
<1>5. RefreshTokensWork'
  <2> SUFFICES ASSUME NEW h \in held', session'[h[1]] = "LIVE" PROVE token'[h[1]] = h[2]
    BY DEF RefreshTokensWork
  <2>1. CASE h = <<l, g + 1>>
    BY <1>1, <2>1 DEF AccountsInv, AccountTypes
  <2>2. CASE h \in held /\ h # <<l, g>>
    <3>1. h \in Logins \X (1..MaxTokens) /\ token[h[1]] = h[2]
      BY <1>1, <2>2 DEF AccountsInv, AccountTypes, RefreshTokensWork
    <3>2. h[1] # l
      BY <1>1, <2>2, <3>1
    <3> QED BY <1>1, <3>1, <3>2 DEF AccountsInv, AccountTypes
  <2> QED BY <1>1, <2>1, <2>2
<1>6. ChatOfSession' /\ StaysOut'
  BY <1>1 DEF AccountsInv, ChatOfSession, StaysOut, Logins, NoChat
<1> QED BY <1>3, <1>4, <1>5, <1>6 DEF AccountsInv

\* A step that lets no session live again.
Lessens ==
  /\ UNCHANGED <<kind, logins, token, held>> /\ calls' \subseteq calls
  /\ session' \in [Logins -> {"NONE", "LIVE", "REVOKED"}]
  /\ \A l \in Logins : session'[l] = "LIVE" => session[l] = "LIVE"
  /\ member' \in BOOLEAN /\ identity' \in BOOLEAN
  /\ cut' \in 0..logins /\ push' \in 0..logins
  /\ chatting' \in [session : 0..logins, device : 0..logins]

LEMMA LessensKeeps ==
  ASSUME AccountsInv, Lessens, ChatOfSession', StaysOut'
  PROVE  AccountsInv'
<1>1. AccountTypes'
  BY DEF AccountsInv, AccountTypes, Lessens, Logins
<1>2. Latest'
  BY DEF AccountsInv, Latest, Lessens, Logins
<1>3. RefreshTokensWork'
  <2> SUFFICES ASSUME NEW h \in held, session'[h[1]] = "LIVE" PROVE token[h[1]] = h[2]
    BY DEF RefreshTokensWork, Lessens
  <2>1. h[1] \in Logins
    BY DEF AccountsInv, AccountTypes
  <2> QED BY <2>1 DEF AccountsInv, RefreshTokensWork, Lessens
<1> QED BY <1>1, <1>2, <1>3 DEF AccountsInv

\* The current session is one the account has had.
LEMMA LoginsAreLogins ==
  ASSUME AccountsInv PROVE 0 \in 0..logins /\ logins \in 0..logins /\ NoChat \in [session : 0..logins, device : 0..logins]
BY AccountsAssumption DEF AccountsInv, AccountTypes, NoChat

\* The chat session of l, which is live, or the push token of its device.
LEMMA PushAndChatKeep ==
  ASSUME AccountsInv, NEW l \in Logins, Admitted(l), calls' \subseteq calls, TakePush(l) \/ (session[l] = "LIVE" /\ Issue(l))
  PROVE  AccountsInv'
<1>1. l \in 0..logins /\ member
  BY AdmittedHasLoggedIn, AccountsAssumption DEF AccountsInv, AccountTypes
<1>2. UNCHANGED <<kind, member, identity, logins, session, token, held, cut>>
  BY DEF TakePush, Issue
<1>3. CASE TakePush(l)
  <2>1. push' = l /\ chatting' \in {chatting, NoChat}
    BY <1>3 DEF TakePush
  <2>2. Lessens
    BY <1>1, <1>2, <2>1, LoginsAreLogins DEF AccountsInv, AccountTypes, Lessens
  <2>3. ChatOfSession' /\ StaysOut'
    BY <1>1, <1>2, <2>1 DEF AccountsInv, ChatOfSession, StaysOut, NoChat, Logins
  <2> QED BY <2>2, <2>3, LessensKeeps
<1>4. CASE session[l] = "LIVE" /\ Issue(l)
  <2>1. push' = push /\ chatting' = [session |-> l, device |-> push]
    BY <1>4 DEF Issue
  <2>2. Lessens
    BY <1>1, <1>2, <2>1 DEF AccountsInv, AccountTypes, Lessens
  <2>3. ChatOfSession' /\ StaysOut'
    BY <1>1, <1>2, <1>4, <2>1 DEF ChatOfSession, StaysOut, Logins
  <2> QED BY <2>2, <2>3, LessensKeeps
<1> QED BY <1>3, <1>4

\* Steps that end sessions and the chat session.
LEMMA RevokesKeeps ==
  ASSUME AccountsInv, NEW l \in Logins,
         \/ \E g \in 1..MaxTokens : LogoutAdmin(l, g) \/ UpdateProfile(l, g)
         \/ \E g \in 0..MaxTokens : LogoutCustomer(l, g)
         \/ WithdrawCustomer(l)
  PROVE  AccountsInv'
<1>1. AllRevoked \in [Logins -> {"NONE", "REVOKED"}] /\ \A k \in Logins : AllRevoked[k] # "LIVE"
  BY AllRevokedType DEF AccountsInv
<1>2. chatting' = NoChat => ChatOfSession'
  BY DEF ChatOfSession
<1>3. CASE \E g \in 1..MaxTokens : LogoutAdmin(l, g)
  <2>1. /\ session' = [session EXCEPT ![l] = "REVOKED"] /\ chatting' = NoChat /\ push' \in {push, 0}
        /\ UNCHANGED <<kind, member, identity, logins, token, held, cut>> /\ calls' \subseteq calls
    BY <1>3 DEF LogoutAdmin, Forget, Ends
  <2>2. Lessens
    BY <2>1, LoginsAreLogins DEF AccountsInv, AccountTypes, Lessens
  <2>3. StaysOut'
    BY <2>1 DEF AccountsInv, StaysOut, AccountTypes
  <2> QED BY <1>2, <2>1, <2>2, <2>3, LessensKeeps
<1>4. CASE \E g \in 1..MaxTokens : UpdateProfile(l, g)
  <2>1. /\ session' = AllRevoked /\ chatting' = NoChat /\ push' \in {push, l} /\ Admitted(l)
        /\ UNCHANGED <<kind, member, identity, logins, token, held, cut>> /\ calls' \subseteq calls
    BY <1>4 DEF UpdateProfile, Ends
  <2>2. l \in 0..logins /\ member
    BY <2>1, AdmittedHasLoggedIn, AccountsAssumption DEF AccountsInv, AccountTypes
  <2>3. Lessens
    BY <1>1, <2>1, <2>2, LoginsAreLogins DEF AccountsInv, AccountTypes, Lessens
  <2>4. StaysOut'
    BY <2>1, <2>2 DEF StaysOut
  <2> QED BY <1>2, <2>1, <2>3, <2>4, LessensKeeps
<1>5. CASE \E g \in 0..MaxTokens : LogoutCustomer(l, g)
  <2>1. /\ session' = AllRevoked /\ chatting' = NoChat /\ push' \in {push, 0} /\ cut' = logins
        /\ UNCHANGED <<kind, member, identity, logins, token, held>> /\ calls' \subseteq calls
    BY <1>5 DEF LogoutCustomer, Forget, Ends
  <2>2. Lessens
    BY <1>1, <2>1, LoginsAreLogins DEF AccountsInv, AccountTypes, Lessens
  <2>3. StaysOut'
    BY <1>1, <2>1 DEF AccountsInv, StaysOut, Logins
  <2> QED BY <1>2, <2>1, <2>2, <2>3, LessensKeeps
<1>6. CASE WithdrawCustomer(l)
  <2>1. /\ chatting' \in {NoChat, chatting} /\ identity' = FALSE
        /\ UNCHANGED <<kind, logins, token, held>> /\ calls' \subseteq calls
        /\ \/ /\ member' = FALSE /\ session' = AllRevoked /\ cut' = logins /\ push' = 0
              /\ chatting' = NoChat
           \/ UNCHANGED <<member, session, cut, push>>
    BY <1>6 DEF WithdrawCustomer, DeleteIdentity, Ends
  <2>2. Lessens
    BY <1>1, <2>1, LoginsAreLogins DEF AccountsInv, AccountTypes, Lessens
  <2>3. StaysOut'
    <3>1. CASE member' = FALSE /\ session' = AllRevoked /\ cut' = logins /\ push' = 0 /\ chatting' = NoChat
      BY <1>1, <2>1, <3>1 DEF StaysOut, Logins
    <3>2. CASE UNCHANGED <<member, session, cut, push>>
      BY <2>1, <3>2 DEF AccountsInv, StaysOut, Logins
    <3> QED BY <2>1, <3>1, <3>2
  <2>4. ChatOfSession'
    <3>1. CASE chatting' = chatting /\ UNCHANGED <<member, session, cut, push>>
      BY <2>1, <3>1 DEF AccountsInv, ChatOfSession
    <3> QED BY <1>2, <2>1, <3>1
  <2> QED BY <2>2, <2>3, <2>4, LessensKeeps
<1> QED BY <1>3, <1>4, <1>5, <1>6

\* The account is taken out of the hands of its devices.
LEMMA TakenKeeps ==
  ASSUME AccountsInv, FindPassword \/ Expel
  PROVE  AccountsInv'
<1>1. AllRevoked \in [Logins -> {"NONE", "REVOKED"}] /\ \A k \in Logins : AllRevoked[k] # "LIVE"
  BY AllRevokedType DEF AccountsInv
<1>2. chatting' = NoChat => ChatOfSession'
  BY DEF ChatOfSession
<1>3. CASE FindPassword
  <2>1. /\ session' = AllRevoked /\ chatting' = NoChat
        /\ UNCHANGED <<kind, member, identity, logins, token, held, cut, push, calls>>
    BY <1>3 DEF FindPassword
  <2>2. Lessens
    BY <1>1, <2>1, LoginsAreLogins DEF AccountsInv, AccountTypes, Lessens
  <2>3. StaysOut'
    BY <1>1, <2>1 DEF AccountsInv, StaysOut, Logins
  <2> QED BY <1>2, <2>1, <2>2, <2>3, LessensKeeps
<1>4. CASE Expel
  <2>1. /\ session' = AllRevoked /\ chatting' = NoChat /\ push' = 0 /\ member' = FALSE /\ kind = "ADMIN"
        /\ UNCHANGED <<kind, identity, logins, token, held, cut, calls>>
    BY <1>4 DEF Expel
  <2>2. Lessens
    BY <1>1, <2>1, LoginsAreLogins DEF AccountsInv, AccountTypes, Lessens
  <2>3. StaysOut'
    BY <1>1, <2>1 DEF StaysOut, Logins
  <2> QED BY <1>2, <2>1, <2>2, <2>3, LessensKeeps
<1> QED BY <1>3, <1>4

\* What happens to an account on its own.
LEMMA LosesKeeps ==
  ASSUME AccountsInv, LoseChat \/ ClearPush \/ \E l \in Logins : ExpireSession(l)
  PROVE  AccountsInv'
<1>1. /\ UNCHANGED <<kind, member, identity, logins, token, held, cut, calls>>
      /\ session' \in [Logins -> {"NONE", "LIVE", "REVOKED"}]
      /\ \A l \in Logins : session'[l] = "LIVE" => session[l] = "LIVE"
      /\ chatting' \in {chatting, NoChat} /\ push' \in {push, 0}
  BY DEF LoseChat, ClearPush, ExpireSession, AccountsInv, AccountTypes
<1>2. Lessens
  BY <1>1, LoginsAreLogins DEF AccountsInv, AccountTypes, Lessens
<1>3. StaysOut'
  <2>1. ASSUME ~member PROVE (\A l \in Logins : session'[l] # "LIVE") /\ push' = 0 /\ chatting' = NoChat
    BY <1>1, <2>1 DEF AccountsInv, StaysOut
  <2> QED BY <1>1, <2>1 DEF AccountsInv, StaysOut, Logins, NoChat
<1>4. ChatOfSession'
  <2>1. CASE LoseChat
    BY <2>1 DEF LoseChat, ChatOfSession
  <2>2. CASE ClearPush
    BY <2>2 DEF ClearPush, AccountsInv, ChatOfSession, Logins, NoChat
  <2>3. CASE \E l \in Logins : ExpireSession(l)
    BY <2>3 DEF ExpireSession, AccountsInv, AccountTypes, ChatOfSession, Logins, NoChat
  <2> QED BY <2>1, <2>2, <2>3
<1> QED BY <1>2, <1>3, <1>4, LessensKeeps

LEMMA NextKeepsAccounts ==
  ASSUME AccountsInv, AccountsNext PROVE AccountsInv'
<1>1. CASE \E withPush \in BOOLEAN : LoginAdmin(withPush) \/ LoginCustomer(withPush)
  <2> PICK withPush \in BOOLEAN : LoginAdmin(withPush) \/ LoginCustomer(withPush)
    BY <1>1
  <2>1. member /\ SignIn(withPush)
    BY DEF LoginAdmin, LoginCustomer, Identified, AccountsInv, AccountTypes, StaysOut
  <2> QED BY <2>1, SignInKeeps
<1>2. ASSUME NEW l \in Logins, NEW r \in Sendable, Begin(r[1], l, r[2]) PROVE AccountsInv'
  BY <1>2, BeginKeeps
<1>3. ASSUME NEW l \in Logins, NEW g \in 1..MaxTokens,
             RefreshAdmin(l, g) \/ RefreshCustomer(l, g)
      PROVE  AccountsInv'
  <2>1. Current(l, g) /\ Rotate(l, g) /\ calls' \subseteq calls
    BY <1>3 DEF RefreshAdmin, RefreshCustomer, Ends
  <2> QED BY <2>1, RotateKeeps
<1>4. ASSUME NEW l \in Logins,
             SetPushAdmin(l) \/ SetPushCustomer(l) \/ AdminSession(l) \/ \E g \in 1..MaxTokens : CustomerSession(l, g)
      PROVE  AccountsInv'
  <2>1. Admitted(l) /\ calls' \subseteq calls /\ (TakePush(l) \/ (session[l] = "LIVE" /\ Issue(l)))
    BY <1>4 DEF SetPushAdmin, SetPushCustomer, AdminSession, CustomerSession, Ends, Admitted, Current
  <2> QED BY <2>1, PushAndChatKeep
<1>5. CASE LoseChat \/ ClearPush
  BY <1>5, LosesKeeps
<1>6. ASSUME NEW l \in Logins,
             \/ \E g \in 1..MaxTokens : LogoutAdmin(l, g) \/ UpdateProfile(l, g)
             \/ \E g \in 0..MaxTokens : LogoutCustomer(l, g)
             \/ WithdrawCustomer(l)
      PROVE  AccountsInv'
  BY <1>6, RevokesKeeps
<1>7. CASE FindPassword \/ Expel
  BY <1>7, TakenKeeps
<1>8. ASSUME NEW l \in Logins, ExpireSession(l) PROVE AccountsInv'
  BY <1>8, LosesKeeps
<1> QED BY <1>1, <1>2, <1>3, <1>4, <1>5, <1>6, <1>7, <1>8 DEF AccountsNext

LEMMA AccountsInvImplies ==
  ASSUME AccountsInv PROVE AccountTypes /\ OneDevice /\ RefreshTokensWork /\ WithdrawnStaysOut
<1>1. OneDevice
  BY DEF AccountsInv, Latest, ChatOfSession, OneDevice, LiveSessions
<1>2. WithdrawnStaysOut
  <2>1. ASSUME NEW l \in Logins, Admitted(l) PROVE member
    BY <2>1, AdmittedHasLoggedIn
  <2> QED BY <2>1 DEF AccountsInv, StaysOut, WithdrawnStaysOut, LiveSessions
<1> QED BY <1>1, <1>2 DEF AccountsInv

LEMMA InvariantOfAccounts == AccountsSpec => []AccountsInv
<1>1. ASSUME AccountsInv, UNCHANGED accountVars PROVE AccountsInv'
  BY <1>1 DEF accountVars, AccountsInv, AccountTypes, Latest, ChatOfSession, RefreshTokensWork, StaysOut, Logins, NoChat
<1>2. AccountsInv /\ [AccountsNext]_accountVars => AccountsInv'
  BY <1>1, NextKeepsAccounts
<1> QED BY <1>2, InitAccounts, PTL DEF AccountsSpec

\* Only the device that logged in last has a session, and the chat session is
\* its (auth.py:62, chat.py:205).
THEOREM OnlyTheLastDevice == AccountsSpec => []OneDevice
BY InvariantOfAccounts, AccountsInvImplies, PTL

\* The refresh token an app was given last works as long as its session does,
\* whatever other calls it sent (auth.py:102, customer_rentals.py:578).
THEOREM RefreshTokensAlwaysWork == AccountsSpec => []RefreshTokensWork
BY InvariantOfAccounts, AccountsInvImplies, PTL

\* A call under way brings nothing of a withdrawn account back
\* (customer_rentals.py:605, security.py:156).
THEOREM WithdrawnAccountsStayOut == AccountsSpec => []WithdrawnStaysOut
BY InvariantOfAccounts, AccountsInvImplies, PTL

-----------------------------------------------------------------------------
\* Chat rooms.

Link == [room : Rooms \cup {0}, closed : BOOLEAN, blocked : BOOLEAN, retention : {"NONE", "DELETING", "DELETED"}]
Room == [kind : {"NONE", "INQUIRY", "BOOKING", "GONE"}, booking : Bookings \cup {0},
         open : BOOLEAN, old : BOOLEAN, deleting : BOOLEAN, children : BOOLEAN]

\* A room knows its booking, and the link of that booking leads back as long
\* as there is something to find.
RoomOK(r) ==
  /\ room[r].kind \in {"NONE", "INQUIRY"} <=> room[r].booking = 0
  /\ room[r].kind = "BOOKING" => link[room[r].booking].room = r
  /\ room[r].kind = "GONE" /\ room[r].children =>
       link[room[r].booking].room = r /\ link[room[r].booking].retention = "DELETING"

\* What a booking's link says of its end, and where its deletion is.
BookingOK(b) ==
  /\ link[b].room # 0 => room[link[b].room].booking = b
  /\ ending[b] \/ status[b] = "ENDED" => link[b].blocked \/ link[b].closed
  /\ purging[b] # "IDLE" => link[b].room # 0 /\ link[b].retention = "DELETING"
  /\ purging[b] \in {"HIDDEN", "EMPTIED"} => room[link[b].room].kind = "GONE"
  /\ purging[b] = "EMPTIED" => room[link[b].room].children = FALSE

InquiryOK == inquiry # 0 => room[inquiry].kind = "INQUIRY"

RoomsInv ==
  /\ RoomTypes
  /\ \A r \in Rooms : RoomOK(r)
  /\ \A b \in Bookings : BookingOK(b)
  /\ InquiryOK

LEMMA RoomsTyped ==
  ASSUME RoomTypes
  PROVE  /\ link \in [Bookings -> Link] /\ room \in [Rooms -> Room]
         /\ NoLink \in Link /\ NoRoom \in Room /\ 0 \notin Rooms
BY DEF RoomTypes, Link, Room, NoLink, NoRoom, Rooms

LEMMA InitRooms == RoomsInit => RoomsInv
<1> SUFFICES ASSUME RoomsInit PROVE RoomsInv
  OBVIOUS
<1>1. RoomTypes
  BY DEF RoomsInit, RoomTypes, NoLink, NoRoom, Rooms
<1>2. ASSUME NEW r \in Rooms PROVE RoomOK(r)
  BY DEF RoomsInit, RoomOK, NoRoom
<1>3. ASSUME NEW b \in Bookings PROVE BookingOK(b)
  BY DEF RoomsInit, BookingOK, NoLink
<1>4. InquiryOK
  BY DEF RoomsInit, InquiryOK
<1> QED BY <1>1, <1>2, <1>3, <1>4 DEF RoomsInv

\* What SQL does between the marks.
LEMMA StatusKeeps ==
  ASSUME RoomsInv, NEW b \in Bookings, Book(b) \/ EndFinish(b) \/ LapseReceipt(b)
  PROVE  RoomsInv'
<1>1. UNCHANGED <<link, room, inquiry, purging>>
  BY DEF Book, EndFinish, LapseReceipt
<1>2. /\ status' \in [Bookings -> {"NONE", "ACTIVE", "LAPSED", "ENDED"}] /\ ending' \in [Bookings -> BOOLEAN]
      /\ \A c \in Bookings : ending'[c] \/ status'[c] = "ENDED" => ending[c] \/ status[c] = "ENDED"
  BY ZenonT(60) DEF Book, EndFinish, LapseReceipt, RoomsInv, RoomTypes
<1>3. RoomTypes' /\ InquiryOK'
  BY <1>1, <1>2 DEF RoomsInv, RoomTypes, InquiryOK, Rooms
<1>4. ASSUME NEW r \in Rooms PROVE RoomOK(r)'
  BY <1>1 DEF RoomsInv, RoomOK
<1>5. ASSUME NEW c \in Bookings PROVE BookingOK(c)'
  BY <1>1, <1>2 DEF RoomsInv, BookingOK
<1> QED BY <1>3, <1>4, <1>5 DEF RoomsInv, Rooms

LEMMA MarkKeeps ==
  ASSUME RoomsInv, NEW b \in Bookings, EndBegin(b)
  PROVE  RoomsInv'
<1> USE RoomsTyped DEF RoomsInv
<1>1. /\ UNCHANGED <<status, room, inquiry, purging>>
      /\ ending' = [ending EXCEPT ![b] = TRUE] /\ link' \in [Bookings -> Link]
      /\ \A c \in Bookings : link'[c].room = link[c].room /\ link'[c].retention = link[c].retention
      /\ \A c \in Bookings : c # b => link'[c] = link[c]
      /\ link'[b].blocked = TRUE
  BY DEF EndBegin, Link
<1>2. RoomTypes' /\ InquiryOK'
  BY <1>1 DEF RoomTypes, InquiryOK, Rooms, Link
<1>3. ASSUME NEW r \in Rooms PROVE RoomOK(r)'
  BY <1>1, <1>3 DEF RoomOK, RoomTypes
<1>4. ASSUME NEW c \in Bookings PROVE BookingOK(c)'
  BY <1>1, <1>4 DEF BookingOK, RoomTypes
<1> QED BY <1>2, <1>3, <1>4 DEF Rooms

\* Messages and the age of inquiries: no room changes hands.
LEMMA MessagesKeep ==
  ASSUME RoomsInv, NEW r \in Rooms, Send(r) \/ GrowOld(r) \/ ExpireInquiry(r)
  PROVE  RoomsInv'
<1> USE RoomsTyped DEF RoomsInv
<1>1. /\ UNCHANGED <<status, ending, link, inquiry, purging>> /\ room' \in [Rooms -> Room]
      /\ \A q \in Rooms : /\ room'[q].kind = room[q].kind /\ room'[q].booking = room[q].booking
                          /\ room[q].kind = "GONE" => room'[q].children = room[q].children
  <2>1. CASE Send(r)
    BY <2>1, ZenonT(60) DEF Send, Writable, Room
  <2>2. CASE GrowOld(r)
    BY <2>2, ZenonT(60) DEF GrowOld, Room
  <2>3. CASE ExpireInquiry(r)
    BY <2>3, ZenonT(60) DEF ExpireInquiry, Room
  <2> QED BY <2>1, <2>2, <2>3
<1>2. RoomTypes' /\ InquiryOK'
  BY <1>1 DEF RoomTypes, InquiryOK, Rooms, Room
<1>3. ASSUME NEW q \in Rooms PROVE RoomOK(q)'
  BY <1>1, <1>3 DEF RoomOK, RoomTypes
<1>4. ASSUME NEW c \in Bookings PROVE BookingOK(c)'
  BY <1>1, <1>4 DEF BookingOK, RoomTypes
<1> QED BY <1>2, <1>3, <1>4 DEF Rooms

\* A new inquiry takes a room of its own.
LEMMA InquiryKeeps ==
  ASSUME RoomsInv, NEW r \in Rooms, EnsureInquiry(r)
  PROVE  RoomsInv'
<1> USE RoomsTyped, ChatRoomsAssumption DEF RoomsInv
<1>1. /\ UNCHANGED <<status, ending, link, purging>> /\ room' \in [Rooms -> Room] /\ inquiry' = r
      /\ room[r].kind = "NONE" /\ room'[r].kind = "INQUIRY" /\ room'[r].booking = 0
      /\ \A q \in Rooms \ {r} : /\ room'[q].kind = room[q].kind /\ room'[q].booking = room[q].booking
                                /\ room'[q].children = room[q].children
  BY DEF EnsureInquiry, NewRoom, NoRoom, Room
<1>2. RoomTypes' /\ InquiryOK'
  BY <1>1 DEF RoomTypes, InquiryOK, Rooms, Room
<1>3. ASSUME NEW q \in Rooms PROVE RoomOK(q)'
  BY <1>1, <1>3 DEF RoomOK, RoomTypes
<1>4. ASSUME NEW c \in Bookings PROVE BookingOK(c)'
  <2>1. link[c].room # r
    BY <1>1 DEF RoomOK, BookingOK
  <2> QED BY <1>1, <1>4, <2>1 DEF BookingOK, RoomTypes, Link
<1> QED BY <1>2, <1>3, <1>4 DEF Rooms

\* What a synchronisation reads: a room that is the booking's already, the
\* current inquiry, or none.
LEMMA SyncKeeps ==
  ASSUME RoomsInv, NEW b \in Bookings, Sync(b)
  PROVE  RoomsInv'
<1> USE RoomsTyped, ChatRoomsAssumption DEF RoomsInv
<1> DEFINE closed == status[b] # "ACTIVE" \/ link[b].closed
<1>1. /\ UNCHANGED <<status, ending, purging>> /\ ~ending[b] /\ purging[b] = "IDLE" /\ link[b].retention = "NONE"
  BY DEF Sync, RowFree, RoomTypes
<1>2. PICK r \in Rooms, before \in Room :
        /\ Synced(b, closed, r, before)
        /\ before.children = room[r].children \/ room[r].kind = "NONE"
        /\ \/ link[b].room = 0 /\ room[r].kind \in {"NONE", "INQUIRY"}
           \/ link[b].room = r
        /\ inquiry' = IF inquiry = r THEN 0 ELSE inquiry
  <2>1. CASE ~closed /\ Promotable(b)
    <3>1. inquiry \in Rooms /\ room[inquiry] \in Room /\ Synced(b, closed, inquiry, room[inquiry])
          /\ inquiry' = 0 /\ link[b].room = 0 /\ room[inquiry].kind = "INQUIRY"
      BY <2>1 DEF Sync, Promotable, RoomTypes
    <3> QED BY <3>1
  <2>2. CASE ~(~closed /\ Promotable(b))
    <3>1. inquiry' = inquiry
      BY <2>2 DEF Sync
    <3>2. CASE link[b].room = 0
      <4>1. PICK r \in Rooms : NewRoom(r) /\ Synced(b, closed, r, [NoRoom EXCEPT !.open = TRUE])
        BY <2>2, <3>2 DEF Sync
      <4>2. [NoRoom EXCEPT !.open = TRUE] \in Room /\ room[r].kind = "NONE" /\ inquiry # r
        BY <4>1 DEF NewRoom, NoRoom, Room, InquiryOK
      <4> QED BY <3>1, <3>2, <4>1, <4>2
    <3>3. CASE link[b].room # 0
      <4>1. PICK r \in Rooms : r = link[b].room /\ Synced(b, closed, r, room[r])
        BY <2>2, <3>3 DEF Sync
      <4>2. room[r] \in Room /\ inquiry # r
        BY <3>3, <4>1 DEF BookingOK, RoomOK, InquiryOK
      <4> QED BY <3>1, <4>1, <4>2
    <3> QED BY <3>2, <3>3
  <2> QED BY <2>1, <2>2
<1>3. /\ room' \in [Rooms -> Room] /\ link' \in [Bookings -> Link]
      /\ room'[r].kind = "BOOKING" /\ room'[r].booking = b
      /\ link'[b].room = r /\ link'[b].closed = closed
      /\ \A q \in Rooms \ {r} : room'[q] = room[q]
      /\ \A c \in Bookings \ {b} : link'[c] = link[c]
  <2> DEFINE new == [before EXCEPT !.kind = "BOOKING", !.booking = b, !.old = FALSE, !.open = ~closed /\ before.open]
             to == [NoLink EXCEPT !.room = r, !.closed = closed]
  <2>1. room' = [room EXCEPT ![r] = new] /\ link' = [link EXCEPT ![b] = to]
    BY <1>2 DEF Synced
  <2>2. new \in Room /\ new.kind = "BOOKING" /\ new.booking = b
    BY DEF Room, RoomTypes
  <2>3. to \in Link /\ to.room = r /\ to.closed = closed
    BY DEF NoLink, Link, RoomTypes
  <2> HIDE DEF new, to
  <2> QED BY <2>1, <2>2, <2>3
<1>4. RoomTypes' /\ InquiryOK'
  <2>1. inquiry' \in Rooms \cup {0}
    BY <1>2 DEF RoomTypes
  <2>2. RoomTypes'
    BY <1>1, <1>3, <2>1 DEF RoomTypes, Room, Link
  <2>3. inquiry' # 0 => inquiry' \in Rooms \ {r} /\ inquiry' = inquiry
    BY <1>2, <2>1
  <2>4. InquiryOK'
    BY <1>3, <2>3 DEF InquiryOK
  <2> QED BY <2>2, <2>4
<1>5. ASSUME NEW q \in Rooms PROVE RoomOK(q)'
  <2>1. CASE q = r
    BY <1>3, <2>1 DEF RoomOK
  <2>2. CASE q # r /\ room[q].booking # b
    BY <1>3, <2>2 DEF RoomOK, Room
  <2>3. CASE q # r /\ room[q].booking = b
    <3>1. room[q].kind \notin {"NONE", "INQUIRY", "BOOKING"} /\ ~(room[q].kind = "GONE" /\ room[q].children)
      BY <1>1, <1>2, <2>3 DEF RoomOK
    <3> QED BY <1>3, <2>3, <3>1 DEF RoomOK
  <2> QED BY <2>1, <2>2, <2>3
<1>6. ASSUME NEW c \in Bookings PROVE BookingOK(c)'
  <2>1. CASE c = b
    BY <1>1, <1>3, <2>1 DEF BookingOK
  <2>2. CASE c # b
    <3>1. link[c].room # r
      BY <1>2, <2>2 DEF BookingOK, RoomOK
    <3> QED BY <1>1, <1>3, <2>2, <3>1 DEF BookingOK, Link
  <2> QED BY <2>1, <2>2
<1> QED BY <1>4, <1>5, <1>6 DEF Rooms

\* The deletion begins: the link says so before anything goes.
LEMMA PurgeBeginKeeps ==
  ASSUME RoomsInv, NEW b \in Bookings, PurgeBegin(b)
  PROVE  RoomsInv'
<1> USE RoomsTyped, ChatRoomsAssumption DEF RoomsInv
<1> DEFINE r == link[b].room
<1>1. /\ UNCHANGED <<status, ending>> /\ purging[b] = "IDLE"
      /\ link' \in [Bookings -> Link] /\ link'[b].room = r /\ link'[b].closed = TRUE
      /\ r # 0 => link'[b].retention = "DELETING"
      /\ \A c \in Bookings \ {b} : link'[c] = link[c]
  <2> DEFINE deleted == [NoLink EXCEPT !.closed = TRUE, !.blocked = TRUE, !.retention = "DELETED"]
  <2> DEFINE deleting == [deleted EXCEPT !.room = r, !.retention = "DELETING"]
  <2>1. r \in Rooms \cup {0}
    BY DEF Link
  <2>2. /\ deleted \in Link /\ deleted.room = 0 /\ deleted.closed = TRUE
        /\ deleting \in Link /\ deleting.room = r /\ deleting.closed = TRUE /\ deleting.retention = "DELETING"
    BY <2>1 DEF NoLink, Link
  <2> HIDE DEF deleted, deleting
  <2>3. /\ UNCHANGED <<status, ending>> /\ purging[b] = "IDLE"
        /\ link' = [link EXCEPT ![b] = IF r = 0 THEN deleted ELSE deleting]
    BY DEF PurgeBegin, PurgeDue, RowFree, deleted, deleting
  <2> QED BY <2>2, <2>3
<1>2. /\ room' \in [Rooms -> Room] /\ inquiry' \in {inquiry, 0}
      /\ \A q \in Rooms : room'[q].kind = room[q].kind /\ room'[q].booking = room[q].booking /\ room'[q].children = room[q].children
      /\ purging' \in [Bookings -> {"IDLE", "MARKED", "HIDDEN", "EMPTIED"}]
      /\ \A c \in Bookings \ {b} : purging'[c] = purging[c]
      /\ purging'[b] = IF r = 0 THEN "IDLE" ELSE "MARKED"
  <2>1. CASE r = 0
    BY <1>1, <2>1 DEF PurgeBegin, RoomTypes
  <2>2. CASE r # 0
    <3>1. /\ purging' = [purging EXCEPT ![b] = "MARKED"] /\ inquiry' \in {inquiry, 0}
          /\ room' \in {room, [room EXCEPT ![r] = [@ EXCEPT !.open = FALSE, !.deleting = TRUE]]}
      BY <2>2 DEF PurgeBegin
    <3> DEFINE dying == [room[r] EXCEPT !.open = FALSE, !.deleting = TRUE]
    <3>2. r \in Rooms /\ room[r] \in Room
      BY <2>2 DEF Link
    <3>3. /\ dying \in Room
          /\ dying.kind = room[r].kind /\ dying.booking = room[r].booking /\ dying.children = room[r].children
      BY <3>2 DEF Room
    <3> HIDE DEF dying
    <3>4. room' \in {room, [room EXCEPT ![r] = dying]}
      BY <3>1 DEF dying
    <3>5. /\ room' \in [Rooms -> Room]
          /\ \A q \in Rooms : /\ room'[q].kind = room[q].kind /\ room'[q].booking = room[q].booking
                              /\ room'[q].children = room[q].children
      BY <3>2, <3>3, <3>4
    <3> QED BY <2>2, <3>1, <3>5 DEF RoomTypes
  <2> QED BY <2>1, <2>2
<1>3. RoomTypes' /\ InquiryOK'
  BY <1>1, <1>2 DEF RoomTypes, InquiryOK, Rooms, Room, Link
<1>4. ASSUME NEW q \in Rooms PROVE RoomOK(q)'
  BY <1>1, <1>2, <1>4 DEF RoomOK, Room
<1>5. ASSUME NEW c \in Bookings PROVE BookingOK(c)'
  <2>1. CASE c = b
    BY <1>1, <1>2, <2>1 DEF BookingOK, Link
  <2>2. CASE c # b
    BY <1>1, <1>2, <2>2 DEF BookingOK, Link
  <2> QED BY <2>1, <2>2
<1> QED BY <1>3, <1>4, <1>5 DEF Rooms

\* The room, and then what is below it, goes while the link stays.
LEMMA PurgeRoomKeeps ==
  ASSUME RoomsInv, NEW b \in Bookings, PurgeRoom(b) \/ PurgeChildren(b)
  PROVE  RoomsInv'
<1> USE RoomsTyped, ChatRoomsAssumption DEF RoomsInv
<1> DEFINE r == link[b].room
<1>1. /\ UNCHANGED <<status, ending, link, inquiry>> /\ purging[b] \in {"MARKED", "HIDDEN"}
      /\ purging' = [purging EXCEPT ![b] = IF purging[b] = "MARKED" THEN "HIDDEN" ELSE "EMPTIED"]
      /\ r \in Rooms /\ room[r].booking = b /\ link[b].retention = "DELETING"
  BY DEF PurgeRoom, PurgeChildren, BookingOK, Link
<1>2. /\ room' \in [Rooms -> Room] /\ room'[r].kind = "GONE" /\ room'[r].booking = b
      /\ purging[b] = "HIDDEN" => room'[r].children = FALSE
      /\ \A q \in Rooms \ {r} : room'[q] = room[q]
  <2> DEFINE gone == [room[r] EXCEPT !.kind = "GONE"]
  <2> DEFINE empty == [room[r] EXCEPT !.children = FALSE]
  <2>1. room[r] \in Room
    BY <1>1
  <2>2. /\ gone \in Room /\ gone.kind = "GONE" /\ gone.booking = b
        /\ empty \in Room /\ empty.kind = room[r].kind /\ empty.booking = b /\ empty.children = FALSE
    BY <1>1, <2>1 DEF Room
  <2> HIDE DEF gone, empty
  <2>3. CASE PurgeRoom(b)
    <3>1. room' = [room EXCEPT ![r] = gone] /\ purging[b] = "MARKED"
      BY <2>3 DEF PurgeRoom, gone
    <3> QED BY <1>1, <2>2, <3>1
  <2>4. CASE PurgeChildren(b)
    <3>1. room' = [room EXCEPT ![r] = empty] /\ room[r].kind = "GONE"
      BY <2>4 DEF PurgeChildren, empty, BookingOK
    <3> QED BY <1>1, <2>2, <3>1
  <2> QED BY <2>3, <2>4
<1>3. room[r].kind # "INQUIRY"
  BY <1>1 DEF RoomOK
<1>4. RoomTypes' /\ InquiryOK'
  BY <1>1, <1>2, <1>3 DEF RoomTypes, InquiryOK, Rooms, Room, Link
<1>5. ASSUME NEW q \in Rooms PROVE RoomOK(q)'
  BY <1>1, <1>2, <1>5 DEF RoomOK
<1>6. ASSUME NEW c \in Bookings PROVE BookingOK(c)'
  <2>1. CASE c = b
    BY <1>1, <1>2, <2>1 DEF BookingOK, RoomTypes
  <2>2. CASE c # b
    <3>1. link[c].room # r
      BY <1>1, <2>2 DEF BookingOK
    <3> QED BY <1>1, <1>2, <2>2, <3>1 DEF BookingOK, RoomTypes, Link
  <2> QED BY <2>1, <2>2
<1> QED BY <1>4, <1>5, <1>6 DEF Rooms

\* The deletion ends, or stops.
LEMMA PurgeEndKeeps ==
  ASSUME RoomsInv, NEW b \in Bookings, PurgeFinish(b) \/ PurgeCrash(b)
  PROVE  RoomsInv'
<1> USE RoomsTyped, ChatRoomsAssumption DEF RoomsInv
<1>1. UNCHANGED <<status, ending, room, inquiry>> /\ purging' = [purging EXCEPT ![b] = "IDLE"]
  BY DEF PurgeFinish, PurgeCrash
<1>2. CASE PurgeCrash(b)
  <2>1. link' = link
    BY <1>2 DEF PurgeCrash
  <2> QED BY <1>1, <2>1 DEF RoomTypes, RoomOK, BookingOK, InquiryOK, Rooms
<1>3. CASE PurgeFinish(b)
  <2>1. /\ link' \in [Bookings -> Link] /\ link'[b].room = 0
        /\ link'[b].closed = link[b].closed /\ link'[b].blocked = link[b].blocked
        /\ \A c \in Bookings \ {b} : link'[c] = link[c]
    BY <1>3 DEF PurgeFinish, Link
  <2>2. purging[b] = "EMPTIED"
    BY <1>3 DEF PurgeFinish
  <2>3. RoomTypes' /\ InquiryOK'
    BY <1>1, <2>1 DEF RoomTypes, InquiryOK, Rooms, Link
  <2>4. ASSUME NEW q \in Rooms PROVE RoomOK(q)'
    <3>1. CASE q = link[b].room
      BY <1>1, <2>2, <3>1 DEF RoomOK, BookingOK
    <3>2. CASE q # link[b].room
      BY <1>1, <2>1, <3>2 DEF RoomOK, RoomTypes
    <3> QED BY <3>1, <3>2
  <2>5. ASSUME NEW c \in Bookings PROVE BookingOK(c)'
    BY <1>1, <2>1, <2>5 DEF BookingOK, RoomTypes
  <2> QED BY <2>3, <2>4, <2>5 DEF Rooms
<1> QED BY <1>2, <1>3

LEMMA NextKeepsRooms ==
  ASSUME RoomsInv, RoomsNext PROVE RoomsInv'
<1>1. ASSUME NEW b \in Bookings,
             \/ Book(b) \/ EndBegin(b) \/ EndFinish(b) \/ LapseReceipt(b) \/ Sync(b)
             \/ PurgeBegin(b) \/ PurgeRoom(b) \/ PurgeChildren(b) \/ PurgeFinish(b) \/ PurgeCrash(b)
      PROVE  RoomsInv'
  BY <1>1, StatusKeeps, MarkKeeps, SyncKeeps, PurgeBeginKeeps, PurgeRoomKeeps, PurgeEndKeeps
<1>2. ASSUME NEW r \in Rooms, EnsureInquiry(r) \/ Send(r) \/ GrowOld(r) \/ ExpireInquiry(r)
      PROVE  RoomsInv'
  BY <1>2, MessagesKeep, InquiryKeeps
<1> QED BY <1>1, <1>2 DEF RoomsNext

LEMMA RoomsInvImplies ==
  ASSUME RoomsInv PROVE NoWritesAfterTheEnd /\ RoomsHaveOneOwner /\ NothingIsOrphaned
<1> USE RoomsTyped, ChatRoomsAssumption DEF RoomsInv
<1>1. NoWritesAfterTheEnd
  <2> SUFFICES ASSUME NEW b \in Bookings, NEW r \in Rooms, status[b] = "ENDED", room[r].booking = b
               PROVE  ~Writable(r)
    BY DEF NoWritesAfterTheEnd
  <2> QED BY DEF RoomOK, BookingOK, Writable
<1>2. RoomsHaveOneOwner
  BY DEF RoomsHaveOneOwner, RoomOK, BookingOK, InquiryOK, Link, Room
<1>3. NothingIsOrphaned
  BY DEF NothingIsOrphaned, RoomOK, Room
<1> QED BY <1>1, <1>2, <1>3

LEMMA InvariantOfRooms == RoomsSpec => []RoomsInv
<1>1. ASSUME RoomsInv, UNCHANGED roomVars PROVE RoomsInv'
  BY <1>1 DEF roomVars, RoomsInv, RoomTypes, RoomOK, BookingOK, InquiryOK, Rooms
<1>2. RoomsInv /\ [RoomsNext]_roomVars => RoomsInv'
  BY <1>1, NextKeepsRooms
<1> QED BY <1>2, InitRooms, PTL DEF RoomsSpec

\* From the commit that ends a booking on nobody writes into its room
\* (chat_core.py:153, db.py:67).
THEOREM EndedRoomsAreReadOnly == RoomsSpec => []NoWritesAfterTheEnd
BY InvariantOfRooms, RoomsInvImplies, PTL

\* A room belongs to one booking (chat_core.py:137).
THEOREM OneOwnerOfARoom == RoomsSpec => []RoomsHaveOneOwner
BY InvariantOfRooms, RoomsInvImplies, PTL

\* A deletion that was interrupted anywhere can go on (chat_core.py:292).
THEOREM DeletionsCanGoOn == RoomsSpec => []NothingIsOrphaned
BY InvariantOfRooms, RoomsInvImplies, PTL

-----------------------------------------------------------------------------
\* Side by side.

\* Running the services together adds nothing to any of them: each of the four
\* sees its own steps and stutters.
THEOREM ServicesAreApart == ServicesSpec => ShopsSpec /\ AccountsSpec /\ RoomsSpec /\ PushSpec
<1>1. ServicesInit => ShopsInit /\ AccountsInit /\ RoomsInit /\ PushInit
  BY DEF ServicesInit
<1>2. ASSUME [ServicesNext]_<<shopVars, accountVars, roomVars, pushVars, moving>>
      PROVE  [ShopsNext]_shopVars /\ [AccountsNext]_accountVars /\ [RoomsNext]_roomVars /\ [PushNext]_pushVars
  <2>1. CASE UNCHANGED <<shopVars, accountVars, roomVars, pushVars, moving>>
    BY <2>1
  <2>2. CASE ServicesNext
    BY <2>2 DEF ServicesNext
  <2> QED BY <1>2, <2>1, <2>2
<1> QED BY <1>1, <1>2, PTL DEF ServicesSpec, ShopsSpec, AccountsSpec, RoomsSpec, PushSpec

\* The rows and documents of all four hold what the code writes into them.
THEOREM ServicesAreTyped == ServicesSpec => []ServicesTypes
<1>1. AccountsInv => AccountTypes
  BY DEF AccountsInv
<1>2. RoomsInv => RoomTypes
  BY DEF RoomsInv
<1>3. ShopTypes /\ AccountTypes /\ RoomTypes /\ PushTypes => ServicesTypes
  BY DEF ServicesTypes
<1> QED
  BY <1>1, <1>2, <1>3, ServicesAreApart, ShopsAreTyped, InvariantOfAccounts, InvariantOfRooms, PushIsTyped, PTL

\* What each service promises, the whole system keeps: no step of another takes
\* it away.
THEOREM ServicesAreSafe ==
  ServicesSpec => [](/\ ChatIsBacked /\ ScopesAreDisjoint /\ GateHasRequest /\ ClosedShopsAreIdle
                     /\ RefreshTokensWork /\ WithdrawnStaysOut
                     /\ NoWritesAfterTheEnd /\ NothingIsOrphaned
                     /\ PushesAreBounded)
BY ServicesAreApart, ChatAccessIsBacked, RequestsAreDisjoint, GatesAreRequested, ClosedForGood,
   RefreshTokensAlwaysWork, WithdrawnAccountsStayOut, EndedRoomsAreReadOnly, DeletionsCanGoOn,
   DeliveriesAreBounded, PTL
=============================================================================
