---------------------------- MODULE Shops_proofs ----------------------------
(***************************************************************************)
(* Theorems about Shops, for any accounts, any tree of shops and any       *)
(* number of deletion requests.                                            *)
(***************************************************************************)
EXTENDS Shops, TLAPS

Row(r) == request[r]
Owner(r) == Row(r).owner

\* The owner of a request cannot lose the role but by its withdrawal, so that
\* the role tells whether the withdrawal took effect.
Stands(r) == Pending(r) /\ role[Owner(r)] # "NONE"
Gone(r) == \/ Row(r).state = "COMPLETED"
           \/ Pending(r) /\ role[Owner(r)] = "NONE"

NoRequestIsEmpty == \A r \in Requests : Row(r).state = "NONE" => Row(r) = NoRequest

OwnersBelong ==
  \A r \in Requests : Pending(r) =>
    Owner(r) \in MembersOf(r) /\ \A m \in MembersOf(r) : account[m] # "NONE"

\* Until then its scope can only grow.
OwnersStand ==
  \A r \in Requests : Stands(r) =>
    /\ Row(r).phase \in {"NONE", "WITHDRAWING"}
    /\ Gates(r) <=> role[Owner(r)] = "PRIMARY"
    /\ Gates(r) => SpotsOf(r) \subseteq Subtree(home[Owner(r)])

\* Afterwards nobody of it can come back: whoever is not the owner would have
\* to join the shop that is left, and that is gated.
Out(r, m) ==
  /\ role[m] = "NONE"
  /\ m = Owner(r) \/ account[m] = "ERASED" \/ (Gates(r) /\ home[m] \in SpotsOf(r))

MembersAreOut ==
  \A r \in Requests : Pending(r) /\ ~Stands(r) =>
    /\ Row(r).phase # "NONE"
    /\ \A m \in MembersOf(r) : Out(r, m)
    /\ Gates(r) => \A s \in SpotsOf(r) : gate[s] = r

GatesAreHeld ==
  \A s \in Spots : gate[s] # 0 =>
    /\ s \in made
    /\ \/ Row(gate[s]).state = "COMPLETED"
       \/ Pending(gate[s]) /\ Gates(gate[s]) /\ s \in SpotsOf(gate[s])

Idle(t) == ~open[t] /\ "BOOKING" \notin work[t] /\ Staff(t) = {}

GoneIsIdle == \A s \in Spots : gate[s] # 0 /\ Gone(gate[s]) => \A t \in Subtree(s) : Idle(t)

RequestInv ==
  /\ ScopesAreDisjoint /\ NoRequestIsEmpty /\ OwnersBelong
  /\ OwnersStand /\ MembersAreOut /\ GatesAreHeld

ShopsInv == ShopTypes /\ RequestInv /\ GoneIsIdle /\ ChatIsBacked

-----------------------------------------------------------------------------
\* The tree, the rows and the snapshots.

LEMMA Trees ==
  /\ 0 \notin Requests /\ NoSpot \notin Spots
  /\ \A s \in Spots : /\ Below[s] \subseteq Spots /\ s \in Below[s]
                      /\ Subtree(s) \subseteq made /\ Subtree(s) \subseteq Spots
                      /\ s \in made => s \in Subtree(s)
                      /\ \A t \in Subtree(s) : Subtree(t) \subseteq Subtree(s)
BY ShopsAssumption DEF Requests, Subtree

LEMMA Rows ==
  ASSUME ShopTypes, NEW r \in Requests
  PROVE  /\ Row(r) \in RequestRow /\ Owner(r) \in Admins
         /\ SpotsOf(r) \subseteq Spots /\ MembersOf(r) \subseteq Admins
         /\ NoRequest \in RequestRow
<1>1. Row(r) \in RequestRow
  BY DEF ShopTypes, Row
<1>2. Row(r).spots \in SUBSET (Spots \X BOOLEAN) /\ Row(r).members \in SUBSET (Admins \X AdminRoles)
  BY <1>1 DEF RequestRow
<1>3. NoRequest \in RequestRow
  BY ShopsAssumption DEF NoRequest, RequestRow, States, Scopes, NoScope
<1> QED BY <1>1, <1>2, <1>3 DEF RequestRow, Owner, SpotsOf, MembersOf, Row

Firsts(T) == {x[1] : x \in T}
Graph(S, f) == {<<s, f[s]>> : s \in S}

LEMMA FirstsOfAGraph == ASSUME NEW S, NEW f PROVE Firsts(Graph(S, f)) = S
<1> DEFINE T == {<<s, f[s]>> : s \in S}
<1>1. \A s \in S : <<s, f[s]>> \in T /\ <<s, f[s]>>[1] = s
  OBVIOUS
<1>2. \A x \in T : x[1] \in S
  OBVIOUS
<1> HIDE DEF T
<1>3. {x[1] : x \in T} = S
  BY <1>1, <1>2
<1> QED BY <1>3 DEF T, Firsts, Graph

\* capture() of an administrator.
LEMMA Snapshots ==
  ASSUME ShopTypes, NEW a \in Admins, role[a] # "NONE"
  PROVE  LET mine == Snapshot(a)
         IN /\ mine.scope \in {"SELF", "SUBTREE"} /\ (mine.scope = "SUBTREE" <=> role[a] = "PRIMARY")
            /\ mine.spots \in SUBSET (Spots \X BOOLEAN) /\ mine.members \in SUBSET (Admins \X AdminRoles)
            /\ Firsts(mine.spots) = IF role[a] = "PRIMARY" THEN Subtree(home[a]) ELSE {home[a]}
            /\ home[a] \in Firsts(mine.spots) /\ Firsts(mine.spots) \subseteq made
            /\ a \in Firsts(mine.members)
            /\ \A m \in Firsts(mine.members) : role[m] # "NONE" /\ home[m] \in Firsts(mine.spots)
            /\ role[a] # "PRIMARY" => Firsts(mine.members) = {a}
            /\ role[a] = "PRIMARY" =>
                 \A m \in Admins : role[m] # "NONE" /\ home[m] \in Firsts(mine.spots) => m \in Firsts(mine.members)
<1> DEFINE all == role[a] = "PRIMARY"
           spots == IF all THEN Subtree(home[a]) ELSE {home[a]}
           admins == IF all THEN UNION {Staff(s) : s \in spots} ELSE {a}
           mine == Snapshot(a)
<1>1. /\ mine.scope = (IF all THEN "SUBTREE" ELSE "SELF")
      /\ mine.spots = {<<s, open[s]>> : s \in spots} /\ mine.members = {<<m, role[m]>> : m \in admins}
  BY DEF Snapshot
<1>2. Firsts(mine.spots) = spots /\ Firsts(mine.members) = admins
  <2>1. mine.spots = Graph(spots, open) /\ mine.members = Graph(admins, role)
    BY <1>1 DEF Graph
  <2> HIDE DEF mine, spots, admins
  <2> QED BY <2>1, FirstsOfAGraph
<1>3. home[a] \in made /\ made \subseteq Spots
  BY DEF ShopTypes
<1>4. home[a] \in spots /\ spots \subseteq made /\ spots \subseteq Spots
  BY <1>3, Trees
<1>5. a \in admins /\ admins \subseteq Admins /\ \A m \in admins : role[m] # "NONE" /\ home[m] \in spots
  BY <1>4 DEF Staff
<1>6. \A m \in admins : role[m] \in AdminRoles
  BY <1>5 DEF ShopTypes
<1>7. mine.spots \in SUBSET (Spots \X BOOLEAN) /\ mine.members \in SUBSET (Admins \X AdminRoles)
  BY <1>1, <1>4, <1>5, <1>6 DEF ShopTypes
<1>8. all => \A m \in Admins : role[m] # "NONE" /\ home[m] \in spots => m \in admins
  BY DEF Staff
<1>9. mine.scope \in {"SELF", "SUBTREE"} /\ (mine.scope = "SUBTREE" <=> all)
  BY <1>1
<1>10. /\ home[a] \in Firsts(mine.spots) /\ Firsts(mine.spots) \subseteq made /\ a \in Firsts(mine.members)
       /\ \A m \in Firsts(mine.members) : role[m] # "NONE" /\ home[m] \in Firsts(mine.spots)
       /\ ~all => Firsts(mine.members) = {a}
       /\ all => \A m \in Admins : role[m] # "NONE" /\ home[m] \in Firsts(mine.spots) => m \in Firsts(mine.members)
  BY <1>2, <1>4, <1>5, <1>8
<1> HIDE DEF mine
<1> QED BY <1>2, <1>7, <1>9, <1>10 DEF mine

LEMMA InitShops == ShopsInit => ShopsInv
<1> SUFFICES ASSUME ShopsInit PROVE ShopsInv
  OBVIOUS
<1>1. ShopTypes
  BY ShopsAssumption DEF ShopsInit, ShopTypes, AdminRoles, RequestRow, NoRequest, States, Scopes, NoScope, Kinds
<1>2. \A r \in Requests : Row(r) = NoRequest /\ ~Pending(r) /\ Row(r).state = "NONE"
  BY DEF ShopsInit, Row, Pending, NoRequest
<1>3. RequestInv
  BY <1>2 DEF RequestInv, ScopesAreDisjoint, NoRequestIsEmpty, OwnersBelong, OwnersStand, MembersAreOut,
              GatesAreHeld, Stands, ShopsInit
<1>4. GoneIsIdle /\ ChatIsBacked
  BY DEF GoneIsIdle, ChatIsBacked, ShopsInit
<1> QED BY <1>1, <1>3, <1>4 DEF ShopsInv

-----------------------------------------------------------------------------
\* What almost every step leaves of the requests, the gates and the shops.

ScopesStay ==
  \A q \in Requests :
    /\ Row(q)'.owner = Row(q).owner /\ Row(q)'.scope = Row(q).scope
    /\ Row(q)'.spots = Row(q).spots /\ Row(q)'.members = Row(q).members
    /\ Pending(q)' <=> Pending(q)
    /\ Row(q)'.state = "COMPLETED" <=> Row(q).state = "COMPLETED"
    /\ Row(q).state = "NONE" => Row(q)' = Row(q)

PhasesAdvance ==
  \A q \in Requests :
    \/ Row(q)'.phase = Row(q).phase
    \/ Stands(q) /\ Row(q)'.phase = "WITHDRAWING"
    \/ ~Stands(q) /\ Row(q)'.phase # "NONE"

OwnersKeepTheirRole ==
  \A q \in Requests : Pending(q) =>
    /\ role'[Owner(q)] = role[Owner(q)]
    /\ Stands(q) => home'[Owner(q)] = home[Owner(q)]

NobodyReturns ==
  /\ \A m \in Admins : account[m] # "NONE" => account'[m] # "NONE"
  /\ \A q \in Requests : Pending(q) /\ ~Stands(q) => \A m \in MembersOf(q) : Out(q, m) => Out(q, m)'

GatesOnlyClose ==
  \A s \in Spots :
    \/ gate'[s] = gate[s]
    \/ /\ gate'[s] \in Requests /\ gate[s] = 0
       /\ Stands(gate'[s]) /\ Gates(gate'[s]) /\ s \in SpotsOf(gate'[s])

LEMMA ScopesStand ==
  ASSUME ShopTypes, ScopesStay
  PROVE  /\ \A q \in Requests : /\ Owner(q)' = Owner(q) /\ MembersOf(q)' = MembersOf(q) /\ SpotsOf(q)' = SpotsOf(q)
                                /\ Gates(q)' = Gates(q)
         /\ ScopesAreDisjoint => ScopesAreDisjoint'
         /\ NoRequestIsEmpty => NoRequestIsEmpty'
<1>1. \A q \in Requests : /\ Owner(q)' = Owner(q) /\ MembersOf(q)' = MembersOf(q) /\ SpotsOf(q)' = SpotsOf(q)
                          /\ Gates(q)' = Gates(q)
  BY DEF ScopesStay, Owner, Row, MembersOf, SpotsOf, Gates
<1>2. ScopesAreDisjoint => ScopesAreDisjoint'
  BY DEF ScopesStay, ScopesAreDisjoint, Disjoint, ScopeOf, Row, MembersOf, SpotsOf
<1>3. NoRequestIsEmpty => NoRequestIsEmpty'
  <2> SUFFICES ASSUME NoRequestIsEmpty, NEW q \in Requests, Row(q)'.state = "NONE" PROVE Row(q)' = NoRequest
    BY DEF NoRequestIsEmpty
  <2>1. ~Pending(q)' /\ Row(q)'.state # "COMPLETED"
    BY DEF Pending, Row
  <2>2. ~Pending(q) /\ Row(q).state # "COMPLETED"
    BY <2>1 DEF ScopesStay
  <2> QED BY <2>2 DEF ScopesStay, NoRequestIsEmpty, Pending, Row
<1> QED BY <1>1, <1>2, <1>3

LEMMA RequestsStand ==
  ASSUME ShopTypes, RequestInv, made \subseteq made',
         ScopesStay, PhasesAdvance, OwnersKeepTheirRole, NobodyReturns, GatesOnlyClose
  PROVE  /\ RequestInv'
         /\ \A q \in Requests : (Stands(q)' <=> Stands(q)) /\ (Gone(q)' <=> Gone(q))
<1> USE DEF RequestInv
<1>1. \A q \in Requests : /\ Owner(q)' = Owner(q) /\ MembersOf(q)' = MembersOf(q) /\ SpotsOf(q)' = SpotsOf(q)
                          /\ (Gates(q)' <=> Gates(q)) /\ (Pending(q)' <=> Pending(q))
  BY ScopesStand DEF ScopesStay
<1>2. \A q \in Requests : (Stands(q)' <=> Stands(q)) /\ (Gone(q)' <=> Gone(q))
  BY <1>1 DEF Stands, Gone, OwnersKeepTheirRole, ScopesStay
<1>3. ScopesAreDisjoint' /\ NoRequestIsEmpty'
  BY ScopesStand
<1>4. OwnersBelong'
  BY <1>1, Rows DEF OwnersBelong, NobodyReturns
<1>5. OwnersStand'
  <2> SUFFICES ASSUME NEW q \in Requests, Stands(q)'
               PROVE  /\ Row(q)'.phase \in {"NONE", "WITHDRAWING"}
                      /\ Gates(q)' <=> role'[Owner(q)'] = "PRIMARY"
                      /\ Gates(q)' => SpotsOf(q)' \subseteq Subtree(home[Owner(q)])'
    BY DEF OwnersStand
  <2>1. Stands(q) /\ Pending(q)
    BY <1>2 DEF Stands
  <2>2. Row(q)'.phase \in {"NONE", "WITHDRAWING"}
    BY <2>1 DEF OwnersStand, PhasesAdvance
  <2>3. Subtree(home[Owner(q)]) \subseteq Subtree(home[Owner(q)])'
    BY <2>1, <1>1 DEF Subtree, OwnersKeepTheirRole
  <2> QED BY <1>1, <2>1, <2>2, <2>3 DEF OwnersStand, OwnersKeepTheirRole
<1>6. MembersAreOut'
  <2> SUFFICES ASSUME NEW q \in Requests, Pending(q)', ~Stands(q)'
               PROVE  /\ Row(q)'.phase # "NONE"
                      /\ \A m \in MembersOf(q)' : Out(q, m)'
                      /\ Gates(q)' => \A s \in SpotsOf(q)' : gate'[s] = q
    BY DEF MembersAreOut
  <2>1. Pending(q) /\ ~Stands(q)
    BY <1>1, <1>2
  <2>2. Row(q)'.phase # "NONE"
    BY <2>1 DEF MembersAreOut, PhasesAdvance
  <2>3. \A m \in MembersOf(q)' : Out(q, m)'
    BY <2>1, <1>1 DEF MembersAreOut, NobodyReturns
  <2>4. ASSUME Gates(q)', NEW s \in SpotsOf(q)' PROVE gate'[s] = q
    BY <2>1, <2>4, <1>1, Trees, Rows DEF MembersAreOut, GatesOnlyClose
  <2> QED BY <2>2, <2>3, <2>4
<1>7. GatesAreHeld'
  <2> SUFFICES ASSUME NEW s \in Spots, gate'[s] # 0
               PROVE  /\ s \in made'
                      /\ \/ Row(gate[s])'.state = "COMPLETED"
                         \/ Pending(gate[s])' /\ Gates(gate[s])' /\ s \in SpotsOf(gate[s])'
    BY DEF GatesAreHeld
  <2>1. CASE gate'[s] = gate[s]
    <3>1. gate[s] \in Requests
      BY <2>1 DEF ShopTypes
    <3> QED BY <1>1, <2>1, <3>1 DEF GatesAreHeld, ScopesStay, Row, Pending, Gates, SpotsOf
  <2>2. CASE gate'[s] # gate[s]
    <3>1. PICK q \in Requests : q = gate'[s] /\ Stands(q) /\ Gates(q) /\ s \in SpotsOf(q)
      BY <2>2 DEF GatesOnlyClose
    <3>2. s \in made
      BY <3>1, Trees DEF OwnersStand, Subtree
    <3>3. Pending(q)' /\ Gates(q)' /\ s \in SpotsOf(q)'
      BY <1>1, <3>1 DEF Stands
    <3> QED BY <3>1, <3>2, <3>3 DEF Pending, Gates, SpotsOf
  <2> QED BY <2>1, <2>2
<1> QED BY <1>2, <1>3, <1>4, <1>5, <1>6, <1>7

\* No shop that is closed for good opens, gets bookings, members or a branch.
NothingReopens ==
  \A s \in Spots : gate[s] # 0 /\ Gone(gate[s]) =>
    \A t \in Subtree(s)' :
      /\ t \in Subtree(s)
      /\ open'[t] => open[t]
      /\ "BOOKING" \in work'[t] => "BOOKING" \in work[t] \/ open[t]
      /\ Staff(t)' \subseteq Staff(t) \/ open[t]

LEMMA IdleStays ==
  ASSUME ShopTypes, RequestInv, GoneIsIdle, GatesOnlyClose, NothingReopens,
         \A q \in Requests : Gone(q)' <=> Gone(q)
  PROVE  GoneIsIdle'
<1> SUFFICES ASSUME NEW s \in Spots, NEW t \in Subtree(s)', gate'[s] # 0, Gone(gate[s])'
             PROVE  Idle(t)'
  BY DEF GoneIsIdle
<1>1. gate'[s] \in Requests /\ gate'[s] = gate[s]
  <2>1. CASE gate'[s] = gate[s]
    BY <2>1 DEF ShopTypes
  <2>2. CASE gate'[s] # gate[s]
    <3>1. PICK q \in Requests : q = gate'[s] /\ Stands(q)
      BY <2>2 DEF GatesOnlyClose
    <3>2. Gone(q)'
      BY <3>1 DEF Gone, Row, Owner, Pending
    <3> QED BY <3>1, <3>2 DEF Gone, Stands, Pending, Row
  <2> QED BY <2>1, <2>2
<1>2. PICK q \in Requests : q = gate[s] /\ q = gate'[s]
  BY <1>1
<1>3. Gone(q)'
  BY <1>2 DEF Gone, Row, Owner, Pending
<1>4. gate[s] # 0 /\ Gone(gate[s])
  BY <1>2, <1>3
<1> QED BY <1>4 DEF GoneIsIdle, NothingReopens, Idle

\* Steps that are not about a request.
LEMMA MembersMove ==
  ASSUME ShopsInv, ShopTypes', request' = request, gate' = gate,
         made \subseteq made', OwnersKeepTheirRole, NobodyReturns, NothingReopens, ChatIsBacked'
  PROVE  ShopsInv'
<1> USE DEF ShopsInv
<1>1. ScopesStay /\ PhasesAdvance /\ GatesOnlyClose
  BY DEF ScopesStay, PhasesAdvance, GatesOnlyClose, Row, Pending
<1>2. RequestInv' /\ \A q \in Requests : Gone(q)' <=> Gone(q)
  BY <1>1, RequestsStand
<1>3. GoneIsIdle'
  BY <1>1, <1>2, IdleStays
<1> QED BY <1>2, <1>3

-----------------------------------------------------------------------------
\* Membership.

LEMMA Unowned ==
  ASSUME NEW a, Unclaimed(a), NEW q \in Requests, Pending(q)
  PROVE  Owner(q) # a
BY DEF Unclaimed, Owner, Row

LEMMA SignupKeeps ==
  ASSUME ShopsInv, NEW a \in Admins, NEW s \in Spots, SignupWithCode(a, s)
  PROVE  ShopsInv'
<1> USE DEF ShopsInv, SignupWithCode
<1>1. account[a] = "NONE" /\ role[a] = "NONE" /\ open[s] /\ s \in made
  BY DEF ShopTypes
<1>2. ShopTypes'
  BY <1>1 DEF ShopTypes, AdminRoles
<1>3. \A q \in Requests : Pending(q) => a \notin MembersOf(q)
  BY <1>1 DEF RequestInv, OwnersBelong
<1>4. OwnersKeepTheirRole
  BY <1>3 DEF OwnersKeepTheirRole, RequestInv, OwnersBelong, ShopTypes
<1>5. NobodyReturns
  <2>1. \A m \in Admins : account[m] # "NONE" => account'[m] # "NONE"
    BY DEF ShopTypes
  <2>2. ASSUME NEW q \in Requests, Pending(q), NEW m \in MembersOf(q), Out(q, m) PROVE Out(q, m)'
    <3>1. m \in Admins /\ m # a
      BY <1>3, <2>2, Rows
    <3>2. role'[m] = role[m] /\ home'[m] = home[m] /\ account'[m] = account[m]
      BY <3>1 DEF ShopTypes
    <3> QED BY <2>2, <3>2 DEF Out, Owner, Row, Gates, SpotsOf
  <2> QED BY <2>1, <2>2 DEF NobodyReturns
<1>6. NothingReopens
  BY <1>1 DEF NothingReopens, Subtree, Staff, ShopTypes
<1>7. ChatIsBacked'
  BY <1>1 DEF ChatIsBacked, ShopTypes
<1> QED BY <1>2, <1>4, <1>5, <1>6, <1>7, MembersMove

LEMMA ApplyKeeps ==
  ASSUME ShopsInv, NEW a \in Admins, NEW s \in Spots, Apply(a, s)
  PROVE  ShopsInv'
<1> USE DEF ShopsInv, Apply, shops
<1>1. ShopTypes'
  BY DEF ShopTypes
<1>2. OwnersKeepTheirRole /\ NothingReopens
  BY DEF OwnersKeepTheirRole, NothingReopens, Subtree, Staff
<1>3. NobodyReturns
  BY Rows DEF NobodyReturns, Out, Owner, Row, Gates, SpotsOf, ShopTypes
<1>4. ChatIsBacked'
  BY DEF ChatIsBacked
<1> QED BY <1>1, <1>2, <1>3, <1>4, MembersMove

\* Whoever is out of a request has no shop to be approved for.
LEMMA OutAreNotApproved ==
  ASSUME ShopsInv, NEW p \in Admins, NEW a \in Admins, NEW s \in Spots, Approve(p, a, s),
         NEW q \in Requests, Pending(q), ~Stands(q), a \in MembersOf(q)
  PROVE  FALSE
<1> USE DEF ShopsInv, Approve
<1>1. Out(q, a) /\ (Gates(q) => \A t \in SpotsOf(q) : gate[t] = q)
  BY DEF RequestInv, MembersAreOut
<1>2. home[a] \in SpotsOf(q) /\ Gates(q)
  BY <1>1, Unowned DEF Out
<1>3. home[a] \in Spots /\ home[a] = s
  BY <1>2, Rows, Trees
<1>4. gate[s] = q /\ q # 0
  BY <1>1, <1>2, <1>3, Trees
<1> QED BY <1>4 DEF Admits

LEMMA ApproveKeeps ==
  ASSUME ShopsInv, NEW p \in Admins, NEW a \in Admins, NEW s \in Spots, Approve(p, a, s)
  PROVE  ShopsInv'
<1> USE DEF ShopsInv, Approve, shops
<1>1. s \in made
  BY DEF Subtree
<1>2. ShopTypes'
  BY <1>1 DEF ShopTypes, AdminRoles, Decide
<1>3. OwnersKeepTheirRole
  BY Unowned DEF OwnersKeepTheirRole, ShopTypes
<1>4. NobodyReturns
  <2>1. ASSUME NEW q \in Requests, Pending(q), ~Stands(q), NEW m \in MembersOf(q), Out(q, m) PROVE Out(q, m)'
    <3>1. m \in Admins /\ m # a
      BY <2>1, OutAreNotApproved, Rows
    <3>2. role'[m] = role[m] /\ home'[m] = home[m] /\ account'[m] = account[m]
      BY <3>1 DEF ShopTypes
    <3> QED BY <2>1, <3>2 DEF Out, Owner, Row, Gates, SpotsOf
  <2> QED BY <2>1 DEF NobodyReturns
<1>5. NothingReopens
  BY DEF NothingReopens, Subtree, Staff, ShopTypes
<1>6. ChatIsBacked'
  BY DEF ChatIsBacked, ShopTypes
<1> QED BY <1>2, <1>3, <1>4, <1>5, <1>6, MembersMove

LEMMA ChangeRoleKeeps ==
  ASSUME ShopsInv, NEW p \in Admins, NEW a \in Admins, ChangeRole(p, a)
  PROVE  ShopsInv'
<1> USE DEF ShopsInv, ChangeRole, shops
<1>1. role[p] = "PRIMARY" /\ role[a] = "GENERAL"
  BY DEF Acts
<1>2. ShopTypes'
  BY <1>1 DEF ShopTypes, AdminRoles
<1>3. OwnersKeepTheirRole
  <2> SUFFICES ASSUME NEW q \in Requests, Pending(q) PROVE role'[Owner(q)] = role[Owner(q)]
    BY DEF OwnersKeepTheirRole
  <2>1. Owner(q) \in Admins \ {p, a}
    BY Unowned, Rows
  <2> QED BY <2>1 DEF ShopTypes
<1>4. NobodyReturns
  BY <1>1, Rows DEF NobodyReturns, Out, Owner, Row, Gates, SpotsOf, ShopTypes
<1>5. NothingReopens
  BY <1>1 DEF NothingReopens, Subtree, Staff, ShopTypes
<1>6. ChatIsBacked'
  BY <1>1 DEF ChatIsBacked, ShopTypes
<1> QED BY <1>2, <1>3, <1>4, <1>5, <1>6, MembersMove

LEMMA RemoveAdminKeeps ==
  ASSUME ShopsInv, NEW p \in Admins, NEW a \in Admins, RemoveAdmin(p, a)
  PROVE  ShopsInv'
<1> USE DEF ShopsInv, RemoveAdmin, shops
<1>1. ShopTypes'
  BY DEF ShopTypes, AdminRoles
<1>2. OwnersKeepTheirRole
  BY Unowned DEF OwnersKeepTheirRole, ShopTypes
<1>3. NobodyReturns
  BY Rows DEF NobodyReturns, Out, Owner, Row, Gates, SpotsOf, ShopTypes
<1>4. NothingReopens
  BY DEF NothingReopens, Subtree, Staff, ShopTypes
<1>5. ChatIsBacked'
  BY DEF ChatIsBacked, ShopTypes
<1> QED BY <1>1, <1>2, <1>3, <1>4, <1>5, MembersMove

LEMMA CreateSpotKeeps ==
  ASSUME ShopsInv, NEW p \in Admins, NEW parent \in Spots, NEW s \in Spots, CreateSpot(p, parent, s)
  PROVE  ShopsInv'
<1> USE DEF ShopsInv, CreateSpot, members
<1>1. ShopTypes'
  BY DEF ShopTypes
<1>2. OwnersKeepTheirRole /\ NobodyReturns
  BY DEF OwnersKeepTheirRole, NobodyReturns, Out, Owner, Row, Gates, SpotsOf
<1>3. NothingReopens
  <2> SUFFICES ASSUME NEW u \in Spots, gate[u] # 0, Gone(gate[u]), NEW t \in Subtree(u)'
               PROVE  /\ t \in Subtree(u) /\ (open'[t] => open[t]) /\ ("BOOKING" \in work'[t] => "BOOKING" \in work[t] \/ open[t])
                      /\ Staff(t)' \subseteq Staff(t) \/ open[t]
    BY DEF NothingReopens
  <2>1. u \in made /\ \A x \in Subtree(u) : ~open[x]
    BY DEF RequestInv, GatesAreHeld, GoneIsIdle, Idle
  <2>2. t # s
    <3> SUFFICES ASSUME s \in Below[u] PROVE FALSE
      BY DEF Subtree
    <3>1. parent \in Subtree(u)
      BY <2>1 DEF Subtree
    <3> QED BY <2>1, <3>1
  <2> QED BY <2>2 DEF Subtree, Staff, ShopTypes
<1>4. ChatIsBacked'
  BY DEF ChatIsBacked, ShopTypes
<1> QED BY <1>1, <1>2, <1>3, <1>4, MembersMove

LEMMA ChatKeeps ==
  ASSUME ShopsInv, NEW a \in Admins, OpenChat(a) \/ ChatLost(a)
  PROVE  ShopsInv'
<1> USE DEF ShopsInv, OpenChat, ChatLost, members, shops
<1>1. UNCHANGED <<members, shops, request>>
  OBVIOUS
<1>2. ShopTypes'
  BY DEF ShopTypes
<1>3. OwnersKeepTheirRole /\ NobodyReturns /\ NothingReopens
  BY <1>1 DEF OwnersKeepTheirRole, NobodyReturns, NothingReopens, Out, Owner, Row, Gates, SpotsOf, Subtree, Staff
<1>4. ChatIsBacked'
  BY DEF ChatIsBacked, ShopTypes
<1> QED BY <1>1, <1>2, <1>3, <1>4, MembersMove

LEMMA WorkKeeps ==
  ASSUME ShopsInv, NEW s \in Spots, NewWork(s) \/ EndWork(s) \/ PaidBack(s) \/ ReportedLate(s)
  PROVE  ShopsInv'
<1> USE DEF ShopsInv, members
<1>1. UNCHANGED <<members, made, open, invite, gate, chat, request>>
  BY DEF NewWork, EndWork, PaidBack, ReportedLate
<1>2. /\ work' \in [Spots -> SUBSET Kinds]
      /\ \A t \in Spots : "BOOKING" \in work'[t] => "BOOKING" \in work[t] \/ open[t]
  <2>1. PICK k \in SUBSET Kinds :
          work' = [work EXCEPT ![s] = k] /\ ("BOOKING" \in k => "BOOKING" \in work[s] \/ open[s])
    <3>1. work[s] \in SUBSET Kinds
      BY DEF ShopTypes
    <3>2. CASE NewWork(s)
      BY <3>1, <3>2 DEF NewWork, Kinds
    <3>3. CASE EndWork(s)
      BY <3>1, <3>3 DEF EndWork, Kinds
    <3>4. CASE PaidBack(s)
      BY <3>1, <3>4 DEF PaidBack
    <3>5. CASE ReportedLate(s)
      <4> DEFINE k == work[s] \cup {"REFUND"}
      <4>1. k \in SUBSET Kinds /\ ("BOOKING" \in k => "BOOKING" \in work[s])
        BY <3>1 DEF Kinds
      <4>2. work' = [work EXCEPT ![s] = k]
        BY <3>5 DEF ReportedLate
      <4> HIDE DEF k
      <4> QED BY <4>1, <4>2
    <3> QED BY <3>2, <3>3, <3>4, <3>5
  <2>2. work \in [Spots -> SUBSET Kinds]
    BY DEF ShopTypes
  <2>3. work' \in [Spots -> SUBSET Kinds]
    BY <2>1, <2>2
  <2>4. \A t \in Spots : work'[t] = IF t = s THEN k ELSE work[t]
    BY <2>1, <2>2
  <2> QED BY <2>1, <2>3, <2>4
<1>3. ShopTypes'
  BY <1>1, <1>2 DEF ShopTypes
<1>4. OwnersKeepTheirRole /\ NobodyReturns
  BY <1>1 DEF OwnersKeepTheirRole, NobodyReturns, Out, Owner, Row, Gates, SpotsOf
<1>5. NothingReopens
  BY <1>1, <1>2 DEF NothingReopens, Subtree, Staff, ShopTypes
<1>6. ChatIsBacked'
  BY <1>1 DEF ChatIsBacked
<1> QED BY <1>1, <1>3, <1>4, <1>5, <1>6, MembersMove

LEMMA RejectKeeps ==
  ASSUME ShopsInv, NEW p \in Admins, NEW a \in Admins, NEW s \in Spots, RejectApplicant(p, a, s)
  PROVE  ShopsInv'
<1> USE DEF ShopsInv, RejectApplicant, shops
<1>1. ShopTypes'
  BY DEF ShopTypes, Decide
<1>2. OwnersKeepTheirRole /\ NobodyReturns /\ NothingReopens
  BY DEF OwnersKeepTheirRole, NobodyReturns, NothingReopens, Out, Owner, Row, Gates, SpotsOf, Subtree, Staff
<1>3. ChatIsBacked'
  BY DEF ChatIsBacked
<1> QED BY <1>1, <1>2, <1>3, MembersMove

LEMMA DeleteOwnKeeps ==
  ASSUME ShopsInv, NEW a \in Admins, DeleteOwn(a)
  PROVE  ShopsInv'
<1> USE DEF ShopsInv
<1> DEFINE mine == Snapshot(a)
           leaving == Firsts(mine.members)
           closing == IF mine.scope = "SUBTREE" THEN Firsts(mine.spots) ELSE {}
<1>1. /\ role[a] # "NONE" /\ \A m \in leaving : Unclaimed(m)
      /\ Leave(leaving, closing)
      /\ UNCHANGED <<account, home, application, made, invite, gate, work, request>>
  BY DEF DeleteOwn, Acts, AdminRoles, Firsts
<1>2. \A m \in Admins : role[m] # "NONE" /\ home[m] \in closing => m \in leaving
  BY <1>1, Snapshots
<1> HIDE DEF leaving, closing
<1> USE DEF Leave
<1>3. ShopTypes'
  BY <1>1 DEF ShopTypes
<1>4. OwnersKeepTheirRole
  <2> SUFFICES ASSUME NEW q \in Requests, Pending(q) PROVE role'[Owner(q)] = role[Owner(q)]
    BY <1>1 DEF OwnersKeepTheirRole
  <2>1. Owner(q) \in Admins \ leaving
    BY <1>1, Unowned, Rows
  <2> QED BY <1>1, <2>1
<1>5. NobodyReturns
  BY <1>1, Rows DEF NobodyReturns, Out, Owner, Row, Gates, SpotsOf
<1>6. NothingReopens
  BY <1>1, Trees DEF NothingReopens, Subtree, Staff
<1>7. ChatIsBacked'
  <2> SUFFICES ASSUME NEW m \in Admins, chat'[m] # "NONE"
               PROVE  role'[m] # "NONE" /\ open'[home'[m]] /\ (chat'[m] = "REPLY" => role'[m] = "PRIMARY")
    BY DEF ChatIsBacked
  <2>1. m \notin leaving /\ chat[m] # "NONE" /\ chat'[m] = chat[m] /\ role'[m] = role[m]
    BY <1>1
  <2>2. role[m] # "NONE" /\ open[home[m]] /\ home[m] \in Spots
    BY <2>1 DEF ChatIsBacked, ShopTypes
  <2> QED BY <1>1, <1>2, <2>1, <2>2 DEF ChatIsBacked
<1> QED BY <1>1, <1>3, <1>4, <1>5, <1>6, <1>7, MembersMove

-----------------------------------------------------------------------------
\* A step of one request that is under way.

Phases == {"NONE", "WITHDRAWING", "WITHDRAWN", "CLEANED"}

\* A step that leaves the scope and the owner of the request as they are.
LEMMA RowChanges ==
  ASSUME ShopTypes, NEW r \in Requests, Pending(r),
         NEW new \in RequestRow, new.state \notin {"NONE", "COMPLETED"},
         new.owner = Row(r).owner, new.scope = Row(r).scope,
         new.spots = Row(r).spots, new.members = Row(r).members,
         request' = [request EXCEPT ![r] = new]
  PROVE  /\ ScopesStay /\ request' \in [Requests -> RequestRow]
         /\ Row(r)' = new
         /\ \A q \in Requests \ {r} : Row(q)' = Row(q)
<1>1. Row(r)' = new /\ \A q \in Requests \ {r} : Row(q)' = Row(q)
  BY DEF Row, ShopTypes
<1>2. request' \in [Requests -> RequestRow]
  BY DEF ShopTypes
<1>3. ScopesStay
  <2> SUFFICES ASSUME NEW q \in Requests
               PROVE  /\ Row(q)'.owner = Row(q).owner /\ Row(q)'.scope = Row(q).scope
                      /\ Row(q)'.spots = Row(q).spots /\ Row(q)'.members = Row(q).members
                      /\ Pending(q)' <=> Pending(q)
                      /\ Row(q)'.state = "COMPLETED" <=> Row(q).state = "COMPLETED"
                      /\ Row(q).state = "NONE" => Row(q)' = Row(q)
    BY DEF ScopesStay
  <2>1. CASE q = r
    BY <1>1, <2>1 DEF Pending, Row
  <2>2. CASE q # r
    BY <1>1, <2>2 DEF Pending, Row
  <2> QED BY <2>1, <2>2
<1> QED BY <1>1, <1>2, <1>3

LEMMA RowMoves ==
  ASSUME ShopTypes, NEW r \in Requests, Pending(r),
         NEW st \in States \ {"NONE", "COMPLETED"}, NEW ph \in Phases,
         request' = [request EXCEPT ![r] = [Row(r) EXCEPT !.state = st, !.phase = ph]]
  PROVE  /\ ScopesStay /\ request' \in [Requests -> RequestRow]
         /\ Row(r)'.state = st /\ Row(r)'.phase = ph
         /\ \A q \in Requests \ {r} : Row(q)' = Row(q)
<1> DEFINE new == [Row(r) EXCEPT !.state = st, !.phase = ph]
<1>1. Row(r) \in RequestRow
  BY Rows
<1>2. /\ new \in RequestRow /\ new.state = st /\ new.phase = ph
      /\ new.owner = Row(r).owner /\ new.scope = Row(r).scope
      /\ new.spots = Row(r).spots /\ new.members = Row(r).members
  BY <1>1 DEF RequestRow, Phases
<1>3. request' = [request EXCEPT ![r] = new]
  OBVIOUS
<1> HIDE DEF new
<1> QED BY <1>2, <1>3, RowChanges

LEMMA RequestMoves ==
  ASSUME ShopsInv, ShopTypes', ScopesStay, PhasesAdvance, GatesOnlyClose,
         made' = made, OwnersKeepTheirRole, NobodyReturns, NothingReopens, ChatIsBacked'
  PROVE  ShopsInv'
BY RequestsStand, IdleStays DEF ShopsInv

\* The worker, the clock and the operator, as far as they only move the state.
SetsState(r) ==
  AskAgain(r) \/ AskReview(r) \/ Defer(r) \/ Overdue(r) \/ Resume(r)

\* What an operator confirms to be settled is written beside it.
LEMMA StateWrites ==
  ASSUME ShopsInv, NEW r \in Requests, SetsState(r) \/ SettleExternal(r)
  PROVE  /\ ScopesStay /\ request' \in [Requests -> RequestRow]
         /\ \A q \in Requests : Row(q)'.phase = Row(q).phase
<1> USE DEF ShopsInv
<1>1. CASE SetsState(r)
  <2>1. PICK st \in States \ {"NONE", "COMPLETED"} : Pending(r) /\ SetState(r, st)
    BY <1>1 DEF SetsState, AskAgain, AskReview, Defer, Overdue, Resume, MayWithdraw, Processable,
           Pending, States, Waiting
  <2>2. request' = [request EXCEPT ![r] = [Row(r) EXCEPT !.state = st, !.phase = Row(r).phase]]
    BY <2>1, Rows DEF SetState, Row, RequestRow, ShopTypes
  <2>3. Row(r).phase \in Phases
    BY Rows DEF RequestRow, Phases
  <2> QED BY <2>1, <2>2, <2>3, RowMoves
<1>2. CASE SettleExternal(r)
  <2> DEFINE new == [Row(r) EXCEPT !.state = "PROCESSING", !.settled = ScopeOf(r)]
  <2>1. Row(r) \in RequestRow
    BY Rows
  <2>2. ScopeOf(r) \in Scopes
    BY <2>1 DEF ScopeOf, Scopes, RequestRow, Row
  <2>3. /\ new \in RequestRow /\ new.state = "PROCESSING" /\ new.phase = Row(r).phase
        /\ new.owner = Row(r).owner /\ new.scope = Row(r).scope
        /\ new.spots = Row(r).spots /\ new.members = Row(r).members
    BY <2>1, <2>2 DEF RequestRow, States
  <2>4. Pending(r) /\ request' = [request EXCEPT ![r] = new]
    BY <1>2 DEF SettleExternal, Row, ShopTypes
  <2> HIDE DEF new
  <2> QED BY <2>3, <2>4, RowChanges
<1> QED BY <1>1, <1>2

LEMMA StateKeeps ==
  ASSUME ShopsInv, NEW r \in Requests, SetsState(r) \/ SettleExternal(r)
  PROVE  ShopsInv'
<1> USE DEF ShopsInv
<1>1. UNCHANGED <<members, shops, chat>>
  BY DEF SetsState, AskAgain, AskReview, Defer, Overdue, Resume, SettleExternal
<1>5. /\ ScopesStay /\ request' \in [Requests -> RequestRow]
      /\ \A q \in Requests : Row(q)'.phase = Row(q).phase
  BY StateWrites
<1>6. ShopTypes'
  BY <1>1, <1>5 DEF ShopTypes, members, shops
<1>7. PhasesAdvance /\ GatesOnlyClose /\ OwnersKeepTheirRole /\ NothingReopens
  BY <1>1, <1>5 DEF PhasesAdvance, GatesOnlyClose, OwnersKeepTheirRole, NothingReopens, Subtree, Staff, members, shops
<1>8. NobodyReturns
  BY <1>1, <1>5, ScopesStand DEF NobodyReturns, Out, members
<1>9. ChatIsBacked'
  BY <1>1 DEF ChatIsBacked, members, shops
<1> QED BY <1>1, <1>5, <1>6, <1>7, <1>8, <1>9, RequestMoves DEF shops

-----------------------------------------------------------------------------
\* The withdrawal.

LEMMA Withdrawing ==
  ASSUME ShopsInv, NEW r \in Requests, MayWithdraw(r)
  PROVE  Pending(r) /\ (Resumed(r) <=> ~Stands(r))
<1> USE DEF ShopsInv, RequestInv
<1>1. Pending(r)
  BY DEF MayWithdraw, Processable, Pending
<1>2. Resumed(r) => ~Stands(r)
  BY <1>1 DEF Resumed, OwnersBelong, Stands
<1>3. ~Resumed(r) => Stands(r)
  BY <1>1 DEF MayWithdraw, Stands, Owner, Row
<1> QED BY <1>1, <1>2, <1>3

\* A scope that is still the one the owner confirmed.
LEMMA Confirmed ==
  ASSUME ShopsInv, NEW r \in Requests, Stands(r), Unchanged(r)
  PROVE  /\ SpotsOf(r) \subseteq made
         /\ Gates(r) => SpotsOf(r) = Subtree(home[Owner(r)]) /\ home[Owner(r)] \in Spots
         /\ \A m \in MembersOf(r) : home[m] \in SpotsOf(r)
         /\ ~Gates(r) => MembersOf(r) = {Owner(r)}
         /\ Gates(r) => \A m \in Admins : role[m] # "NONE" /\ home[m] \in SpotsOf(r) => m \in MembersOf(r)
<1> USE DEF ShopsInv
<1> DEFINE mine == Snapshot(Owner(r))
<1>1. mine.scope = Row(r).scope /\ mine.spots = Row(r).spots /\ mine.members = Row(r).members
  BY DEF Unchanged, ScopeOf, Owner, Row
<1>2. Firsts(mine.spots) = SpotsOf(r) /\ Firsts(mine.members) = MembersOf(r) /\ (Gates(r) <=> mine.scope = "SUBTREE")
  BY <1>1 DEF Firsts, SpotsOf, MembersOf, Gates, Row
<1>3. Owner(r) \in Admins /\ role[Owner(r)] # "NONE" /\ home[Owner(r)] \in Spots
  BY Rows DEF Stands, ShopTypes
<1>4. /\ mine.scope = "SUBTREE" <=> role[Owner(r)] = "PRIMARY"
      /\ Firsts(mine.spots) = IF role[Owner(r)] = "PRIMARY" THEN Subtree(home[Owner(r)]) ELSE {home[Owner(r)]}
      /\ Firsts(mine.spots) \subseteq made
      /\ \A m \in Firsts(mine.members) : home[m] \in Firsts(mine.spots)
      /\ role[Owner(r)] # "PRIMARY" => Firsts(mine.members) = {Owner(r)}
      /\ role[Owner(r)] = "PRIMARY" =>
           \A m \in Admins : role[m] # "NONE" /\ home[m] \in Firsts(mine.spots) => m \in Firsts(mine.members)
  BY <1>3, Snapshots
<1> HIDE DEF mine
<1> QED BY <1>2, <1>3, <1>4

LEMMA Gating ==
  ASSUME ShopsInv, NEW r \in Requests, Stands(r), GateFree(r), SetGate(r)
  PROVE  GatesOnlyClose /\ gate' \in [Spots -> Requests \cup {0}]
BY DEF GatesOnlyClose, GateFree, SetGate, ShopsInv, ShopTypes

LEMMA AwaitWorkKeeps ==
  ASSUME ShopsInv, NEW r \in Requests, AwaitWork(r)
  PROVE  ShopsInv'
<1> USE DEF ShopsInv
<1>1. UNCHANGED <<members, made, open, invite, work, chat>>
  BY DEF AwaitWork
<1>2. Pending(r) /\ Stands(r)
  BY Withdrawing DEF AwaitWork
<1>3. GatesOnlyClose /\ gate' \in [Spots -> Requests \cup {0}]
  BY <1>2, Gating DEF AwaitWork
<1>4. /\ Row(r).phase \in Phases
      /\ request' = [request EXCEPT ![r] = [Row(r) EXCEPT !.state = "WAITING_OBLIGATIONS", !.phase = Row(r).phase]]
  BY Rows DEF AwaitWork, SetState, Row, RequestRow, Phases, ShopTypes
<1>5. /\ ScopesStay /\ request' \in [Requests -> RequestRow]
      /\ \A q \in Requests : Row(q)'.phase = Row(q).phase
  BY <1>2, <1>4, RowMoves DEF States, Waiting
<1>6. ShopTypes'
  BY <1>1, <1>3, <1>5 DEF ShopTypes, members
<1>7. PhasesAdvance /\ OwnersKeepTheirRole /\ NothingReopens
  BY <1>1, <1>5 DEF PhasesAdvance, OwnersKeepTheirRole, NothingReopens, Subtree, Staff, members
<1>8. NobodyReturns
  BY <1>1, <1>5, ScopesStand DEF NobodyReturns, Out, members
<1>9. ChatIsBacked'
  BY <1>1 DEF ChatIsBacked, members
<1> QED BY <1>1, <1>3, <1>5, <1>6, <1>7, <1>8, <1>9, RequestMoves

LEMMA WithdrawFailsKeeps ==
  ASSUME ShopsInv, NEW r \in Requests, WithdrawFails(r)
  PROVE  ShopsInv'
<1> USE DEF ShopsInv
<1>1. UNCHANGED <<members, shops>>
  BY DEF WithdrawFails
<1>2. Pending(r) /\ Stands(r)
  BY Withdrawing DEF WithdrawFails
<1>3. \A a \in Admins : chat'[a] = chat[a] \/ chat'[a] = "NONE"
  BY DEF WithdrawFails
<1>4. chat' \in [Admins -> {"NONE", "READ", "REPLY"}]
  BY DEF WithdrawFails, ShopTypes
<1>5. request' = [request EXCEPT ![r] = [Row(r) EXCEPT !.state = "PROCESSING", !.phase = "WITHDRAWING"]]
  BY Rows DEF WithdrawFails, Row, RequestRow, ShopTypes
<1>6. /\ ScopesStay /\ request' \in [Requests -> RequestRow]
      /\ Row(r)'.phase = "WITHDRAWING" /\ \A q \in Requests \ {r} : Row(q)' = Row(q)
  BY <1>2, <1>5, RowMoves DEF States, Phases
<1>7. ShopTypes'
  BY <1>1, <1>4, <1>6 DEF ShopTypes, members, shops
<1>8. PhasesAdvance /\ GatesOnlyClose /\ OwnersKeepTheirRole /\ NothingReopens
  BY <1>1, <1>2, <1>6
     DEF PhasesAdvance, GatesOnlyClose, OwnersKeepTheirRole, NothingReopens, Subtree, Staff, members, shops
<1>9. NobodyReturns
  BY <1>1, <1>6, ScopesStand DEF NobodyReturns, Out, members
<1>10. ChatIsBacked'
  BY <1>1, <1>3 DEF ChatIsBacked, members, shops
<1> QED BY <1>1, <1>6, <1>7, <1>8, <1>9, <1>10, RequestMoves DEF shops

\* What a withdrawal writes into the request.
LEMMA WithdrawWrites ==
  ASSUME ShopsInv, NEW r \in Requests, Withdraw(r)
  PROVE  /\ ScopesStay /\ request' \in [Requests -> RequestRow]
         /\ Row(r)'.phase \in {"WITHDRAWN", "WITHDRAWING"}
         /\ \A q \in Requests \ {r} : Row(q)' = Row(q)
<1> USE DEF ShopsInv
<1>1. Pending(r)
  BY Withdrawing DEF Withdraw
<1>2. PICK ph \in {"WITHDRAWN", "WITHDRAWING"} :
        request' = [request EXCEPT ![r].state = "PROCESSING", ![r].phase = ph]
  BY DEF Withdraw
<1>3. request' = [request EXCEPT ![r] = [Row(r) EXCEPT !.state = "PROCESSING", !.phase = ph]]
  BY <1>2, Rows DEF Row, RequestRow, ShopTypes
<1> QED BY <1>1, <1>3, RowMoves DEF States, Phases

\* The run after one that could not record its withdrawal.
LEMMA ResumedKeeps ==
  ASSUME ShopsInv, NEW r \in Requests, Withdraw(r), Resumed(r)
  PROVE  ShopsInv'
<1> USE DEF ShopsInv
<1>1. Pending(r) /\ ~Stands(r) /\ \A m \in MembersOf(r) : role[m] = "NONE"
  BY Withdrawing DEF Withdraw, Resumed
<1>2. UNCHANGED <<account, home, application, made, invite, work, gate>>
  BY DEF Withdraw
<1> DEFINE closing == IF Gates(r) THEN SpotsOf(r) ELSE {}
<1>3. Leave(MembersOf(r), closing)
  BY DEF Withdraw
<1>4. \A s \in closing : gate[s] = r /\ s \in Spots
  BY <1>1, Rows DEF RequestInv, MembersAreOut
<1> HIDE DEF closing
<1>5. /\ role' = role /\ \A a \in Admins : chat'[a] = chat[a] \/ chat'[a] = "NONE"
      /\ \A s \in Spots : open'[s] <=> open[s] /\ s \notin closing
      /\ chat' \in [Admins -> {"NONE", "READ", "REPLY"}] /\ open' \in [Spots -> BOOLEAN]
  BY <1>1, <1>3 DEF Leave, ShopTypes
<1>6. ShopTypes'
  BY <1>2, <1>5, WithdrawWrites DEF ShopTypes
<1>7. /\ ScopesStay /\ PhasesAdvance /\ GatesOnlyClose /\ OwnersKeepTheirRole /\ NothingReopens
  <2>1. PhasesAdvance
    BY <1>1, WithdrawWrites DEF PhasesAdvance
  <2>2. NothingReopens
    BY <1>2, <1>5, Trees DEF NothingReopens, Subtree, Staff
  <2> QED BY <1>2, <1>5, <2>1, <2>2, WithdrawWrites DEF GatesOnlyClose, OwnersKeepTheirRole
<1>8. NobodyReturns
  BY <1>2, <1>5, <1>7, ScopesStand DEF NobodyReturns, Out
<1>9. ChatIsBacked'
  <2> SUFFICES ASSUME NEW a \in Admins, chat'[a] # "NONE" PROVE open'[home[a]]
    BY <1>2, <1>5 DEF ChatIsBacked
  <2>1. role[a] # "NONE" /\ open[home[a]] /\ home[a] \in made /\ home[a] \in Spots
    BY <1>5 DEF ChatIsBacked, ShopTypes
  <2>2. ASSUME home[a] \in closing PROVE FALSE
    <3>1. gate[home[a]] # 0 /\ Gone(gate[home[a]])
      BY <1>1, <1>4, <2>2, Trees DEF Gone, Stands
    <3> QED BY <2>1, <3>1, Trees DEF GoneIsIdle, Idle
  <2> QED BY <1>5, <2>1, <2>2
<1> QED BY <1>2, <1>6, <1>7, <1>8, <1>9, RequestMoves

\* Whoever is in one request is in no other one.
LEMMA Apart ==
  ASSUME ShopsInv, NEW r \in Requests, NEW q \in Requests, q # r, Pending(r), Pending(q)
  PROVE  MembersOf(r) \cap MembersOf(q) = {} /\ Owner(q) \notin MembersOf(r)
<1>1. MembersOf(r) \cap MembersOf(q) = {}
  BY DEF ShopsInv, RequestInv, ScopesAreDisjoint, Disjoint, ScopeOf, MembersOf
<1> QED BY <1>1 DEF ShopsInv, RequestInv, OwnersBelong

\* The run that withdraws.
LEMMA WithdrawKeeps ==
  ASSUME ShopsInv, NEW r \in Requests, Withdraw(r), ~Resumed(r)
  PROVE  ShopsInv'
<1> USE DEF ShopsInv
<1>1. Pending(r) /\ Stands(r) /\ Unchanged(r) /\ GateFree(r) /\ ~Busy(r) /\ SetGate(r)
  BY Withdrawing DEF Withdraw, Ready
<1>2. UNCHANGED <<account, home, application, made, invite, work>>
  BY DEF Withdraw
<1> DEFINE closing == IF Gates(r) THEN SpotsOf(r) ELSE {}
<1>3. Leave(MembersOf(r), closing)
  BY DEF Withdraw
<1>4. \A s \in closing : s \in made /\ "BOOKING" \notin work[s]
  BY <1>1, Confirmed DEF Busy, Outstanding
<1>5. \A m \in Admins : role[m] # "NONE" /\ home[m] \in closing => m \in MembersOf(r)
  BY <1>1, Confirmed
<1>6. \A s \in Spots : gate'[s] = IF s \in closing THEN r ELSE gate[s]
  BY <1>1 DEF SetGate
<1>7. \A s \in closing : s \in Spots /\ gate[s] \in {0, r} /\ Subtree(s) \subseteq closing
  BY <1>1, Confirmed, Rows, Trees DEF GateFree
<1>8. /\ Owner(r) \in MembersOf(r) /\ MembersOf(r) \subseteq Admins
      /\ \A m \in MembersOf(r) : home[m] \in SpotsOf(r)
      /\ ~Gates(r) => MembersOf(r) = {Owner(r)}
  BY <1>1, Confirmed, Rows DEF RequestInv, OwnersBelong
<1>9. /\ \A q \in Requests : /\ Owner(q)' = Owner(q) /\ MembersOf(q)' = MembersOf(q) /\ SpotsOf(q)' = SpotsOf(q)
                             /\ (Gates(q)' <=> Gates(q)) /\ (Pending(q)' <=> Pending(q))
      /\ ScopesAreDisjoint' /\ NoRequestIsEmpty'
  BY WithdrawWrites, ScopesStand DEF ScopesStay, RequestInv
<1>10. Gates(r) => closing = SpotsOf(r)
  OBVIOUS
<1>11. ~Gates(r) => closing = {}
  OBVIOUS
<1> HIDE DEF closing
<1>12. /\ \A m \in Admins : /\ role'[m] = IF m \in MembersOf(r) THEN "NONE" ELSE role[m]
                            /\ chat'[m] = IF m \in MembersOf(r) THEN "NONE" ELSE chat[m]
       /\ \A s \in Spots : open'[s] <=> open[s] /\ s \notin closing
  BY <1>3 DEF Leave
<1>13. ShopTypes'
  <2>1. gate' \in [Spots -> Requests \cup {0}]
    BY <1>1, Gating
  <2> QED BY <1>2, <1>3, <2>1, WithdrawWrites DEF ShopTypes, Leave
<1>14. ASSUME NEW q \in Requests, q # r
       PROVE  (Stands(q)' <=> Stands(q)) /\ (Gone(q)' <=> Gone(q)) /\ (Pending(q) => role'[Owner(q)] = role[Owner(q)])
  <2>1. Row(q)' = Row(q)
    BY <1>14, WithdrawWrites
  <2>2. Pending(q) => role'[Owner(q)] = role[Owner(q)]
    BY <1>1, <1>12, <1>14, Apart, Rows
  <2> QED BY <1>9, <2>1, <2>2 DEF Stands, Gone
<1>15. ~Stands(r)'
  BY <1>8, <1>9, <1>12 DEF Stands
<1>16. OwnersBelong'
  BY <1>2, <1>9 DEF RequestInv, OwnersBelong
<1>17. OwnersStand'
  <2> SUFFICES ASSUME NEW q \in Requests, Stands(q)'
               PROVE  /\ Row(q)'.phase \in {"NONE", "WITHDRAWING"}
                      /\ Gates(q)' <=> role'[Owner(q)'] = "PRIMARY"
                      /\ Gates(q)' => SpotsOf(q)' \subseteq Subtree(home[Owner(q)])'
    BY DEF OwnersStand
  <2>1. q # r /\ Row(q)' = Row(q) /\ Stands(q) /\ role'[Owner(q)] = role[Owner(q)]
    BY <1>14, <1>15, WithdrawWrites DEF Stands
  <2>2. Subtree(home[Owner(q)])' = Subtree(home[Owner(q)])
    BY <1>2, <1>9 DEF Subtree
  <2> QED BY <1>9, <2>1, <2>2 DEF RequestInv, OwnersStand
<1>18. MembersAreOut'
  <2> SUFFICES ASSUME NEW q \in Requests, Pending(q)', ~Stands(q)'
               PROVE  /\ Row(q)'.phase # "NONE"
                      /\ \A m \in MembersOf(q)' : Out(q, m)'
                      /\ Gates(q)' => \A s \in SpotsOf(q)' : gate'[s] = q
    BY DEF MembersAreOut
  <2>1. CASE q = r
    <3>1. \A m \in MembersOf(r) : role'[m] = "NONE" /\ (m = Owner(r) \/ (Gates(r) /\ home'[m] \in SpotsOf(r)))
      BY <1>2, <1>8, <1>12
    <3>2. \A m \in MembersOf(r)' : Out(r, m)'
      BY <1>9, <3>1 DEF Out
    <3>3. Gates(r)' => \A s \in SpotsOf(r)' : gate'[s] = r
      BY <1>6, <1>7, <1>9, <1>10
    <3> QED BY <2>1, <3>2, <3>3, WithdrawWrites
  <2>2. CASE q # r
    <3>1. Pending(q) /\ ~Stands(q) /\ Row(q)' = Row(q)
      BY <1>9, <1>14, <2>2, WithdrawWrites
    <3>2. \A m \in MembersOf(q) : Out(q, m) /\ m \in Admins
      BY <3>1, Rows DEF RequestInv, MembersAreOut
    <3>3. \A m \in MembersOf(q)' : Out(q, m)'
      BY <1>2, <1>9, <1>12, <3>2 DEF Out
    <3>4. Gates(q)' => \A s \in SpotsOf(q)' : gate'[s] = q
      BY <1>6, <1>7, <1>9, <2>2, <3>1, Rows, Trees DEF RequestInv, MembersAreOut
    <3> QED BY <3>1, <3>3, <3>4 DEF RequestInv, MembersAreOut
  <2> QED BY <2>1, <2>2
<1>19. GatesAreHeld'
  <2> SUFFICES ASSUME NEW s \in Spots, gate'[s] # 0
               PROVE  /\ s \in made'
                      /\ \/ Row(gate[s])'.state = "COMPLETED"
                         \/ Pending(gate[s])' /\ Gates(gate[s])' /\ s \in SpotsOf(gate[s])'
    BY DEF GatesAreHeld
  <2>1. CASE s \in closing
    <3>1. gate'[s] = r /\ Gates(r) /\ s \in SpotsOf(r)
      BY <1>6, <1>10, <1>11, <2>1
    <3>2. Pending(r)' /\ Gates(r)' /\ s \in SpotsOf(r)'
      BY <1>1, <1>9, <3>1
    <3> QED BY <1>2, <1>4, <2>1, <3>1, <3>2 DEF Pending, Gates, SpotsOf
  <2>2. CASE s \notin closing
    <3>1. PICK q \in Requests : q = gate[s] /\ q = gate'[s]
      BY <1>6, <2>2 DEF ShopTypes
    <3>2. s \in made /\ (Row(q).state = "COMPLETED" \/ (Pending(q) /\ Gates(q) /\ s \in SpotsOf(q)))
      BY <3>1 DEF RequestInv, GatesAreHeld
    <3>3. Row(q)'.state = "COMPLETED" \/ (Pending(q)' /\ Gates(q)' /\ s \in SpotsOf(q)')
      BY <1>9, <3>2, WithdrawWrites DEF ScopesStay
    <3> QED BY <1>2, <3>1, <3>2, <3>3 DEF Row, Pending, Gates, SpotsOf
  <2> QED BY <2>1, <2>2
<1>20. GoneIsIdle'
  <2> SUFFICES ASSUME NEW s \in Spots, NEW t \in Subtree(s)', gate'[s] # 0, Gone(gate[s])'
               PROVE  Idle(t)'
    BY DEF GoneIsIdle
  <2>1. t \in Subtree(s) /\ t \in Spots
    BY <1>2, Trees DEF Subtree
  <2>2. CASE t \in closing
    BY <1>2, <1>4, <1>5, <1>12, <2>1, <2>2 DEF Idle, Staff
  <2>3. CASE t \notin closing
    <3>1. s \notin closing
      BY <1>7, <2>1, <2>3
    <3>2. PICK q \in Requests : q = gate[s] /\ q = gate'[s]
      BY <1>6, <3>1 DEF ShopTypes
    <3>3. q # r
      BY <1>1, <1>10, <3>1, <3>2 DEF RequestInv, GatesAreHeld, Pending, Row
    <3>4. Gone(q)'
      BY <3>2 DEF Gone, Row, Owner, Pending
    <3>5. Idle(t)
      BY <1>14, <2>1, <3>2, <3>3, <3>4, Trees DEF GoneIsIdle
    <3> QED BY <1>2, <1>12, <2>1, <3>5 DEF Idle, Staff
  <2> QED BY <2>2, <2>3
<1>21. ChatIsBacked'
  <2> SUFFICES ASSUME NEW m \in Admins, chat'[m] # "NONE"
               PROVE  role'[m] # "NONE" /\ open'[home'[m]] /\ (chat'[m] = "REPLY" => role'[m] = "PRIMARY")
    BY DEF ChatIsBacked
  <2>1. m \notin MembersOf(r) /\ chat'[m] = chat[m] /\ role'[m] = role[m]
    BY <1>12
  <2>2. role[m] # "NONE" /\ open[home[m]] /\ home[m] \in Spots
    BY <2>1 DEF ChatIsBacked, ShopTypes
  <2> QED BY <1>2, <1>5, <1>12, <2>1, <2>2 DEF ChatIsBacked
<1> QED BY <1>9, <1>13, <1>16, <1>17, <1>18, <1>19, <1>20, <1>21 DEF RequestInv

LEMMA CleanKeeps ==
  ASSUME ShopsInv, NEW r \in Requests, Clean(r)
  PROVE  ShopsInv'
<1> USE DEF ShopsInv
<1>1. Pending(r) /\ ~Stands(r) /\ \A m \in MembersOf(r) : role[m] = "NONE"
  <2>1. Pending(r) /\ Row(r).phase = "WITHDRAWN"
    BY DEF Clean, Processable, Pending, Row
  <2> QED BY <2>1 DEF RequestInv, OwnersStand, MembersAreOut, Out
<1>2. UNCHANGED <<role, made, open, gate, work, chat>>
  BY DEF Clean
<1> DEFINE erased == MembersOf(r) \ Shared
<1>3. /\ account' = [a \in Admins |-> IF a \in erased THEN "ERASED" ELSE account[a]]
      /\ home' = [a \in Admins |-> IF a \in erased THEN NoSpot ELSE home[a]]
  BY DEF Clean
<1>4. \A m \in erased : m \in MembersOf(r)
  OBVIOUS
<1>5. /\ application' \in [Admins -> [Spots -> {"NONE", "REQUESTED", "APPROVED", "REJECTED"}]]
      /\ invite' \in [Spots -> BOOLEAN]
  BY DEF Clean, ShopTypes
<1>6. PICK ph \in {Row(r).phase, "CLEANED"} :
        request' = [request EXCEPT ![r] = [Row(r) EXCEPT !.state = Row(r).state, !.phase = ph]]
  <2>1. request' = request \/ request' = [request EXCEPT ![r].phase = "CLEANED"]
    BY DEF Clean
  <2>2. request = [request EXCEPT ![r] = [Row(r) EXCEPT !.state = Row(r).state, !.phase = Row(r).phase]]
    BY Rows DEF Row, RequestRow, ShopTypes
  <2>3. [request EXCEPT ![r].phase = "CLEANED"]
          = [request EXCEPT ![r] = [Row(r) EXCEPT !.state = Row(r).state, !.phase = "CLEANED"]]
    BY Rows DEF Row, RequestRow, ShopTypes
  <2> QED BY <2>1, <2>2, <2>3
<1>7. Row(r).state \in States \ {"NONE", "COMPLETED"} /\ Row(r).phase \in Phases /\ ph \in Phases
  BY <1>1, Rows DEF RequestRow, Phases, Pending, Row
<1>8. /\ ScopesStay /\ request' \in [Requests -> RequestRow]
      /\ Row(r)'.phase = ph /\ \A q \in Requests \ {r} : Row(q)' = Row(q)
  BY <1>1, <1>6, <1>7, RowMoves
<1> HIDE DEF erased
<1>9. ShopTypes'
  BY <1>1, <1>2, <1>3, <1>4, <1>5, <1>8 DEF ShopTypes
<1>10. PhasesAdvance /\ GatesOnlyClose
  BY <1>1, <1>2, <1>6, <1>8 DEF PhasesAdvance, GatesOnlyClose, RequestInv, MembersAreOut
<1>11. OwnersKeepTheirRole
  BY <1>1, <1>2, <1>3, <1>4, Rows DEF OwnersKeepTheirRole, Stands
<1>12. NobodyReturns
  <2>1. \A m \in Admins : account[m] # "NONE" => account'[m] # "NONE"
    BY <1>3
  <2>2. ASSUME NEW q \in Requests, Pending(q), NEW m \in MembersOf(q), Out(q, m) PROVE Out(q, m)'
    <3>1. m \in Admins /\ role'[m] = role[m] /\ (account'[m] = "ERASED" \/ (account'[m] = account[m] /\ home'[m] = home[m]))
      BY <1>2, <1>3, <2>2, Rows
    <3> QED BY <1>8, <2>2, <3>1, ScopesStand DEF Out
  <2> QED BY <2>1, <2>2 DEF NobodyReturns
<1>13. NothingReopens
  BY <1>2, <1>3, Trees DEF NothingReopens, Subtree, Staff
<1>14. ChatIsBacked'
  BY <1>1, <1>2, <1>3, <1>4 DEF ChatIsBacked
<1> QED BY <1>2, <1>8, <1>9, <1>10, <1>11, <1>12, <1>13, <1>14, RequestMoves

-----------------------------------------------------------------------------
\* A request begins, is confirmed once more, ends.

\* What a new row of one request leaves of the others.
LEMMA OthersStay ==
  ASSUME ShopsInv, NEW r \in Requests, NEW new, request' = [request EXCEPT ![r] = new],
         UNCHANGED <<members, made, open, invite, work, chat>>
  PROVE  /\ Row(r)' = new
         /\ \A q \in Requests \ {r} :
              /\ Row(q)' = Row(q) /\ Owner(q)' = Owner(q)
              /\ MembersOf(q)' = MembersOf(q) /\ SpotsOf(q)' = SpotsOf(q)
              /\ (Gates(q)' <=> Gates(q)) /\ (Pending(q)' <=> Pending(q))
              /\ (Stands(q)' <=> Stands(q)) /\ (Gone(q)' <=> Gone(q))
              /\ \A m \in MembersOf(q) : Out(q, m) => Out(q, m)'
         /\ \A s : Subtree(s)' = Subtree(s) /\ Staff(s)' = Staff(s) /\ (Idle(s) => Idle(s)')
         /\ ChatIsBacked'
<1>1. Row(r)' = new /\ \A q \in Requests \ {r} : Row(q)' = Row(q)
  BY DEF ShopsInv, ShopTypes, Row
<1>2. \A q \in Requests \ {r} :
        /\ Owner(q)' = Owner(q) /\ MembersOf(q)' = MembersOf(q) /\ SpotsOf(q)' = SpotsOf(q)
        /\ (Gates(q)' <=> Gates(q)) /\ (Pending(q)' <=> Pending(q))
  BY <1>1 DEF Owner, MembersOf, SpotsOf, Gates, Pending, Row
<1>3. \A q \in Requests \ {r} :
        /\ (Stands(q)' <=> Stands(q)) /\ (Gone(q)' <=> Gone(q))
        /\ \A m \in MembersOf(q) : Out(q, m) => Out(q, m)'
  BY <1>1, <1>2 DEF Stands, Gone, Out, members
<1>4. \A s : Subtree(s)' = Subtree(s) /\ Staff(s)' = Staff(s) /\ (Idle(s) => Idle(s)')
  BY DEF Subtree, Staff, Idle, members
<1>5. ChatIsBacked'
  BY DEF ChatIsBacked, ShopsInv, members
<1> QED BY <1>1, <1>2, <1>3, <1>4, <1>5

LEMMA FinishKeeps ==
  ASSUME ShopsInv, NEW r \in Requests, Finish(r)
  PROVE  ShopsInv'
<1> USE DEF ShopsInv
<1> DEFINE receipt == [NoRequest EXCEPT !.state = "COMPLETED"]
<1>1. UNCHANGED <<members, shops, chat>> /\ request' = [request EXCEPT ![r] = receipt]
  BY DEF Finish, LeaveReceipt
<1>2. receipt \in RequestRow /\ receipt.state = "COMPLETED"
  BY Rows DEF RequestRow, NoRequest, States
<1> HIDE DEF receipt
<1>3. ShopTypes'
  BY <1>1, <1>2 DEF ShopTypes, members, shops
<1>4. UNCHANGED <<members, made, open, invite, work, chat>> /\ gate' = gate
  BY <1>1 DEF shops
<1>5. Row(r)' = receipt /\ ~Pending(r)' /\ ~Stands(r)'
  BY <1>1, <1>2, <1>4, OthersStay DEF Pending, Row, Stands
<1>6. \A q \in Requests : Pending(q)' => q # r
  BY <1>5
<1>7. Gone(r)
  <2>1. Pending(r) /\ Row(r).phase = "CLEANED"
    BY DEF Finish, Processable, Pending, Row
  <2> QED BY <2>1 DEF RequestInv, OwnersStand, Gone, Stands
<1>8. ScopesAreDisjoint'
  <2>1. \A p, q \in Requests : p # q /\ Pending(p)' /\ Pending(q)' =>
          /\ Pending(p) /\ Pending(q) /\ Row(p)' = Row(p) /\ Row(q)' = Row(q)
    BY <1>1, <1>4, <1>6, OthersStay
  <2> QED BY <2>1 DEF RequestInv, ScopesAreDisjoint, Disjoint, ScopeOf, MembersOf, SpotsOf, Row
<1>9. NoRequestIsEmpty'
  BY <1>1, <1>2, <1>4, <1>5, OthersStay DEF RequestInv, NoRequestIsEmpty
<1>10. OwnersBelong'
  BY <1>1, <1>4, <1>6, OthersStay DEF RequestInv, OwnersBelong, members
<1>11. OwnersStand'
  BY <1>1, <1>4, <1>5, OthersStay DEF RequestInv, OwnersStand, members
<1>12. MembersAreOut'
  BY <1>1, <1>4, <1>6, OthersStay DEF RequestInv, MembersAreOut
<1>13. GatesAreHeld'
  <2> SUFFICES ASSUME NEW s \in Spots, gate'[s] # 0
               PROVE  /\ s \in made'
                      /\ \/ Row(gate[s])'.state = "COMPLETED"
                         \/ Pending(gate[s])' /\ Gates(gate[s])' /\ s \in SpotsOf(gate[s])'
    BY DEF GatesAreHeld
  <2>1. PICK q \in Requests : q = gate[s] /\ q = gate'[s]
    BY <1>4 DEF ShopTypes
  <2>2. s \in made /\ (Row(q).state = "COMPLETED" \/ (Pending(q) /\ Gates(q) /\ s \in SpotsOf(q)))
    BY <2>1 DEF RequestInv, GatesAreHeld
  <2>3. Row(q)'.state = "COMPLETED" \/ (Pending(q)' /\ Gates(q)' /\ s \in SpotsOf(q)')
    BY <1>1, <1>2, <1>4, <1>5, <2>2, OthersStay
  <2> QED BY <1>4, <2>1, <2>2, <2>3 DEF Row, Pending, Gates, SpotsOf
<1>14. GoneIsIdle'
  <2> SUFFICES ASSUME NEW s \in Spots, NEW t \in Subtree(s)', gate'[s] # 0, Gone(gate[s])'
               PROVE  Idle(t)'
    BY DEF GoneIsIdle
  <2>1. PICK q \in Requests : q = gate[s] /\ q = gate'[s]
    BY <1>4 DEF ShopTypes
  <2>2. Gone(q)'
    BY <2>1 DEF Gone, Row, Owner, Pending
  <2>3. Gone(q)
    BY <1>1, <1>4, <1>7, <2>2, OthersStay
  <2> QED BY <1>1, <1>4, <2>1, <2>3, OthersStay DEF GoneIsIdle
<1>15. ChatIsBacked'
  BY <1>1, <1>4, OthersStay
<1> QED BY <1>3, <1>8, <1>9, <1>10, <1>11, <1>12, <1>13, <1>14, <1>15 DEF RequestInv

\* A request that takes what its owner may close now, and shops that are gated
\* for it: a new one, or one that has not withdrawn.  The shops it was gated
\* for are among them.
LEMMA CaptureKeeps ==
  ASSUME ShopsInv, NEW r \in Requests, NEW a \in Admins, role[a] # "NONE",
         Row(r).state = "NONE" \/ (Stands(r) /\ Owner(r) = a),
         NEW ph \in {"NONE", "WITHDRAWING"}, NEW sc \in Scopes,
         request' = [request EXCEPT ![r] = [Accepted(a, Snapshot(a)) EXCEPT !.phase = ph, !.settled = sc]],
         UNCHANGED <<members, made, open, invite, work, chat>>,
         ScopeAllowed(Snapshot(a), r),
         gate' \in [Spots -> Requests \cup {0}],
         \A s \in Spots : \/ gate'[s] = gate[s]
                          \/ /\ gate'[s] = r /\ gate[s] \in {0, r}
                             /\ role[a] = "PRIMARY" /\ s \in Subtree(home[a])
  PROVE  ShopsInv'
<1> USE DEF ShopsInv
<1> DEFINE mine == Snapshot(a)
           new == [Accepted(a, mine) EXCEPT !.phase = ph, !.settled = sc]
<1>1. /\ mine.scope \in {"SELF", "SUBTREE"} /\ (mine.scope = "SUBTREE" <=> role[a] = "PRIMARY")
      /\ mine.spots \in SUBSET (Spots \X BOOLEAN) /\ mine.members \in SUBSET (Admins \X AdminRoles)
      /\ role[a] = "PRIMARY" => Firsts(mine.spots) = Subtree(home[a])
      /\ a \in Firsts(mine.members) /\ \A m \in Firsts(mine.members) : role[m] # "NONE"
  BY Snapshots
<1>2. /\ new.owner = a /\ new.scope = mine.scope /\ new.spots = mine.spots /\ new.members = mine.members
      /\ new.phase = ph /\ new.state \in {"WAITING_OBLIGATIONS", "PROCESSING"}
      /\ new \in RequestRow
  <2> HIDE DEF mine
  <2>1. Accepted(a, mine) \in RequestRow
    BY ONLY <1>1, a \in Admins DEF Accepted, NoRequest, NoScope, Scopes, RequestRow, States, Waiting
  <2>2. /\ Accepted(a, mine).owner = a /\ Accepted(a, mine).scope = mine.scope
        /\ Accepted(a, mine).spots = mine.spots /\ Accepted(a, mine).members = mine.members
        /\ Accepted(a, mine).state \in {"WAITING_OBLIGATIONS", "PROCESSING"}
    BY DEF Accepted, NoRequest
  <2> DEFINE accepted == Accepted(a, mine)
  <2> HIDE DEF accepted
  <2>3. accepted \in RequestRow => [accepted EXCEPT !.phase = ph, !.settled = sc] \in RequestRow
    BY DEF RequestRow
  <2> QED BY <2>1, <2>2, <2>3 DEF RequestRow, accepted
<1>3. request' = [request EXCEPT ![r] = new]
  OBVIOUS
<1>4. \A q \in Requests : Pending(q) /\ q # r => Disjoint(mine, q)
  BY DEF ScopeAllowed
<1> HIDE DEF new, mine
<1>5. Row(r)' = new /\ \A q \in Requests \ {r} : Row(q)' = Row(q)
  BY <1>3, OthersStay
<1>6. /\ Owner(r)' = a /\ Pending(r)' /\ Row(r)'.phase = ph
      /\ SpotsOf(r)' = Firsts(mine.spots) /\ MembersOf(r)' = Firsts(mine.members)
      /\ (Gates(r)' <=> role[a] = "PRIMARY") /\ Row(r)'.state \notin {"NONE", "COMPLETED"}
  BY <1>1, <1>2, <1>5 DEF Owner, Pending, SpotsOf, MembersOf, Gates, Firsts, Row
<1>7. Stands(r)' /\ ~Gone(r)'
  BY <1>6 DEF Stands, Gone, members
<1>8. ShopTypes'
  <2>1. request' \in [Requests -> RequestRow]
    BY <1>2, <1>3 DEF ShopTypes
  <2> QED BY <2>1 DEF ShopTypes, members
<1>9. ScopesAreDisjoint'
  <2>1. ASSUME NEW q \in Requests, q # r, Pending(q)'
        PROVE  /\ MembersOf(r)' \cap MembersOf(q)' = {}
               /\ Gates(r)' /\ Gates(q)' => SpotsOf(r)' \cap SpotsOf(q)' = {}
    <3>1. Pending(q) /\ MembersOf(q)' = MembersOf(q) /\ SpotsOf(q)' = SpotsOf(q) /\ (Gates(q)' <=> Gates(q))
      BY <1>3, <2>1, OthersStay
    <3>2. Disjoint(mine, q)
      BY <1>4, <2>1, <3>1
    <3> QED BY <1>1, <1>6, <3>1, <3>2 DEF Disjoint, Firsts, Gates, Row
  <2>2. ASSUME NEW p \in Requests, NEW q \in Requests, p # q, Pending(p)', Pending(q)'
        PROVE  /\ MembersOf(p)' \cap MembersOf(q)' = {}
               /\ Gates(p)' /\ Gates(q)' => SpotsOf(p)' \cap SpotsOf(q)' = {}
    <3>1. CASE p = r
      BY <2>1, <2>2, <3>1
    <3>2. CASE q = r
      BY <2>1, <2>2, <3>2
    <3>3. CASE p # r /\ q # r
      <4>1. /\ Pending(p) /\ Pending(q) /\ MembersOf(p)' = MembersOf(p) /\ MembersOf(q)' = MembersOf(q)
            /\ SpotsOf(p)' = SpotsOf(p) /\ SpotsOf(q)' = SpotsOf(q) /\ (Gates(p)' <=> Gates(p)) /\ (Gates(q)' <=> Gates(q))
        BY <1>3, <2>2, <3>3, OthersStay
      <4> QED BY <2>2, <4>1 DEF RequestInv, ScopesAreDisjoint, Disjoint, ScopeOf, Gates, MembersOf, SpotsOf
    <3> QED BY <3>1, <3>2, <3>3
  <2> QED BY <2>2 DEF ScopesAreDisjoint, Disjoint, ScopeOf, Gates, MembersOf, SpotsOf
<1>10. NoRequestIsEmpty'
  BY <1>5, <1>6 DEF RequestInv, NoRequestIsEmpty
<1>11. OwnersBelong'
  <2> SUFFICES ASSUME NEW q \in Requests, Pending(q)'
               PROVE  Owner(q)' \in MembersOf(q)' /\ \A m \in MembersOf(q)' : account'[m] # "NONE"
    BY DEF OwnersBelong
  <2>1. CASE q = r
    <3>1. \A m \in Firsts(mine.members) : m \in Admins
      BY <1>1 DEF Firsts
    <3>2. \A m \in Firsts(mine.members) : account[m] = "ACTIVE"
      BY <1>1, <3>1 DEF ShopTypes
    <3>3. account' = account
      BY DEF members
    <3> QED BY <1>1, <1>6, <2>1, <3>2, <3>3
  <2>2. CASE q # r
    <3>1. Pending(q) /\ Owner(q)' = Owner(q) /\ MembersOf(q)' = MembersOf(q)
      BY <1>3, <2>2, OthersStay
    <3> QED BY <3>1 DEF RequestInv, OwnersBelong, members
  <2> QED BY <2>1, <2>2
<1>12. OwnersStand'
  <2> SUFFICES ASSUME NEW q \in Requests, Stands(q)'
               PROVE  /\ Row(q)'.phase \in {"NONE", "WITHDRAWING"}
                      /\ Gates(q)' <=> role'[Owner(q)'] = "PRIMARY"
                      /\ Gates(q)' => SpotsOf(q)' \subseteq Subtree(home[Owner(q)])'
    BY DEF OwnersStand
  <2>1. CASE q = r
    <3>1. Subtree(home[Owner(r)])' = Subtree(home[a])
      BY <1>6 DEF Subtree, members
    <3> QED BY <1>1, <1>6, <2>1, <3>1 DEF members
  <2>2. CASE q # r
    <3>1. /\ Stands(q) /\ Row(q)' = Row(q) /\ Owner(q)' = Owner(q) /\ SpotsOf(q)' = SpotsOf(q)
          /\ (Gates(q)' <=> Gates(q))
      BY <1>3, <2>2, OthersStay
    <3>2. Subtree(home[Owner(q)])' = Subtree(home[Owner(q)])
      BY <3>1 DEF Subtree, members
    <3> QED BY <3>1, <3>2 DEF RequestInv, OwnersStand, members
  <2> QED BY <2>1, <2>2
<1>13. MembersAreOut'
  <2> SUFFICES ASSUME NEW q \in Requests, Pending(q)', ~Stands(q)'
               PROVE  /\ Row(q)'.phase # "NONE"
                      /\ \A m \in MembersOf(q)' : Out(q, m)'
                      /\ Gates(q)' => \A s \in SpotsOf(q)' : gate'[s] = q
    BY DEF MembersAreOut
  <2>1. q # r
    BY <1>7
  <2>2. /\ Pending(q) /\ ~Stands(q) /\ Row(q)' = Row(q) /\ SpotsOf(q)' = SpotsOf(q) /\ (Gates(q)' <=> Gates(q))
        /\ MembersOf(q)' = MembersOf(q) /\ \A m \in MembersOf(q) : Out(q, m) => Out(q, m)'
    BY <1>3, <2>1, OthersStay
  <2> QED BY <2>1, <2>2, Rows, Trees DEF RequestInv, MembersAreOut
<1>14. GatesAreHeld'
  <2> SUFFICES ASSUME NEW s \in Spots, gate'[s] # 0
               PROVE  /\ s \in made'
                      /\ \/ Row(gate[s])'.state = "COMPLETED"
                         \/ Pending(gate[s])' /\ Gates(gate[s])' /\ s \in SpotsOf(gate[s])'
    BY DEF GatesAreHeld
  <2>1. PICK q \in Requests : q = gate'[s]
    OBVIOUS
  <2>2. CASE q = r
    <3>1. role[a] = "PRIMARY" /\ s \in Subtree(home[a])
      <4>1. CASE gate[s] = r
        <5>1. Row(r).state = "COMPLETED" \/ (Pending(r) /\ Gates(r) /\ s \in SpotsOf(r))
          BY <4>1, Trees DEF RequestInv, GatesAreHeld
        <5>2. Stands(r) /\ Owner(r) = a /\ Gates(r) /\ s \in SpotsOf(r)
          BY <5>1 DEF Pending, Row, Stands
        <5> QED BY <5>2 DEF RequestInv, OwnersStand
      <4>2. CASE gate[s] # r
        BY <2>1, <2>2, <4>2
      <4> QED BY <4>1, <4>2
    <3>2. Pending(q)' /\ Gates(q)' /\ s \in SpotsOf(q)' /\ s \in made
      BY <1>1, <1>6, <2>2, <3>1 DEF Subtree
    <3> QED BY <2>1, <3>2 DEF Pending, Gates, SpotsOf
  <2>3. CASE q # r
    <3>1. gate[s] = q
      BY <2>1, <2>3
    <3>2. s \in made /\ (Row(q).state = "COMPLETED" \/ (Pending(q) /\ Gates(q) /\ s \in SpotsOf(q)))
      BY <3>1, Trees DEF RequestInv, GatesAreHeld
    <3>3. Row(q)'.state = "COMPLETED" \/ (Pending(q)' /\ Gates(q)' /\ s \in SpotsOf(q)')
      BY <1>3, <2>3, <3>2, OthersStay
    <3> QED BY <2>1, <3>2, <3>3 DEF Row, Pending, Gates, SpotsOf
  <2> QED BY <2>2, <2>3
<1>15. GoneIsIdle'
  <2> SUFFICES ASSUME NEW s \in Spots, NEW t \in Subtree(s)', gate'[s] # 0, Gone(gate[s])'
               PROVE  Idle(t)'
    BY DEF GoneIsIdle
  <2>1. PICK q \in Requests : q = gate'[s]
    OBVIOUS
  <2>2. Gone(q)' /\ q # r
    BY <1>7, <2>1 DEF Gone, Row, Owner, Pending
  <2>3. q = gate[s]
    BY <2>1, <2>2
  <2>4. Gone(q) /\ t \in Subtree(s) /\ (Idle(t) => Idle(t)')
    BY <1>3, <2>2, OthersStay
  <2> QED BY <2>3, <2>4, Trees DEF GoneIsIdle
<1>16. ChatIsBacked'
  BY <1>3, OthersStay
<1> QED BY <1>8, <1>9, <1>10, <1>11, <1>12, <1>13, <1>14, <1>15, <1>16 DEF RequestInv

LEMMA SubmitKeeps ==
  ASSUME ShopsInv, NEW a \in Admins, NEW r \in Requests, Submit(a, r)
  PROVE  ShopsInv'
<1> USE DEF ShopsInv
<1> DEFINE mine == Snapshot(a)
<1>1. /\ role[a] # "NONE" /\ ScopeAllowed(mine, r) /\ \A x \in mine.spots : gate[x[1]] \in {0, r}
      /\ request[r] = NoRequest /\ request' = [request EXCEPT ![r] = Accepted(a, mine)]
      /\ gate' = Gated(r, mine) \/ gate' = gate
      /\ UNCHANGED <<members, made, open, invite, work, chat>>
  BY DEF Submit, Store
<1>2. /\ mine.scope \in {"SELF", "SUBTREE"} /\ (mine.scope = "SUBTREE" <=> role[a] = "PRIMARY")
      /\ mine.spots \in SUBSET (Spots \X BOOLEAN) /\ mine.members \in SUBSET (Admins \X AdminRoles)
      /\ role[a] = "PRIMARY" => Firsts(mine.spots) = Subtree(home[a])
  BY <1>1, Snapshots
<1>3. Row(r).state = "NONE"
  BY <1>1 DEF Row, NoRequest
<1> HIDE DEF mine
<1>4. Accepted(a, mine) = [Accepted(a, mine) EXCEPT !.phase = "NONE", !.settled = NoScope] /\ NoScope \in Scopes
  <2>1. Accepted(a, mine).phase = "NONE" /\ Accepted(a, mine).settled = NoScope /\ NoScope \in Scopes
    BY DEF Accepted, NoRequest, NoScope, Scopes
  <2>2. Accepted(a, mine) \in RequestRow
    BY ONLY <1>2, a \in Admins DEF Accepted, NoRequest, NoScope, Scopes, RequestRow, States, Waiting
  <2> QED BY <2>1, <2>2 DEF RequestRow
<1>5. \A s \in Firsts(mine.spots) : gate[s] \in {0, r}
  BY <1>1 DEF Firsts
<1>6. /\ gate' \in [Spots -> Requests \cup {0}]
      /\ \A s \in Spots : \/ gate'[s] = gate[s]
                          \/ /\ gate'[s] = r /\ gate[s] \in {0, r}
                             /\ role[a] = "PRIMARY" /\ s \in Subtree(home[a])
  <2>1. CASE gate' = gate
    BY <2>1 DEF ShopTypes
  <2>2. CASE gate' = [s \in Spots |-> IF mine.scope = "SUBTREE" /\ s \in Firsts(mine.spots) THEN r ELSE gate[s]]
    BY <1>2, <1>5, <2>2 DEF ShopTypes
  <2> QED BY <1>1, <2>1, <2>2 DEF Gated, Firsts
<1> QED BY <1>1, <1>3, <1>4, <1>6, CaptureKeeps DEF mine

LEMMA ReconfirmKeeps ==
  ASSUME ShopsInv, NEW r \in Requests, Reconfirm(r)
  PROVE  ShopsInv'
<1> USE DEF ShopsInv
<1> DEFINE a == Owner(r)
           mine == Snapshot(a)
           regated == [s \in Spots |-> IF mine.scope = "SUBTREE" /\ s \in Firsts(mine.spots) THEN r
                                       ELSE IF gate[s] = r THEN 0 ELSE gate[s]]
<1>1. /\ Row(r).state = "WAITING_RECONFIRMATION" /\ role[a] # "NONE" /\ ScopeAllowed(mine, r)
      /\ \A x \in mine.spots : gate[x[1]] \in {0, r}
      /\ request' = [request EXCEPT ![r] = [Accepted(a, mine) EXCEPT !.phase = Row(r).phase,
                                                                       !.settled = Row(r).settled]]
      /\ gate' = regated \/ gate' = gate
      /\ UNCHANGED <<members, made, open, invite, work, chat>>
  BY DEF Reconfirm, Owner, Row, Firsts
<1>2. Stands(r) /\ a \in Admins
  BY <1>1, Rows DEF Stands, Pending, Row
<1>3. /\ mine.scope = "SUBTREE" <=> role[a] = "PRIMARY"
      /\ role[a] = "PRIMARY" => Firsts(mine.spots) = Subtree(home[a])
  BY <1>1, <1>2, Snapshots
<1>4. /\ Row(r).phase \in {"NONE", "WITHDRAWING"} /\ (Gates(r) <=> role[a] = "PRIMARY")
      /\ Gates(r) => SpotsOf(r) \subseteq Subtree(home[a])
  BY <1>2 DEF RequestInv, OwnersStand
<1>5. Row(r).settled \in Scopes
  BY Rows DEF RequestRow
<1> HIDE DEF mine, a
<1>6. \A s \in Firsts(mine.spots) : gate[s] \in {0, r}
  BY <1>1 DEF Firsts
\* No gated shop is left out.
<1>7. \A s \in Spots : gate[s] = r => role[a] = "PRIMARY" /\ s \in Firsts(mine.spots)
  <2> SUFFICES ASSUME NEW s \in Spots, gate[s] = r PROVE Gates(r) /\ s \in SpotsOf(r)
    BY <1>3, <1>4
  <2> QED BY <1>1, Trees DEF RequestInv, GatesAreHeld
<1>8. /\ gate' \in [Spots -> Requests \cup {0}]
      /\ \A s \in Spots : \/ gate'[s] = gate[s]
                          \/ /\ gate'[s] = r /\ gate[s] \in {0, r}
                             /\ role[a] = "PRIMARY" /\ s \in Subtree(home[a])
  <2>1. CASE gate' = gate
    BY <2>1 DEF ShopTypes
  <2>2. CASE gate' = regated
    BY <1>3, <1>6, <1>7, <2>2 DEF ShopTypes
  <2> QED BY <1>1, <2>1, <2>2
<1> QED BY <1>1, <1>2, <1>4, <1>8, <1>5, CaptureKeeps DEF mine, a

-----------------------------------------------------------------------------

LEMMA MemberStepKeeps == ShopsInv /\ MemberStep => ShopsInv'
<1> SUFFICES ASSUME ShopsInv, MemberStep PROVE ShopsInv'
  OBVIOUS
<1>1. ASSUME NEW a \in Admins, NEW s \in Spots, SignupWithCode(a, s) \/ Apply(a, s) PROVE ShopsInv'
  BY <1>1, SignupKeeps, ApplyKeeps
<1>2. ASSUME NEW p \in Admins, NEW a \in Admins, NEW s \in Spots, Approve(p, a, s) \/ RejectApplicant(p, a, s)
      PROVE  ShopsInv'
  BY <1>2, ApproveKeeps, RejectKeeps
<1>3. ASSUME NEW p \in Admins, NEW a \in Admins, ChangeRole(p, a) \/ RemoveAdmin(p, a) PROVE ShopsInv'
  BY <1>3, ChangeRoleKeeps, RemoveAdminKeeps
<1>4. ASSUME NEW a \in Admins, DeleteOwn(a) \/ OpenChat(a) \/ ChatLost(a) PROVE ShopsInv'
  BY <1>4, DeleteOwnKeeps, ChatKeeps
<1>5. ASSUME NEW p \in Admins, NEW parent \in Spots, NEW s \in Spots, CreateSpot(p, parent, s) PROVE ShopsInv'
  BY <1>5, CreateSpotKeeps
<1> QED BY <1>1, <1>2, <1>3, <1>4, <1>5 DEF MemberStep

LEMMA RequestStepKeeps == ShopsInv /\ RequestStep => ShopsInv'
<1> SUFFICES ASSUME ShopsInv, RequestStep PROVE ShopsInv'
  OBVIOUS
<1>1. ASSUME NEW a \in Admins, NEW r \in Requests, Submit(a, r) PROVE ShopsInv'
  BY <1>1, SubmitKeeps
<1>2. ASSUME NEW r \in Requests, Reconfirm(r) PROVE ShopsInv'
  BY <1>2, ReconfirmKeeps
<1>3. ASSUME NEW r \in Requests, SetsState(r) \/ SettleExternal(r) PROVE ShopsInv'
  BY <1>3, StateKeeps
<1>4. ASSUME NEW r \in Requests, AwaitWork(r) \/ WithdrawFails(r) PROVE ShopsInv'
  BY <1>4, AwaitWorkKeeps, WithdrawFailsKeeps
<1>5. ASSUME NEW r \in Requests, Withdraw(r) PROVE ShopsInv'
  BY <1>5, WithdrawKeeps, ResumedKeeps
<1>6. ASSUME NEW r \in Requests, Clean(r) \/ Finish(r) PROVE ShopsInv'
  BY <1>6, CleanKeeps, FinishKeeps
<1> QED BY <1>1, <1>2, <1>3, <1>4, <1>5, <1>6 DEF RequestStep, WorkerStep, SetsState

LEMMA StutterKeeps == ShopsInv /\ UNCHANGED shopVars => ShopsInv'
<1> SUFFICES ASSUME ShopsInv, UNCHANGED shopVars PROVE ShopsInv'
  OBVIOUS
<1> USE DEF ShopsInv, shopVars, shops, members
<1>1. ShopTypes' /\ ChatIsBacked'
  BY DEF ShopTypes, ChatIsBacked
<1>2. OwnersKeepTheirRole /\ NobodyReturns /\ NothingReopens
  BY DEF OwnersKeepTheirRole, NobodyReturns, NothingReopens, Out, Owner, Row, Gates, SpotsOf, Subtree, Staff
<1> QED BY <1>1, <1>2, MembersMove

LEMMA ShopsInvariant == ShopsSpec => []ShopsInv
<1>1. ShopsInv /\ [ShopsNext]_shopVars => ShopsInv'
  BY MemberStepKeeps, WorkKeeps, RequestStepKeeps, StutterKeeps DEF ShopsNext, WorkStep
<1> QED BY InitShops, <1>1, PTL DEF ShopsSpec

\* The tables and the documents hold what the code writes into them, and a
\* role is that of an active account in a shop that exists (management.py:71,
\* account_deletion_data.py: cleanup_sql()).
THEOREM ShopsAreTyped == ShopsSpec => []ShopTypes
<1>1. ShopsInv => ShopTypes
  BY DEF ShopsInv
<1> QED BY <1>1, ShopsInvariant, PTL

\* Whatever is rolled back, whoever leaves and whatever closes: chat access is
\* that of a member of an open shop, and only its representative answers
\* (chat.py:66, management.py:71).
THEOREM ChatAccessIsBacked == ShopsSpec => []ChatIsBacked
<1>1. ShopsInv => ChatIsBacked
  BY DEF ShopsInv
<1> QED BY <1>1, ShopsInvariant, PTL

\* Two requests under way never take the same person or close the same shop,
\* although members join and branches open while they wait
\* (pending_scope_allowed()).
THEOREM RequestsAreDisjoint == ShopsSpec => []ScopesAreDisjoint
<1>1. ShopsInv => ScopesAreDisjoint
  BY DEF ShopsInv, RequestInv
<1> QED BY <1>1, ShopsInvariant, PTL

\* No shop stays closed to new work without a stored request for it, whichever
\* of the two writes is lost (account_deletions.py:150).
THEOREM GatesAreRequested == ShopsSpec => []GateHasRequest
<1>1. ShopsInv => GateHasRequest
  BY DEF ShopsInv, RequestInv, GatesAreHeld, GateHasRequest, Row
<1> QED BY <1>1, ShopsInvariant, PTL

\* A request withdraws only what has nothing outstanding, and nothing comes
\* back to the shops it closed or to those below them, even when the run that
\* withdrew died before it could say so (account_deletion_scope.py:22,
\* account_deletion_jobs.py:85).
THEOREM ClosedForGood == ShopsSpec => []ClosedShopsAreIdle
<1>1. ASSUME ShopsInv, NEW r \in Requests, IsWithdrawn(r) PROVE Gone(r)
  <2> USE <1>1 DEF ShopsInv, RequestInv
  <2>1. CASE Row(r).state = "COMPLETED"
    BY <2>1 DEF Gone
  <2>2. CASE Row(r).phase \in {"WITHDRAWN", "CLEANED"}
    <3>1. Row(r).state # "NONE"
      BY <2>2 DEF NoRequestIsEmpty, NoRequest
    <3> QED BY <2>2, <3>1 DEF OwnersStand, Stands, Gone, Pending, Row
  <2>3. CASE Pending(r) /\ Resumed(r)
    BY <2>3 DEF Resumed, OwnersBelong, Gone
  <2> QED BY <1>1, <2>1, <2>2, <2>3 DEF IsWithdrawn, Row
<1>2. ShopsInv => ClosedShopsAreIdle
  <2> SUFFICES ASSUME ShopsInv, NEW s \in Spots, gate[s] # 0, IsWithdrawn(gate[s]), NEW t \in Subtree(s)
               PROVE  Idle(t)
    BY DEF ClosedShopsAreIdle, Idle
  <2>1. gate[s] \in Requests
    BY DEF ShopsInv, ShopTypes
  <2> QED BY <1>1, <2>1 DEF ShopsInv, GoneIsIdle
<1> QED BY <1>2, ShopsInvariant, PTL

=============================================================================
