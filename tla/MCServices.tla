----------------------------- MODULE MCServices -----------------------------
(***************************************************************************)
(* The services around a booking.  They share no state, so one run checks  *)
(* them side by side: moving says which of them takes the steps.           *)
(***************************************************************************)
EXTENDS Shops, Accounts, ChatRooms, ChatPush

VARIABLE moving

MCBelow == <<{1, 2}, {2}>>

ServicesInit ==
  /\ ShopsInit /\ AccountsInit /\ RoomsInit /\ PushInit
  /\ moving \in {"SHOPS", "ACCOUNTS", "ROOMS", "PUSH"}
  /\ moving # "ACCOUNTS" => kind = "ADMIN"
  /\ moving # "PUSH" => event.from = "customer"

ServicesNext ==
  /\ UNCHANGED moving
  /\ \/ moving = "SHOPS" /\ ShopsNext /\ UNCHANGED <<accountVars, roomVars, pushVars>>
     \/ moving = "ACCOUNTS" /\ AccountsNext /\ UNCHANGED <<shopVars, roomVars, pushVars>>
     \/ moving = "ROOMS" /\ RoomsNext /\ UNCHANGED <<shopVars, accountVars, pushVars>>
     \/ moving = "PUSH" /\ PushNext /\ UNCHANGED <<shopVars, accountVars, roomVars>>

ServicesSpec == ServicesInit /\ [][ServicesNext]_<<shopVars, accountVars, roomVars, pushVars, moving>>

\* The rows and documents of the four hold what the code writes into them.
ServicesTypes == ShopTypes /\ AccountTypes /\ RoomTypes /\ PushTypes
=============================================================================
