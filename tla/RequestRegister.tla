-------------------------- MODULE RequestRegister --------------------------
(***************************************************************************)
(* What the durable on-site request outcomes promise to one customer who   *)
(* tries to make ONE purchase, under one request key after another: every  *)
(* key is decided at most once, a decision is permanent, an answer that    *)
(* calls itself final repeats the decision, and at most one key of the     *)
(* purchase is ever accepted.  OnsiteRequest implements it.                *)
(***************************************************************************)
EXTENDS Naturals

CONSTANT LastKey   \* how many request keys the customer may go through

VARIABLES
  decision,        \* the outcome of each key
  told             \* the answers the customer has received for each key

vars == <<decision, told>>

Keys == 1..LastKey
Final == {"ACCEPTED", "REJECTED"}
Answers == Final \cup {"PROCESSING", "UNKNOWN"}

Init ==
  /\ decision \in [Keys -> {"OPEN", "ACCEPTED"}]   \* bookings older than the register
  /\ \A j, k \in Keys : decision[j] = "ACCEPTED" /\ decision[k] = "ACCEPTED" => j = k
  /\ told = [k \in Keys |-> {}]

Accept(k) ==
  /\ decision[k] = "OPEN"
  /\ \A j \in Keys : decision[j] # "ACCEPTED"
  /\ decision' = [decision EXCEPT ![k] = "ACCEPTED"]
  /\ UNCHANGED told

Reject(k) ==
  /\ decision[k] = "OPEN"
  /\ decision' = [decision EXCEPT ![k] = "REJECTED"]
  /\ UNCHANGED told

Tell(k, a) ==
  /\ a \in Final => decision[k] = a
  /\ told' = [told EXCEPT ![k] = @ \cup {a}]
  /\ UNCHANGED decision

Next ==
  \E k \in Keys :
    \/ Accept(k)
    \/ Reject(k)
    \/ \E a \in Answers : Tell(k, a)

Spec == Init /\ [][Next]_vars
=============================================================================
