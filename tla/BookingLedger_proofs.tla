------------------------ MODULE BookingLedger_proofs ------------------------
(***************************************************************************)
(* What follows from the ledger of a booking alone.                        *)
(***************************************************************************)
EXTENDS BookingLedger, TLAPS

Charged == {"NONE", "OPEN", "KEPT", "RETURNED"}

\* One payment at most is kept, it was made in time, and it stands behind the
\* delivery.
OneIsKept ==
  /\ \A p, q \in With("KEPT") : p = q
  /\ With("KEPT") \subseteq inTime
  /\ stage = "DELIVERED" => With("KEPT") # {}

\* Nothing is owed of a charge before it is settled, all of it when it is given
\* back, and of the payment a share when the booking has ended, not before.
OwesRightly ==
  \A p \in Payments :
    /\ charge[p] \in {"NONE", "OPEN"} => owed[p] = None
    /\ charge[p] = "RETURNED" => owed[p] = All
    /\ charge[p] = "KEPT" => IF stage = "ENDED" THEN owed[p] \in Shares ELSE owed[p] = None

LedgerInv ==
  /\ charge \in [Payments -> Charged] /\ owed \in [Payments -> Shares \cup {None, All}]
  /\ stage \in {"OPEN", "DELIVERED", "ENDED"}
  /\ OneIsKept /\ OwesRightly

\* A share of a settled charge is never changed, and what is owed never taken back.
OwesOnce ==
  \A p \in Payments : /\ charge[p] = "KEPT" => charge'[p] = "KEPT"
                      /\ charge[p] = "RETURNED" => charge'[p] = "RETURNED"
                      /\ owed[p] # None => owed'[p] = owed[p]

LEMMA LedgerStep ==
  ASSUME None \notin Shares, LedgerInv, [Next]_vars
  PROVE  LedgerInv' /\ (All # None => OwesOnce)
<1> USE DEF LedgerInv, OneIsKept, OwesRightly, OwesOnce, With, Charged
<1>1. ASSUME NEW p \in Payments, Charge(p) PROVE LedgerInv' /\ OwesOnce
  BY <1>1 DEF Charge
<1>2. ASSUME NEW p \in Payments, Refuse(p) PROVE LedgerInv' /\ OwesOnce
  BY <1>2 DEF Refuse
<1>3. ASSUME NEW p \in Payments, Keep(p) PROVE LedgerInv' /\ OwesOnce
  BY <1>3 DEF Keep
<1>4. ASSUME NEW p \in Payments, GiveBack(p) PROVE LedgerInv' /\ OwesOnce
  BY <1>4 DEF GiveBack
<1>5. ASSUME NEW share \in Shares, Cancel(share) PROVE LedgerInv' /\ OwesOnce
  BY <1>5 DEF Cancel
<1>6. CASE Deliver
  BY <1>6 DEF Deliver
<1>7. CASE Expire
  BY <1>7 DEF Expire
<1>8. CASE UNCHANGED vars
  BY <1>8 DEF vars
<1> QED BY <1>1, <1>2, <1>3, <1>4, <1>5, <1>6, <1>7, <1>8 DEF Next

LEMMA LedgerBegins == Init => LedgerInv
BY DEF Init, LedgerInv, OneIsKept, OwesRightly, With, Charged

LEMMA LedgerInvariant == ASSUME None \notin Shares PROVE Spec => []LedgerInv
<1>1. LedgerInv /\ [Next]_vars => LedgerInv'
  BY LedgerStep
<1> QED BY <1>1, LedgerBegins, PTL DEF Spec

\* One payment of a booking at most is kept, and a delivered booking is paid.
THEOREM OnePaymentIsKept == ASSUME None \notin Shares PROVE Spec => []OneIsKept
BY LedgerInvariant, PTL DEF LedgerInv

\* What is to be returned of a charge is decided once.
THEOREM SettledForGood == ASSUME None \notin Shares, All # None PROVE Spec => [][OwesOnce]_vars
<1>1. LedgerInv /\ [Next]_vars => [OwesOnce]_vars
  BY LedgerStep
<1> QED BY <1>1, LedgerInvariant, PTL DEF Spec
=============================================================================
