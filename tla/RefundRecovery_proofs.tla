------------------------ MODULE RefundRecovery_proofs ------------------------
(***************************************************************************)
(* Theorems about RefundRecovery, for any amounts and any number of        *)
(* identities, tries, dashboard refunds, callers and webhook deliveries.   *)
(*                                                                         *)
(* The properties compare sums over PayPal's refunds, so the module begins *)
(* with what sums are: the fold of the community modules is a recursive    *)
(* function, and a least subset on which a claim fails, of which there is  *)
(* none, takes the place of induction.                                     *)
(***************************************************************************)
EXTENDS RefundRecovery, FiniteSetTheorems, WellFoundedInduction, TLAPS

-----------------------------------------------------------------------------
\* Sums.

\* What the amounts of the refunds in ids add up to, in a list q of refunds.
SumIn(q, ids) == MapThenSumSet(LAMBDA i : q[i].amount, ids)

\* A set of subsets of a finite set has a least one, and a set of numbers too.
LEMMA LeastSubset ==
  ASSUME NEW S, IsFiniteSet(S), NEW T, T \subseteq SUBSET S, T # {}
  PROVE  \E A \in T : \A B \in T : B \subseteq A => B = A
<1>1. IsWellFoundedOn(StrictSubsetOrdering(S), SUBSET S)
  BY FS_StrictSubsetOrderingWellFounded, FS_FiniteSubsetsOfFinite
<1>2. PICK A \in T : \A B \in T : ~ (<<B, A>> \in StrictSubsetOrdering(S))
  BY <1>1, WFMin
<1> QED
  BY <1>2 DEF StrictSubsetOrdering

LEMMA LeastNumber ==
  ASSUME NEW T, T \subseteq Nat, T # {}
  PROVE  \E m \in T : \A n \in T : m <= n
<1>1. PICK k \in T : TRUE
  OBVIOUS
<1> DEFINE Below == {n \in T : n <= k}
           Intervals == {0..n : n \in Below}
<1>2. IsFiniteSet(0..k)
  BY <1>1, FS_Interval
<1>3. Intervals \subseteq SUBSET (0..k) /\ Intervals # {}
  BY <1>1
<1>4. PICK A \in Intervals : \A B \in Intervals : B \subseteq A => B = A
  <2> DEFINE S == 0..k
  <2>1. IsFiniteSet(S) /\ Intervals \subseteq SUBSET S /\ Intervals # {}
    BY <1>2, <1>3
  <2> HIDE DEF Intervals, S
  <2> QED
    BY <2>1, LeastSubset
<1>5. PICK m \in Below : A = 0..m
  BY <1>4
<1>6. ASSUME NEW n \in Below, n < m
      PROVE  FALSE
  <2>1. 0..n \in Intervals /\ 0..n \subseteq 0..m
    BY <1>6, <1>5
  <2>2. 0..n = 0..m
    BY <2>1, <1>4, <1>5
  <2> QED
    BY <2>2, <1>6
<1> QED
  BY <1>1, <1>5, <1>6

LEMMA SumOfIsSumIn ==
  ASSUME NEW ids
  PROVE  SumOf(ids) = SumIn(refunds, ids)
  BY DEF SumOf, SumIn

\* What the fold picks from a set.
Chosen(ids) == CHOOSE i \in ids : TRUE

\* F adds up the amounts of q over the subset ids of its domain.
Adds(q, F, ids) ==
  F[ids] = IF ids = {} THEN 0 ELSE q[Chosen(ids)].amount + F[ids \ {Chosen(ids)}]

\* F is the recursive function of the fold over S.
Adder(q, S, F) ==
  F = [s \in SUBSET S |-> IF s = {} THEN 0 ELSE q[Chosen(s)].amount + F[s \ {Chosen(s)}]]

\* The fold exists: for subsets of at most n elements by the least n for which
\* it would not, hence for all of S.
LEMMA SumInIsAdded ==
  ASSUME NEW q, NEW S
  PROVE  SumIn(q, S) = (CHOOSE F : Adder(q, S, F))[S]
  BY DEF SumIn, MapThenSumSet, MapThenFoldSet, Chosen, Adder

LEMMA AdderExists ==
  ASSUME NEW q, NEW S, IsFiniteSet(S)
  PROVE  \E F : Adder(q, S, F)
<1> DEFINE Missing == {n \in Nat : ~ \E F : \A s \in SUBSET S : Cardinality(s) <= n => Adds(q, F, s)}
<1>0. \A s \in SUBSET S : /\ IsFiniteSet(s) /\ Cardinality(s) \in Nat
                          /\ (Cardinality(s) = 0) <=> (s = {})
  BY FS_Subset, FS_CardinalityType, FS_EmptySet
<1>1. ASSUME NEW s \in SUBSET S, s # {}
      PROVE  /\ Chosen(s) \in s
             /\ Cardinality(s \ {Chosen(s)}) = Cardinality(s) - 1
  <2>1. Chosen(s) \in s
    BY <1>1 DEF Chosen
  <2> QED
    BY <1>0, <2>1, FS_RemoveElement
<1>2. Missing = {}
  <2> SUFFICES ASSUME Missing # {}
               PROVE  FALSE
    OBVIOUS
  <2>1. PICK m \in Missing : \A n \in Missing : m <= n
    <3> HIDE DEF Missing
    <3>1. Missing \subseteq Nat
      BY DEF Missing
    <3> QED
      BY <3>1, LeastNumber
  <2>2. CASE m = 0
    <3> DEFINE F == [s \in SUBSET S |-> 0]
    <3>1. ASSUME NEW s \in SUBSET S, Cardinality(s) <= 0
          PROVE  Adds(q, F, s)
      <4>1. s = {}
        BY <1>0, <3>1
      <4> QED
        BY <4>1 DEF Adds
    <3> QED
      BY <2>2, <3>1
  <2>3. CASE m # 0
    <3>1. m - 1 \in Nat /\ m - 1 \notin Missing
      BY <2>1, <2>3
    <3>2. PICK F : \A s \in SUBSET S : Cardinality(s) <= m - 1 => Adds(q, F, s)
      BY <3>1
    <3> DEFINE G == [s \in SUBSET S |-> IF Cardinality(s) <= m - 1 THEN F[s]
                                        ELSE q[Chosen(s)].amount + F[s \ {Chosen(s)}]]
    <3>3. ASSUME NEW s \in SUBSET S, Cardinality(s) <= m
          PROVE  Adds(q, G, s)
      <4>1. CASE s = {}
        <5>1. Cardinality(s) <= m - 1
          BY <1>0, <4>1, <3>1
        <5>2. F[s] = 0
          BY <5>1, <4>1, <3>2 DEF Adds
        <5>3. G[s] = F[s]
          BY <5>1
        <5> QED
          BY <5>2, <5>3, <4>1 DEF Adds
      <4>2. CASE s # {}
        <5> DEFINE r == s \ {Chosen(s)}
        <5>1. r \in SUBSET S /\ Cardinality(r) <= m - 1
          BY <1>0, <1>1, <3>3, <4>2, <3>1
        <5>2. G[r] = F[r]
          BY <5>1
        <5>3. G[s] = q[Chosen(s)].amount + F[r]
          <6>1. CASE Cardinality(s) <= m - 1
            <7>1. F[s] = q[Chosen(s)].amount + F[r]
              BY <6>1, <3>2, <4>2 DEF Adds
            <7> QED
              BY <7>1, <6>1
          <6>2. CASE ~(Cardinality(s) <= m - 1)
            BY <6>2
          <6> QED
            BY <6>1, <6>2
        <5> QED
          BY <5>2, <5>3, <4>2 DEF Adds
      <4> QED
        BY <4>1, <4>2
    <3>4. m \notin Missing
      BY <3>3
    <3> QED
      BY <3>4
  <2> QED
    BY <2>2, <2>3
<1>3. PICK F : \A s \in SUBSET S : Cardinality(s) <= Cardinality(S) => Adds(q, F, s)
  <2>1. Cardinality(S) \in Nat
    BY FS_CardinalityType
  <2> QED
    BY <2>1, <1>2
<1>4. \A s \in SUBSET S : Adds(q, F, s)
  BY <1>3, FS_Subset
<1> DEFINE H == [s \in SUBSET S |-> F[s]]
<1>5. Adder(q, S, H)
  BY <1>4 DEF Adds, Adder
<1> QED
  BY <1>5

LEMMA SumInAdds ==
  ASSUME NEW q, NEW S, IsFiniteSet(S)
  PROVE  \E F : /\ \A s \in SUBSET S : Adds(q, F, s)
                /\ SumIn(q, S) = F[S]
<1> DEFINE H == CHOOSE F : Adder(q, S, F)
<1>1. Adder(q, S, H)
  BY AdderExists
<1>2. SumIn(q, S) = H[S]
  BY SumInIsAdded
<1> HIDE DEF H
<1>3. ASSUME NEW s \in SUBSET S
      PROVE  Adds(q, H, s)
  <2>1. H[s] = IF s = {} THEN 0 ELSE q[Chosen(s)].amount + H[s \ {Chosen(s)}]
    BY <1>1 DEF Adder
  <2> QED
    BY <2>1 DEF Adds
<1> QED
  BY <1>2, <1>3

\* Folds over different sets agree on the subsets they share.
LEMMA AddersAgree ==
  ASSUME NEW q, NEW T, IsFiniteSet(T), NEW F, NEW G,
         \A s \in SUBSET T : Adds(q, F, s) /\ Adds(q, G, s)
  PROVE  F[T] = G[T]
<1> DEFINE Differ == {s \in SUBSET T : F[s] # G[s]}
<1> SUFFICES ASSUME Differ # {}
             PROVE  FALSE
  OBVIOUS
<1>1. PICK A \in Differ : \A B \in Differ : B \subseteq A => B = A
  <2>1. Differ \subseteq SUBSET T
    OBVIOUS
  <2> HIDE DEF Differ
  <2> QED
    BY <2>1, LeastSubset
<1>2. A # {}
  <2>1. F[{}] = 0 /\ G[{}] = 0
    BY DEF Adds
  <2> QED
    BY <2>1, <1>1
<1> DEFINE r == A \ {Chosen(A)}
<1>3. Chosen(A) \in A
  BY <1>2 DEF Chosen
<1>4. F[r] = G[r]
  BY <1>1, <1>3
<1>5. /\ F[A] = q[Chosen(A)].amount + F[r]
      /\ G[A] = q[Chosen(A)].amount + G[r]
  BY <1>1, <1>2 DEF Adds
<1> QED
  BY <1>1, <1>4, <1>5

\* The sum of nothing is 0, and one of the terms can be split off.
LEMMA EmptySum ==
  ASSUME NEW q
  PROVE  SumIn(q, {}) = 0
<1>1. IsFiniteSet({})
  BY FS_EmptySet
<1> QED
  BY <1>1, SumInAdds DEF Adds

LEMMA SumStep ==
  ASSUME NEW q, NEW S, IsFiniteSet(S), S # {}
  PROVE  /\ Chosen(S) \in S
         /\ SumIn(q, S) = q[Chosen(S)].amount + SumIn(q, S \ {Chosen(S)})
<1> DEFINE T == S \ {Chosen(S)}
<1>1. Chosen(S) \in S
  BY DEF Chosen
<1>2. IsFiniteSet(T) /\ T \subseteq S
  BY FS_Subset
<1>3. PICK F : (\A s \in SUBSET S : Adds(q, F, s)) /\ SumIn(q, S) = F[S]
  BY SumInAdds
<1>4. PICK G : (\A s \in SUBSET T : Adds(q, G, s)) /\ SumIn(q, T) = G[T]
  <2> HIDE DEF T
  <2> QED
    BY <1>2, SumInAdds
<1>5. F[T] = G[T]
  <2>1. \A s \in SUBSET T : Adds(q, F, s) /\ Adds(q, G, s)
    BY <1>3, <1>4
  <2> HIDE DEF T
  <2> QED
    BY <2>1, <1>2, AddersAgree
<1>6. F[S] = q[Chosen(S)].amount + F[T]
  BY <1>3 DEF Adds
<1> QED
  BY <1>1, <1>3, <1>4, <1>5, <1>6

\* The amounts of the refunds in S are natural numbers.
Counts(q, S) == \A i \in S : q[i].amount \in Nat

LEMMA SumIsNatural ==
  ASSUME NEW q, NEW S, IsFiniteSet(S), Counts(q, S)
  PROVE  SumIn(q, S) \in Nat
<1> DEFINE Bad == {s \in SUBSET S : SumIn(q, s) \notin Nat}
<1> SUFFICES ASSUME Bad # {}
             PROVE  FALSE
  OBVIOUS
<1>1. PICK A \in Bad : \A B \in Bad : B \subseteq A => B = A
  <2>1. Bad \subseteq SUBSET S
    OBVIOUS
  <2> HIDE DEF Bad
  <2> QED
    BY <2>1, LeastSubset
<1>2. IsFiniteSet(A) /\ A # {}
  <2>1. IsFiniteSet(A)
    BY <1>1, FS_Subset
  <2>2. {} \notin Bad
    BY EmptySum
  <2> QED
    BY <2>1, <2>2, <1>1
<1>3. /\ Chosen(A) \in A
      /\ SumIn(q, A) = q[Chosen(A)].amount + SumIn(q, A \ {Chosen(A)})
  BY <1>2, SumStep
<1>4. SumIn(q, A \ {Chosen(A)}) \in Nat
  BY <1>1, <1>3
<1> QED
  BY <1>1, <1>3, <1>4 DEF Counts

\* Any term can be split off, not only the one the fold picks.
LEMMA SumWithout ==
  ASSUME NEW q, NEW S, IsFiniteSet(S), Counts(q, S), NEW x \in S
  PROVE  SumIn(q, S) = q[x].amount + SumIn(q, S \ {x})
<1> DEFINE Bad == {s \in SUBSET S : \E y \in s : SumIn(q, s) # q[y].amount + SumIn(q, s \ {y})}
<1> SUFFICES ASSUME Bad # {}
             PROVE  FALSE
  OBVIOUS
<1>1. PICK A \in Bad : \A B \in Bad : B \subseteq A => B = A
  <2>1. Bad \subseteq SUBSET S
    OBVIOUS
  <2> HIDE DEF Bad
  <2> QED
    BY <2>1, LeastSubset
<1>2. PICK y \in A : SumIn(q, A) # q[y].amount + SumIn(q, A \ {y})
  BY <1>1
<1> DEFINE p == Chosen(A)
<1>3. p \in A /\ SumIn(q, A) = q[p].amount + SumIn(q, A \ {p})
  <2>1. IsFiniteSet(A) /\ A # {}
    BY <1>1, <1>2, FS_Subset
  <2> QED
    BY <2>1, SumStep
<1>4. y # p
  BY <1>2, <1>3
<1> DEFINE B == A \ {p, y}
<1>5. SumIn(q, A \ {p}) = q[y].amount + SumIn(q, B)
  <2>1. A \ {p} \notin Bad /\ y \in A \ {p} /\ (A \ {p}) \ {y} = B
    BY <1>1, <1>2, <1>3, <1>4
  <2> QED
    BY <2>1, <1>1
<1>6. SumIn(q, A \ {y}) = q[p].amount + SumIn(q, B)
  <2>1. A \ {y} \notin Bad /\ p \in A \ {y} /\ (A \ {y}) \ {p} = B
    BY <1>1, <1>2, <1>3, <1>4
  <2> QED
    BY <2>1, <1>1
<1>7. SumIn(q, B) \in Nat /\ q[p].amount \in Nat /\ q[y].amount \in Nat
  <2>1. B \subseteq S /\ IsFiniteSet(B) /\ Counts(q, B)
    BY <1>1, FS_Subset DEF Counts
  <2> QED
    BY <2>1, <1>1, <1>2, <1>3, SumIsNatural DEF Counts
<1> QED
  BY <1>2, <1>3, <1>5, <1>6, <1>7

\* More refunds add up to more, and equal amounts to the same.
LEMMA SumGrows ==
  ASSUME NEW q, NEW S, IsFiniteSet(S), Counts(q, S), NEW R \in SUBSET S
  PROVE  SumIn(q, R) <= SumIn(q, S)
<1> DEFINE Bad == {s \in SUBSET S : R \subseteq s /\ ~ (SumIn(q, R) <= SumIn(q, s))}
<1> SUFFICES ASSUME Bad # {}
             PROVE  FALSE
  OBVIOUS
<1>1. PICK A \in Bad : \A B \in Bad : B \subseteq A => B = A
  <2>1. Bad \subseteq SUBSET S
    OBVIOUS
  <2> HIDE DEF Bad
  <2> QED
    BY <2>1, LeastSubset
<1>2. \A s \in SUBSET S : IsFiniteSet(s) /\ Counts(q, s) /\ SumIn(q, s) \in Nat
  BY FS_Subset, SumIsNatural DEF Counts
<1>3. PICK x \in A : x \notin R
  <2>1. A # R
    BY <1>1, <1>2
  <2> QED
    BY <2>1, <1>1
<1>4. SumIn(q, A) = q[x].amount + SumIn(q, A \ {x})
  BY <1>1, <1>2, <1>3, SumWithout
<1>5. SumIn(q, R) <= SumIn(q, A \ {x})
  BY <1>1, <1>3
<1>6. q[x].amount \in Nat
  BY <1>1, <1>3 DEF Counts
<1> QED
  BY <1>1, <1>2, <1>4, <1>5, <1>6

LEMMA SameSum ==
  ASSUME NEW q, NEW r, NEW S, IsFiniteSet(S), \A i \in S : q[i].amount = r[i].amount
  PROVE  SumIn(q, S) = SumIn(r, S)
<1> DEFINE Bad == {s \in SUBSET S : SumIn(q, s) # SumIn(r, s)}
<1> SUFFICES ASSUME Bad # {}
             PROVE  FALSE
  OBVIOUS
<1>1. PICK A \in Bad : \A B \in Bad : B \subseteq A => B = A
  <2>1. Bad \subseteq SUBSET S
    OBVIOUS
  <2> HIDE DEF Bad
  <2> QED
    BY <2>1, LeastSubset
<1>2. IsFiniteSet(A) /\ A # {}
  <2>1. IsFiniteSet(A)
    BY <1>1, FS_Subset
  <2>2. {} \notin Bad
    BY EmptySum
  <2> QED
    BY <2>1, <2>2, <1>1
<1>3. /\ Chosen(A) \in A
      /\ SumIn(q, A) = q[Chosen(A)].amount + SumIn(q, A \ {Chosen(A)})
      /\ SumIn(r, A) = r[Chosen(A)].amount + SumIn(r, A \ {Chosen(A)})
  BY <1>2, SumStep
<1>4. SumIn(q, A \ {Chosen(A)}) = SumIn(r, A \ {Chosen(A)})
  BY <1>1, <1>3
<1> QED
  BY <1>1, <1>3, <1>4

-----------------------------------------------------------------------------
(***************************************************************************)
(* The invariant.  It is stated for a list q of PayPal's refunds, because  *)
(* an answered request is treated as two moves: PayPal goes from refunds   *)
(* to refunds', and then the row learns of it while q stays what it is.    *)
(***************************************************************************)
Paid(q) == {i \in DOMAIN q : q[i].status = "COMPLETED"}
Failed(q) == {i \in DOMAIN q : q[i].status = "FAILED"}
Of(q, k) == {i \in DOMAIN q : q[i].key = k}

\* The refunds this code asked for, but under another identity than the attempt's.
Others(q) == {i \in DOMAIN q : q[i].key # 0 /\ (attempt # None => q[i].key # attempt.key)}

\* PayPal's own rules: no more than was captured, one refund per identity, and
\* a refund that was born complete stays so.
PayPalInv(q) ==
  /\ q \in Seq(Refund)
  /\ Len(q) <= MaxKeys + MerchantRefunds
  /\ SumIn(q, DOMAIN q \ Failed(q)) <= Total
  /\ Cardinality(Of(q, 0)) <= MerchantRefunds
  /\ \A i \in DOMAIN q : q[i].born = "COMPLETED" => q[i].status = "COMPLETED"
  /\ \A i \in DOMAIN q : q[i].key <= lastKey
  /\ \A i, j \in DOMAIN q : q[i].key = q[j].key /\ q[i].key # 0 => i = j

\* What the attempt says of its request is so, and what had been refunded
\* before it was by other refunds.
AttemptInv(q) ==
  attempt # None =>
    /\ attempt.id # 0 => attempt.id \in Of(q, attempt.key)
    /\ attempt.status = "FAILED" => attempt.id \in Failed(q)
    /\ \A i \in Of(q, attempt.key) : q[i].amount = attempt.amount
    /\ attempt.base <= SumIn(q, Paid(q) \ Of(q, attempt.key))

\* Every other request of this code has its outcome, and is counted.
OthersInv(q) ==
  /\ \A i \in Others(q) : q[i].status # "PENDING"
  /\ attempt # None => SumIn(q, Others(q) \cap Paid(q)) <= attempt.base
  /\ attempt = None => /\ SumIn(q, Others(q) \cap Paid(q)) <= refunded
                       /\ Others(q) \cap Paid(q) # {} =>
                            target # None /\ SumIn(q, Others(q) \cap Paid(q)) <= target

\* Reports of completed refunds, read or recorded, are true.
ReportsInv(q) ==
  /\ \A i \in Ids : <<i, "COMPLETED">> \in processed => i \in Paid(q)
  /\ \A h \in Handlers : handler[h] # None =>
       /\ handler[h].completed \subseteq Paid(q)
       /\ "COMPLETED" \in {handler[h].status, handler[h].event[2]} =>
            handler[h].event[1] \in Paid(q)

BackedInv(q) == refunded <= SumIn(q, Paid(q))

RowTypes ==
  /\ canceled \in BOOLEAN /\ exceptional \in BOOLEAN /\ deadlinePassed \in BOOLEAN
  /\ status \in Statuses
  /\ target \in Amounts \cup {None}
  /\ refunded \in Amounts
  /\ refundId \in Ids \cup {0}
  /\ attempt \in Attempt \cup {None}
  /\ waiting \in BOOLEAN /\ old \in BOOLEAN
  /\ lastKey \in 0..MaxKeys
  /\ worker \in [Workers -> Attempt \cup {None}]
  /\ handler \in [Handlers -> Delivery \cup {None}]
  /\ processed \subseteq Events

\* An identity that PayPal may have forgotten is never sent again: whoever is
\* about to send one without having heard of its refund has a remembered one.
KeysInv ==
  /\ forgotten \subseteq 1..lastKey
  /\ old => attempt # None
  /\ attempt # None => /\ attempt.key <= lastKey
                       /\ attempt.key \in forgotten => old
  /\ \A w \in Workers : worker[w] # None /\ worker[w].id = 0 => worker[w].key \notin forgotten

\* The row: what the status says of the amounts, and the attempt fits the target.
RowInv ==
  /\ target # None <=> canceled \/ exceptional
  /\ exceptional => target = Total
  /\ status = "COMPLETED" /\ target # None => refunded >= target
  /\ status = "REQUESTED" => target # None /\ refunded < target
  /\ attempt # None => /\ target # None
                       /\ attempt.base + attempt.amount <= target
                       /\ attempt.base <= refunded
                       /\ attempt.status = "FAILED" => attempt.id # 0

RefundInv(q) ==
  /\ RowTypes /\ KeysInv /\ RowInv
  /\ PayPalInv(q) /\ AttemptInv(q) /\ OthersInv(q) /\ ReportsInv(q) /\ BackedInv(q)

-----------------------------------------------------------------------------
\* Sums over PayPal's refunds.

LEMMA RefundsAreFinite ==
  ASSUME NEW q \in Seq(Refund)
  PROVE  /\ IsFiniteSet(DOMAIN q) /\ DOMAIN q = 1..Len(q) /\ Len(q) \in Nat
         /\ \A S \in SUBSET DOMAIN q : IsFiniteSet(S) /\ Counts(q, S) /\ SumIn(q, S) \in Nat
<1>1. DOMAIN q = 1..Len(q) /\ Len(q) \in Nat
  OBVIOUS
<1>2. IsFiniteSet(DOMAIN q)
  BY <1>1, FS_Interval
<1>3. \A i \in DOMAIN q : q[i].amount \in Nat
  <2>1. \A i \in DOMAIN q : q[i] \in Refund
    OBVIOUS
  <2> QED
    BY <2>1, AmountAssumption DEF Refund, Amounts
<1>4. \A S \in SUBSET DOMAIN q : IsFiniteSet(S) /\ Counts(q, S)
  BY <1>2, <1>3, FS_Subset DEF Counts
<1> QED
  BY <1>1, <1>2, <1>4, SumIsNatural

\* PayPal goes from q to r: refunds are added, and those that are pending resolve.
Extends(q, r) ==
  /\ DOMAIN q \subseteq DOMAIN r
  /\ \A i \in DOMAIN q :
       /\ r[i].key = q[i].key /\ r[i].amount = q[i].amount /\ r[i].born = q[i].born
       /\ q[i].status # "PENDING" => r[i].status = q[i].status

LEMMA ExtensionKeeps ==
  ASSUME NEW q \in Seq(Refund), NEW r \in Seq(Refund), Extends(q, r)
  PROVE  /\ Paid(q) \subseteq Paid(r) /\ Failed(q) \subseteq Failed(r)
         /\ \A S \in SUBSET DOMAIN q : SumIn(q, S) = SumIn(r, S)
         /\ \A S, T : S \subseteq T /\ S \subseteq DOMAIN q /\ T \subseteq DOMAIN r =>
              SumIn(q, S) <= SumIn(r, T)
<1>1. Paid(q) \subseteq Paid(r) /\ Failed(q) \subseteq Failed(r)
  BY DEF Extends, Paid, Failed
<1>2. ASSUME NEW S \in SUBSET DOMAIN q
      PROVE  SumIn(q, S) = SumIn(r, S)
  <2>1. IsFiniteSet(S) /\ \A i \in S : q[i].amount = r[i].amount
    BY RefundsAreFinite DEF Extends
  <2> QED
    BY <2>1, SameSum
<1>3. ASSUME NEW S, NEW T, S \subseteq T, S \subseteq DOMAIN q, T \subseteq DOMAIN r
      PROVE  SumIn(q, S) <= SumIn(r, T)
  <2>1. IsFiniteSet(T) /\ Counts(r, T)
    BY <1>3, RefundsAreFinite
  <2>2. SumIn(r, S) <= SumIn(r, T)
    BY <1>3, <2>1, SumGrows
  <2> QED
    BY <2>2, <1>2, <1>3
<1> QED
  BY <1>1, <1>2, <1>3

-----------------------------------------------------------------------------
\* PayPal moves while the row stays as it is.

\* A new refund is the seller's, or the one the present attempt asks for.
Moves(q, r) ==
  /\ Extends(q, r)
  /\ \A i \in DOMAIN r \ DOMAIN q :
       \/ r[i].key = 0
       \/ /\ attempt # None /\ attempt.id = 0
          /\ r[i].key = attempt.key /\ r[i].amount = attempt.amount

LEMMA MovesKeep ==
  ASSUME NEW q, NEW r, RefundInv(q), PayPalInv(r), Moves(q, r)
  PROVE  RefundInv(r)
<1> USE DEF RefundInv
<1>1. q \in Seq(Refund) /\ r \in Seq(Refund) /\ Extends(q, r)
  BY DEF PayPalInv, Moves
<1>2. /\ Paid(q) \subseteq Paid(r) /\ Failed(q) \subseteq Failed(r)
      /\ \A S \in SUBSET DOMAIN q : SumIn(q, S) = SumIn(r, S)
      /\ \A S, T : S \subseteq T /\ S \subseteq DOMAIN q /\ T \subseteq DOMAIN r =>
           SumIn(q, S) <= SumIn(r, T)
  BY <1>1, ExtensionKeeps
<1>3. /\ \A S \in SUBSET DOMAIN q : SumIn(q, S) \in Nat
      /\ \A S \in SUBSET DOMAIN r : SumIn(r, S) \in Nat
  BY <1>1, RefundsAreFinite
<1>4. AttemptInv(r)
  <2> SUFFICES ASSUME attempt # None
               PROVE  /\ attempt.id # 0 => attempt.id \in Of(r, attempt.key)
                      /\ attempt.status = "FAILED" => attempt.id \in Failed(r)
                      /\ \A i \in Of(r, attempt.key) : r[i].amount = attempt.amount
                      /\ attempt.base <= SumIn(r, Paid(r) \ Of(r, attempt.key))
    BY DEF AttemptInv
  <2>1. attempt.key # 0 /\ attempt.base \in Nat
    BY AmountAssumption DEF RowTypes, Attempt, Amounts
  <2>2. attempt.id # 0 => attempt.id \in Of(r, attempt.key)
    BY <1>1 DEF AttemptInv, Of, Extends
  <2>3. attempt.status = "FAILED" => attempt.id \in Failed(r)
    BY <1>2 DEF AttemptInv
  <2>4. \A i \in Of(r, attempt.key) : r[i].amount = attempt.amount
    BY <2>1 DEF AttemptInv, Of, Extends, Moves
  <2>5. attempt.base <= SumIn(r, Paid(r) \ Of(r, attempt.key))
    <3> DEFINE S == Paid(q) \ Of(q, attempt.key)
               T == Paid(r) \ Of(r, attempt.key)
    <3>1. S \subseteq T /\ S \subseteq DOMAIN q /\ T \subseteq DOMAIN r
      BY <1>1, <1>2 DEF Extends, Paid, Of
    <3>2. SumIn(q, S) <= SumIn(r, T) /\ SumIn(q, S) \in Nat /\ SumIn(r, T) \in Nat
      BY <3>1, <1>2, <1>3
    <3>3. attempt.base <= SumIn(q, S)
      BY DEF AttemptInv
    <3> QED
      BY <2>1, <3>2, <3>3
  <2> QED
    BY <2>2, <2>3, <2>4, <2>5
<1>5. OthersInv(r)
  <2>1. Others(r) = Others(q) /\ Others(q) \subseteq DOMAIN q
    <3>1. \A i \in DOMAIN r \ DOMAIN q : i \notin Others(r)
      BY DEF Moves, Others
    <3>2. \A i \in DOMAIN q : i \in Others(r) <=> i \in Others(q)
      BY <1>1 DEF Extends, Others
    <3>3. Others(r) \subseteq DOMAIN r /\ Others(q) \subseteq DOMAIN q
      BY DEF Others
    <3> QED
      BY <3>1, <3>2, <3>3, <1>1 DEF Extends
  <2>2. \A i \in Others(q) : r[i].status = q[i].status
    BY <1>1, <2>1 DEF Extends, OthersInv
  <2>3. Others(r) \cap Paid(r) = Others(q) \cap Paid(q)
    BY <1>1, <2>1, <2>2 DEF Extends, Paid
  <2>4. SumIn(r, Others(r) \cap Paid(r)) = SumIn(q, Others(q) \cap Paid(q))
    BY <1>2, <2>1, <2>3
  <2> QED
    BY <2>1, <2>2, <2>3, <2>4 DEF OthersInv
<1>6. ReportsInv(r)
  BY <1>2 DEF ReportsInv
<1>7. BackedInv(r)
  <2>1. Paid(q) \subseteq DOMAIN q /\ Paid(r) \subseteq DOMAIN r
    BY DEF Paid
  <2>2. SumIn(q, Paid(q)) <= SumIn(r, Paid(r)) /\ SumIn(q, Paid(q)) \in Nat /\ SumIn(r, Paid(r)) \in Nat
    BY <1>2, <1>3, <2>1
  <2>3. refunded \in Nat
    BY AmountAssumption DEF RowTypes, Amounts
  <2> QED
    BY <2>2, <2>3 DEF BackedInv
<1> QED
  BY <1>4, <1>5, <1>6, <1>7

LEMMA OneMoreRefund ==
  ASSUME NEW q \in Seq(Refund), NEW r \in Seq(Refund), NEW n,
         n \notin DOMAIN q, DOMAIN r = DOMAIN q \cup {n}, \A i \in DOMAIN q : r[i] = q[i]
  PROVE  SumIn(r, DOMAIN r \ Failed(r)) <= SumIn(q, DOMAIN q \ Failed(q)) + r[n].amount
<1>1. Extends(q, r)
  BY DEF Extends
<1> DEFINE S == DOMAIN q \ Failed(q)
           T == DOMAIN r \ Failed(r)
<1>2. S \subseteq DOMAIN q /\ T \subseteq DOMAIN r /\ S \subseteq DOMAIN r /\ T \ {n} = S
  BY DEF Failed
<1>3. r[n].amount \in Nat
  BY RefundsAreFinite DEF Counts
<1>4. IsFiniteSet(T) /\ Counts(r, T) /\ SumIn(r, S) \in Nat
  BY <1>2, RefundsAreFinite
<1> HIDE DEF S, T
<1>5. SumIn(q, S) = SumIn(r, S)
  BY <1>1, <1>2, ExtensionKeeps
<1>6. SumIn(r, T) <= SumIn(r, S) + r[n].amount
  <2>1. CASE n \in T
    <3>1. SumIn(r, T) = r[n].amount + SumIn(r, T \ {n})
      BY <2>1, <1>4, SumWithout
    <3>2. SumIn(r, T) = r[n].amount + SumIn(r, S)
      BY <3>1, <1>2
    <3> QED
      BY <3>2, <1>3, <1>4
  <2>2. CASE n \notin T
    <3>1. T = S
      BY <2>2, <1>2
    <3> QED
      BY <3>1, <1>3, <1>4
  <2> QED
    BY <2>1, <2>2
<1> QED
  BY <1>5, <1>6 DEF S, T

LEMMA AppendedRefund ==
  ASSUME NEW q \in Seq(Refund), NEW e \in Refund
  PROVE  /\ Append(q, e) \in Seq(Refund) /\ Len(Append(q, e)) = Len(q) + 1
         /\ Len(q) + 1 \notin DOMAIN q
         /\ DOMAIN Append(q, e) = DOMAIN q \cup {Len(q) + 1}
         /\ Append(q, e)[Len(q) + 1] = e
         /\ \A i \in DOMAIN q : Append(q, e)[i] = q[i]
  OBVIOUS

\* A request that reaches PayPal gets the refund of its identity, or makes it:
\* a forgotten identity is not sent (refund_recovery.py:47).
LEMMA RequestMoves ==
  ASSUME RefundInv(refunds), NEW w \in Workers, StillMine(w), NEW i \in Ids, Reaches(i)
  PROVE  /\ PayPalInv(refunds') /\ Moves(refunds, refunds')
         /\ i \in Of(refunds', attempt.key)
<1> USE DEF RefundInv
<1>1. attempt # None /\ worker[w] = attempt /\ attempt \in Attempt
  BY DEF StillMine, RowTypes
<1>2. attempt.key \in 1..MaxKeys /\ attempt.amount \in Amounts /\ attempt.key <= lastKey
  BY <1>1 DEF Attempt, KeysInv
<1>3. CASE refunds' = refunds /\ i \in Of(refunds, attempt.key)
  BY <1>3 DEF Moves, Extends
<1>4. ASSUME NEW s \in Outcomes, attempt.id = 0, attempt.key \notin forgotten,
             Of(refunds, attempt.key) = {},
             Outstanding + attempt.amount <= Total, i = Len(refunds) + 1,
             refunds' = Append(refunds, [key |-> attempt.key, amount |-> attempt.amount,
                                         status |-> s, born |-> s])
      PROVE  /\ PayPalInv(refunds') /\ Moves(refunds, refunds')
             /\ i \in Of(refunds', attempt.key)
  <2> DEFINE e == [key |-> attempt.key, amount |-> attempt.amount, status |-> s, born |-> s]
  <2>1. e \in Refund /\ e.key = attempt.key /\ e.amount = attempt.amount /\ e.status = s /\ e.born = s
    BY <1>2, AmountAssumption DEF Refund
  <2> HIDE DEF e
  <2>2. refunds \in Seq(Refund) /\ refunds' = Append(refunds, e)
    BY <1>4 DEF PayPalInv, e
  <2> PICK r : r = refunds'
    OBVIOUS
  <2>3. /\ r \in Seq(Refund) /\ Len(r) = i /\ i \notin DOMAIN refunds
        /\ DOMAIN r = DOMAIN refunds \cup {i} /\ r[i] = e
        /\ \A j \in DOMAIN refunds : r[j] = refunds[j]
    <3>1. r = Append(refunds, e) /\ i = Len(refunds) + 1 /\ refunds \in Seq(Refund) /\ e \in Refund
      BY <2>1, <2>2, <1>4
    <3> QED
      BY <3>1, AppendedRefund
  <2>4. Moves(refunds, r)
    BY <1>1, <1>4, <2>1, <2>3 DEF Moves, Extends
  <2>5. i \in Of(r, attempt.key)
    BY <2>1, <2>3 DEF Of
  <2>6. PayPalInv(r)
    <3>1. Len(r) <= MaxKeys + MerchantRefunds
      BY <2>3, AmountAssumption DEF Ids
    <3>2. SumIn(r, DOMAIN r \ Failed(r)) <= Total
      <4>1. Outstanding = SumIn(refunds, DOMAIN refunds \ Failed(refunds))
        BY SumOfIsSumIn DEF Outstanding, WithStatus, Failed
      <4>2. SumIn(r, DOMAIN r \ Failed(r)) \in Nat /\ Outstanding \in Nat
        BY <4>1, <2>2, <2>3, RefundsAreFinite
      <4>3. e.amount \in Nat /\ Total \in Nat
        BY <2>1, <1>2, AmountAssumption DEF Amounts
      <4>4. SumIn(r, DOMAIN r \ Failed(r)) <= Outstanding + e.amount
        BY <4>1, <2>2, <2>3, OneMoreRefund
      <4> QED
        BY <4>2, <4>3, <4>4, <2>1, <1>4
    <3>3. Of(r, 0) = Of(refunds, 0)
      BY <2>1, <2>3, <1>2 DEF Of
    <3>4. \A j \in DOMAIN r : r[j].born = "COMPLETED" => r[j].status = "COMPLETED"
      BY <2>1, <2>3 DEF PayPalInv
    <3>5. \A j \in DOMAIN r : r[j].key <= lastKey
      BY <2>1, <2>3, <1>2 DEF PayPalInv
    <3>6. \A j, k \in DOMAIN r : r[j].key = r[k].key /\ r[j].key # 0 => j = k
      <4>1. \A j \in DOMAIN refunds : refunds[j].key # attempt.key
        BY <1>4 DEF Of
      <4> QED
        BY <4>1, <2>1, <2>3 DEF PayPalInv
    <3> QED
      BY <2>3, <3>1, <3>2, <3>3, <3>4, <3>5, <3>6 DEF PayPalInv
  <2> QED
    BY <2>4, <2>5, <2>6
<1>5. CASE attempt.id # 0
  BY <1>5, <1>3, <1>1 DEF Reaches, AttemptInv
<1>6. CASE attempt.id = 0
  <2>1. attempt.key \notin forgotten
    BY <1>6, <1>1 DEF KeysInv
  <2>2. Accepts(attempt.key, attempt.amount, i)
    BY <1>6 DEF Reaches
  <2>3. Of(refunds, attempt.key) = {j \in DOMAIN refunds : refunds[j].key = attempt.key /\ attempt.key \notin forgotten}
    BY <2>1 DEF Of
  <2>4. \/ i \in Of(refunds, attempt.key) /\ refunds' = refunds
        \/ /\ Of(refunds, attempt.key) = {} /\ Outstanding + attempt.amount <= Total
           /\ i = Len(refunds) + 1
           /\ \E s \in Outcomes :
                refunds' = Append(refunds, [key |-> attempt.key, amount |-> attempt.amount,
                                            status |-> s, born |-> s])
    BY <2>2, <2>3 DEF Accepts
  <2> QED
    BY <2>1, <2>4, <1>3, <1>4, <1>6
<1> QED
  BY <1>5, <1>6

\* Identities and the seller's refunds together bound the number of refunds.
LEMMA RefundsAreBounded ==
  ASSUME NEW q, PayPalInv(q), Cardinality(Of(q, 0)) < MerchantRefunds
  PROVE  Len(q) < MaxKeys + MerchantRefunds
<1> DEFINE S == DOMAIN q \ Of(q, 0)
           T == 1..MaxKeys
           f == [i \in S |-> q[i].key]
<1>1. q \in Seq(Refund) /\ DOMAIN q = 1..Len(q) /\ Len(q) \in Nat
  BY DEF PayPalInv
<1>2. f \in Injection(S, T)
  <2>1. ASSUME NEW i \in S
        PROVE  q[i].key \in T
    <3>1. i \in DOMAIN q /\ q[i].key # 0
      BY DEF Of
    <3>2. q[i] \in Refund
      BY <1>1, <3>1
    <3>3. q[i].key \in 0..MaxKeys
      BY <3>2 DEF Refund
    <3> QED
      BY <3>1, <3>3, AmountAssumption
  <2>2. \A i, j \in S : f[i] = f[j] => i = j
    BY DEF PayPalInv, Of
  <2> QED
    BY <2>1, <2>2 DEF Injection, IsInjective
<1>3. IsFiniteSet(T) /\ Cardinality(T) = MaxKeys
  BY AmountAssumption, FS_Interval, SMTT(30)
<1>4. Cardinality(S) <= MaxKeys /\ IsFiniteSet(S) /\ Cardinality(S) \in Nat
  <2> HIDE DEF S, T, f
  <2>1. IsFiniteSet(S) /\ Cardinality(S) <= Cardinality(T)
    BY <1>2, <1>3, FS_Injection
  <2> QED
    BY <2>1, <1>3, FS_CardinalityType
<1>5. IsFiniteSet(Of(q, 0)) /\ Cardinality(Of(q, 0)) \in Nat
  <2>1. Of(q, 0) \subseteq DOMAIN q
    BY DEF Of
  <2> QED
    BY <1>1, <2>1, RefundsAreFinite, FS_CardinalityType
<1>6. DOMAIN q = S \cup Of(q, 0) /\ S \cap Of(q, 0) = {}
  BY DEF Of
<1>7. Cardinality(DOMAIN q) = Len(q)
  BY <1>1, FS_Interval
<1>8. Cardinality(S \cup Of(q, 0)) = Cardinality(S) + Cardinality(Of(q, 0))
  <2>1. Cardinality(S \cup Of(q, 0)) = Cardinality(S) + Cardinality(Of(q, 0)) - Cardinality(S \cap Of(q, 0))
    <3> HIDE DEF S
    <3> QED
      BY <1>4, <1>5, FS_Union
  <2>2. Cardinality(S \cap Of(q, 0)) = 0
    BY <1>6, FS_EmptySet
  <2> HIDE DEF S
  <2> QED
    BY <2>1, <2>2, <1>4, <1>5
<1> HIDE DEF S
<1> QED
  BY <1>1, <1>4, <1>5, <1>6, <1>7, <1>8, AmountAssumption

LEMMA ResolveMoves ==
  ASSUME RefundInv(refunds), RefundResolves
  PROVE  PayPalInv(refunds') /\ Moves(refunds, refunds')
<1> USE DEF RefundInv
<1>1. PICK i \in DOMAIN refunds, s \in {"COMPLETED", "FAILED"} :
        refunds[i].status = "PENDING" /\ refunds' = [refunds EXCEPT ![i].status = s]
  BY DEF RefundResolves, WithStatus
<1> PICK q : q = refunds
  OBVIOUS
<1> PICK r : r = refunds'
  OBVIOUS
<1>2. q \in Seq(Refund) /\ q[i] \in Refund /\ i \in DOMAIN q /\ PayPalInv(q)
  BY <1>1 DEF PayPalInv
<1>3. [q[i] EXCEPT !.status = s] \in Refund
  BY <1>2 DEF Refund, Outcomes
<1>4. r = [q EXCEPT ![i] = [q[i] EXCEPT !.status = s]]
  BY <1>1
<1>5. r \in Seq(Refund) /\ Len(r) = Len(q) /\ DOMAIN r = DOMAIN q
  BY <1>2, <1>3, <1>4
<1>6. /\ \A j \in DOMAIN q : j # i => r[j] = q[j]
      /\ r[i].key = q[i].key /\ r[i].amount = q[i].amount /\ r[i].born = q[i].born
      /\ r[i].status = s /\ q[i].status = "PENDING"
  BY <1>1, <1>2, <1>4 DEF Refund
<1>7. Extends(q, r)
  <2>1. \A j \in DOMAIN q : /\ r[j].key = q[j].key /\ r[j].amount = q[j].amount /\ r[j].born = q[j].born
                            /\ q[j].status # "PENDING" => r[j].status = q[j].status
    BY <1>6
  <2> QED
    BY <2>1, <1>5 DEF Extends
<1>8. SumIn(r, DOMAIN r \ Failed(r)) <= Total
  <2> DEFINE S == DOMAIN r \ Failed(r)
             T == DOMAIN q \ Failed(q)
  <2>1. S \subseteq T /\ S \subseteq DOMAIN q /\ T \subseteq DOMAIN q
    BY <1>5, <1>6 DEF Failed
  <2>2. SumIn(q, T) <= Total
    BY <1>2 DEF PayPalInv
  <2> HIDE DEF S, T
  <2>3. SumIn(r, S) = SumIn(q, S)
    BY <2>1, <1>2, <1>5, <1>7, ExtensionKeeps
  <2>4. IsFiniteSet(T) /\ Counts(q, T)
    BY <2>1, <1>2, RefundsAreFinite
  <2>5. SumIn(q, S) <= SumIn(q, T)
    BY <2>1, <2>4, SumGrows
  <2>6. SumIn(q, S) \in Nat /\ SumIn(q, T) \in Nat /\ Total \in Nat
    BY <2>1, <1>2, RefundsAreFinite, AmountAssumption
  <2>7. SumIn(r, S) <= Total
    BY <2>2, <2>3, <2>5, <2>6
  <2> QED
    BY <2>7 DEF S
<1>9. Of(r, 0) = Of(q, 0)
  BY <1>5, <1>7 DEF Of, Extends
<1>10. /\ \A j \in DOMAIN r : r[j].key <= lastKey
       /\ \A j, k \in DOMAIN r : r[j].key = r[k].key /\ r[j].key # 0 => j = k
       /\ \A j \in DOMAIN r : r[j].born = "COMPLETED" => r[j].status = "COMPLETED"
  BY <1>2, <1>5, <1>6 DEF PayPalInv
<1>11. PayPalInv(r)
  BY <1>2, <1>5, <1>8, <1>9, <1>10 DEF PayPalInv
<1>12. Moves(q, r)
  BY <1>5, <1>7 DEF Moves
<1> QED
  BY <1>11, <1>12

LEMMA SellerMoves ==
  ASSUME RefundInv(refunds), SellerRefunds
  PROVE  PayPalInv(refunds') /\ Moves(refunds, refunds')
<1> USE DEF RefundInv
<1>1. PICK s \in {"PENDING", "COMPLETED"} :
        refunds' = Append(refunds, [key |-> 0, amount |-> 1, status |-> s, born |-> s])
  BY DEF SellerRefunds
<1>2. Cardinality(Of(refunds, 0)) < MerchantRefunds /\ Outstanding < Total
  BY DEF SellerRefunds, Of
<1> PICK q : q = refunds
  OBVIOUS
<1> PICK r : r = refunds'
  OBVIOUS
<1> DEFINE e == [key |-> 0, amount |-> 1, status |-> s, born |-> s]
           n == Len(q) + 1
<1>3. q \in Seq(Refund) /\ PayPalInv(q) /\ Len(q) \in Nat
  BY DEF PayPalInv
<1>4. e \in Refund /\ e.key = 0 /\ e.amount = 1 /\ e.status = s /\ e.born = s
  BY AmountAssumption DEF Refund, Amounts, Outcomes
<1>5. r = Append(q, e)
  BY <1>1
<1> HIDE DEF e
<1>6. /\ r \in Seq(Refund) /\ Len(r) = n /\ n \notin DOMAIN q
      /\ DOMAIN r = DOMAIN q \cup {n} /\ r[n] = e
      /\ \A i \in DOMAIN q : r[i] = q[i]
  BY <1>3, <1>4, <1>5, AppendedRefund
<1>7. Len(r) <= MaxKeys + MerchantRefunds
  <2>1. Len(q) < MaxKeys + MerchantRefunds
    BY <1>2, <1>3, RefundsAreBounded
  <2> QED
    BY <2>1, <1>3, <1>6, AmountAssumption
<1> HIDE DEF n
<1>8. SumIn(r, DOMAIN r \ Failed(r)) <= Total
  <2>1. Outstanding = SumIn(q, DOMAIN q \ Failed(q))
    BY SumOfIsSumIn DEF Outstanding, WithStatus, Failed
  <2>2. SumIn(r, DOMAIN r \ Failed(r)) \in Nat /\ Outstanding \in Nat /\ Total \in Nat
    BY <2>1, <1>3, <1>6, RefundsAreFinite, AmountAssumption
  <2>3. SumIn(r, DOMAIN r \ Failed(r)) <= Outstanding + r[n].amount
    BY <2>1, <1>3, <1>6, OneMoreRefund
  <2> QED
    BY <2>2, <2>3, <1>2, <1>4, <1>6
<1>9. Cardinality(Of(r, 0)) <= MerchantRefunds
  <2>1. Of(r, 0) = Of(q, 0) \cup {n} /\ n \notin Of(q, 0) /\ Of(q, 0) \subseteq DOMAIN q
    BY <1>4, <1>6 DEF Of
  <2>2. IsFiniteSet(Of(q, 0)) /\ Cardinality(Of(q, 0)) \in Nat
    BY <1>3, <2>1, RefundsAreFinite, FS_CardinalityType
  <2>3. Cardinality(Of(r, 0)) = Cardinality(Of(q, 0)) + 1
    BY <2>1, <2>2, FS_AddElement
  <2> QED
    BY <2>2, <2>3, <1>2, AmountAssumption
<1>10. /\ \A j \in DOMAIN r : r[j].key <= lastKey
       /\ \A j, k \in DOMAIN r : r[j].key = r[k].key /\ r[j].key # 0 => j = k
       /\ \A j \in DOMAIN r : r[j].born = "COMPLETED" => r[j].status = "COMPLETED"
  <2>1. lastKey \in Nat
    BY AmountAssumption DEF RowTypes
  <2> QED
    BY <2>1, <1>3, <1>4, <1>6 DEF PayPalInv
<1>11. PayPalInv(r)
  BY <1>6, <1>7, <1>8, <1>9, <1>10 DEF PayPalInv
<1>12. Moves(q, r)
  BY <1>4, <1>6 DEF Moves, Extends
<1> QED
  BY <1>11, <1>12

-----------------------------------------------------------------------------
\* The row moves while PayPal's refunds are q.

\* Steps that leave the row alone, but may say that a call failed.
LeavesRow ==
  /\ UNCHANGED <<canceled, target, refunded, refundId, exceptional, attempt, lastKey, processed>>
  /\ status' \in {status, "FAILED"}

LEMMA RowIsLeft ==
  ASSUME NEW q, RefundInv(q), LeavesRow
  PROVE  /\ RowInv' /\ PayPalInv(q)' /\ AttemptInv(q)' /\ OthersInv(q)' /\ BackedInv(q)'
         /\ status' \in Statuses
<1> USE DEF RefundInv, LeavesRow
<1>1. RowInv'
  BY DEF RowInv
<1>2. PayPalInv(q)'
  BY DEF PayPalInv, Failed, Of
<1>3. AttemptInv(q)'
  BY DEF AttemptInv
<1>4. OthersInv(q)'
  <2>1. Others(q)' = Others(q)
    BY DEF Others
  <2> QED
    BY <2>1 DEF OthersInv
<1>5. BackedInv(q)' /\ status' \in Statuses
  BY DEF BackedInv, RowTypes, Statuses
<1> QED
  BY <1>1, <1>2, <1>3, <1>4, <1>5

\* A call that ends: it failed, it died, or it was overtaken.
LEMMA EndingKeeps ==
  ASSUME NEW q, RefundInv(q), LeavesRow, NEW w \in Workers, Leave(w),
         UNCHANGED <<waiting, old, handler, deadlinePassed, forgotten>>
  PROVE  RefundInv(q)'
<1> USE DEF RefundInv
<1>1. /\ RowInv' /\ PayPalInv(q)' /\ AttemptInv(q)' /\ OthersInv(q)' /\ BackedInv(q)'
      /\ status' \in Statuses
  BY RowIsLeft
<1>2. \A v \in Workers : worker'[v] \in {worker[v], None}
  BY DEF Leave, RowTypes
<1>3. RowTypes'
  BY <1>1 DEF RowTypes, LeavesRow, Leave
<1>4. KeysInv'
  BY <1>2 DEF KeysInv, LeavesRow
<1>5. ReportsInv(q)'
  BY DEF ReportsInv, LeavesRow
<1> QED
  BY <1>1, <1>3, <1>4, <1>5

\* Time passes, PayPal forgets, or a setting changes.
Passes ==
  /\ UNCHANGED <<canceled, status, target, refunded, refundId, exceptional, attempt, lastKey,
                 worker, handler, processed>>
  /\ waiting' \in BOOLEAN /\ deadlinePassed' \in BOOLEAN /\ old' \in BOOLEAN
  /\ old => old'
  /\ old' => attempt # None
  /\ \/ forgotten' = forgotten
     \/ /\ old /\ forgotten' = forgotten \cup {attempt.key}
        /\ \A w \in Workers : worker[w] = None

LEMMA PassingKeeps ==
  ASSUME NEW q, RefundInv(q), Passes
  PROVE  RefundInv(q)'
<1> USE DEF RefundInv, Passes
<1>1. RowInv' /\ PayPalInv(q)' /\ AttemptInv(q)' /\ OthersInv(q)' /\ BackedInv(q)'
  BY RowIsLeft DEF LeavesRow
<1>2. RowTypes'
  BY DEF RowTypes
<1>3. ReportsInv(q)'
  BY DEF ReportsInv
<1>4. KeysInv'
  <2>1. CASE forgotten' = forgotten
    BY <2>1 DEF KeysInv
  <2>2. CASE /\ old /\ forgotten' = forgotten \cup {attempt.key}
             /\ \A w \in Workers : worker[w] = None
    <3>1. attempt # None /\ attempt \in Attempt /\ attempt.key <= lastKey
      BY <2>2 DEF KeysInv, RowTypes
    <3>2. attempt.key \in 1..lastKey /\ lastKey \in Nat
      BY <3>1, AmountAssumption DEF Attempt, RowTypes
    <3>3. forgotten' \subseteq 1..lastKey
      BY <2>2, <3>2 DEF KeysInv
    <3> QED
      BY <2>2, <3>1, <3>3 DEF KeysInv
  <2> QED
    BY <2>1, <2>2
<1> QED
  BY <1>1, <1>2, <1>3, <1>4

\* A webhook's reads: what they report of completed refunds stays true.
LEMMA ReadingKeeps ==
  ASSUME RefundInv(refunds), NEW h \in Handlers,
         Receive(h) \/ ReadCapture(h) \/ DeliveryLost(h)
  PROVE  RefundInv(refunds)'
<1> USE DEF RefundInv
<1> PICK q : q = refunds
  OBVIOUS
<1>1. RefundInv(q) /\ refunds' = q
  BY DEF Receive, ReadRefund, ReadCapture, DeliveryLost, paypal
<1>2. /\ UNCHANGED <<canceled, row, worker, processed, deadlinePassed, forgotten>>
      /\ \E d \in {None} \cup Delivery :
           /\ handler' = [handler EXCEPT ![h] = d]
           /\ d # None => /\ d.completed \subseteq Paid(q)
                          /\ "COMPLETED" \in {d.status, d.event[2]} => d.event[1] \in Paid(q)
  <2>1. CASE DeliveryLost(h)
    BY <2>1 DEF DeliveryLost, paypal
  <2>2. CASE ReadCapture(h)
    <3> DEFINE d == [handler[h] EXCEPT !.phase = "row", !.completed = Paid(q)]
    <3>1. handler[h] \in Delivery /\ handler[h] # None
      BY <2>2 DEF ReadCapture, RowTypes
    <3>2. Paid(q) \subseteq Ids
      <4>1. q \in Seq(Refund) /\ Len(q) <= MaxKeys + MerchantRefunds
        BY <1>1 DEF PayPalInv
      <4> QED
        BY <4>1, AmountAssumption DEF Paid, Ids
    <3>3. /\ d \in Delivery /\ d.completed = Paid(q)
          /\ d.status = handler[h].status /\ d.event = handler[h].event
      BY <3>1, <3>2 DEF Delivery
    <3>4. handler' = [handler EXCEPT ![h] = d]
      BY <2>2, <1>1 DEF ReadCapture, WithStatus, Paid, RowTypes
    <3>5. "COMPLETED" \in {d.status, d.event[2]} => d.event[1] \in Paid(q)
      BY <3>1, <3>3, <1>1 DEF ReportsInv
    <3> HIDE DEF d
    <3> QED
      BY <3>3, <3>4, <3>5, <2>2 DEF ReadCapture, paypal
  <2>3. ASSUME NEW e \in Events, ReadRefund(h, e)
        PROVE  /\ UNCHANGED <<canceled, row, worker, processed, deadlinePassed, forgotten>>
               /\ \E d \in {None} \cup Delivery :
                    /\ handler' = [handler EXCEPT ![h] = d]
                    /\ d # None => /\ d.completed \subseteq Paid(q)
                                   /\ "COMPLETED" \in {d.status, d.event[2]} => d.event[1] \in Paid(q)
    <3> DEFINE s == IF e \in CaptureEvents THEN "NONE" ELSE q[e[1]].status
               d == [phase |-> "capture", event |-> e, completed |-> {}, status |-> s]
    <3>1. handler' = [handler EXCEPT ![h] = d] /\ Happened(e)
      BY <2>3, <1>1 DEF ReadRefund
    <3>2. e \notin CaptureEvents =>
            /\ e[1] \in DOMAIN q /\ e[2] \in {q[e[1]].status, q[e[1]].born}
            /\ q[e[1]] \in Refund /\ s = q[e[1]].status
      BY <3>1, <1>1 DEF Happened, PayPalInv
    <3>3. d \in Delivery
      BY <3>2, <1>1 DEF Delivery, Refund
    <3>4. "COMPLETED" \in {s, e[2]} => e[1] \in Paid(q)
      <4>1. CASE e \in CaptureEvents
        BY <4>1 DEF CaptureEvents
      <4>2. CASE e \notin CaptureEvents
        BY <4>2, <3>2, <1>1 DEF PayPalInv, Paid
      <4> QED
        BY <4>1, <4>2
    <3>5. d.completed = {} /\ d.status = s /\ d.event = e
      OBVIOUS
    <3> HIDE DEF d, s
    <3> QED
      BY <3>1, <3>3, <3>4, <3>5, <2>3 DEF ReadRefund, paypal
  <2> QED
    BY <2>1, <2>2, <2>3 DEF Receive
<1>3. LeavesRow
  BY <1>2 DEF LeavesRow, row
<1>4. RowInv' /\ PayPalInv(q)' /\ AttemptInv(q)' /\ OthersInv(q)' /\ BackedInv(q)'
  BY <1>1, <1>3, RowIsLeft
<1>5. RowTypes'
  BY <1>2 DEF RowTypes, row
<1>6. KeysInv'
  BY <1>2 DEF KeysInv, row
<1>7. ReportsInv(q)'
  <2>1. PICK d \in {None} \cup Delivery :
           /\ handler' = [handler EXCEPT ![h] = d]
           /\ d # None => /\ d.completed \subseteq Paid(q)
                          /\ "COMPLETED" \in {d.status, d.event[2]} => d.event[1] \in Paid(q)
    BY <1>2
  <2>2. \A g \in Handlers : handler'[g] = IF g = h THEN d ELSE handler[g]
    BY <2>1 DEF RowTypes
  <2> QED
    BY <2>1, <2>2, <1>1, <1>2 DEF ReportsInv
<1>8. RefundInv(q)'
  BY <1>4, <1>5, <1>6, <1>7
<1> HIDE DEF RefundInv
<1> QED
  BY <1>1, <1>8

\* The cancellation sets a target only where there is none, hence no attempt.
LEMMA CancelKeeps ==
  ASSUME NEW q, RefundInv(q), NEW t \in {0, CustomerTarget, Total}, Cancel(t)
  PROVE  RefundInv(q)'
<1> USE DEF RefundInv
<1>1. CASE exceptional
  <2>1. /\ canceled' = TRUE
        /\ UNCHANGED <<status, target, refunded, refundId, exceptional, attempt, waiting, old, lastKey,
                       worker, handler, processed, deadlinePassed, forgotten>>
    BY <1>1 DEF Cancel, row, paypal
  <2>2. RowTypes'
    BY <2>1 DEF RowTypes
  <2>3. RowInv'
    BY <2>1, <1>1 DEF RowInv
  <2>4. KeysInv' /\ PayPalInv(q)' /\ AttemptInv(q)' /\ ReportsInv(q)' /\ BackedInv(q)'
    BY <2>1 DEF KeysInv, PayPalInv, AttemptInv, ReportsInv, BackedInv, Failed, Of
  <2>5. Others(q)' = Others(q)
    BY <2>1 DEF Others
  <2>6. OthersInv(q)'
    BY <2>1, <2>5 DEF OthersInv
  <2> QED
    BY <2>2, <2>3, <2>4, <2>6
<1>2. CASE ~exceptional
  <2>1. /\ canceled' = TRUE /\ target' = t
        /\ status' = IF t = 0 THEN "NOT_REQUIRED" ELSE IF refunded >= t THEN "COMPLETED" ELSE "REQUESTED"
        /\ UNCHANGED <<refunded, refundId, exceptional, attempt, waiting, old, lastKey,
                       worker, handler, processed, deadlinePassed, forgotten>>
    BY <1>2 DEF Cancel, paypal
  <2>2. target = None /\ attempt = None
    BY <1>2 DEF Cancel, RowInv
  <2>3. t \in Amounts /\ t # None /\ refunded \in Nat /\ t \in Nat
    BY AmountAssumption, NoneAssumption DEF Amounts, RowTypes
  <2>4. RowTypes'
    BY <2>1, <2>3 DEF RowTypes, Statuses
  <2>5. RowInv'
    BY <2>1, <2>2, <2>3, <1>2 DEF RowInv
  <2>6. KeysInv' /\ PayPalInv(q)' /\ AttemptInv(q)' /\ ReportsInv(q)' /\ BackedInv(q)'
    BY <2>1 DEF KeysInv, PayPalInv, AttemptInv, ReportsInv, BackedInv, Failed, Of
  <2>7. Others(q)' = Others(q)
    BY <2>1 DEF Others
  <2>8. OthersInv(q)'
    BY <2>1, <2>2, <2>7 DEF OthersInv
  <2> QED
    BY <2>4, <2>5, <2>6, <2>8
<1> QED
  BY <1>1, <1>2

-----------------------------------------------------------------------------
\* The first transaction of execute_refund().

\* What the attempt is when it is checkpointed or given up: a first one, one
\* under a new identity after a confirmed failure, or the one there was.
LEMMA PreparedFits ==
  ASSUME NEW q, RefundInv(q), NEW m, MayTry(m), NeedsKey => lastKey < MaxKeys
  PROVE  /\ Prepared \in Attempt /\ target # None
         /\ Prepared.base + Prepared.amount <= target /\ Prepared.base <= refunded
         /\ NeedsKey => /\ Prepared.key = lastKey + 1 /\ Prepared.id = 0
                        /\ Prepared.status = "UNKNOWN"
         /\ attempt = None => Prepared.base = refunded
         /\ attempt # None => Prepared.base = attempt.base /\ Prepared.amount = attempt.amount
         /\ ~NeedsKey => Prepared = attempt /\ attempt # None
<1> USE DEF RefundInv
<1>1. lastKey \in Nat /\ MaxKeys \in Nat /\ refunded \in Amounts /\ MaxTries \in Nat
  BY AmountAssumption DEF RowTypes
<1>2. CASE attempt = None
  <2>1. target # None /\ target \in Amounts /\ refunded < target
    BY <1>2 DEF MayTry, RowInv, RowTypes
  <2>2. target - refunded \in Amounts /\ refunded + (target - refunded) <= target
    BY <2>1, <1>1, AmountAssumption DEF Amounts
  <2>3. Prepared = [key |-> lastKey + 1, amount |-> target - refunded, base |-> refunded, tries |-> 0,
                    status |-> "UNKNOWN", id |-> 0, manualRequired |-> FALSE]
    BY <1>2 DEF Prepared
  <2>4. lastKey + 1 \in 1..MaxKeys
    BY <1>1, <1>2 DEF NeedsKey
  <2>5. Prepared \in Attempt
    BY <2>2, <2>3, <2>4, <1>1 DEF Attempt
  <2> QED
    BY <2>1, <2>2, <2>3, <2>5, <1>1, <1>2 DEF NeedsKey, Amounts
<1>3. CASE attempt # None /\ NeedsKey
  <2>1. attempt \in Attempt /\ Prepared = [attempt EXCEPT !.key = lastKey + 1, !.id = 0, !.status = "UNKNOWN"]
    BY <1>3 DEF RowTypes, Prepared
  <2>2. lastKey + 1 \in 1..MaxKeys
    BY <1>1, <1>3
  <2>3. /\ Prepared.key = lastKey + 1 /\ Prepared.id = 0 /\ Prepared.status = "UNKNOWN"
        /\ Prepared.base = attempt.base /\ Prepared.amount = attempt.amount
        /\ Prepared \in Attempt
    BY <2>1, <2>2 DEF Attempt
  <2> QED
    BY <2>3, <1>3 DEF RowInv
<1>4. CASE ~NeedsKey
  <2>1. attempt # None /\ attempt \in Attempt /\ Prepared = attempt
    BY <1>4 DEF RowTypes, Prepared, NeedsKey
  <2> QED
    BY <2>1, <1>4 DEF RowInv
<1> QED
  BY <1>2, <1>3, <1>4

\* The common effect of Checkpoint and GiveUp.
Prepares(p) ==
  /\ p \in Attempt /\ attempt' = p
  /\ p.key = Prepared.key /\ p.amount = Prepared.amount /\ p.base = Prepared.base
  /\ p.status = Prepared.status /\ p.id = Prepared.id
  /\ status' \in {"FAILED", "PENDING"}
  /\ lastKey' = IF NeedsKey THEN lastKey + 1 ELSE lastKey
  /\ old' = (old /\ ~NeedsKey)
  /\ UNCHANGED <<canceled, target, refunded, refundId, exceptional, handler, processed,
                 deadlinePassed, forgotten>>

\* A new identity starts where every refund of the older ones is known and
\* counted, so it takes nothing over from them.
LEMMA PreparingKeeps ==
  ASSUME NEW q, RefundInv(q), NEW m, MayTry(m), NeedsKey => lastKey < MaxKeys,
         NEW p, Prepares(p)
  PROVE  /\ RowInv' /\ PayPalInv(q)' /\ AttemptInv(q)' /\ OthersInv(q)' /\ BackedInv(q)'
         /\ ReportsInv(q)' /\ lastKey' \in 0..MaxKeys
<1> USE DEF RefundInv, Prepares
<1>1. /\ target # None /\ p.base + p.amount <= target /\ p.base <= refunded
      /\ NeedsKey => p.key = lastKey + 1 /\ p.id = 0 /\ p.status = "UNKNOWN"
      /\ attempt = None => p.base = refunded
      /\ attempt # None => p.base = attempt.base /\ p.amount = attempt.amount
      /\ ~NeedsKey => /\ attempt # None /\ p.key = attempt.key
                      /\ p.id = attempt.id /\ p.status = attempt.status
  <2>1. /\ target # None
        /\ Prepared.base + Prepared.amount <= target /\ Prepared.base <= refunded
        /\ NeedsKey => Prepared.key = lastKey + 1 /\ Prepared.id = 0 /\ Prepared.status = "UNKNOWN"
        /\ attempt = None => Prepared.base = refunded
        /\ attempt # None => Prepared.base = attempt.base /\ Prepared.amount = attempt.amount
        /\ ~NeedsKey => Prepared = attempt /\ attempt # None
    BY PreparedFits
  <2> QED
    BY <2>1
<1>2. p # None /\ attempt' = p /\ p.key \in Nat \ {0} /\ p.base \in Nat /\ p.amount \in Nat
  BY NoneAssumption, AmountAssumption DEF Attempt, Amounts
<1>3. lastKey \in Nat /\ MaxKeys \in Nat /\ lastKey <= MaxKeys
  BY AmountAssumption DEF RowTypes
<1>4. q \in Seq(Refund) /\ \A i \in DOMAIN q : q[i].key \in Nat /\ q[i].key <= lastKey
  <2>1. q \in Seq(Refund)
    BY DEF PayPalInv
  <2>2. \A i \in DOMAIN q : q[i] \in Refund
    BY <2>1
  <2> QED
    BY <2>1, <2>2, AmountAssumption DEF PayPalInv, Refund
<1>5. RowInv'
  <2>1. p.status = "FAILED" => p.id # 0
    BY <1>1 DEF RowInv
  <2> QED
    BY <1>1, <1>2, <2>1 DEF RowInv
<1>6. PayPalInv(q)'
  BY <1>3, <1>4 DEF PayPalInv, Failed, Of
<1>7. BackedInv(q)' /\ ReportsInv(q)'
  BY DEF BackedInv, ReportsInv
<1>8. lastKey' \in 0..MaxKeys
  BY <1>3
<1>9. CASE NeedsKey
  <2>1. Of(q, p.key) = {}
    BY <1>1, <1>3, <1>4, <1>9 DEF Of
  <2>2. p.key = lastKey + 1 /\ p.id = 0 /\ p.status = "UNKNOWN"
    BY <1>1, <1>9
  <2>3. attempt # None => Of(q, attempt.key) \subseteq Failed(q)
    <3>1. SUFFICES ASSUME attempt # None
                   PROVE  Of(q, attempt.key) \subseteq Failed(q)
      OBVIOUS
    <3>2. attempt.status = "FAILED" /\ attempt.key # 0
      BY <3>1, <1>9, AmountAssumption DEF NeedsKey, RowTypes, Attempt
    <3>3. attempt.id \in Failed(q) /\ attempt.id \in Of(q, attempt.key)
      BY <3>1, <3>2 DEF AttemptInv, RowInv
    <3> QED
      BY <3>2, <3>3 DEF PayPalInv, Of
  <2>4. Others(q)' = {i \in DOMAIN q : q[i].key # 0}
    BY <2>1, <1>2 DEF Others, Of
  <2>5. /\ \A i \in Others(q)' : q[i].status # "PENDING"
        /\ Others(q)' \cap Paid(q) = Others(q) \cap Paid(q)
    <3>1. \A i \in Others(q)' : i \in Others(q) \/ (attempt # None /\ i \in Of(q, attempt.key))
      BY <2>4 DEF Others, Of
    <3>2. Others(q) \subseteq Others(q)'
      BY <2>4 DEF Others
    <3> QED
      BY <3>1, <3>2, <2>3 DEF OthersInv, Failed, Paid
  <2>6. SumIn(q, Others(q) \cap Paid(q)) <= p.base
    BY <1>1 DEF OthersInv
  <2>7. OthersInv(q)'
    BY <2>5, <2>6, <1>2 DEF OthersInv, Paid
  <2>8. p.base <= SumIn(q, Paid(q))
    <3>1. CASE attempt = None
      BY <3>1, <1>1 DEF BackedInv
    <3>2. CASE attempt # None
      <4>1. attempt.base <= SumIn(q, Paid(q) \ Of(q, attempt.key))
        BY <3>2 DEF AttemptInv
      <4>2. Paid(q) \ Of(q, attempt.key) = Paid(q)
        BY <2>3, <3>2 DEF Failed, Paid
      <4> QED
        BY <4>1, <4>2, <3>2, <1>1
    <3> QED
      BY <3>1, <3>2
  <2>9. Paid(q) \ Of(q, p.key) = Paid(q)
    BY <2>1
  <2>10. AttemptInv(q)'
    BY <2>1, <2>2, <2>8, <2>9, <1>2, ZenonT(60) DEF AttemptInv, Of, Paid, Failed
  <2> QED
    BY <2>7, <2>10, <1>5, <1>6, <1>7, <1>8
<1>10. CASE ~NeedsKey
  <2>1. /\ attempt # None /\ p.key = attempt.key /\ p.id = attempt.id /\ p.status = attempt.status
        /\ p.base = attempt.base /\ p.amount = attempt.amount
    BY <1>1, <1>10
  <2>2. Others(q)' = Others(q)
    BY <2>1, <1>2 DEF Others
  <2>3. OthersInv(q)'
    BY <2>1, <2>2, <1>2 DEF OthersInv, Paid
  <2>4. AttemptInv(q)'
    BY <2>1, <1>2 DEF AttemptInv, Of, Paid, Failed
  <2> QED
    BY <2>3, <2>4, <1>5, <1>6, <1>7, <1>8
<1> QED
  BY <1>9, <1>10

LEMMA GiveUpKeeps ==
  ASSUME NEW q, RefundInv(q), NEW w \in Workers, NEW m, GiveUp(w, m)
  PROVE  RefundInv(q)'
<1> DEFINE p == [Prepared EXCEPT !.manualRequired = TRUE]
<1>1. MayTry(m) /\ (NeedsKey => lastKey < MaxKeys)
  BY DEF GiveUp
<1>2. Prepared \in Attempt
  BY <1>1, PreparedFits
<1>3. /\ p \in Attempt /\ p.key = Prepared.key /\ p.amount = Prepared.amount /\ p.base = Prepared.base
      /\ p.status = Prepared.status /\ p.id = Prepared.id
  BY <1>2 DEF Attempt
<1>4. attempt' = p /\ UNCHANGED <<waiting, worker, refunds, forgotten>>
  BY DEF GiveUp, paypal
<1> HIDE DEF p
<1>5. Prepares(p)
  BY <1>3, <1>4 DEF GiveUp, Prepares
<1>6. /\ RowInv' /\ PayPalInv(q)' /\ AttemptInv(q)' /\ OthersInv(q)' /\ BackedInv(q)'
      /\ ReportsInv(q)' /\ lastKey' \in 0..MaxKeys
  BY <1>1, <1>5, PreparingKeeps
<1>7. RowTypes'
  BY <1>3, <1>4, <1>5, <1>6 DEF RowTypes, Prepares, RefundInv, Statuses
<1>8. KeysInv'
  <2>1. lastKey \in Nat /\ MaxKeys \in Nat /\ forgotten \subseteq 1..lastKey
    BY AmountAssumption DEF RefundInv, RowTypes, KeysInv
  <2>2. attempt' = p /\ p # None
    BY <1>3, <1>4, NoneAssumption
  <2>3. lastKey' >= lastKey /\ forgotten' = forgotten /\ worker' = worker
    BY <1>4, <1>5, <2>1 DEF Prepares
  <2>4. forgotten' \subseteq 1..lastKey'
    BY <1>6, <2>1, <2>3
  <2>5. p.key <= lastKey' /\ (p.key \in forgotten => old')
    <3>1. CASE NeedsKey
      <4>1. p.key = lastKey + 1 /\ lastKey' = lastKey + 1
        BY <3>1, <1>1, <1>3, <1>5, PreparedFits DEF Prepares
      <4> QED
        BY <4>1, <2>1
    <3>2. CASE ~NeedsKey
      <4>1. attempt # None /\ p.key = attempt.key /\ lastKey' = lastKey /\ old' = old
        BY <3>2, <1>1, <1>3, <1>5, PreparedFits DEF Prepares, RefundInv, RowTypes
      <4> QED
        BY <4>1 DEF RefundInv, KeysInv
    <3> QED
      BY <3>1, <3>2
  <2>6. \A v \in Workers : worker[v] # None /\ worker[v].id = 0 => worker[v].key \notin forgotten
    BY DEF RefundInv, KeysInv
  <2> QED
    BY <2>2, <2>3, <2>4, <2>5, <2>6 DEF KeysInv
<1> QED
  BY <1>6, <1>7, <1>8 DEF RefundInv

\* The caller that goes on to PayPal has an identity PayPal remembers, or it
\* has heard of its refund and will only ask how that one stands.
LEMMA CheckpointKeeps ==
  ASSUME NEW q, RefundInv(q), NEW w \in Workers, NEW m, Checkpoint(w, m)
  PROVE  RefundInv(q)'
<1> DEFINE p == [Prepared EXCEPT !.manualRequired = FALSE,
                                 !.tries = IF @ < MaxTries THEN @ + 1 ELSE @]
<1>1. MayTry(m) /\ (NeedsKey => lastKey < MaxKeys) /\ ~Hopeless(m)
  BY DEF Checkpoint
<1>2. Prepared \in Attempt
  BY <1>1, PreparedFits
<1>3. /\ p \in Attempt /\ p.key = Prepared.key /\ p.amount = Prepared.amount /\ p.base = Prepared.base
      /\ p.status = Prepared.status /\ p.id = Prepared.id
  <2> PICK a : a = Prepared
    OBVIOUS
  <2> DEFINE n == IF a.tries < MaxTries THEN a.tries + 1 ELSE a.tries
  <2>1. a \in Attempt /\ a.tries \in 0..MaxTries
    BY <1>2 DEF Attempt
  <2>2. n \in 0..MaxTries
    BY <2>1, AmountAssumption
  <2>3. p = [a EXCEPT !.manualRequired = FALSE, !.tries = n]
    OBVIOUS
  <2> HIDE DEF n, p
  <2> QED
    BY <2>1, <2>2, <2>3 DEF Attempt
<1>4. /\ attempt' = p /\ waiting' = TRUE /\ worker' = [worker EXCEPT ![w] = attempt']
      /\ UNCHANGED <<refunds, forgotten>>
  BY DEF Checkpoint, paypal
<1> HIDE DEF p
<1>5. Prepares(p)
  BY <1>3, <1>4 DEF Checkpoint, Prepares
<1>6. /\ RowInv' /\ PayPalInv(q)' /\ AttemptInv(q)' /\ OthersInv(q)' /\ BackedInv(q)'
      /\ ReportsInv(q)' /\ lastKey' \in 0..MaxKeys
  BY <1>1, <1>5, PreparingKeeps
<1>7. RowTypes'
  BY <1>3, <1>4, <1>5, <1>6 DEF RowTypes, Prepares, RefundInv, Statuses
<1>8. KeysInv'
  <2>1. lastKey \in Nat /\ MaxKeys \in Nat /\ forgotten \subseteq 1..lastKey
    BY AmountAssumption DEF RefundInv, RowTypes, KeysInv
  <2>2. attempt' = p /\ p # None
    BY <1>3, <1>4, NoneAssumption
  <2>3. lastKey' >= lastKey /\ forgotten' = forgotten
    BY <1>4, <1>5, <2>1 DEF Prepares
  <2>4. forgotten' \subseteq 1..lastKey'
    BY <1>6, <2>1, <2>3
  <2>5. /\ p.key <= lastKey' /\ (p.key \in forgotten => old')
        /\ p.id = 0 => p.key \notin forgotten
    <3>1. CASE NeedsKey
      <4>1. p.key = lastKey + 1 /\ lastKey' = lastKey + 1
        BY <3>1, <1>1, <1>3, <1>5, PreparedFits DEF Prepares
      <4> QED
        BY <4>1, <2>1
    <3>2. CASE ~NeedsKey
      <4>1. /\ attempt # None /\ p.key = attempt.key /\ p.id = Prepared.id
            /\ lastKey' = lastKey /\ old' = old
        BY <3>2, <1>1, <1>3, <1>5, PreparedFits DEF Prepares, RefundInv, RowTypes
      <4> QED
        BY <4>1, <3>2, <1>1 DEF RefundInv, KeysInv, Hopeless
    <3> QED
      BY <3>1, <3>2
  <2>6. \A v \in Workers : worker'[v] = IF v = w THEN p ELSE worker[v]
    BY <1>4 DEF RefundInv, RowTypes
  <2>7. \A v \in Workers : worker'[v] # None /\ worker'[v].id = 0 => worker'[v].key \notin forgotten'
    BY <2>3, <2>5, <2>6 DEF RefundInv, KeysInv
  <2> QED
    BY <2>2, <2>3, <2>4, <2>5, <2>7 DEF KeysInv
<1> QED
  BY <1>6, <1>7, <1>8 DEF RefundInv

-----------------------------------------------------------------------------
\* The second transaction of execute_refund().

LEMMA PaidWithinTotal ==
  ASSUME NEW q, PayPalInv(q)
  PROVE  /\ SumIn(q, Paid(q)) \in Nat /\ SumIn(q, Paid(q)) <= Total
         /\ \A S \in SUBSET Paid(q) : SumIn(q, S) \in Nat /\ SumIn(q, S) <= SumIn(q, Paid(q))
<1> DEFINE T == DOMAIN q \ Failed(q)
<1>1. q \in Seq(Refund) /\ SumIn(q, T) <= Total
  BY DEF PayPalInv
<1>2. Paid(q) \subseteq T /\ T \subseteq DOMAIN q /\ Paid(q) \subseteq DOMAIN q
  BY DEF Paid, Failed
<1> HIDE DEF T
<1>3. /\ IsFiniteSet(T) /\ Counts(q, T) /\ IsFiniteSet(Paid(q)) /\ Counts(q, Paid(q))
      /\ SumIn(q, T) \in Nat /\ SumIn(q, Paid(q)) \in Nat
  BY <1>1, <1>2, RefundsAreFinite
<1>4. SumIn(q, Paid(q)) <= SumIn(q, T)
  BY <1>2, <1>3, SumGrows
<1>5. ASSUME NEW S \in SUBSET Paid(q)
      PROVE  SumIn(q, S) \in Nat /\ SumIn(q, S) <= SumIn(q, Paid(q))
  <2>1. S \subseteq DOMAIN q
    BY <1>2
  <2> QED
    BY <2>1, <1>1, <1>3, RefundsAreFinite, SumGrows
<1>6. SumIn(q, Paid(q)) <= Total
  BY <1>1, <1>3, <1>4, AmountAssumption
<1> QED
  BY <1>3, <1>5, <1>6

\* A completed answer: what the attempt asked for is on top of what it found.
LEMMA AnswerIsBacked ==
  ASSUME NEW q, RefundInv(q), attempt # None, NEW i \in Of(q, attempt.key), i \in Paid(q)
  PROVE  /\ Of(q, attempt.key) = {i}
         /\ attempt.base + attempt.amount <= SumIn(q, Paid(q))
         /\ Higher(refunded, attempt.base + attempt.amount) \in Amounts
         /\ Higher(refunded, attempt.base + attempt.amount) <= SumIn(q, Paid(q))
         /\ Higher(refunded, attempt.base + attempt.amount) >= attempt.base + attempt.amount
<1> USE DEF RefundInv
<1>1. attempt.key # 0 /\ attempt.base \in Nat /\ attempt.amount \in Nat /\ refunded \in Nat /\ Total \in Nat
  BY AmountAssumption DEF RowTypes, Attempt, Amounts
<1>2. Of(q, attempt.key) = {i}
  BY <1>1 DEF PayPalInv, Of
<1>3. SumIn(q, Paid(q)) \in Nat /\ SumIn(q, Paid(q)) <= Total
  BY PaidWithinTotal
<1>4. SumIn(q, Paid(q)) = attempt.amount + SumIn(q, Paid(q) \ {i})
  <2>1. Paid(q) \subseteq DOMAIN q /\ q \in Seq(Refund)
    BY DEF Paid, PayPalInv
  <2>2. IsFiniteSet(Paid(q)) /\ Counts(q, Paid(q))
    BY <2>1, RefundsAreFinite
  <2>3. SumIn(q, Paid(q)) = q[i].amount + SumIn(q, Paid(q) \ {i})
    BY <2>2, SumWithout
  <2> QED
    BY <2>3 DEF AttemptInv
<1>5. attempt.base <= SumIn(q, Paid(q) \ {i}) /\ SumIn(q, Paid(q) \ {i}) \in Nat
  BY <1>2, PaidWithinTotal DEF AttemptInv
<1>6. attempt.base + attempt.amount <= SumIn(q, Paid(q))
  BY <1>1, <1>3, <1>4, <1>5
<1>7. refunded <= SumIn(q, Paid(q))
  BY DEF BackedInv
<1> QED
  BY <1>1, <1>2, <1>3, <1>6, <1>7 DEF Higher, Amounts

LEMMA RecordKeeps ==
  ASSUME NEW q, refunds' = q, RefundInv(q), NEW w \in Workers, StillMine(w),
         NEW i \in Ids, i \in Of(q, attempt.key), Record(i), Leave(w),
         UNCHANGED <<canceled, target, exceptional, lastKey, handler, processed,
                     deadlinePassed, forgotten>>
  PROVE  RefundInv(q)'
<1> USE DEF RefundInv
<1>1. attempt # None /\ attempt \in Attempt /\ target # None /\ target \in Nat
  BY AmountAssumption DEF StillMine, RowTypes, RowInv, Amounts
<1>2. /\ attempt.key \in 1..MaxKeys /\ attempt.base \in Nat /\ attempt.amount \in Nat
      /\ refunded \in Nat /\ Total \in Nat
  BY <1>1, AmountAssumption DEF RowTypes, Attempt, Amounts
<1>3. PayPalInv(q)'
  BY DEF PayPalInv, Failed, Of
<1>4. ReportsInv(q)'
  BY DEF ReportsInv
<1>5. \A v \in Workers : worker'[v] \in {worker[v], None}
  BY DEF Leave, RowTypes
<1>6. worker' \in [Workers -> Attempt \cup {None}]
  BY DEF Leave, RowTypes
<1> DEFINE new == Higher(refunded, attempt.base + attempt.amount)
           s == q[i].status
<1>7. /\ refunded' \in Amounts /\ refunded' >= refunded /\ BackedInv(q)'
      /\ s = "COMPLETED" => refunded' = new /\ refunded' >= attempt.base + attempt.amount
  <2>1. CASE s = "COMPLETED"
    <3>1. refunded' = new
      BY <2>1 DEF Record
    <3>2. i \in Paid(q)
      BY <2>1 DEF Paid, Of
    <3>3. new \in Amounts /\ new <= SumIn(q, Paid(q)) /\ new >= attempt.base + attempt.amount
      BY <3>2, <1>1, AnswerIsBacked
    <3>4. new >= refunded
      BY <1>2 DEF Higher
    <3> HIDE DEF new
    <3> QED
      BY <3>1, <3>3, <3>4 DEF BackedInv, Paid
  <2>2. CASE s # "COMPLETED"
    <3>1. refunded' = refunded
      BY <2>2 DEF Record
    <3> QED
      BY <3>1, <2>2, <1>2 DEF BackedInv, Paid, RowTypes
  <2> QED
    BY <2>1, <2>2
<1> HIDE DEF new
<1>8. ASSUME NEW t, t \in Outcomes \cup {"UNKNOWN"}, attempt' = [attempt EXCEPT !.id = i, !.status = t],
             t = "FAILED" => s = "FAILED",
             status' \in {"COMPLETED", "PENDING"}, status' = "COMPLETED" => refunded' >= target,
             refundId' = i, UNCHANGED <<waiting, old>>
      PROVE  RefundInv(q)'
  <2> PICK a : a = attempt'
    OBVIOUS
  <2>1. /\ a \in Attempt /\ a # None /\ a.key = attempt.key /\ a.base = attempt.base
        /\ a.amount = attempt.amount /\ a.id = i /\ a.status = t
    BY <1>1, <1>8, NoneAssumption DEF Attempt
  <2>2. RowTypes'
    BY <1>6, <1>7, <1>8, <2>1 DEF RowTypes, Statuses
  <2>3. RowInv'
    <3>1. a.base + a.amount <= target /\ a.base <= refunded' /\ a.id # 0
      <4>1. attempt.base + attempt.amount <= target /\ attempt.base <= refunded
        BY <1>1 DEF RowInv
      <4>2. i # 0 /\ refunded' \in Nat
        BY <1>7, AmountAssumption DEF Ids, Amounts
      <4> QED
        BY <4>1, <4>2, <2>1, <1>2, <1>7
    <3> QED
      BY <3>1, <1>1, <1>8, <2>1 DEF RowInv
  <2>4. KeysInv'
    BY <1>1, <1>5, <1>8, <2>1 DEF KeysInv
  <2>5. AttemptInv(q)'
    <3>1. a.status = "FAILED" => i \in Failed(q)
      BY <2>1, <1>8 DEF Failed, Of
    <3> QED
      BY <3>1, <2>1, <1>1 DEF AttemptInv, Of, Paid, Failed
  <2>6. OthersInv(q)'
    <3>1. Others(q)' = Others(q)
      BY <1>1, <2>1 DEF Others
    <3> QED
      BY <3>1, <1>1, <2>1 DEF OthersInv, Paid
  <2> QED
    BY <1>3, <1>4, <1>7, <2>2, <2>3, <2>4, <2>5, <2>6
<1>9. CASE s = "COMPLETED" /\ refunded' >= target
  <2>1. /\ status' = "COMPLETED" /\ refundId' = i /\ UNCHANGED <<waiting, old>>
        /\ attempt' = [attempt EXCEPT !.id = i, !.status = "COMPLETED"]
    BY <1>9 DEF Record
  <2> QED
    BY <2>1, <1>9, <1>8 DEF Outcomes
<1>10. CASE s # "COMPLETED"
  <2> DEFINE t == IF attempt.id # 0 \/ s # "FAILED" THEN s ELSE "PENDING"
  <2>1. /\ status' = "PENDING" /\ refundId' = i /\ UNCHANGED <<waiting, old>>
        /\ attempt' = [attempt EXCEPT !.id = i, !.status = t]
    BY <1>10 DEF Record
  <2>2. q[i] \in Refund
    BY DEF PayPalInv, Of
  <2>3. t \in Outcomes \cup {"UNKNOWN"} /\ (t = "FAILED" => s = "FAILED")
    BY <2>2 DEF Refund, Outcomes
  <2> HIDE DEF t, s
  <2> QED
    BY <2>1, <2>3, <1>8
<1>11. CASE s = "COMPLETED" /\ ~(refunded' >= target)
  <2>1. status' = "REQUESTED" /\ refundId' = 0 /\ attempt' = None /\ waiting' = FALSE /\ old' = FALSE
    BY <1>11 DEF Record
  <2>2. refunded' < target /\ refunded' \in Nat
    BY <1>1, <1>7, <1>11, AmountAssumption DEF Amounts
  <2>3. RowTypes'
    BY <1>6, <1>7, <2>1 DEF RowTypes, Statuses
  <2>4. RowInv'
    BY <1>1, <2>1, <2>2 DEF RowInv
  <2>5. KeysInv'
    BY <1>5, <2>1 DEF KeysInv
  <2>6. AttemptInv(q)'
    BY <2>1 DEF AttemptInv
  <2>7. OthersInv(q)'
    <3>1. i \in Paid(q) /\ Of(q, attempt.key) = {i}
      <4>1. i \in Paid(q)
        BY <1>11 DEF Paid, Of
      <4> QED
        BY <4>1, <1>1, AnswerIsBacked
    <3>2. Others(q)' = Others(q) \cup {i} /\ i \notin Others(q)
      BY <3>1, <2>1, <1>1, <1>2 DEF Others, Of
    <3> DEFINE T == Others(q)' \cap Paid(q)
    <3>3. T \ {i} = Others(q) \cap Paid(q) /\ i \in T /\ T \subseteq Paid(q)
      BY <3>1, <3>2
    <3>4. q \in Seq(Refund) /\ T \subseteq DOMAIN q /\ Others(q) \cap Paid(q) \subseteq DOMAIN q
      BY DEF PayPalInv, Paid
    <3> HIDE DEF T
    <3>5. /\ IsFiniteSet(T) /\ Counts(q, T) /\ SumIn(q, T) \in Nat
          /\ SumIn(q, Others(q) \cap Paid(q)) \in Nat
      BY <3>4, RefundsAreFinite
    <3>6. SumIn(q, T) = q[i].amount + SumIn(q, Others(q) \cap Paid(q))
      <4>1. SumIn(q, T) = q[i].amount + SumIn(q, T \ {i})
        BY <3>3, <3>5, SumWithout
      <4> QED
        BY <4>1, <3>3
    <3>7. SumIn(q, Others(q) \cap Paid(q)) <= attempt.base /\ q[i].amount = attempt.amount
      BY <1>1 DEF OthersInv, AttemptInv
    <3>8. SumIn(q, T) <= attempt.base + attempt.amount
      BY <3>3, <3>5, <3>6, <3>7, <1>2
    <3>9. SumIn(q, T) <= refunded' /\ SumIn(q, T) <= target
      BY <3>5, <3>8, <2>2, <1>1, <1>2, <1>7, <1>11
    <3>10. \A j \in Others(q)' : q[j].status # "PENDING"
      BY <3>1, <3>2 DEF OthersInv, Paid
    <3> QED
      BY <3>9, <3>10, <2>1, <1>1 DEF OthersInv, T, Paid
  <2> QED
    BY <1>3, <1>4, <1>7, <2>3, <2>4, <2>5, <2>6, <2>7
<1> QED
  BY <1>9, <1>10, <1>11

-----------------------------------------------------------------------------
\* The transaction of a webhook.

\* What a webhook adds up is money PayPal has returned.
LEMMA ReportsAreBacked ==
  ASSUME RefundInv(refunds), NEW h \in Handlers, handler[h] # None
  PROVE  /\ Reported(handler[h]) \in Amounts /\ Reported(handler[h]) >= refunded
         /\ Reported(handler[h]) <= SumIn(refunds, Paid(refunds))
<1> USE DEF RefundInv
<1> DEFINE d == handler[h]
           own == IF d.status = "COMPLETED" THEN {d.event[1]} ELSE {}
           past == {i \in Ids : <<i, "COMPLETED">> \in processed}
           X == d.completed \cup own \cup past
<1>1. X \subseteq Paid(refunds)
  BY DEF ReportsInv
<1>2. Reported(d) = Higher(refunded, SumIn(refunds, X))
  BY SumOfIsSumIn DEF Reported
<1> HIDE DEF X, d
<1>3. /\ SumIn(refunds, X) \in Nat /\ SumIn(refunds, X) <= SumIn(refunds, Paid(refunds))
      /\ SumIn(refunds, Paid(refunds)) \in Nat /\ SumIn(refunds, Paid(refunds)) <= Total
  BY <1>1, PaidWithinTotal
<1>4. refunded \in Nat /\ refunded <= SumIn(refunds, Paid(refunds)) /\ Total \in Nat
  BY AmountAssumption DEF RowTypes, BackedInv, Amounts
<1> QED
  BY <1>2, <1>3, <1>4 DEF Higher, Amounts, d

LEMMA SettledFits ==
  ASSUME RefundInv(refunds), NEW d \in Delivery, NEW paid \in Amounts, NEW goal \in Amounts \cup {None},
         target # None => goal # None
  PROVE  LET s == SettledStatus(EventStatus(d, paid), paid, goal)
         IN /\ s \in Statuses
            /\ s = "COMPLETED" /\ goal # None => paid >= goal
            /\ s = "REQUESTED" => goal # None /\ paid < goal
<1> USE DEF RefundInv
<1> DEFINE e == EventStatus(d, paid)
<1>1. e \in Statuses
  BY DEF EventStatus, Delivery, Outcomes, Statuses, RowTypes
<1>2. goal = None => e # "REQUESTED"
  BY DEF EventStatus, Delivery, Outcomes, RowInv
<1> HIDE DEF e
<1> DEFINE s == SettledStatus(e, paid, goal)
<1>3. /\ s \in Statuses
      /\ s = "COMPLETED" /\ goal # None => paid >= goal
      /\ s = "REQUESTED" => goal # None /\ paid < goal
  <2>1. CASE goal = None
    BY <1>1, <1>2, <2>1 DEF SettledStatus
  <2>2. CASE goal # None
    <3>1. goal \in Nat /\ paid \in Nat
      BY <2>2, AmountAssumption DEF Amounts
    <3> QED
      BY <3>1, <1>1, <2>2 DEF SettledStatus, Statuses
  <2> QED
    BY <2>1, <2>2
<1> QED
  BY <1>3 DEF e

\* A report never lowers what is refunded, and a deadline that moved raises the
\* target to the whole price: the attempt under way fits the row as before.
LEMMA ProcessKeeps ==
  ASSUME RefundInv(refunds), NEW h \in Handlers, ProcessEvent(h)
  PROVE  RefundInv(refunds)'
<1> USE DEF RefundInv
<1> DEFINE d == handler[h]
           late == exceptional \/ (deadlinePassed /\ <<0, "CAPTURE">> \notin processed)
           goal == IF late THEN Total ELSE target
           paid == Reported(d)
           s == SettledStatus(EventStatus(d, paid), paid, goal)
           clear == d.status = "COMPLETED" /\ s = "REQUESTED" /\ attempt = None
<1> PICK q : q = refunds
  OBVIOUS
<1>1. /\ d # None /\ d \in Delivery
      /\ handler' = [handler EXCEPT ![h] = None]
      /\ UNCHANGED <<canceled, worker, deadlinePassed, forgotten>> /\ refunds' = q
  BY DEF ProcessEvent, RowTypes, paypal
<1>2. /\ handler' \in [Handlers -> Delivery \cup {None}]
      /\ \A g \in Handlers : handler'[g] \in {handler[g], None}
  BY <1>1 DEF RowTypes
<1>3. CASE d.event \in processed
  <2>1. UNCHANGED <<row, processed>>
    BY <1>3 DEF ProcessEvent
  <2>2. LeavesRow
    BY <2>1, <1>1 DEF LeavesRow, row
  <2>3. RowInv' /\ PayPalInv(q)' /\ AttemptInv(q)' /\ OthersInv(q)' /\ BackedInv(q)'
    BY <2>2, RowIsLeft
  <2>4. RowTypes' /\ KeysInv'
    BY <2>1, <1>1, <1>2 DEF RowTypes, KeysInv, row
  <2>5. ReportsInv(q)'
    BY <2>1, <1>1, <1>2 DEF ReportsInv
  <2>6. RefundInv(q)'
    BY <2>3, <2>4, <2>5
  <2> HIDE DEF RefundInv
  <2> QED
    BY <2>6, <1>1
<1>4. CASE d.event \notin processed
  <2>1. /\ processed' = processed \cup {d.event}
        /\ exceptional' = late /\ target' = goal /\ refunded' = paid /\ status' = s
        /\ refundId' = IF d.status = "NONE" THEN refundId ELSE IF clear THEN 0 ELSE d.event[1]
        /\ UNCHANGED <<attempt, waiting, old, lastKey>>
    BY <1>4 DEF ProcessEvent
  <2>2. paid \in Amounts /\ paid >= refunded /\ paid <= SumIn(q, Paid(q))
    BY <1>1, ReportsAreBacked
  <2>3. /\ late \in BOOLEAN /\ goal \in Amounts \cup {None}
        /\ late => goal = Total
        /\ goal # None <=> canceled \/ late
        /\ target # None => goal # None /\ goal >= target
        /\ exceptional => late
    <3>1. Total \in Amounts /\ Total # None
      BY AmountAssumption, NoneAssumption DEF Amounts
    <3>2. target # None => target \in 0..Total
      BY DEF RowTypes, Amounts
    <3> QED
      BY <3>1, <3>2, AmountAssumption DEF RowTypes, RowInv
  <2> HIDE DEF late, goal, paid
  <2>4. /\ s \in Statuses
        /\ s = "COMPLETED" /\ goal # None => paid >= goal
        /\ s = "REQUESTED" => goal # None /\ paid < goal
    <3>1. d \in Delivery
      BY <1>1
    <3> HIDE DEF d
    <3> QED
      BY <3>1, <2>2, <2>3, SettledFits
  <2> HIDE DEF s
  <2>5. d.event \in Events /\ d.event[1] \in Ids \cup {0}
    BY <1>1 DEF Delivery, Events, CaptureEvents
  <2>6. refundId' \in Ids \cup {0}
    BY <2>1, <2>5 DEF RowTypes
  <2>7. RowTypes'
    BY <1>1, <1>2, <2>1, <2>2, <2>3, <2>4, <2>5, <2>6 DEF RowTypes
  <2>8. RowInv'
    <3>1. attempt # None => /\ attempt.base \in Nat /\ attempt.amount \in Nat /\ target \in Nat
                            /\ attempt.base + attempt.amount <= target /\ attempt.base <= refunded
      BY AmountAssumption DEF RowTypes, RowInv, Attempt, Amounts
    <3>2. refunded \in Nat /\ paid \in Nat /\ (goal # None => goal \in Nat)
      BY <2>2, <2>3, AmountAssumption DEF RowTypes, Amounts
    <3>3. attempt # None => /\ goal # None /\ attempt.base + attempt.amount <= goal
                            /\ attempt.base <= paid
                            /\ attempt.status = "FAILED" => attempt.id # 0
      BY <3>1, <3>2, <2>2, <2>3 DEF RowInv
    <3> QED
      BY <3>3, <1>1, <2>1, <2>3, <2>4 DEF RowInv
  <2>9. KeysInv'
    BY <1>1, <2>1 DEF KeysInv
  <2>10. PayPalInv(q)' /\ AttemptInv(q)'
    BY <2>1 DEF PayPalInv, AttemptInv, Failed, Of, Paid
  <2>11. BackedInv(q)'
    BY <2>1, <2>2 DEF BackedInv, Paid
  <2>12. OthersInv(q)'
    <3>1. Others(q)' = Others(q)
      BY <2>1 DEF Others
    <3> DEFINE n == SumIn(q, Others(q) \cap Paid(q))
    <3>2. n \in Nat
      BY PaidWithinTotal
    <3>3. refunded \in Nat /\ paid \in Nat /\ (goal # None => goal \in Nat) /\ (target # None => target \in Nat)
      BY <2>2, <2>3, AmountAssumption DEF RowTypes, Amounts
    <3>4. n <= refunded => n <= paid
      BY <3>2, <3>3, <2>2
    <3>5. target # None /\ n <= target => goal # None /\ n <= goal
      BY <3>2, <3>3, <2>3
    <3> QED
      BY <3>1, <3>4, <3>5, <2>1 DEF OthersInv, Paid
  <2>13. ReportsInv(q)'
    <3>1. \A i \in Ids : <<i, "COMPLETED">> = d.event => i \in Paid(q)
      BY <1>1 DEF ReportsInv
    <3> QED
      BY <3>1, <2>1, <1>1, <1>2 DEF ReportsInv, Paid
  <2>14. RefundInv(q)'
    BY <2>7, <2>8, <2>9, <2>10, <2>11, <2>12, <2>13
  <2> HIDE DEF RefundInv
  <2> QED
    BY <2>14, <1>1
<1> QED
  BY <1>3, <1>4

-----------------------------------------------------------------------------
\* The invariant holds.

LEMMA InitKeeps ==
  ASSUME Init
  PROVE  RefundInv(refunds)
<1> PICK q : q = refunds
  OBVIOUS
<1>1. q = <<>> /\ DOMAIN q = {} /\ Len(q) = 0 /\ q \in Seq(Refund)
  BY DEF Init
<1>2. /\ Paid(q) = {} /\ Failed(q) = {} /\ Others(q) = {} /\ Of(q, 0) = {}
      /\ DOMAIN q \ Failed(q) = {} /\ Others(q) \cap Paid(q) = {}
  BY <1>1 DEF Paid, Failed, Others, Of
<1>3. /\ SumIn(q, DOMAIN q \ Failed(q)) = 0 /\ SumIn(q, Others(q) \cap Paid(q)) = 0
      /\ SumIn(q, Paid(q)) = 0 /\ Cardinality(Of(q, 0)) = 0
  <2>1. SumIn(q, {}) = 0 /\ Cardinality({}) = 0
    BY EmptySum, FS_EmptySet
  <2> QED
    BY <2>1, <1>2
<1>4. PICK e \in CaptureEvents : processed = {e}
  BY DEF Init
<1>5. RowTypes
  <2>1. canceled \in BOOLEAN /\ exceptional \in BOOLEAN /\ waiting \in BOOLEAN /\ old \in BOOLEAN
    BY DEF Init
  <2>2. deadlinePassed \in BOOLEAN
    BY DEF Init
  <2>3. /\ status \in Statuses /\ target \in Amounts \cup {None} /\ refunded \in Amounts
        /\ refundId \in Ids \cup {0} /\ attempt \in Attempt \cup {None} /\ lastKey \in 0..MaxKeys
    BY AmountAssumption DEF Init, Statuses, Amounts
  <2>4. /\ worker \in [Workers -> Attempt \cup {None}]
        /\ handler \in [Handlers -> Delivery \cup {None}]
    BY DEF Init
  <2>5. processed \subseteq Events
    BY <1>4 DEF Events
  <2> QED
    BY <2>1, <2>2, <2>3, <2>4, <2>5 DEF RowTypes
<1>6. RowInv /\ KeysInv
  <2>1. Total # None /\ Total > 0 /\ Total \in Nat
    BY AmountAssumption, NoneAssumption DEF Amounts
  <2>2. \A w \in Workers : worker[w] = None
    BY DEF Init
  <2>3. RowInv
    BY <2>1 DEF Init, RowInv
  <2> QED
    BY <2>2, <2>3 DEF Init, KeysInv
<1>7. PayPalInv(q)
  <2>1. Total >= 0 /\ MerchantRefunds >= 0 /\ MaxKeys + MerchantRefunds >= 0
    BY AmountAssumption
  <2> QED
    BY <1>1, <1>3, <2>1 DEF PayPalInv
<1>8. AttemptInv(q) /\ OthersInv(q) /\ BackedInv(q)
  BY <1>2, <1>3 DEF Init, AttemptInv, OthersInv, BackedInv
<1>9. ReportsInv(q)
  BY <1>4 DEF Init, ReportsInv, CaptureEvents
<1> QED
  BY <1>5, <1>6, <1>7, <1>8, <1>9 DEF RefundInv

LEMMA RequestKeeps ==
  ASSUME RefundInv(refunds), NEW w \in Workers, StillMine(w), NEW i \in Ids, Reaches(i)
  PROVE  RefundInv(refunds') /\ i \in Of(refunds', attempt.key)
<1>1. PayPalInv(refunds') /\ Moves(refunds, refunds') /\ i \in Of(refunds', attempt.key)
  BY RequestMoves
<1> PICK r : r = refunds'
  OBVIOUS
<1>2. RefundInv(r)
  BY <1>1, MovesKeep
<1> QED
  BY <1>1, <1>2

LEMMA WorkersKeep ==
  ASSUME RefundInv(refunds), NEW w \in Workers, WorkerStep(w) \/ Crash(w)
  PROVE  RefundInv(refunds)'
<1> PICK r : r = refunds'
  OBVIOUS
<1>1. CASE Answered(w)
  <2>1. PICK i \in Ids : Reaches(i) /\ Record(i)
    BY <1>1 DEF Answered
  <2>2. RefundInv(r) /\ i \in Of(r, attempt.key)
    BY <2>1, <1>1, RequestKeeps DEF Answered
  <2>3. RefundInv(r)'
    BY <2>1, <2>2, <1>1, RecordKeeps DEF Answered
  <2> QED
    BY <2>3
<1>2. CASE NotAnswered(w) \/ Crash(w) \/ Overtaken(w)
  <2>1. /\ LeavesRow /\ Leave(w)
        /\ UNCHANGED <<waiting, old, handler, deadlinePassed, forgotten>>
    BY <1>2 DEF NotAnswered, Crash, Overtaken, LeavesRow, row, paypal
  <2>2. RefundInv(r)
    <3>1. CASE refunds' = refunds
      BY <3>1
    <3>2. CASE StillMine(w) /\ \E i \in Ids : Reaches(i)
      BY <3>2, RequestKeeps
    <3> QED
      BY <3>1, <3>2, <1>2 DEF NotAnswered, Crash, Overtaken, paypal
  <2>3. RefundInv(r)'
    BY <2>1, <2>2, EndingKeeps
  <2> QED
    BY <2>3
<1> QED
  BY <1>1, <1>2 DEF WorkerStep

LEMMA OutsideKeeps ==
  ASSUME RefundInv(refunds),
         RetryIsDue \/ WindowCloses \/ PayPalForgets \/ RefundResolves \/ SellerRefunds \/ DeadlineChange
  PROVE  RefundInv(refunds)'
<1> PICK r : r = refunds'
  OBVIOUS
<1>1. RefundInv(r)
  <2>1. CASE RefundResolves \/ SellerRefunds
    <3>1. PayPalInv(refunds') /\ Moves(refunds, refunds')
      BY <2>1, ResolveMoves, SellerMoves
    <3>2. PayPalInv(r) /\ Moves(refunds, r)
      BY <3>1
    <3> QED
      BY <3>2, MovesKeep
  <2>2. CASE RetryIsDue \/ WindowCloses \/ PayPalForgets \/ DeadlineChange
    BY <2>2 DEF RetryIsDue, WindowCloses, PayPalForgets, DeadlineChange, paypal
  <2> QED
    BY <2>1, <2>2
<1>2. Passes
  <2>1. /\ waiting \in BOOLEAN /\ old \in BOOLEAN /\ deadlinePassed \in BOOLEAN
        /\ old => attempt # None
    BY DEF RefundInv, RowTypes, KeysInv
  <2>2. CASE RetryIsDue
    BY <2>1, <2>2 DEF RetryIsDue, Passes, paypal
  <2>3. CASE WindowCloses
    BY <2>1, <2>3 DEF WindowCloses, Passes, paypal
  <2>4. CASE PayPalForgets
    BY <2>1, <2>4 DEF PayPalForgets, Passes, row
  <2>5. CASE RefundResolves \/ SellerRefunds
    BY <2>1, <2>5 DEF RefundResolves, SellerRefunds, Passes, row
  <2>6. CASE DeadlineChange
    BY <2>1, <2>6 DEF DeadlineChange, Passes, row, paypal
  <2> QED
    BY <2>2, <2>3, <2>4, <2>5, <2>6
<1>3. RefundInv(r)'
  BY <1>1, <1>2, PassingKeeps
<1> QED
  BY <1>3

LEMMA NextKeeps ==
  ASSUME RefundInv(refunds), [Next]_vars
  PROVE  RefundInv(refunds)'
<1> PICK q : q = refunds
  OBVIOUS
<1>1. ASSUME refunds' = q, RefundInv(q)'
      PROVE  RefundInv(refunds)'
  BY <1>1
<1>2. ASSUME NEW t \in {0, CustomerTarget, Total}, Cancel(t)
      PROVE  RefundInv(refunds)'
  <2>1. RefundInv(q)' /\ refunds' = q
    BY <1>2, CancelKeeps DEF Cancel, paypal
  <2> QED
    BY <2>1, <1>1
<1>3. ASSUME NEW w \in Workers, NEW m, Checkpoint(w, m) \/ GiveUp(w, m)
      PROVE  RefundInv(refunds)'
  <2>1. RefundInv(q)' /\ refunds' = q
    BY <1>3, CheckpointKeeps, GiveUpKeeps DEF Checkpoint, GiveUp, paypal
  <2> QED
    BY <2>1, <1>1
<1>4. ASSUME NEW w \in Workers, WorkerStep(w) \/ Crash(w)
      PROVE  RefundInv(refunds)'
  BY <1>4, WorkersKeep
<1>5. ASSUME NEW h \in Handlers, Receive(h) \/ ReadCapture(h) \/ ProcessEvent(h) \/ DeliveryLost(h)
      PROVE  RefundInv(refunds)'
  BY <1>5, ReadingKeeps, ProcessKeeps
<1>6. CASE RetryIsDue \/ WindowCloses \/ PayPalForgets \/ RefundResolves \/ SellerRefunds \/ DeadlineChange
  BY <1>6, OutsideKeeps
<1>7. CASE UNCHANGED vars
  <2>1. Passes /\ refunds' = q
    BY <1>7 DEF vars, row, paypal, Passes, RefundInv, RowTypes, KeysInv
  <2>2. RefundInv(q)'
    BY <2>1, PassingKeeps
  <2> QED
    BY <2>1, <2>2, <1>1
<1> QED
  BY <1>2, <1>3, <1>4, <1>5, <1>6, <1>7 DEF Next

LEMMA RefundInvHolds == Spec => []RefundInv(refunds)
<1>1. Init => RefundInv(refunds)
  BY InitKeeps
<1>2. RefundInv(refunds) /\ [Next]_vars => RefundInv(refunds)'
  BY NextKeeps
<1> QED
  BY <1>1, <1>2, PTL DEF Spec

-----------------------------------------------------------------------------
\* What follows from it.

LEMMA PaidIsCompleted ==
  /\ WithStatus("COMPLETED") = Paid(refunds) /\ WithStatus("FAILED") = Failed(refunds)
  /\ Completed = SumIn(refunds, Paid(refunds))
<1>1. WithStatus("COMPLETED") = Paid(refunds) /\ WithStatus("FAILED") = Failed(refunds)
  BY DEF WithStatus, Paid, Failed
<1> QED
  BY <1>1, SumOfIsSumIn DEF Completed

LEMMA AskedWithinTarget ==
  ASSUME RefundInv(refunds)
  PROVE  RefundsWithinTarget
<1> USE DEF RefundInv
<1> DEFINE asked == OwnRefunds \ Failed(refunds)
           known == Others(refunds) \cap Paid(refunds)
<1> SUFFICES ASSUME asked # {}
             PROVE  target # None /\ SumIn(refunds, asked) <= target
  BY PaidIsCompleted, SumOfIsSumIn DEF RefundsWithinTarget
<1>1. refunds \in Seq(Refund) /\ asked \subseteq DOMAIN refunds /\ known \subseteq DOMAIN refunds
  BY DEF PayPalInv, OwnRefunds, Paid
<1>2. \A i \in DOMAIN refunds : refunds[i].status \in Outcomes
  <2>1. \A i \in DOMAIN refunds : refunds[i] \in Refund
    BY <1>1
  <2> QED
    BY <2>1 DEF Refund
<1>3. \A i \in asked : i \in known \/ (attempt # None /\ i \in Of(refunds, attempt.key))
  BY <1>2 DEF OthersInv, Others, OwnRefunds, Paid, Failed, Of, Outcomes
<1>4. known \subseteq asked
  BY DEF Others, OwnRefunds, Paid, Failed
<1>5. CASE attempt = None
  <2>1. asked = known
    BY <1>3, <1>4, <1>5
  <2> QED
    BY <2>1, <1>5 DEF OthersInv
<1>6. CASE attempt # None
  <2>1. /\ target # None /\ attempt.base \in Nat /\ attempt.amount \in Nat /\ target \in Nat
        /\ attempt.base + attempt.amount <= target /\ attempt.key # 0
    BY <1>6, AmountAssumption DEF RowTypes, RowInv, Attempt, Amounts
  <2>2. SumIn(refunds, known) <= attempt.base
    BY <1>6 DEF OthersInv
  <2>3. CASE asked = known
    <3>1. SumIn(refunds, known) \in Nat
      BY <1>1, RefundsAreFinite
    <3> HIDE DEF asked, known
    <3>2. SumIn(refunds, asked) = SumIn(refunds, known)
      BY <2>3
    <3> QED
      BY <3>1, <3>2, <2>1, <2>2
  <2>4. CASE asked # known
    <3>1. PICK i \in asked : i \notin known
      BY <1>4, <2>4
    <3>2. i \in Of(refunds, attempt.key) /\ refunds[i].amount = attempt.amount
      BY <3>1, <1>3, <1>6 DEF AttemptInv
    <3>3. asked \ {i} = known
      <4>1. \A j \in asked \ {i} : j \in known
        BY <3>2, <1>3, <2>1 DEF PayPalInv, Of
      <4> QED
        BY <4>1, <3>1, <1>4
    <3>4. /\ IsFiniteSet(asked) /\ Counts(refunds, asked)
          /\ SumIn(refunds, known) \in Nat
      BY <1>1, RefundsAreFinite
    <3> HIDE DEF asked, known
    <3>5. SumIn(refunds, asked) = refunds[i].amount + SumIn(refunds, known)
      BY <3>1, <3>3, <3>4, SumWithout
    <3> QED
      BY <3>2, <3>4, <3>5, <2>1, <2>2
  <2> QED
    BY <2>3, <2>4
<1> QED
  BY <1>5, <1>6

\* The payment row, the calls and PayPal's records keep their types.
THEOREM RefundsAreTyped == Spec => []TypeOK
<1>1. RefundInv(refunds) => TypeOK
  <2> SUFFICES ASSUME RefundInv(refunds)
               PROVE  TypeOK
    OBVIOUS
  <2>1. RowTypes /\ KeysInv /\ PayPalInv(refunds)
    BY DEF RefundInv
  <2>2. refunds \in Seq(Refund)
    BY <2>1 DEF PayPalInv
  <2>3. forgotten \subseteq 1..MaxKeys
    <3>1. lastKey \in Nat /\ lastKey <= MaxKeys /\ MaxKeys \in Nat
      BY <2>1, AmountAssumption DEF RowTypes
    <3> QED
      BY <3>1, <2>1 DEF KeysInv
  <2> QED
    BY <2>1, <2>2, <2>3 DEF RowTypes, TypeOK
<1> QED
  BY <1>1, RefundInvHolds, PTL

\* No request identity refunds twice, whichever calls die, retry or overtake
\* each other and whatever PayPal forgets: the identity of an unanswered request
\* is given up 44 days after its start (refund_recovery.py:47), before PayPal
\* drops it.
THEOREM NoIdentityRefundsTwice == Spec => []OneRefundPerKey
<1>1. RefundInv(refunds) => OneRefundPerKey
  BY DEF RefundInv, PayPalInv, OneRefundPerKey, OwnRefunds
<1> QED
  BY <1>1, RefundInvHolds, PTL

\* The refunds this code asked for never add up to more than the target
\* (refund_recovery.py:41: the amount of an attempt is the balance when its
\* request is first made), beside any refunds of the seller.
THEOREM NoMoreThanTheTarget == Spec => []RefundsWithinTarget
<1>1. RefundInv(refunds) => RefundsWithinTarget
  BY AskedWithinTarget
<1> QED
  BY <1>1, RefundInvHolds, PTL

\* refunded_amount is money PayPal has returned, in whatever order answers and
\* webhooks record it (refund_recovery.py:93, paypal.py:482).
THEOREM RecordedMoneyIsReturned == Spec => []RefundedIsBacked
<1>1. RefundInv(refunds) => RefundedIsBacked
  BY PaidIsCompleted DEF RefundInv, BackedInv, RefundedIsBacked
<1> QED
  BY <1>1, RefundInvHolds, PTL

\* A refund shown as COMPLETED has returned its whole target, also after the
\* target was raised and after refunds this code did not ask for.
THEOREM CompletedRefundsArePaid == Spec => []CompletedIsPaid
<1>1. RefundInv(refunds) => CompletedIsPaid
  <2> SUFFICES ASSUME RefundInv(refunds), status = "COMPLETED", target # None
               PROVE  Completed >= target
    BY DEF CompletedIsPaid
  <2>1. refunded >= target /\ refunded <= SumIn(refunds, Paid(refunds))
    BY DEF RefundInv, RowInv, BackedInv
  <2>2. refunded \in Nat /\ target \in Nat /\ SumIn(refunds, Paid(refunds)) \in Nat
    BY PaidWithinTotal, AmountAssumption DEF RefundInv, RowTypes, Amounts
  <2>3. Completed = SumIn(refunds, Paid(refunds))
    BY PaidIsCompleted
  <2> QED
    BY <2>1, <2>2, <2>3
<1> QED
  BY <1>1, RefundInvHolds, PTL

\* A refund shown as REQUESTED has a balance left: the shortcut of
\* refund_recovery.py:36-40 for a request without one is never taken.
THEOREM RequestsHaveBalance == Spec => []RequestedHasBalance
<1>1. RefundInv(refunds) => RequestedHasBalance
  BY DEF RefundInv, RowInv, RequestedHasBalance
<1> QED
  BY <1>1, RefundInvHolds, PTL

\* "unknown results never get a fresh key" (refund_recovery.py:1): a new
\* identity is generated only when every earlier request failed at PayPal, or
\* completed and is counted.
THEOREM FreshKeysFollowOutcomes == Spec => FreshKeyOnlyAfterOutcome
<1> DEFINE Settled == /\ \A i \in OwnRefunds : refunds[i].status # "PENDING"
                      /\ SumOf(OwnRefunds \cap WithStatus("COMPLETED")) <= refunded
<1>1. ASSUME RefundInv(refunds), [Next]_vars, lastKey' # lastKey
      PROVE  Settled
  <2>1. NeedsKey
    BY <1>1 DEF Next, vars, row, paypal, Cancel, Checkpoint, GiveUp, WorkerStep, Answered, NotAnswered,
                Overtaken, Crash, Receive, ReadRefund, ReadCapture, ProcessEvent, DeliveryLost, RetryIsDue,
                WindowCloses, PayPalForgets, RefundResolves, SellerRefunds, DeadlineChange
  <2>2. attempt # None => Of(refunds, attempt.key) \subseteq Failed(refunds)
    <3> SUFFICES ASSUME attempt # None
                 PROVE  Of(refunds, attempt.key) \subseteq Failed(refunds)
      OBVIOUS
    <3>1. attempt.status = "FAILED" /\ attempt.key # 0
      BY <1>1, <2>1, AmountAssumption DEF NeedsKey, RefundInv, RowTypes, Attempt
    <3>2. attempt.id \in Failed(refunds) /\ attempt.id \in Of(refunds, attempt.key)
      BY <1>1, <3>1 DEF RefundInv, AttemptInv, RowInv
    <3> QED
      BY <1>1, <3>1, <3>2 DEF RefundInv, PayPalInv, Of
  <2>3. \A i \in OwnRefunds : i \in Others(refunds) \/ i \in Failed(refunds)
    BY <2>2 DEF OwnRefunds, Others, Of
  <2>4. Others(refunds) \subseteq OwnRefunds
    BY DEF OwnRefunds, Others
  <2>5. OwnRefunds \cap Paid(refunds) = Others(refunds) \cap Paid(refunds)
    BY <2>3, <2>4 DEF Failed, Paid
  <2>6. SumIn(refunds, Others(refunds) \cap Paid(refunds)) <= refunded
    <3>1. CASE attempt = None
      BY <1>1, <3>1 DEF RefundInv, OthersInv
    <3>2. CASE attempt # None
      <4>1. /\ SumIn(refunds, Others(refunds) \cap Paid(refunds)) <= attempt.base
            /\ attempt.base <= refunded
        BY <1>1, <3>2 DEF RefundInv, OthersInv, RowInv
      <4>2. /\ SumIn(refunds, Others(refunds) \cap Paid(refunds)) \in Nat
            /\ attempt.base \in Nat /\ refunded \in Nat
        BY <1>1, <3>2, PaidWithinTotal, AmountAssumption DEF RefundInv, RowTypes, Attempt, Amounts
      <4> QED
        BY <4>1, <4>2
    <3> QED
      BY <3>1, <3>2
  <2>7. SumOf(OwnRefunds \cap WithStatus("COMPLETED")) <= refunded
    <3>1. SumOf(OwnRefunds \cap WithStatus("COMPLETED")) = SumIn(refunds, OwnRefunds \cap WithStatus("COMPLETED"))
      BY SumOfIsSumIn
    <3> QED
      BY <3>1, <2>5, <2>6, PaidIsCompleted
  <2> QED
    BY <1>1, <2>3, <2>7 DEF RefundInv, OthersInv, Failed
<1>2. RefundInv(refunds) /\ [Next]_vars => [lastKey' # lastKey => Settled]_vars
  BY <1>1
<1> QED
  BY <1>2, RefundInvHolds, PTL DEF Spec, FreshKeyOnlyAfterOutcome

-----------------------------------------------------------------------------
\* What a step does to the amounts and the status.

\* A refund under way is answered, given up or asked for again.
Attempted ==
  /\ status \in {"REQUESTED", "PENDING", "FAILED"} /\ status' # "NOT_REQUIRED"
  /\ refunded' >= refunded /\ UNCHANGED <<target, exceptional>>

\* A cancellation sets the target of a payment that had none.
Requested ==
  /\ target = None /\ target' \in Amounts /\ UNCHANGED <<refunded, exceptional>> /\ ~exceptional
  /\ status' = "NOT_REQUIRED" <=> target' = 0

\* A webhook: an amount reported, and perhaps found to be late.
ReportedBy(d) ==
  /\ refunded' \in Nat /\ refunded' >= refunded
  /\ exceptional => exceptional'
  /\ target' = IF exceptional' THEN Total ELSE target
  /\ status' = SettledStatus(EventStatus(d, refunded'), refunded', target')

LEMMA RowMoves ==
  ASSUME RefundInv(refunds), [Next]_vars
  PROVE  \/ UNCHANGED <<status, target, refunded, exceptional>>
         \/ Attempted \/ Requested \/ \E h \in Handlers : ReportedBy(handler[h])
<1> DEFINE Goal == \/ UNCHANGED <<status, target, refunded, exceptional>>
                   \/ Attempted \/ Requested \/ \E h \in Handlers : ReportedBy(handler[h])
<1>0. refunded \in Nat /\ Total \in Nat /\ (target # None => target \in Nat)
  BY AmountAssumption DEF RefundInv, RowTypes, Amounts
<1>1. ASSUME NEW t \in {0, CustomerTarget, Total}, Cancel(t) PROVE Goal
  <2>1. CASE exceptional
    BY <1>1, <2>1 DEF Cancel, row
  <2>2. CASE ~exceptional
    <3>1. /\ ~canceled /\ target' = t /\ UNCHANGED <<refunded, exceptional>>
          /\ status' = IF t = 0 THEN "NOT_REQUIRED" ELSE IF refunded >= t THEN "COMPLETED" ELSE "REQUESTED"
      BY <1>1, <2>2 DEF Cancel
    <3>2. target = None /\ t \in Amounts
      BY <2>2, <3>1, AmountAssumption DEF RefundInv, RowInv, Amounts
    <3> QED
      BY <2>2, <3>1, <3>2 DEF Requested
  <2> QED
    BY <2>1, <2>2
<1>2. ASSUME NEW w \in Workers, NEW m, Checkpoint(w, m) \/ GiveUp(w, m) PROVE Goal
  <2>1. /\ status \in {"REQUESTED", "FAILED", "PENDING"} /\ status' \in {"PENDING", "FAILED"}
        /\ UNCHANGED <<target, refunded, exceptional>>
    BY <1>2 DEF Checkpoint, GiveUp, MayTry
  <2> QED
    BY <1>0, <2>1 DEF Attempted
<1>3. ASSUME NEW w \in Workers, NotAnswered(w) PROVE Goal
  BY <1>0, <1>3 DEF NotAnswered, StillMine, Attempted
<1>4. ASSUME NEW w \in Workers, Answered(w) PROVE Goal
  <2>1. status = "PENDING" /\ attempt # None /\ UNCHANGED <<target, exceptional>>
    BY <1>4 DEF Answered, StillMine
  <2>2. attempt.base \in Nat /\ attempt.amount \in Nat
    BY <2>1, AmountAssumption DEF RefundInv, RowTypes, Attempt, Amounts
  <2>3. PICK i \in Ids : Record(i)
    BY <1>4 DEF Answered
  <2>4. /\ refunded' \in {refunded, Higher(refunded, attempt.base + attempt.amount)}
        /\ status' \in {"COMPLETED", "REQUESTED", "PENDING"}
    BY <2>3, Zenon DEF Record
  <2>5. refunded' >= refunded
    BY <1>0, <2>2, <2>4 DEF Higher
  <2> QED
    BY <2>1, <2>4, <2>5 DEF Attempted
<1>5. ASSUME NEW h \in Handlers, ProcessEvent(h) PROVE Goal
  <2> DEFINE d == handler[h]
             late == exceptional \/ (deadlinePassed /\ <<0, "CAPTURE">> \notin processed)
             goal == IF late THEN Total ELSE target
             paid == Reported(d)
  <2>1. CASE d.event \in processed
    BY <1>5, <2>1 DEF ProcessEvent, row
  <2>2. CASE d.event \notin processed
    <3>1. /\ exceptional' = late /\ target' = goal /\ refunded' = paid
          /\ status' = SettledStatus(EventStatus(d, paid), paid, goal)
      BY <1>5, <2>2 DEF ProcessEvent
    <3>2. paid >= refunded /\ paid \in Nat
      BY <1>5, ReportsAreBacked, AmountAssumption DEF ProcessEvent, Amounts
    <3>3. ReportedBy(handler[h])
      BY <3>1, <3>2 DEF ReportedBy
    <3> QED
      BY <3>3
  <2> QED
    BY <2>1, <2>2
<1> SUFFICES ASSUME ~UNCHANGED <<status, target, refunded, exceptional>> PROVE Goal
  OBVIOUS
<1>6. \/ \E t \in {0, CustomerTarget, Total} : Cancel(t)
      \/ \E w \in Workers, m \in {FALSE, lastKey < MaxKeys} : Checkpoint(w, m) \/ GiveUp(w, m)
      \/ \E w \in Workers : Answered(w) \/ NotAnswered(w)
      \/ \E h \in Handlers : ProcessEvent(h)
  BY DEF Next, vars, row, WorkerStep, Overtaken, Crash, Receive, ReadRefund, ReadCapture, DeliveryLost,
         RetryIsDue, WindowCloses, PayPalForgets, RefundResolves, SellerRefunds, DeadlineChange
<1> HIDE DEF Goal
<1> QED
  BY <1>1, <1>2, <1>3, <1>4, <1>5, <1>6

\* Nothing to return is known as such, and only that.
NothingIsNotRequired == target # None => (status = "NOT_REQUIRED" <=> target = 0)

LEMMA SettledIsRight ==
  ASSUME NEW s, NEW paid \in Nat, NEW goal \in Nat, goal # None
  PROVE  /\ SettledStatus(s, paid, goal) = "NOT_REQUIRED" <=> goal = 0
         /\ goal # 0 /\ paid >= goal => SettledStatus(s, paid, goal) = "COMPLETED"
BY DEF SettledStatus

LEMMA NotRequiredIsKept ==
  ASSUME RefundInv(refunds), NothingIsNotRequired, [Next]_vars
  PROVE  NothingIsNotRequired'
<1> USE DEF NothingIsNotRequired
<1>1. CASE Attempted
  BY <1>1 DEF Attempted
<1>2. CASE Requested
  BY <1>2 DEF Requested
<1>3. ASSUME NEW h \in Handlers, ReportedBy(handler[h])
      PROVE  NothingIsNotRequired'
  <2>1. target' # None => target' \in Nat
    BY <1>3, AmountAssumption DEF ReportedBy, RefundInv, RowTypes, Amounts
  <2> QED
    BY <1>3, <2>1, SettledIsRight DEF ReportedBy
<1>4. CASE UNCHANGED <<status, target, refunded, exceptional>>
  BY <1>4
<1> QED
  BY <1>1, <1>2, <1>3, <1>4, RowMoves

LEMMA NotRequiredAtFirst == Init => NothingIsNotRequired
BY AmountAssumption DEF Init, NothingIsNotRequired

\* What was returned, what is to be returned and that it was returned are never
\* taken back; only a payment that turns out late raises its target, to all of it.
RefundsAreFinal ==
  /\ refunded' >= refunded
  /\ target # None => target' \in {target, Total} /\ target' >= target
  /\ exceptional => exceptional' /\ target' = target
  /\ status \in {"COMPLETED", "NOT_REQUIRED"} /\ target # None /\ target' = target => status' = status

\* A refund that is through neither needs nor gets attention again: no webhook
\* that comes late, no retry and no cancellation reopens it (paypal.py:482-567).
THEOREM FinishedRefundsStay == Spec => [][RefundsAreFinal]_vars
<1>1. ASSUME RefundInv(refunds), NothingIsNotRequired, [Next]_vars
      PROVE  RefundsAreFinal
  <2>1. /\ refunded \in Nat /\ Total \in Nat /\ (target # None => target \in Nat /\ target <= Total)
        /\ exceptional => target = Total /\ target # None
        /\ status = "COMPLETED" /\ target # None => refunded >= target
    BY <1>1, AmountAssumption, NoneAssumption DEF RefundInv, RowTypes, RowInv, Amounts
  <2>2. CASE Attempted
    BY <2>1, <2>2 DEF Attempted, RefundsAreFinal
  <2>3. CASE Requested
    BY <2>1, <2>3 DEF Requested, RefundsAreFinal
  <2>4. ASSUME NEW h \in Handlers, ReportedBy(handler[h])
        PROVE  RefundsAreFinal
    <3>1. /\ refunded' \in Nat /\ refunded' >= refunded /\ (exceptional => exceptional')
          /\ target' = IF exceptional' THEN Total ELSE target
      BY <2>4 DEF ReportedBy
    <3>2. ASSUME target # None, target' = target, status \in {"COMPLETED", "NOT_REQUIRED"}
          PROVE  status' = status
      <4>1. PICK s : status' = SettledStatus(s, refunded', target)
        BY <2>4, <3>2 DEF ReportedBy
      <4>2. status = "NOT_REQUIRED" <=> target = 0
        BY <1>1, <3>2 DEF NothingIsNotRequired
      <4>3. target # 0 => refunded' >= target
        BY <2>1, <3>1, <3>2, <4>2
      <4> QED
        BY <2>1, <3>1, <3>2, <4>1, <4>2, <4>3, SettledIsRight
    <3> QED
      BY <2>1, <3>1, <3>2 DEF RefundsAreFinal
  <2>5. CASE UNCHANGED <<status, target, refunded, exceptional>>
    BY <2>1, <2>5 DEF RefundsAreFinal
  <2> QED
    BY <1>1, <2>2, <2>3, <2>4, <2>5, RowMoves
<1>2. RefundInv(refunds) /\ NothingIsNotRequired /\ [Next]_vars
        => NothingIsNotRequired' /\ [RefundsAreFinal]_vars
  BY <1>1, NotRequiredIsKept
<1> QED
  BY <1>2, NotRequiredAtFirst, RefundInvHolds, PTL DEF Spec
=============================================================================
