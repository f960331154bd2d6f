----------------------- MODULE WinnerSelectionProofs -----------------------
(***************************************************************************)
(* What get_winner returns, for every list of bids: any number of bids,    *)
(* any amounts, any exponent, with or without wrapping.                    *)
(***************************************************************************)
EXTENDS MCWinnerSelection, FiniteSetTheorems, TLAPS

(* Induction.  The least number of a set comes from the theorem that the   *)
(* finite sets are well-founded under inclusion.                           *)

LEMMA LeastNumber ==
  ASSUME NEW A \in SUBSET Nat, A # {}
  PROVE  \E m \in A : \A n \in A : m <= n
  <1> DEFINE T == {1..n : n \in A}
  <1>1. T \subseteq FiniteSubsetsOf(Nat)
    <2>1. \A n \in A : IsFiniteSet(1..n) /\ 1..n \in SUBSET Nat
      BY FS_Interval
    <2> QED BY <2>1 DEF FiniteSubsetsOf
  <1>2. T # {}
    OBVIOUS
  <1>3. PICK t \in T : \A s \in T : <<s, t>> \notin StrictSubsetOrdering(Nat)
    <2> HIDE DEF T
    <2> QED BY <1>1, <1>2, FS_StrictSubsetOrderingWellFounded, WFMin
  <1>4. PICK m \in A : t = 1..m
    OBVIOUS
  <1>5. ASSUME NEW n \in A, n < m PROVE FALSE
    <2>1. 1..n \subseteq 1..m /\ m \in 1..m /\ m \notin 1..n
      BY <1>5
    <2>2. <<1..n, 1..m>> \in StrictSubsetOrdering(Nat)
      BY <2>1 DEF StrictSubsetOrdering
    <2> QED BY <1>3, <1>4, <2>2
  <1> QED BY <1>5

LEMMA Induct ==
  ASSUME NEW n \in Nat, NEW A, 0 \in A, \A i \in 1..n : i - 1 \in A => i \in A
  PROVE  0..n \subseteq A
  <1> SUFFICES ASSUME (0..n) \ A # {} PROVE FALSE
      OBVIOUS
  <1>1. PICK m \in (0..n) \ A : \A i \in (0..n) \ A : m <= i
    <2>1. (0..n) \ A \in SUBSET Nat
      OBVIOUS
    <2> QED BY <2>1, LeastNumber
  <1>2. m \in 1..n /\ m - 1 \in 0..n /\ ~(m <= m - 1)
    OBVIOUS
  <1> QED BY <1>1, <1>2

\* A function that is defined by recursion on its argument exists: one from
\* c on whose every value the step h yields from the one before.
StepsOn(S, n, h)  == h \in [1..n -> [S -> S]]
Solves(S, n, c, h, f) ==
  f \in [0..n -> S] /\ f[0] = c /\ \A i \in 1..n : f[i] = h[i][f[i - 1]]

LEMMA Recurrence ==
  ASSUME NEW n \in Nat, NEW S, NEW c \in S, NEW h, StepsOn(S, n, h)
  PROVE  \E f : Solves(S, n, c, h, f)
  <1> USE DEF StepsOn
  <1> DEFINE Follows(f, j) == f[0] = c /\ \A i \in 1..j : f[i] = h[i][f[i - 1]]
             A == {j \in 0..n : \E f \in [0..n -> S] : Follows(f, j)}
  <1>1. 0 \in A
    <2>1. PICK f \in [0..n -> S] : f = [i \in 0..n |-> c]
      OBVIOUS
    <2>2. f[0] = c /\ 1..0 = {}
      BY <2>1
    <2>3. Follows(f, 0)
      BY <2>2
    <2> QED BY <2>3
  <1>2. ASSUME NEW j \in 1..n, j - 1 \in A PROVE j \in A
    <2>1. PICK f \in [0..n -> S] : Follows(f, j - 1)
      BY <1>2
    <2>2. h[j] \in [S -> S] /\ j - 1 \in 0..n
      OBVIOUS
    <2>3. h[j][f[j - 1]] \in S
      BY <2>2
    <2>4. PICK g : g = [f EXCEPT ![j] = h[j][f[j - 1]]]
      OBVIOUS
    <2>5. /\ g \in [0..n -> S] /\ g[j] = h[j][f[j - 1]]
          /\ \A i \in 0..n : i # j => g[i] = f[i]
      BY <2>3, <2>4
    <2>6. g[0] = c
      BY <2>1, <2>5
    <2>7. ASSUME NEW i \in 1..j PROVE g[i] = h[i][g[i - 1]]
      <3>1. CASE i = j
        BY <2>5, <3>1
      <3>2. CASE i # j
        <4>1. i \in 1..(j - 1) /\ i \in 0..n /\ i - 1 \in 0..n /\ i - 1 # j
          BY <3>2
        <4> QED BY <2>1, <2>5, <3>2, <4>1
      <3> QED BY <3>1, <3>2
    <2>8. Follows(g, j)
      BY <2>6, <2>7
    <2> HIDE DEF Follows
    <2> QED BY <2>5, <2>8
  <1> HIDE DEF A
  <1>3. 0..n \subseteq A
    BY <1>1, <1>2, Induct
  <1>4. n \in A
    BY <1>3
  <1> QED BY <1>4 DEF A, Solves

LEMMA PowerSteps ==
  ASSUME NEW x \in Nat, NEW k \in Nat
  PROVE  \E f \in [0..k -> Nat] : /\ f[0] = 1 /\ \A j \in 1..k : f[j] = f[j - 1] * x
                                  /\ Power(x, k) = f[k]
  <1> DEFINE pow == CHOOSE f : f = [j \in 0..k |-> IF j = 0 THEN 1 ELSE f[j - 1] * x]
  <1> HIDE DEF pow
  <1>0. PICK h : h = [j \in 1..k |-> [v \in Nat |-> v * x]]
    OBVIOUS
  <1>1. h \in [1..k -> [Nat -> Nat]]
    <2>1. \A v \in Nat : v * x \in Nat
      OBVIOUS
    <2> QED BY <1>0, <2>1
  <1>2. \A j \in 1..k, v \in Nat : h[j][v] = v * x
    BY <1>0
  <1>3. PICK f \in [0..k -> Nat] : f[0] = 1 /\ \A j \in 1..k : f[j] = h[j][f[j - 1]]
    <2>1. StepsOn(Nat, k, h) /\ 1 \in Nat
      BY <1>1 DEF StepsOn
    <2>2. \E f : Solves(Nat, k, 1, h, f)
      BY <2>1, Recurrence
    <2> QED BY <2>2 DEF Solves
  <1>4. \A j \in 1..k : f[j] = f[j - 1] * x
    <2>1. \A j \in 1..k : f[j - 1] \in Nat
      OBVIOUS
    <2> QED BY <1>2, <1>3, <2>1
  <1>5. f = [j \in 0..k |-> IF j = 0 THEN 1 ELSE f[j - 1] * x]
    <2>1. \A j \in 0..k : f[j] = IF j = 0 THEN 1 ELSE f[j - 1] * x
      BY <1>3, <1>4
    <2> QED BY <2>1
  <1>6. pow = [j \in 0..k |-> IF j = 0 THEN 1 ELSE pow[j - 1] * x]
    BY <1>5 DEF pow
  <1>7. Power(x, k) = pow[k]
    BY DEF Power, pow
  <1>8. \A j \in 0..k : pow[j] = f[j]
    <2> DEFINE A == {j \in 0..k : pow[j] = f[j]}
    <2>1. 0 \in A
      BY <1>3, <1>6
    <2>2. ASSUME NEW j \in 1..k, j - 1 \in A PROVE j \in A
      <3>1. pow[j] = pow[j - 1] * x
        BY <1>6
      <3> QED BY <1>4, <2>2, <3>1
    <2> HIDE DEF A
    <2>3. 0..k \subseteq A
      BY <2>1, <2>2, Induct
    <2> QED BY <2>3 DEF A
  <1>9. Power(x, k) = f[k]
    BY <1>7, <1>8
  <1> QED BY <1>3, <1>4, <1>9

LEMMA SumSteps ==
  ASSUME NEW n \in Nat, NEW s, s \in [1..n -> Nat]
  PROVE  \E f \in [0..n -> Nat] : /\ f[0] = 0 /\ \A i \in 1..n : f[i] = f[i - 1] + s[i]
                                  /\ SumOf(s) = f[n]
  <1> DEFINE sum == CHOOSE f : f = [i \in 0..n |-> IF i = 0 THEN 0 ELSE f[i - 1] + s[i]]
  <1> HIDE DEF sum
  <1>0. PICK h : h = [i \in 1..n |-> [v \in Nat |-> v + s[i]]]
    OBVIOUS
  <1>1. h \in [1..n -> [Nat -> Nat]]
    BY <1>0
  <1>2. \A i \in 1..n, v \in Nat : h[i][v] = v + s[i]
    BY <1>0
  <1>3. PICK f \in [0..n -> Nat] : f[0] = 0 /\ \A i \in 1..n : f[i] = h[i][f[i - 1]]
    <2>1. StepsOn(Nat, n, h) /\ 0 \in Nat
      BY <1>1 DEF StepsOn
    <2>2. \E f : Solves(Nat, n, 0, h, f)
      BY <2>1, Recurrence
    <2> QED BY <2>2 DEF Solves
  <1>4. \A i \in 1..n : f[i] = f[i - 1] + s[i]
    <2>1. \A i \in 1..n : f[i - 1] \in Nat
      OBVIOUS
    <2> QED BY <1>2, <1>3, <2>1
  <1>5. f = [i \in 0..n |-> IF i = 0 THEN 0 ELSE f[i - 1] + s[i]]
    <2>1. \A i \in 0..n : f[i] = IF i = 0 THEN 0 ELSE f[i - 1] + s[i]
      BY <1>3, <1>4
    <2> QED BY <2>1
  <1>6. sum = [i \in 0..n |-> IF i = 0 THEN 0 ELSE sum[i - 1] + s[i]]
    BY <1>5 DEF sum
  <1>7. SumOf(s) = sum[n]
    <2>1. Len(s) = n
      OBVIOUS
    <2> QED BY <2>1 DEF SumOf, sum
  <1>8. \A i \in 0..n : sum[i] = f[i]
    <2> DEFINE A == {i \in 0..n : sum[i] = f[i]}
    <2>1. 0 \in A
      BY <1>3, <1>6
    <2>2. ASSUME NEW i \in 1..n, i - 1 \in A PROVE i \in A
      <3>1. sum[i] = sum[i - 1] + s[i]
        BY <1>6
      <3> QED BY <1>4, <2>2, <3>1
    <2> HIDE DEF A
    <2>3. 0..n \subseteq A
      BY <2>1, <2>2, Induct
    <2> QED BY <2>3 DEF A
  <1>9. SumOf(s) = f[n]
    BY <1>7, <1>8
  <1> QED BY <1>3, <1>4, <1>9

LEMMA PowerFacts ==
  ASSUME NEW x \in Nat, NEW k \in Nat
  PROVE  /\ Power(x, k) \in Nat
         /\ x > 0 => Power(x, k) > 0
         /\ k = 0 => Power(x, k) = 1
         /\ k > 0 /\ x = 0 => Power(x, k) = 0
  <1>1. PICK f \in [0..k -> Nat] : /\ f[0] = 1 /\ \A j \in 1..k : f[j] = f[j - 1] * x
                                   /\ Power(x, k) = f[k]
    BY PowerSteps
  <1>2. Power(x, k) \in Nat
    BY <1>1
  <1>3. ASSUME x > 0 PROVE Power(x, k) > 0
    <2> DEFINE A == {j \in 0..k : f[j] > 0}
    <2>1. 0 \in A
      BY <1>1
    <2>2. ASSUME NEW j \in 1..k, j - 1 \in A PROVE j \in A
      <3>1. f[j] = f[j - 1] * x /\ f[j - 1] \in Nat /\ f[j - 1] > 0
        BY <1>1, <2>2
      <3>2. \A v \in Nat : v > 0 => v * x > 0
        BY <1>3
      <3> QED BY <3>1, <3>2
    <2> HIDE DEF A
    <2>3. 0..k \subseteq A
      BY <2>1, <2>2, Induct
    <2> QED BY <1>1, <2>3 DEF A
  <1>4. ASSUME k > 0, x = 0 PROVE Power(x, k) = 0
    <2>1. k \in 1..k /\ f[k - 1] \in Nat
      BY <1>4
    <2> QED BY <1>1, <1>4, <2>1
  <1> QED BY <1>1, <1>2, <1>3, <1>4

LEMMA SumFacts ==
  ASSUME NEW n \in Nat, NEW s, s \in [1..n -> Nat]
  PROVE  /\ SumOf(s) \in Nat
         /\ \A i \in 1..n : s[i] <= SumOf(s)
         /\ \A i, j \in 1..n : i < j => s[i] + s[j] <= SumOf(s)
  <1>1. PICK f \in [0..n -> Nat] : /\ f[0] = 0 /\ \A i \in 1..n : f[i] = f[i - 1] + s[i]
                                   /\ SumOf(s) = f[n]
    BY SumSteps
  <1>2. \A i \in 0..n : f[i] \in Nat
    OBVIOUS
  <1>3. \A i \in 1..n : /\ s[i] \in Nat /\ f[i] = f[i - 1] + s[i]
                        /\ i - 1 \in 0..n /\ f[i - 1] <= f[i] /\ s[i] <= f[i]
    BY <1>1, <1>2
  <1>4. \A i \in 0..n : \A j \in 0..i : f[j] <= f[i]
    <2> DEFINE A == {i \in 0..n : \A j \in 0..i : f[j] <= f[i]}
    <2>1. 0 \in A
      BY <1>2
    <2>2. ASSUME NEW i \in 1..n, i - 1 \in A PROVE i \in A
      <3>1. \A j \in 0..(i - 1) : f[j] <= f[i - 1]
        BY <2>2
      <3>2. \A j \in 0..i : j = i \/ j \in 0..(i - 1)
        OBVIOUS
      <3> QED BY <1>2, <1>3, <3>1, <3>2
    <2> HIDE DEF A
    <2>3. 0..n \subseteq A
      BY <2>1, <2>2, Induct
    <2> QED BY <2>3 DEF A
  <1>5. ASSUME NEW i \in 1..n PROVE s[i] <= SumOf(s)
    <2>1. f[i] <= f[n] /\ f[n] \in Nat
      BY <1>2, <1>4
    <2> QED BY <1>1, <1>2, <1>3, <2>1
  <1>6. ASSUME NEW i \in 1..n, NEW j \in 1..n, i < j PROVE s[i] + s[j] <= SumOf(s)
    <2>1. f[i] <= f[j - 1] /\ f[j] <= f[n]
      BY <1>4, <1>6
    <2>2. f[i] \in Nat /\ f[j - 1] \in Nat /\ f[j] \in Nat /\ f[n] \in Nat
      BY <1>2, <1>3
    <2> QED BY <1>1, <1>3, <2>1, <2>2
  <1> QED BY <1>1, <1>2, <1>5, <1>6

\* The sum of what is 0 but for one place.
LEMMA SumOfOne ==
  ASSUME NEW n \in Nat, NEW s, s \in [1..n -> Nat], NEW m \in 1..n,
         \A i \in 1..n : i # m => s[i] = 0
  PROVE  SumOf(s) = s[m]
  <1>1. PICK f \in [0..n -> Nat] : /\ f[0] = 0 /\ \A i \in 1..n : f[i] = f[i - 1] + s[i]
                                   /\ SumOf(s) = f[n]
    BY SumSteps
  <1> DEFINE A == {i \in 0..n : f[i] = IF i < m THEN 0 ELSE s[m]}
  <1>2. 0 \in A
    BY <1>1
  <1>3. ASSUME NEW i \in 1..n, i - 1 \in A PROVE i \in A
    <2>1. /\ f[i] = f[i - 1] + s[i] /\ s[m] \in Nat
          /\ f[i - 1] = IF i - 1 < m THEN 0 ELSE s[m]
      BY <1>1, <1>3
    <2>2. CASE i = m
      BY <2>1, <2>2
    <2>3. CASE i # m
      BY <2>1, <2>3
    <2> QED BY <2>2, <2>3
  <1> HIDE DEF A
  <1>4. 0..n \subseteq A
    BY <1>2, <1>3, Induct
  <1> QED BY <1>1, <1>4 DEF A

LEMMA SumOfNone ==
  ASSUME NEW n \in Nat, NEW s, s \in [1..n -> Nat], \A i \in 1..n : s[i] = 0
  PROVE  SumOf(s) = 0
  <1>1. CASE n = 0
    BY <1>1, SumSteps
  <1>2. CASE n > 0
    BY <1>2, SumOfOne
  <1> QED BY <1>1, <1>2
-----------------------------------------------------------------------------
(* The sort.  The places of the bids after it are those of a permutation.  *)

LEMMA RankType ==
  ASSUME NEW n \in Nat, NEW p, p \in [1..n -> Int], NEW i \in 1..n
  PROVE  Rank(p, i) \in 1..n
  <1> DEFINE B == {j \in 1..n : p[j] < p[i] \/ (p[j] = p[i] /\ j <= i)}
  <1>1. B \subseteq 1..n /\ i \in B
    OBVIOUS
  <1>2. DOMAIN p = 1..n
    OBVIOUS
  <1>3. Rank(p, i) = Cardinality(B)
    BY <1>2 DEF Rank
  <1> HIDE DEF B
  <1>4. IsFiniteSet(1..n) /\ Cardinality(1..n) = n
    BY FS_Interval
  <1>5. IsFiniteSet(B) /\ Cardinality(B) <= n
    <2>1. B \in SUBSET (1..n)
      BY <1>1
    <2>2. IsFiniteSet(B) /\ Cardinality(B) <= Cardinality(1..n)
      BY <1>4, <2>1, FS_Subset
    <2> QED BY <1>4, <2>2
  <1>6. Cardinality(B) \in Nat /\ Cardinality(B) # 0
    BY <1>1, <1>5, FS_CardinalityType, FS_EmptySet
  <1> QED BY <1>3, <1>5, <1>6

\* Ahead: the order the sort puts the bids in.
Ahead(p, i, j) == p[i] < p[j] \/ (p[i] = p[j] /\ i < j)

LEMMA RankOrder ==
  ASSUME NEW n \in Nat, NEW p, p \in [1..n -> Int], NEW i \in 1..n, NEW j \in 1..n,
         Ahead(p, i, j)
  PROVE  Rank(p, i) < Rank(p, j)
  <1> DEFINE B(k) == {l \in 1..n : p[l] < p[k] \/ (p[l] = p[k] /\ l <= k)}
  <1>0. \A l \in 1..n : p[l] \in Int
    OBVIOUS
  <1>1. B(i) \subseteq B(j) /\ j \in B(j) /\ j \notin B(i)
    BY <1>0 DEF Ahead
  <1>2. Rank(p, i) = Cardinality(B(i)) /\ Rank(p, j) = Cardinality(B(j)) /\ B(j) \subseteq 1..n
    BY DEF Rank
  <1> HIDE DEF B
  <1>3. IsFiniteSet(B(j))
    <2>1. IsFiniteSet(1..n) /\ B(j) \in SUBSET (1..n)
      BY <1>2, FS_Interval
    <2> QED BY <2>1, FS_Subset
  <1>4. IsFiniteSet(B(i)) /\ Cardinality(B(i)) <= Cardinality(B(j)) /\ Cardinality(B(i)) # Cardinality(B(j))
    BY <1>1, <1>3, FS_Subset
  <1>5. Cardinality(B(i)) \in Nat /\ Cardinality(B(j)) \in Nat
    BY <1>3, <1>4, FS_CardinalityType
  <1> QED BY <1>2, <1>4, <1>5

LEMMA SortIsAPermutation ==
  ASSUME NEW n \in Nat, NEW p, p \in [1..n -> Int]
  PROVE  /\ \A i, j \in 1..n : Rank(p, i) = Rank(p, j) => i = j
         /\ \A r \in 1..n : SortedBidders(p)[r] \in 1..n /\ Rank(p, SortedBidders(p)[r]) = r
  <1>1. ASSUME NEW i \in 1..n, NEW j \in 1..n, Rank(p, i) = Rank(p, j) PROVE i = j
    <2>1. p[i] \in Int /\ p[j] \in Int
      OBVIOUS
    <2>2. Rank(p, i) \in 1..n /\ Rank(p, j) \in 1..n
      BY RankType
    <2>3. i = j \/ Ahead(p, i, j) \/ Ahead(p, j, i)
      BY <2>1 DEF Ahead
    <2>4. ~Ahead(p, i, j)
      BY <1>1, <2>2, RankOrder
    <2>5. ~Ahead(p, j, i)
      BY <1>1, <2>2, RankOrder
    <2> QED BY <2>3, <2>4, <2>5
  <1>2. ASSUME NEW r \in 1..n PROVE \E i \in 1..n : Rank(p, i) = r
    <2> SUFFICES ASSUME \A i \in 1..n : Rank(p, i) # r PROVE FALSE
        OBVIOUS
    <2>1. PICK f : f = [i \in 1..n |-> Rank(p, i)]
      OBVIOUS
    <2>2. f \in [1..n -> (1..n) \ {r}]
      BY <2>1, RankType
    <2>3. IsFiniteSet(1..n) /\ Cardinality(1..n) = n
      BY FS_Interval
    <2>4. IsFiniteSet((1..n) \ {r}) /\ Cardinality((1..n) \ {r}) = n - 1
      BY <2>3, FS_RemoveElement
    <2>5. \E i, j \in 1..n : i # j /\ f[i] = f[j]
      <3>1. PICK S, T : S = 1..n /\ T = (1..n) \ {r}
        OBVIOUS
      <3>2. IsFiniteSet(S) /\ IsFiniteSet(T) /\ Cardinality(T) < Cardinality(S) /\ f \in [S -> T]
        BY <2>2, <2>3, <2>4, <3>1
      <3>3. \E i, j \in S : i # j /\ f[i] = f[j]
        BY <3>2, FS_PigeonHole, Zenon
      <3> QED BY <3>1, <3>3
    <2> QED BY <1>1, <2>1, <2>5
  <1>3. ASSUME NEW r \in 1..n
        PROVE  SortedBidders(p)[r] \in 1..n /\ Rank(p, SortedBidders(p)[r]) = r
    <2>1. DOMAIN p = 1..n
      OBVIOUS
    <2>2. SortedBidders(p)[r] = CHOOSE i \in 1..n : Rank(p, i) = r
      BY <2>1 DEF SortedBidders
    <2> QED BY <1>2, <2>2
  <1> QED BY <1>1, <1>3
-----------------------------------------------------------------------------
(* One call.                                                               *)

Bid     == [name : Names, addr : Nat, amount : Nat]
BidList == {s \in Seq(Bid) : \A i \in 1..Len(s) : s[i].addr = i}

LEMMA OfLists ==
  ASSUME NEW s \in BidList
  PROVE  /\ Len(s) \in Nat /\ DOMAIN s = 1..Len(s)
         /\ Range(s) = {s[i] : i \in 1..Len(s)}
         /\ \A i \in 1..Len(s) : s[i] \in Bid /\ s[i].amount \in Nat /\ s[i].addr = i
         /\ \A i, j \in 1..Len(s) : s[i] = s[j] => i = j
  <1>1. s \in Seq(Bid) /\ \A i \in 1..Len(s) : s[i].addr = i
    BY DEF BidList
  <1>2. /\ Len(s) \in Nat /\ DOMAIN s = 1..Len(s)
        /\ \A i \in 1..Len(s) : s[i] \in Bid
    BY <1>1
  <1>3. \A i \in 1..Len(s) : s[i].amount \in Nat
    BY <1>2 DEF Bid
  <1>4. Range(s) = {s[i] : i \in 1..Len(s)}
    BY <1>2 DEF Range
  <1> QED BY <1>1, <1>2, <1>3, <1>4

LEMMA Remainders ==
  ASSUME NEW x \in Nat, NEW m \in Nat, m > 0
  PROVE  x % m \in 0..(m - 1) /\ (x < m => x % m = x) /\ x \div m \in Nat
  OBVIOUS

LEMMA OfWeights ==
  ASSUME NEW s \in BidList, NEW k \in Nat
  PROVE  /\ Weights(s, k) \in [1..Len(s) -> Nat]
         /\ TotalBidAmount(s, k) \in Nat
         /\ TotalBidAmount(s, k) # 0 => Percentages(s, k) \in [1..Len(s) -> Nat]
  <1>1. ASSUME NEW i \in 1..Len(s) PROVE WrappingPow(s[i].amount, k) \in Nat
    <2>1. Power(s[i].amount, k) \in Nat
      BY OfLists, PowerFacts
    <2> QED BY <2>1, ModulusAssumption, Remainders DEF WrappingPow
  <1>2. Weights(s, k) \in [1..Len(s) -> Nat]
    BY <1>1, OfLists DEF Weights
  <1>3. TotalBidAmount(s, k) \in Nat
    <2>1. SumOf(Weights(s, k)) \in Nat
      BY <1>2, OfLists, SumFacts
    <2> QED BY <2>1, ModulusAssumption, Remainders DEF TotalBidAmount
  <1>4. ASSUME TotalBidAmount(s, k) # 0 PROVE Percentages(s, k) \in [1..Len(s) -> Nat]
    <2>1. \A i \in 1..Len(s) : Weights(s, k)[i] \div TotalBidAmount(s, k) \in Nat
      <3>1. \A i \in 1..Len(s) : Weights(s, k)[i] \in Nat
        BY <1>2
      <3>2. TotalBidAmount(s, k) > 0
        BY <1>3, <1>4
      <3> QED BY <1>3, <3>1, <3>2, Remainders
    <2> QED BY <2>1, OfLists DEF Percentages
  <1> QED BY <1>2, <1>3, <1>4

\* The index is in the bounds of the sorted list.
LEMMA OfIndex ==
  ASSUME NEW s \in BidList, NEW k \in Nat, k # 0, Len(s) > 0, TotalBidAmount(s, k) # 0
  PROVE  /\ IndexWinner(s, k) \in 0..(Len(s) - 1)
         /\ SortedBidders(Percentages(s, k))[IndexWinner(s, k) + 1] \in 1..Len(s)
  <1>1. PICK p : p = Percentages(s, k)
    OBVIOUS
  <1>2. p \in [1..Len(s) -> Nat] /\ p \in [1..Len(s) -> Int] /\ Len(s) \in Nat
    BY <1>1, OfLists, OfWeights
  <1>3. \A r \in 1..Len(s) : SortedBidders(p)[r] \in 1..Len(s)
    BY <1>2, SortIsAPermutation
  <1>4. PICK x : x = p[SortedBidders(p)[Len(s)]] - p[SortedBidders(p)[1]]
    OBVIOUS
  <1>5. x \in Int
    <2>1. Len(s) \in 1..Len(s) /\ 1 \in 1..Len(s)
      BY <1>2
    <2>2. \A i \in 1..Len(s) : p[i] \in Nat
      BY <1>2
    <2> QED BY <1>3, <1>4, <2>1, <2>2
  <1>6. IndexWinner(s, k) = (x % k) % Len(s)
    BY <1>1, <1>4 DEF IndexWinner
  <1>7. (x % k) % Len(s) \in 0..(Len(s) - 1)
    <2>1. x % k \in 0..(k - 1)
      BY <1>5
    <2> QED BY <1>2, <2>1
  <1>8. IndexWinner(s, k) + 1 \in 1..Len(s)
    BY <1>2, <1>6, <1>7
  <1> QED BY <1>1, <1>3, <1>6, <1>7, <1>8

LEMMA FirstOfName ==
  ASSUME NEW s \in BidList, NEW m \in 1..Len(s)
  PROVE  \E i \in 1..Len(s) : IsFirstOfName(s, s[m].name, s[i])
  <1> DEFINE A == {i \in 1..Len(s) : s[i].name = s[m].name}
  <1>1. A \in SUBSET Nat /\ A # {}
    OBVIOUS
  <1>2. PICK i \in A : \A j \in A : i <= j
    BY <1>1, LeastNumber
  <1>3. \A j \in 1..(i - 1) : j \in 1..Len(s) /\ ~(i <= j)
    BY OfLists
  <1>4. \A j \in 1..(i - 1) : s[j].name # s[m].name
    BY <1>2, <1>3
  <1> QED BY <1>2, <1>4, OfLists DEF IsFirstOfName

LEMMA SomebodyIsElected ==
  ASSUME NEW s \in BidList, NEW k \in Exponents(s), ~Panics(s, k)
  PROVE  \E b \in Range(s) : Elects(s, k, b)
  <1>1. Len(s) \in Nat /\ Len(s) > 0 /\ k \in Nat
    BY OfLists DEF Exponents
  <1>2. \A i \in 1..Len(s) : s[i] \in Range(s)
    BY OfLists
  <1>3. CASE TotalBidAmount(s, k) = 0
    <2>1. 1 \in 1..Len(s)
      BY <1>1
    <2> QED BY <1>2, <1>3, <2>1 DEF Elects
  <1>4. CASE TotalBidAmount(s, k) # 0 /\ Len(s) = 1
    <2>1. PICK p : p = Percentages(s, k)
      OBVIOUS
    <2>2. p \in [1..Len(s) -> Int]
      <3>1. p \in [1..Len(s) -> Nat]
        BY <1>1, <1>4, <2>1, OfWeights
      <3> QED BY <3>1
    <2>3. 1 \in 1..Len(s)
      BY <1>1
    <2>4. PICK m \in 1..Len(s) : m = SortedBidders(p)[1]
      BY <1>1, <2>2, <2>3, SortIsAPermutation
    <2>5. PICK i \in 1..Len(s) : IsFirstOfName(s, s[m].name, s[i])
      BY FirstOfName
    <2>6. SortedBidders(Percentages(s, k))[0 + 1] = m
      BY <2>1, <2>4
    <2> QED BY <1>2, <1>4, <2>5, <2>6 DEF Elects
  <1>5. CASE TotalBidAmount(s, k) # 0 /\ Len(s) > 1
    <2>1. k # 0
      BY <1>5 DEF Panics
    <2>2. PICK m \in 1..Len(s) : m = SortedBidders(Percentages(s, k))[IndexWinner(s, k) + 1]
      BY <1>1, <1>5, <2>1, OfIndex
    <2>3. PICK i \in 1..Len(s) : IsFirstOfName(s, s[m].name, s[i])
      BY FirstOfName
    <2>4. Elects(s, k, s[i])
      BY <1>5, <2>1, <2>2, <2>3 DEF Elects
    <2> QED BY <1>2, <2>4
  <1>6. Len(s) = 1 \/ Len(s) > 1
    BY <1>1
  <1> QED BY <1>3, <1>4, <1>5, <1>6

-----------------------------------------------------------------------------
(* All calls.                                                              *)

ListInv ==
  /\ bids \in BidList
  /\ drawn = NotCalled \/ drawn \in Exponents(bids)
  /\ Called => result = IF Panics(bids, drawn) THEN {Panic}
                        ELSE {b \in Range(bids) : Elects(bids, drawn, b)}

LEMMA ListInvHolds == Spec => []ListInv
  <1>1. Init => ListInv
    BY DEF Init, ListInv, BidList, Called
  <1>2. ListInv /\ [Next]_vars => ListInv'
    <2> SUFFICES ASSUME ListInv, [Next]_vars PROVE ListInv'
        OBVIOUS
    <2>1. CASE AddBid
      <3>1. PICK n \in Names, a \in 0..MaxAmount :
              bids' = Append(bids, [name |-> n, addr |-> Len(bids) + 1, amount |-> a])
        BY <2>1 DEF AddBid
      <3>2. PICK b \in Bid : b = [name |-> n, addr |-> Len(bids) + 1, amount |-> a]
        <4>1. a \in Nat /\ Len(bids) + 1 \in Nat
          BY BoundsAssumption, OfLists DEF ListInv
        <4> QED BY <4>1 DEF Bid
      <3>3. bids \in Seq(Bid) /\ \A i \in 1..Len(bids) : bids[i].addr = i
        BY DEF ListInv, BidList
      <3>4. /\ bids' \in Seq(Bid) /\ Len(bids') = Len(bids) + 1
            /\ \A i \in 1..Len(bids) : bids'[i] = bids[i]
            /\ bids'[Len(bids) + 1] = b /\ b.addr = Len(bids) + 1
        BY <3>1, <3>2, <3>3
      <3>5. \A i \in 1..Len(bids') : i \in 1..Len(bids) \/ i = Len(bids) + 1
        BY <3>3, <3>4
      <3>6. bids' \in BidList
        BY <3>3, <3>4, <3>5 DEF BidList
      <3> QED BY <2>1, <3>6 DEF AddBid, ListInv, Called
    <2>2. CASE GetWinner
      <3>1. PICK k \in Exponents(bids) :
              /\ drawn' = k /\ bids' = bids
              /\ result' = IF Panics(bids, k) THEN {Panic}
                           ELSE {b \in Range(bids) : Elects(bids, k, b)}
        BY <2>2 DEF GetWinner
      <3> QED BY <3>1 DEF ListInv
    <2>3. CASE UNCHANGED vars
      BY <2>3 DEF vars, ListInv, Called
    <2> QED BY <2>1, <2>2, <2>3 DEF Next
  <1> QED BY <1>1, <1>2, PTL DEF Spec

(* Every call of get_winner that returns returns a bid of the contest, for *)
(* any number of bids and any amounts, also when pow and sum wrap: the     *)
(* index stays inside the sorted list and the lookup by name finds a bid   *)
(* (data_structure.rs:209-254).                                            *)
THEOREM WinnersAreFound == Spec => []AlwaysDecided
  <1>1. ListInv => AlwaysDecided
    <2> SUFFICES ASSUME ListInv, Called PROVE result # {}
        BY DEF AlwaysDecided
    <2>1. bids \in BidList /\ drawn \in Exponents(bids)
      BY DEF ListInv, Called
    <2>2. CASE Panics(bids, drawn)
      BY <2>2 DEF ListInv
    <2>3. CASE ~Panics(bids, drawn)
      BY <2>1, <2>3, SomebodyIsElected DEF ListInv
    <2> QED BY <2>2, <2>3
  <1> QED BY <1>1, ListInvHolds, PTL

-----------------------------------------------------------------------------
(* Who wins, if nothing wraps.                                             *)

LEMMA Shares ==
  ASSUME NEW w \in Nat, NEW m \in Nat, m > 0
  PROVE  /\ w < m => w \div m = 0
         /\ w = m => w \div m = 1
  OBVIOUS

LEMMA ExactWeights ==
  ASSUME NEW s \in BidList, NEW k \in Nat,
         SumOf([i \in DOMAIN s |-> Power(s[i].amount, k)]) < Modulus
  PROVE  /\ \A i \in 1..Len(s) : Weights(s, k)[i] = Power(s[i].amount, k)
         /\ TotalBidAmount(s, k) = SumOf(Weights(s, k))
  <1>1. PICK raw : raw = [i \in DOMAIN s |-> Power(s[i].amount, k)]
    OBVIOUS
  <1>2. /\ raw \in [1..Len(s) -> Nat]
        /\ \A i \in 1..Len(s) : raw[i] = Power(s[i].amount, k) /\ raw[i] \in Nat
    BY <1>1, OfLists, PowerFacts
  <1>3. SumOf(raw) \in Nat /\ SumOf(raw) < Modulus /\ \A i \in 1..Len(s) : raw[i] <= SumOf(raw)
    BY <1>1, <1>2, OfLists, SumFacts
  <1>4. \A i \in 1..Len(s) : raw[i] % Modulus = raw[i]
    <2> SUFFICES ASSUME NEW i \in 1..Len(s) PROVE raw[i] % Modulus = raw[i]
        OBVIOUS
    <2>1. raw[i] \in Nat /\ raw[i] <= SumOf(raw)
      BY <1>2, <1>3
    <2>2. Modulus \in Nat /\ Modulus > 0 /\ raw[i] < Modulus
      BY <1>3, <2>1, ModulusAssumption
    <2> QED BY <2>1, <2>2, Remainders
  <1>5. Weights(s, k) = raw
    BY <1>1, <1>2, <1>4, OfLists DEF Weights, WrappingPow
  <1>6. SumOf(raw) % Modulus = SumOf(raw)
    <2>1. Modulus \in Nat /\ Modulus > 0
      BY ModulusAssumption
    <2> QED BY <1>3, <2>1, Remainders
  <1> QED BY <1>2, <1>5, <1>6 DEF TotalBidAmount

\* Equal shares stay in the order of the bids.
LEMMA FlatSort ==
  ASSUME NEW n \in Nat, NEW p, p \in [1..n -> Int], \A i \in 1..n : p[i] = 0
  PROVE  \A r \in 1..n : SortedBidders(p)[r] = r
  <1>1. ASSUME NEW i \in 1..n PROVE Rank(p, i) = i
    <2>1. {j \in 1..n : p[j] < p[i] \/ (p[j] = p[i] /\ j <= i)} = 1..i
      OBVIOUS
    <2>2. Rank(p, i) = Cardinality(1..i)
      <3>1. DOMAIN p = 1..n
        OBVIOUS
      <3> QED BY <2>1, <3>1 DEF Rank
    <2>3. Cardinality(1..i) = i
      BY FS_Interval
    <2> QED BY <2>2, <2>3
  <1> QED BY <1>1, SortIsAPermutation

StakedIn(s) == {i \in 1..Len(s) : s[i].amount > 0}

LEMMA StakedWeights ==
  ASSUME NEW s \in BidList, NEW k \in Nat, k > 0,
         SumOf([i \in DOMAIN s |-> Power(s[i].amount, k)]) < Modulus
  PROVE  /\ Weights(s, k) \in [1..Len(s) -> Nat]
         /\ TotalBidAmount(s, k) = SumOf(Weights(s, k)) /\ TotalBidAmount(s, k) \in Nat
         /\ \A l \in StakedIn(s) : l \in 1..Len(s) /\ Weights(s, k)[l] > 0
         /\ \A l \in (1..Len(s)) \ StakedIn(s) : Weights(s, k)[l] = 0
  <1>1. \A l \in 1..Len(s) : Weights(s, k)[l] = Power(s[l].amount, k)
    BY ExactWeights
  <1>2. TotalBidAmount(s, k) = SumOf(Weights(s, k))
    BY ExactWeights
  <1>3. Weights(s, k) \in [1..Len(s) -> Nat] /\ TotalBidAmount(s, k) \in Nat
    BY OfWeights
  <1>4. ASSUME NEW l \in StakedIn(s) PROVE l \in 1..Len(s) /\ Weights(s, k)[l] > 0
    <2>1. l \in 1..Len(s) /\ s[l].amount \in Nat /\ s[l].amount > 0
      BY OfLists DEF StakedIn
    <2> QED BY <1>1, <2>1, PowerFacts
  <1>5. ASSUME NEW l \in (1..Len(s)) \ StakedIn(s) PROVE Weights(s, k)[l] = 0
    <2>1. s[l].amount \in Nat /\ s[l].amount = 0
      BY OfLists DEF StakedIn
    <2> QED BY <1>1, <2>1, PowerFacts
  <1> QED BY <1>2, <1>3, <1>4, <1>5

LEMMA ManyStaked ==
  ASSUME NEW s \in BidList, NEW k \in Nat, k > 0,
         SumOf([i \in DOMAIN s |-> Power(s[i].amount, k)]) < Modulus,
         NEW i \in StakedIn(s), NEW j \in StakedIn(s), i # j
  PROVE  /\ TotalBidAmount(s, k) # 0
         /\ \A l \in 1..Len(s) : Percentages(s, k)[l] = 0
  <1>1. PICK w : w = Weights(s, k)
    OBVIOUS
  <1>2. PICK sum : sum = TotalBidAmount(s, k)
    OBVIOUS
  <1>3. /\ w \in [1..Len(s) -> Nat] /\ sum = SumOf(w) /\ sum \in Nat
        /\ \A l \in StakedIn(s) : l \in 1..Len(s) /\ w[l] > 0
        /\ \A l \in (1..Len(s)) \ StakedIn(s) : w[l] = 0
    BY <1>1, <1>2, StakedWeights
  <1>4. Len(s) \in Nat /\ \A l \in 1..Len(s) : w[l] \in Nat
    BY <1>3, OfLists
  <1>6. \A l, m \in 1..Len(s) : l # m => w[l] + w[m] <= sum
    <2>1. \A l, m \in 1..Len(s) : l < m => w[l] + w[m] <= SumOf(w)
      BY <1>3, <1>4, SumFacts
    <2>2. \A l, m \in 1..Len(s) : l # m => l < m \/ m < l
      OBVIOUS
    <2> QED BY <1>3, <1>4, <2>1, <2>2
  <1>7. sum > 0
    <2>1. i \in 1..Len(s) /\ j \in 1..Len(s) /\ w[i] > 0 /\ w[j] > 0
      BY <1>3
    <2> QED BY <1>3, <1>4, <1>6, <2>1
  <1>8. ASSUME NEW l \in 1..Len(s) PROVE w[l] < sum
    <2>1. CASE l \notin StakedIn(s)
      BY <1>3, <1>7, <2>1
    <2>2. CASE l \in StakedIn(s)
      <3>1. PICK m \in {i, j} : m # l
        OBVIOUS
      <3>2. w[m] > 0 /\ w[l] + w[m] <= sum /\ w[m] \in Nat /\ w[l] \in Nat
        BY <1>3, <1>4, <1>6, <3>1
      <3> QED BY <1>3, <3>2
    <2> QED BY <2>1, <2>2
  <1>9. \A l \in 1..Len(s) : w[l] \div sum = 0
    BY <1>3, <1>7, <1>8, Shares
  <1> QED BY <1>1, <1>2, <1>7, <1>9, OfLists DEF Percentages

LEMMA OneStaked ==
  ASSUME NEW s \in BidList, NEW k \in Nat, k > 0,
         SumOf([i \in DOMAIN s |-> Power(s[i].amount, k)]) < Modulus,
         NEW m \in 1..Len(s), StakedIn(s) = {m}
  PROVE  /\ TotalBidAmount(s, k) # 0
         /\ \A l \in 1..Len(s) : Percentages(s, k)[l] = IF l = m THEN 1 ELSE 0
  <1>1. PICK w : w = Weights(s, k)
    OBVIOUS
  <1>2. PICK sum : sum = TotalBidAmount(s, k)
    OBVIOUS
  <1>3. /\ w \in [1..Len(s) -> Nat] /\ sum = SumOf(w) /\ sum \in Nat
        /\ \A l \in StakedIn(s) : l \in 1..Len(s) /\ w[l] > 0
        /\ \A l \in (1..Len(s)) \ StakedIn(s) : w[l] = 0
    BY <1>1, <1>2, StakedWeights
  <1>4. w[m] > 0 /\ w[m] \in Nat
    BY <1>3
  <1>5. \A l \in 1..Len(s) : l # m => w[l] = 0
    BY <1>3
  <1>6. sum = w[m]
    <2>1. Len(s) \in Nat
      BY OfLists
    <2>2. SumOf(w) = w[m]
      BY <1>3, <1>5, <2>1, SumOfOne
    <2> QED BY <1>3, <2>2
  <1>7. \A l \in 1..Len(s) : w[l] \div sum = IF l = m THEN 1 ELSE 0
    BY <1>3, <1>4, <1>5, <1>6, Shares
  <1> QED BY <1>1, <1>2, <1>4, <1>6, <1>7, OfLists DEF Percentages

LEMMA NoneStaked ==
  ASSUME NEW s \in BidList, NEW k \in Nat, k > 0,
         SumOf([i \in DOMAIN s |-> Power(s[i].amount, k)]) < Modulus, StakedIn(s) = {}
  PROVE  TotalBidAmount(s, k) = 0
  <1>1. /\ Weights(s, k) \in [1..Len(s) -> Nat]
        /\ TotalBidAmount(s, k) = SumOf(Weights(s, k))
        /\ \A l \in 1..Len(s) : Weights(s, k)[l] = 0
    BY StakedWeights
  <1> QED BY <1>1, OfLists, SumOfNone

Nth(zeros, r) == {i \in zeros : Cardinality({j \in zeros : j <= i}) = r}

\* A sole share of 1 goes to the end, behind the others in their order.
OneShare(p, n, m) ==
  p \in [1..n -> Int] /\ \A i \in 1..n : p[i] = IF i = m THEN 1 ELSE 0

ShareLast(p, n, m) ==
  /\ SortedBidders(p)[n] = m
  /\ \A r \in 1..(n - 1) : /\ SortedBidders(p)[r] \in (1..n) \ {m}
                           /\ Nth((1..n) \ {m}, r) = {SortedBidders(p)[r]}

LEMMA OneShareSort ==
  ASSUME NEW n \in Nat, NEW m \in 1..n, NEW p, OneShare(p, n, m)
  PROVE  ShareLast(p, n, m)
  <1> USE DEF OneShare
  <1>0. DOMAIN p = 1..n
    OBVIOUS
  <1>1. Rank(p, m) = n
    <2>1. {j \in 1..n : p[j] < p[m] \/ (p[j] = p[m] /\ j <= m)} = 1..n
      OBVIOUS
    <2>2. Rank(p, m) = Cardinality(1..n)
      BY <1>0, <2>1 DEF Rank
    <2> QED BY <2>2, FS_Interval
  <1>2. ASSUME NEW i \in (1..n) \ {m}
        PROVE  Rank(p, i) = Cardinality({j \in (1..n) \ {m} : j <= i})
    <2>1. {j \in 1..n : p[j] < p[i] \/ (p[j] = p[i] /\ j <= i)} = {j \in (1..n) \ {m} : j <= i}
      OBVIOUS
    <2> QED BY <1>0, <2>1 DEF Rank
  <1>3. /\ \A i, j \in 1..n : Rank(p, i) = Rank(p, j) => i = j
        /\ \A r \in 1..n : SortedBidders(p)[r] \in 1..n /\ Rank(p, SortedBidders(p)[r]) = r
    BY SortIsAPermutation
  <1>4. SortedBidders(p)[n] = m
    <2>1. n \in 1..n
      OBVIOUS
    <2> QED BY <1>1, <1>3, <2>1
  <1>5. ASSUME NEW r \in 1..(n - 1)
        PROVE  /\ SortedBidders(p)[r] \in (1..n) \ {m}
               /\ Nth((1..n) \ {m}, r) = {SortedBidders(p)[r]}
    <2>1. PICK c : c = SortedBidders(p)[r]
      OBVIOUS
    <2>2. r \in 1..n /\ r # n
      OBVIOUS
    <2>3. c \in 1..n /\ Rank(p, c) = r
      BY <1>3, <2>1, <2>2
    <2>4. c \in (1..n) \ {m}
      BY <1>1, <2>2, <2>3
    <2>5. Cardinality({j \in (1..n) \ {m} : j <= c}) = r
      BY <1>2, <2>3, <2>4
    <2>6. ASSUME NEW i \in (1..n) \ {m}, Cardinality({j \in (1..n) \ {m} : j <= i}) = r
          PROVE  i = c
      <3>1. Rank(p, i) = r
        BY <1>2, <2>6
      <3> QED BY <1>3, <2>3, <3>1
    <2>7. Nth((1..n) \ {m}, r) = {c}
      BY <2>4, <2>5, <2>6 DEF Nth
    <2> QED BY <2>1, <2>4, <2>7
  <1> QED BY <1>4, <1>5 DEF ShareLast

Firsts(s, C) ==
  {i \in 1..Len(s) : \E j \in C : /\ s[i].name = s[j].name
                                  /\ \A l \in 1..Len(s) : s[l].name = s[j].name => i <= l}

LEMMA LookupFindsFirstNamesake ==
  ASSUME NEW s \in BidList, NEW m \in 1..Len(s), NEW b
  PROVE  IsFirstOfName(s, s[m].name, b) <=> b \in {s[i] : i \in Firsts(s, {m})}
  <1>1. DOMAIN s = 1..Len(s) /\ Len(s) \in Nat
    BY OfLists
  <1>2. ASSUME NEW i \in 1..Len(s), s[i].name = s[m].name
        PROVE  (\A j \in 1..(i - 1) : s[j].name # s[m].name) <=> i \in Firsts(s, {m})
    <2>1. \A j \in 1..Len(s) : j \in 1..(i - 1) <=> ~(i <= j)
      BY <1>1
    <2>2. \A j \in 1..(i - 1) : j \in 1..Len(s)
      BY <1>1
    <2> QED BY <1>2, <2>1, <2>2 DEF Firsts
  <1>3. ASSUME IsFirstOfName(s, s[m].name, b) PROVE b \in {s[i] : i \in Firsts(s, {m})}
    <2>1. PICK i \in 1..Len(s) : /\ s[i] = b /\ b.name = s[m].name
                                 /\ \A j \in 1..(i - 1) : s[j].name # s[m].name
      BY <1>1, <1>3 DEF IsFirstOfName
    <2> QED BY <1>2, <2>1
  <1>4. ASSUME NEW i \in Firsts(s, {m}) PROVE IsFirstOfName(s, s[m].name, s[i])
    <2>1. i \in 1..Len(s) /\ s[i].name = s[m].name
      BY DEF Firsts
    <2>2. \A j \in 1..(i - 1) : s[j].name # s[m].name
      BY <1>2, <2>1
    <2> QED BY <1>1, <2>1, <2>2 DEF IsFirstOfName
  <1> QED BY <1>3, <1>4

\* With two staked bids, the first bid of all wins.
LEMMA FirstBidWins ==
  ASSUME NEW s \in BidList, NEW k \in Nat, k > 0,
         SumOf([i \in DOMAIN s |-> Power(s[i].amount, k)]) < Modulus,
         NEW i \in StakedIn(s), NEW j \in StakedIn(s), i # j, NEW b
  PROVE  Elects(s, k, b) <=> b = s[1]
  <1>1. Len(s) \in Nat /\ Len(s) > 1
    BY OfLists DEF StakedIn
  <1>2. PICK p : p = Percentages(s, k)
    OBVIOUS
  <1>3. TotalBidAmount(s, k) # 0 /\ \A l \in 1..Len(s) : p[l] = 0
    BY <1>2, ManyStaked
  <1>4. p \in [1..Len(s) -> Int]
    <2>1. p \in [1..Len(s) -> Nat]
      BY <1>2, <1>3, OfWeights
    <2> QED BY <2>1
  <1>5. \A r \in 1..Len(s) : SortedBidders(p)[r] = r
    BY <1>1, <1>3, <1>4, FlatSort
  <1>6. IndexWinner(s, k) = 0
    <2>1. Len(s) \in 1..Len(s) /\ 1 \in 1..Len(s)
      BY <1>1
    <2>2. p[SortedBidders(p)[Len(s)]] - p[SortedBidders(p)[1]] = 0
      BY <1>3, <1>5, <2>1
    <2>3. 0 % k = 0 /\ 0 % Len(s) = 0
      BY <1>1, Remainders
    <2> QED BY <1>2, <2>2, <2>3 DEF IndexWinner
  <1>7. SortedBidders(Percentages(s, k))[0 + 1] = 1 /\ 1 \in 1..Len(s)
    BY <1>1, <1>2, <1>5
  <1>8. Elects(s, k, b) <=> IsFirstOfName(s, s[1].name, b)
    BY <1>1, <1>3, <1>6, <1>7 DEF Elects
  <1>9. Firsts(s, {1}) = {1}
    <2>1. 1 \in 1..Len(s) /\ \A l \in 1..Len(s) : 1 <= l /\ (l <= 1 => l = 1)
      BY <1>1
    <2> QED BY <2>1 DEF Firsts
  <1>10. IsFirstOfName(s, s[1].name, b) <=> b \in {s[l] : l \in Firsts(s, {1})}
    BY <1>7, LookupFindsFirstNamesake
  <1>11. {s[l] : l \in {1}} = {s[1]}
    OBVIOUS
  <1> QED BY <1>8, <1>9, <1>10, <1>11

\* A sole staked bid loses to one of the others.
LEMMA UnstakedBidWins ==
  ASSUME NEW s \in BidList, NEW k \in Exponents(s), k > 0,
         SumOf([i \in DOMAIN s |-> Power(s[i].amount, k)]) < Modulus,
         NEW m \in 1..Len(s), StakedIn(s) = {m}, NEW b
  PROVE  Elects(s, k, b) <=>
           b \in {s[i] : i \in Firsts(s, Nth((1..Len(s)) \ {m}, IF k = 1 THEN 1 ELSE 2))}
  <1>1. /\ Len(s) \in Nat /\ k \in Nat /\ k < Len(s) /\ k # 0
        /\ Len(s) > 1 /\ Len(s) # 1
    BY OfLists DEF Exponents
  <1>2. PICK p : p = Percentages(s, k)
    OBVIOUS
  <1>3. /\ TotalBidAmount(s, k) # 0
        /\ \A l \in 1..Len(s) : p[l] = IF l = m THEN 1 ELSE 0
    BY <1>1, <1>2, OneStaked
  <1>4. p \in [1..Len(s) -> Int]
    <2>1. p \in [1..Len(s) -> Nat]
      BY <1>1, <1>2, <1>3, OfWeights
    <2> QED BY <2>1
  <1>5. /\ SortedBidders(p)[Len(s)] = m
        /\ \A r \in 1..(Len(s) - 1) : /\ SortedBidders(p)[r] \in (1..Len(s)) \ {m}
                                      /\ Nth((1..Len(s)) \ {m}, r) = {SortedBidders(p)[r]}
    <2>1. Len(s) \in Nat /\ OneShare(p, Len(s), m)
      BY <1>1, <1>3, <1>4 DEF OneShare
    <2>2. ShareLast(p, Len(s), m)
      BY <2>1, OneShareSort
    <2> QED BY <2>2 DEF ShareLast
  <1>6. PICK r : r = IF k = 1 THEN 1 ELSE 2
    OBVIOUS
  <1>7. r \in 1..(Len(s) - 1) /\ r \in 1..Len(s) /\ 1 \in 1..(Len(s) - 1)
    BY <1>1, <1>6
  <1>8. IndexWinner(s, k) = r - 1
    <2>1. p[SortedBidders(p)[Len(s)]] - p[SortedBidders(p)[1]] = 1
      BY <1>3, <1>5, <1>7
    <2>2. IndexWinner(s, k) = (1 % k) % Len(s)
      BY <1>2, <2>1 DEF IndexWinner
    <2>3. CASE k = 1
      <3>1. 1 % 1 = 0 /\ 0 % Len(s) = 0
        BY <1>1, Remainders
      <3> QED BY <1>6, <2>2, <2>3, <3>1
    <2>4. CASE k # 1
      <3>1. 1 % k = 1 /\ 1 % Len(s) = 1
        BY <1>1, <2>4, Remainders
      <3> QED BY <1>6, <2>2, <2>4, <3>1
    <2> QED BY <2>3, <2>4
  <1>9. PICK c \in 1..Len(s) : c = SortedBidders(p)[r] /\ Nth((1..Len(s)) \ {m}, r) = {c}
    BY <1>5, <1>7
  <1>10. SortedBidders(Percentages(s, k))[IndexWinner(s, k) + 1] = c
    BY <1>2, <1>6, <1>8, <1>9
  <1>11. Elects(s, k, b) <=> IsFirstOfName(s, s[c].name, b)
    <2>1. Elects(s, k, b) <=>
            IsFirstOfName(s, s[SortedBidders(Percentages(s, k))[IndexWinner(s, k) + 1]].name, b)
      BY <1>1, <1>3 DEF Elects
    <2> QED BY <1>10, <2>1
  <1> QED BY <1>6, <1>9, <1>11, LookupFindsFirstNamesake

(* The reference definition says exactly who can win, for any number of    *)
(* bids under any names and any amounts that do not wrap: with two bids    *)
(* above 0 or more the first bid received, whatever its amount, and with a *)
(* sole bid above 0 the first namesake of one of the others                *)
(* (data_structure.rs:209-254).                                            *)
THEOREM WinnersAreThoseOfReference == Spec => []ElectsReference
  <1>1. ASSUME ListInv, Called, Panic \notin result, Exact
        PROVE  result = {bids[i] : i \in ReferenceWinners}
    <2>1. /\ bids \in BidList /\ drawn \in Exponents(bids)
          /\ SumOf([i \in DOMAIN bids |-> Power(bids[i].amount, drawn)]) < Modulus
          /\ result = {b \in Range(bids) : Elects(bids, drawn, b)} /\ ~Panics(bids, drawn)
      BY <1>1 DEF ListInv, Called, Exact
    <2>2. /\ Len(bids) \in Nat /\ Len(bids) > 0 /\ drawn \in Nat /\ drawn < Len(bids)
          /\ DOMAIN bids = 1..Len(bids) /\ Range(bids) = {bids[i] : i \in 1..Len(bids)}
      BY <2>1, OfLists DEF Exponents
    <2>3. Staked = StakedIn(bids) /\ IsFiniteSet(Staked) /\ Staked \subseteq 1..Len(bids)
      <3>1. Staked = StakedIn(bids) /\ Staked \in SUBSET (1..Len(bids))
        BY <2>2 DEF Staked, StakedIn
      <3>2. IsFiniteSet(1..Len(bids))
        BY <2>2, FS_Interval
      <3>3. IsFiniteSet(Staked)
        BY <3>1, <3>2, FS_Subset
      <3> QED BY <3>1, <3>3
    <2>4. CASE Len(bids) = 1
      <3>1. ReferenceWinners = {1}
        BY <2>4 DEF ReferenceWinners
      <3>0. Range(bids) = {bids[1]}
        <4>1. 1..Len(bids) = {1}
          BY <2>4
        <4> QED BY <2>2, <4>1
      <3>2. result # {} /\ result \subseteq Range(bids)
        BY <2>1, SomebodyIsElected
      <3> QED BY <3>0, <3>1, <3>2
    <2>5. CASE Len(bids) # 1 /\ drawn = 0
      <3>1. TotalBidAmount(bids, 0) = 0
        BY <2>1, <2>2, <2>5 DEF Panics
      <3>2. Weights(bids, 0)[1] = 1
        <4>1. 1 \in 1..Len(bids)
          BY <2>2
        <4>2. bids[1].amount \in Nat
          BY <2>1, <4>1, OfLists
        <4>3. Power(bids[1].amount, 0) = 1
          BY <4>2, PowerFacts
        <4> QED BY <2>1, <2>5, <4>1, <4>3, ExactWeights
      <3>3. Weights(bids, 0) \in [1..Len(bids) -> Nat] /\ 1 \in 1..Len(bids)
        BY <2>1, <2>2, OfWeights
      <3>4. Weights(bids, 0)[1] <= SumOf(Weights(bids, 0))
        BY <2>2, <3>3, SumFacts
      <3>5. TotalBidAmount(bids, 0) = SumOf(Weights(bids, 0))
        BY <2>1, <2>5, ExactWeights
      <3> QED BY <3>1, <3>2, <3>4, <3>5
    <2>6. CASE Len(bids) # 1 /\ drawn > 0 /\ Cardinality(Staked) > 1
      <3>1. \E i, j \in Staked : i # j
        <4> SUFFICES ASSUME \A i, j \in Staked : i = j PROVE FALSE
            OBVIOUS
        <4>1. Staked = {} \/ \E i : Staked = {i}
          OBVIOUS
        <4>2. Cardinality(Staked) \in {0, 1}
          BY <4>1, FS_EmptySet, FS_Singleton
        <4> QED BY <2>6, <4>2
      <3>2. \A b : Elects(bids, drawn, b) <=> b = bids[1]
        BY <2>1, <2>2, <2>3, <2>6, <3>1, FirstBidWins
      <3>3. ReferenceWinners = {1} /\ bids[1] \in Range(bids)
        BY <2>2, <2>6 DEF ReferenceWinners
      <3> QED BY <2>1, <3>2, <3>3
    <2>7. CASE Len(bids) # 1 /\ drawn > 0 /\ Cardinality(Staked) = 1
      <3>1. PICK m : Staked = {m}
        BY <2>3, <2>7, FS_Singleton
      <3>2. {i \in DOMAIN bids : i \notin Staked} = (1..Len(bids)) \ {m} /\ m \in 1..Len(bids)
        BY <2>2, <2>3, <3>1
      <3>3. PICK N, W : N = Nth((1..Len(bids)) \ {m}, IF drawn = 1 THEN 1 ELSE 2) /\ W = Firsts(bids, N)
        OBVIOUS
      <3>4. ReferenceWinners = W
        <4>1. N = {i \in (1..Len(bids)) \ {m} :
                    Cardinality({j \in (1..Len(bids)) \ {m} : j <= i}) = IF drawn = 1 THEN 1 ELSE 2}
          BY <3>3 DEF Nth
        <4>2. ReferenceWinners = FirstNamesakes(N)
          <5>1. Len(bids) > 1 /\ ~(Len(bids) = 1 \/ Cardinality(Staked) > 1)
            BY <2>2, <2>7
          <5> QED BY <2>7, <3>2, <4>1, <5>1, Zenon DEF ReferenceWinners
        <4> QED BY <2>2, <3>3, <4>2 DEF FirstNamesakes, Firsts
      <3>5. \A b : Elects(bids, drawn, b) <=> b \in {bids[i] : i \in W}
        BY <2>1, <2>3, <2>7, <3>1, <3>2, <3>3, UnstakedBidWins
      <3>6. W \subseteq 1..Len(bids)
        BY <3>3 DEF Firsts
      <3> QED BY <2>1, <2>2, <3>4, <3>5, <3>6
    <2>8. CASE Len(bids) # 1 /\ drawn > 0 /\ Cardinality(Staked) = 0
      <3>1. Staked = {}
        BY <2>3, <2>8, FS_EmptySet
      <3>2. TotalBidAmount(bids, drawn) = 0
        BY <2>1, <2>2, <2>3, <2>8, <3>1, NoneStaked
      <3>3. ReferenceWinners = DOMAIN bids
        BY <2>8 DEF ReferenceWinners
      <3>4. \A b \in Range(bids) : Elects(bids, drawn, b)
        BY <3>2 DEF Elects
      <3> QED BY <2>1, <2>2, <3>3, <3>4
    <2>9. Cardinality(Staked) \in Nat
      BY <2>3, FS_CardinalityType
    <2> QED BY <2>2, <2>4, <2>5, <2>6, <2>7, <2>8, <2>9
  <1>2. ListInv => ElectsReference
    BY <1>1 DEF ElectsReference
  <1> QED BY <1>2, ListInvHolds, PTL
=============================================================================
