----------------------------- MODULE SumsProofs -----------------------------
(***************************************************************************)
(* Induction over the natural numbers for sets, and what it says of        *)
(* PartialSums.                                                            *)
(***************************************************************************)
EXTENDS Sums, WellFoundedInduction, TLAPS

\* The order of the natural numbers as a set of pairs.
Less == {ss \in Nat \X Nat : ss[1] < ss[2]}

\* The order of the natural numbers is well founded.
LEMMA LessWellFounded == IsWellFoundedOn(Less, Nat)
<1>1. Less = OpToRel(<, Nat)
  BY Zenon DEF OpToRel, Less
<1> QED
  BY <1>1, NatLessThanWellFounded, Zenon

\* A set of natural numbers that is not empty has a least element.
LEMMA LeastNat ==
  ASSUME NEW S \in SUBSET Nat, S # {}
  PROVE  \E n \in S : \A m \in S : n <= m
<1>1. PICK n \in S : \A m \in S : ~ (<<m, n>> \in Less)
  BY LessWellFounded, WFMin, Zenon
<1>2. ASSUME NEW m \in S
      PROVE  n <= m
  <2>1. m \in Nat /\ n \in Nat
    OBVIOUS
  <2>2. m < n => <<m, n>> \in Less
    BY ONLY <2>1, Zenon DEF Less
  <2>3. ~(m < n)
    BY <1>1, <2>2, Zenon
  <2> QED
    BY ONLY <2>1, <2>3, SMT
<1> QED
  BY <1>2, Zenon

\* A set that has 0, and the successor of each number in it, has them all.
LEMMA SetInduction ==
  ASSUME NEW S, 0 \in S, \A n \in Nat : n \in S => n + 1 \in S
  PROVE  \A n \in Nat : n \in S
<1>1. SUFFICES ASSUME Nat \ S # {}
               PROVE  FALSE
  OBVIOUS
<1>2. PICK n \in Nat \ S : \A m \in Nat \ S : n <= m
  BY <1>1, LeastNat
<1>3. n # 0 /\ n - 1 \in Nat
  BY <1>2
<1>4. n - 1 \in S
  BY <1>2, <1>3
<1> QED
  BY <1>2, <1>3, <1>4

\* A set of numbers up to n that is not empty has a greatest element.
LEMMA GreatestNat ==
  ASSUME NEW n \in Nat, NEW S \in SUBSET (0..n), S # {}
  PROVE  \E m \in S : \A k \in S : k <= m
<1> DEFINE T == {k \in Nat : n - k \in S}
<1>1. PICK s \in S : TRUE
  OBVIOUS
<1>2. s \in 0..n /\ n - s \in Nat /\ n - (n - s) = s
  BY SMT
<1>3. T # {} /\ T \in SUBSET Nat
  BY <1>1, <1>2
<1>4. PICK t \in T : \A k \in T : t <= k
  BY <1>3, LeastNat
<1>5. ASSUME NEW k \in S
      PROVE  k <= n - t
  <2>1. k \in 0..n /\ n - k \in Nat /\ n - (n - k) = k
    BY SMT
  <2>2. t <= n - k /\ t \in Nat
    BY <1>4, <2>1
  <2> QED
    BY <2>1, <2>2, SMT
<1> QED
  BY <1>4, <1>5

-----------------------------------------------------------------------------
(***************************************************************************)
(* PartialSums is the function its definition means it to be.              *)
(***************************************************************************)

\* What a table of sums is.
AreSums(f, v, n) == f = [i \in 0..n |-> IF i = 0 THEN 0 ELSE f[i - 1] + v[i]]

\* Every length has a table of sums.
LEMMA SumsExist ==
  ASSUME NEW v
  PROVE  \A n \in Nat : \E f : AreSums(f, v, n)
<1> DEFINE S == {n \in Nat : \E f : AreSums(f, v, n)}
<1>1. 0 \in S
  <2> DEFINE f == [i \in 0..0 |-> 0]
  <2>1. f = [i \in 0..0 |-> IF i = 0 THEN 0 ELSE f[i - 1] + v[i]]
    OBVIOUS
  <2> QED
    BY <2>1 DEF AreSums
<1>2. ASSUME NEW n \in Nat, n \in S
      PROVE  n + 1 \in S
  <2>1. PICK f : f = [i \in 0..n |-> IF i = 0 THEN 0 ELSE f[i - 1] + v[i]]
    BY <1>2 DEF AreSums
  <2> DEFINE g == [i \in 0 .. n + 1 |-> IF i <= n THEN f[i] ELSE f[n] + v[n + 1]]
  <2>2. ASSUME NEW i \in 0 .. n + 1
        PROVE  g[i] = IF i = 0 THEN 0 ELSE g[i - 1] + v[i]
    <3>1. CASE i = 0
      BY <2>1, <3>1
    <3>2. CASE i \in 1..n
      <4>1. g[i] = f[i] /\ g[i - 1] = f[i - 1]
        BY <3>2
      <4>2. f[i] = f[i - 1] + v[i]
        BY <2>1, <3>2
      <4> QED
        BY <3>2, <4>1, <4>2
    <3>3. CASE i = n + 1
      <4>1. g[i] = f[n] + v[i] /\ g[i - 1] = f[n] /\ i # 0
        BY <3>3
      <4> QED
        BY <4>1
    <3> QED
      BY <3>1, <3>2, <3>3
  <2>3. g = [i \in 0 .. n + 1 |-> IF i = 0 THEN 0 ELSE g[i - 1] + v[i]]
    BY <2>2
  <2> HIDE DEF g
  <2>4. AreSums(g, v, n + 1)
    BY <2>3 DEF AreSums
  <2> QED
    BY <2>4
<1> HIDE DEF S
<1>3. \A n \in Nat : n \in S
  BY <1>1, <1>2, SetInduction
<1> QED
  BY <1>3 DEF S

\* The sum of nothing is 0, and each sum is the one before and a number more.
LEMMA PartialSumsDef ==
  ASSUME NEW v, NEW n \in Nat
  PROVE  /\ PartialSums(v, n)[0] = 0
         /\ \A i \in 1..n : PartialSums(v, n)[i] = PartialSums(v, n)[i - 1] + v[i]
<1> DEFINE f == PartialSums(v, n)
<1>1. f = CHOOSE g : g = [i \in 0..n |-> IF i = 0 THEN 0 ELSE g[i - 1] + v[i]]
  BY DEF PartialSums
<1>2. \E g : g = [i \in 0..n |-> IF i = 0 THEN 0 ELSE g[i - 1] + v[i]]
  BY SumsExist DEF AreSums
<1>3. f = [i \in 0..n |-> IF i = 0 THEN 0 ELSE f[i - 1] + v[i]]
  BY <1>1, <1>2, Zenon
<1> HIDE DEF f
<1>4. f[0] = 0
  BY <1>3
<1>5. \A i \in 1..n : f[i] = f[i - 1] + v[i]
  BY <1>3
<1> QED
  BY <1>4, <1>5 DEF f

\* Sums of natural numbers are natural numbers.
LEMMA PartialSumsNat ==
  ASSUME NEW v, NEW n \in Nat, \A i \in 1..n : v[i] \in Nat
  PROVE  \A i \in 0..n : PartialSums(v, n)[i] \in Nat
<1> DEFINE f == PartialSums(v, n)
<1> DEFINE S == {i \in Nat : i <= n => f[i] \in Nat}
<1>1. f[0] = 0 /\ \A i \in 1..n : f[i] = f[i - 1] + v[i]
  BY PartialSumsDef
<1> HIDE DEF f
<1>2. 0 \in S
  BY <1>1
<1>3. ASSUME NEW i \in Nat, i \in S
      PROVE  i + 1 \in S
  <2>1. CASE i + 1 <= n
    <3>1. f[i + 1] = f[(i + 1) - 1] + v[i + 1] /\ v[i + 1] \in Nat
      BY <1>1, <2>1
    <3>2. (i + 1) - 1 = i /\ f[i] \in Nat
      BY <1>3, <2>1
    <3> QED
      BY <3>1, <3>2
  <2>2. CASE ~(i + 1 <= n)
    BY <2>2
  <2> QED
    BY <2>1, <2>2
<1> HIDE DEF S
<1>4. \A i \in Nat : i \in S
  BY <1>2, <1>3, SetInduction
<1> QED
  BY <1>4 DEF S, f

\* Sums of natural numbers grow.
LEMMA PartialSumsGrow ==
  ASSUME NEW v, NEW n \in Nat, \A i \in 1..n : v[i] \in Nat,
         NEW i \in 0..n, NEW j \in i..n
  PROVE  PartialSums(v, n)[i] <= PartialSums(v, n)[j]
<1> DEFINE f == PartialSums(v, n)
<1> DEFINE S == {k \in Nat : i + k <= n => f[i] <= f[i + k]}
<1>1. \A k \in 1..n : f[k] = f[k - 1] + v[k]
  BY PartialSumsDef
<1>2. \A k \in 0..n : f[k] \in Nat
  BY PartialSumsNat
<1> HIDE DEF f
<1>3. 0 \in S
  BY <1>2
<1>4. ASSUME NEW k \in Nat, k \in S
      PROVE  k + 1 \in S
  <2>1. CASE i + (k + 1) <= n
    <3>1. i + (k + 1) \in 1..n /\ (i + (k + 1)) - 1 = i + k /\ i + k \in 0..n
      BY <2>1
    <3>2. f[i + (k + 1)] = f[i + k] + v[i + (k + 1)] /\ v[i + (k + 1)] \in Nat
      BY <1>1, <3>1
    <3>3. f[i] <= f[i + k]
      BY <1>4, <2>1
    <3>4. f[i] \in Nat /\ f[i + k] \in Nat
      BY <1>2, <3>1
    <3> QED
      BY <3>2, <3>3, <3>4
  <2>2. CASE ~(i + (k + 1) <= n)
    BY <2>2
  <2> QED
    BY <2>1, <2>2
<1> HIDE DEF S
<1>5. \A k \in Nat : k \in S
  BY <1>3, <1>4, SetInduction
<1>6. j - i \in Nat /\ i + (j - i) = j /\ j <= n
  OBVIOUS
<1>7. j - i \in S
  BY <1>5, <1>6
<1> QED
  BY <1>6, <1>7 DEF S, f

\* Sums of the same numbers are the same, whatever comes after them.
LEMMA PartialSumsAgree ==
  ASSUME NEW v, NEW n \in Nat, NEW w, NEW m \in Nat,
         NEW k \in Nat, k <= n, k <= m, \A i \in 1..k : v[i] = w[i]
  PROVE  PartialSums(v, n)[k] = PartialSums(w, m)[k]
<1> DEFINE f == PartialSums(v, n)
           g == PartialSums(w, m)
           S == {i \in Nat : i <= k => f[i] = g[i]}
<1>1. f[0] = 0 /\ \A i \in 1..n : f[i] = f[i - 1] + v[i]
  BY PartialSumsDef
<1>2. g[0] = 0 /\ \A i \in 1..m : g[i] = g[i - 1] + w[i]
  BY PartialSumsDef
<1> HIDE DEF f, g
<1>3. 0 \in S
  BY <1>1, <1>2
<1>4. ASSUME NEW i \in Nat, i \in S
      PROVE  i + 1 \in S
  <2>1. CASE i + 1 <= k
    <3>1. f[i + 1] = f[(i + 1) - 1] + v[i + 1] /\ g[i + 1] = g[(i + 1) - 1] + w[i + 1]
      BY <1>1, <1>2, <2>1
    <3>2. (i + 1) - 1 = i /\ f[i] = g[i] /\ v[i + 1] = w[i + 1]
      BY <1>4, <2>1
    <3> QED
      BY <3>1, <3>2
  <2>2. CASE ~(i + 1 <= k)
    BY <2>2
  <2> QED
    BY <2>1, <2>2
<1> HIDE DEF S
<1>5. \A i \in Nat : i \in S
  BY <1>3, <1>4, SetInduction
<1> QED
  BY <1>5 DEF S, f, g
=============================================================================
