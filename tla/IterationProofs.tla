--------------------------- MODULE IterationProofs ---------------------------
(***************************************************************************)
(* What the loops of module Iteration return, for every step function and  *)
(* every number of rounds.  The induction theorems of the library take the *)
(* induction hypothesis as an operator; these proofs use instead that a    *)
(* non-empty set of naturals has a least element, applied to the set of    *)
(* counterexamples.  Then sums, ranks in a finite total order, what FIFO   *)
(* consumption draws from each supply, and rounding to the cent.           *)
(***************************************************************************)
EXTENDS Iteration, FiniteSetTheorems, WellFoundedInduction, TLAPS

(* Every non-empty set of natural numbers has a least element. *)
LEMMA LeastNatural ==
  ASSUME NEW T, T \subseteq Nat, T # {}
  PROVE  \E x \in T : \A y \in T : x <= y
<1>1. IsWellFoundedOn(OpToRel(<, Nat), Nat)
  BY NatLessThanWellFounded
<1>2. PICK x \in T : \A y \in T : ~ (<<y, x>> \in OpToRel(<, Nat))
  BY <1>1, WFMin
<1>3. \A y \in T : <<y, x>> \in OpToRel(<, Nat) <=> y < x
  BY DEF OpToRel
<1>4. \A y \in T : ~ (y < x)
  BY <1>2, <1>3
<1>. QED BY <1>4

(* Induction over a set: a set that holds 0 and, with n, n+1 holds every
   natural number. *)
LEMMA SetInduction ==
  ASSUME NEW T, 0 \in T, \A n \in Nat : n \in T => n+1 \in T
  PROVE  Nat \subseteq T
<1>. DEFINE Bad == Nat \ T
<1>. SUFFICES ASSUME Bad # {} PROVE FALSE
  OBVIOUS
<1>1. PICK m \in Bad : \A k \in Bad : m <= k
  BY LeastNatural
<1>2. m \in Nat /\ m # 0
  OBVIOUS
<1>3. m - 1 \in Nat /\ m - 1 \notin Bad
  BY <1>1, <1>2
<1>4. (m - 1) + 1 = m
  BY <1>2
<1>5. m \in T
  BY <1>3, <1>4
<1>. QED BY <1>5

(* A loop whose rounds map S to S starts in s0, stays in S, and its n+1st
   state is the image of its nth. *)
THEOREM IterateRounds ==
  ASSUME NEW S, NEW s0 \in S, NEW step \in [Nat -> [S -> S]]
  PROVE  /\ Iterate(step, s0, 0) = s0
         /\ \A n \in Nat : /\ Iterate(step, s0, n) \in S
                           /\ Iterate(step, s0, n+1) = step[n+1][Iterate(step, s0, n)]
<1>. DEFINE Prefix(n) == {h \in [0..n -> S] : /\ h[0] = s0
                                              /\ \A i \in 1..n : h[i] = step[i][h[i-1]]}
            Body(g) == [i \in Nat |-> IF i = 0 THEN s0 ELSE step[i][g[i-1]]]
<1>1. Nat \subseteq {n \in Nat : Prefix(n) # {}}
  <2>1. 0 \in {n \in Nat : Prefix(n) # {}}
    <3>1. [i \in 0..0 |-> s0] \in Prefix(0)
      OBVIOUS
    <3>. QED BY <3>1
  <2>2. ASSUME NEW n \in Nat, Prefix(n) # {}
        PROVE  Prefix(n+1) # {}
    <3>1. PICK h \in Prefix(n) : TRUE
      BY <2>2
    <3>2. h \in [0..n -> S] /\ h[0] = s0 /\ \A i \in 1..n : h[i] = step[i][h[i-1]]
      BY <3>1
    <3>. DEFINE k == [i \in 0..(n+1) |-> IF i = n+1 THEN step[n+1][h[n]] ELSE h[i]]
    <3>3. step[n+1] \in [S -> S] /\ h[n] \in S
      BY <3>2
    <3>4. k \in [0..(n+1) -> S] /\ k[0] = s0
      BY <3>2, <3>3
    <3>5. ASSUME NEW i \in 1..(n+1)
          PROVE  k[i] = step[i][k[i-1]]
      <4>1. CASE i = n+1
        BY <4>1, <3>2
      <4>2. CASE i # n+1
        <5>1. i \in 1..n /\ i-1 \in 0..n
          BY <4>2
        <5>. QED BY <5>1, <3>2
      <4>. QED BY <4>1, <4>2
    <3>6. k \in Prefix(n+1)
      BY <3>4, <3>5
    <3>. QED BY <3>6
  <2>. HIDE DEF Prefix
  <2>. DEFINE Some == {n \in Nat : Prefix(n) # {}}
  <2>3. 0 \in Some /\ \A n \in Nat : n \in Some => n+1 \in Some
    BY <2>1, <2>2
  <2>. HIDE DEF Some
  <2>4. Nat \subseteq Some
    BY <2>3, SetInduction
  <2>. QED BY <2>4 DEF Some
<1>2. ASSUME NEW m \in Nat, NEW n \in Nat, NEW h \in Prefix(m), NEW k \in Prefix(n)
      PROVE  \A i \in Nat : i <= m /\ i <= n => h[i] = k[i]
  <2>. DEFINE Same == {i \in Nat : i <= m /\ i <= n => h[i] = k[i]}
  <2>1. 0 \in Same
    OBVIOUS
  <2>2. ASSUME NEW i \in Nat, i \in Same
        PROVE  i+1 \in Same
    <3>. SUFFICES ASSUME i+1 <= m, i+1 <= n
                  PROVE  h[i+1] = k[i+1]
      OBVIOUS
    <3>1. i+1 \in 1..m /\ i+1 \in 1..n /\ (i+1)-1 = i
      OBVIOUS
    <3>2. h[i+1] = step[i+1][h[i]] /\ k[i+1] = step[i+1][k[i]]
      BY <3>1
    <3>3. h[i] = k[i]
      BY <2>2
    <3>. QED BY <3>2, <3>3
  <2>. HIDE DEF Same
  <2>3. Nat \subseteq Same
    BY <2>1, <2>2, SetInduction
  <2>. QED BY <2>3 DEF Same
<1>. DEFINE Chosen(n) == CHOOSE h \in Prefix(n) : TRUE
            F == [n \in Nat |-> Chosen(n)[n]]
<1>3. F[0] = s0 /\ \A n \in Nat : F[n] \in S /\ F[n+1] = step[n+1][F[n]]
  <2>1. \A n \in Nat : Chosen(n) \in Prefix(n)
    BY <1>1
  <2>. HIDE DEF Chosen
  <2>2. F[0] = s0
    <3>1. F[0] = Chosen(0)[0] /\ Chosen(0) \in Prefix(0)
      BY <2>1
    <3>. QED BY <3>1
  <2>3. ASSUME NEW n \in Nat
        PROVE  F[n] \in S /\ F[n+1] = step[n+1][F[n]]
    <3>1. F[n] = Chosen(n)[n] /\ F[n+1] = Chosen(n+1)[n+1]
      OBVIOUS
    <3>2. Chosen(n) \in Prefix(n) /\ Chosen(n+1) \in Prefix(n+1)
      BY <2>1
    <3>3. n \in Nat /\ n+1 \in Nat /\ n <= n /\ n <= n+1
      OBVIOUS
    <3>. HIDE DEF Prefix
    <3>4. Chosen(n)[n] = Chosen(n+1)[n]
      BY <3>2, <3>3, <1>2
    <3>. USE DEF Prefix
    <3>5. n+1 \in 1..(n+1) /\ (n+1)-1 = n
      OBVIOUS
    <3>6. Chosen(n+1)[n+1] = step[n+1][Chosen(n+1)[n]] /\ Chosen(n)[n] \in S
      BY <3>2, <3>5
    <3>. QED BY <3>1, <3>4, <3>6
  <2>. QED BY <2>2, <2>3
<1>. HIDE DEF F
<1>4. \A n \in Nat : F[n] = IF n = 0 THEN s0 ELSE step[n][F[n-1]]
  <2>. TAKE n \in Nat
  <2>1. CASE n = 0
    BY <2>1, <1>3
  <2>2. CASE n # 0
    <3>1. n-1 \in Nat /\ (n-1)+1 = n
      BY <2>2
    <3>. QED BY <3>1, <1>3, <2>2
  <2>. QED BY <2>1, <2>2
<1>5. F = Body(F)
  <2>1. F = [n \in Nat |-> F[n]]
    BY DEF F
  <2>. QED BY <2>1, <1>4
<1>. DEFINE it == CHOOSE g : g = Body(g)
<1>6. it = Body(it)
  BY <1>5
<1>7. \A n \in Nat : Iterate(step, s0, n) = it[n]
  BY DEF Iterate
<1>8. it[0] = s0 /\ \A n \in Nat : it[n+1] = step[n+1][it[n]]
  <2>. HIDE DEF it
  <2>1. it[0] = s0
    BY <1>6
  <2>2. ASSUME NEW n \in Nat
        PROVE  it[n+1] = step[n+1][it[n]]
    <3>1. n+1 \in Nat /\ n+1 # 0 /\ (n+1)-1 = n
      OBVIOUS
    <3>. QED BY <1>6, <3>1
  <2>. QED BY <2>1, <2>2
<1>. HIDE DEF it
<1>9. Nat \subseteq {n \in Nat : it[n] \in S}
  <2>. DEFINE T == {n \in Nat : it[n] \in S}
  <2>1. 0 \in T
    BY <1>8
  <2>2. ASSUME NEW n \in Nat, n \in T
        PROVE  n+1 \in T
    BY <2>2, <1>8
  <2>. HIDE DEF T
  <2>3. Nat \subseteq T
    BY <2>1, <2>2, SetInduction
  <2>. QED BY <2>3 DEF T
<1>. QED BY <1>7, <1>8, <1>9

(* A sum of integers is an integer and grows by the next term. *)
LEMMA TotalRounds ==
  ASSUME NEW f, \A i \in DOMAIN f : f[i] \in Int
  PROVE  /\ Total(f, 0) = 0
         /\ \A n \in Nat :
              /\ Total(f, n) \in Int
              /\ Total(f, n+1) = Total(f, n) + (IF n+1 \in DOMAIN f THEN f[n+1] ELSE 0)
<1>. DEFINE step == [i \in Nat |-> [x \in Int |-> IF i \in DOMAIN f THEN x + f[i] ELSE x]]
<1>1. step \in [Nat -> [Int -> Int]]
  OBVIOUS
<1>2. \A n \in Nat : Total(f, n) = Iterate(step, 0, n)
  BY DEF Total
<1>3. Total(f, 0) = Iterate(step, 0, 0)
  BY <1>2
<1>4. \A n \in Nat, x \in Int : step[n+1][x] = x + (IF n+1 \in DOMAIN f THEN f[n+1] ELSE 0)
  OBVIOUS
<1>. HIDE DEF step
<1>5. /\ Iterate(step, 0, 0) = 0
      /\ \A n \in Nat : /\ Iterate(step, 0, n) \in Int
                        /\ Iterate(step, 0, n+1) = step[n+1][Iterate(step, 0, n)]
  <2>. DEFINE S == Int
  <2>1. 0 \in S /\ step \in [Nat -> [S -> S]]
    BY <1>1
  <2>. HIDE DEF S
  <2>2. Iterate(step, 0, 0) = 0
    BY <2>1, IterateRounds
  <2>3. \A n \in Nat : Iterate(step, 0, n) \in S
    BY <2>1, IterateRounds
  <2>4. \A n \in Nat : Iterate(step, 0, n+1) = step[n+1][Iterate(step, 0, n)]
    BY <2>1, IterateRounds
  <2>. QED BY <2>2, <2>3, <2>4 DEF S
<1>. QED BY <1>2, <1>3, <1>4, <1>5

(* A sum of non-negative terms is not negative. *)
LEMMA TotalNonNegative ==
  ASSUME NEW f, \A i \in DOMAIN f : f[i] \in Nat
  PROVE  \A n \in Nat : Total(f, n) \in Nat
<1>. DEFINE T == {n \in Nat : Total(f, n) \in Nat}
<1>1. 0 \in T /\ \A n \in Nat : n \in T => n+1 \in T
  BY TotalRounds
<1>. HIDE DEF T
<1>2. Nat \subseteq T
  BY <1>1, SetInduction
<1>. QED BY <1>2 DEF T

(* Changing one term changes the sum by the difference; a sum in which no
   term up to n changes stays what it was. *)
LEMMA TotalOfChange ==
  ASSUME NEW f, \A i \in DOMAIN f : f[i] \in Int,
         NEW g, \A i \in DOMAIN g : g[i] \in Int,
         DOMAIN g = DOMAIN f,
         NEW k \in DOMAIN f, k \in Nat \ {0},
         \A i \in DOMAIN f : i # k => g[i] = f[i]
  PROVE  \A n \in Nat :
           Total(g, n) = Total(f, n) + (IF k <= n THEN g[k] - f[k] ELSE 0)
<1>. DEFINE T == {n \in Nat :
           Total(g, n) = Total(f, n) + (IF k <= n THEN g[k] - f[k] ELSE 0)}
<1>1. 0 \in T
  BY TotalRounds
<1>2. ASSUME NEW n \in Nat, n \in T
      PROVE  n+1 \in T
  <2>1. /\ Total(f, n) \in Int /\ Total(g, n) \in Int
        /\ Total(f, n+1) = Total(f, n) + (IF n+1 \in DOMAIN f THEN f[n+1] ELSE 0)
        /\ Total(g, n+1) = Total(g, n) + (IF n+1 \in DOMAIN g THEN g[n+1] ELSE 0)
    BY TotalRounds
  <2>2. Total(g, n) = Total(f, n) + (IF k <= n THEN g[k] - f[k] ELSE 0)
    BY <1>2
  <2>3. CASE k = n+1
    BY <2>1, <2>2, <2>3
  <2>4. CASE k # n+1
    <3>1. k <= n+1 <=> k <= n
      BY <2>4
    <3>2. n+1 \in DOMAIN f => g[n+1] = f[n+1]
      BY <2>4
    <3>3. Total(g, n+1) = Total(f, n+1) + (IF k <= n THEN g[k] - f[k] ELSE 0)
      <4>1. CASE n+1 \in DOMAIN f
        BY <4>1, <2>1, <2>2, <3>2
      <4>2. CASE n+1 \notin DOMAIN f
        BY <4>2, <2>1, <2>2
      <4>. QED BY <4>1, <4>2
    <3>. QED BY <3>1, <3>3
  <2>. QED BY <2>3, <2>4
<1>. HIDE DEF T
<1>3. Nat \subseteq T
  BY <1>1, <1>2, SetInduction
<1>. QED BY <1>3 DEF T

(* A sum of zeros is zero. *)
LEMMA TotalOfZeros ==
  ASSUME NEW f, \A i \in DOMAIN f : f[i] = 0
  PROVE  \A n \in Nat : Total(f, n) = 0
<1>. DEFINE T == {n \in Nat : Total(f, n) = 0}
<1>1. 0 \in T /\ \A n \in Nat : n \in T => n+1 \in T
  BY TotalRounds
<1>. HIDE DEF T
<1>2. Nat \subseteq T
  BY <1>1, SetInduction
<1>. QED BY <1>2 DEF T

(* Products and differences of amounts. *)
LEMMA ProductNatural ==
  ASSUME NEW a \in Nat, NEW b \in Nat
  PROVE  a * b \in Nat
OBVIOUS

LEMMA LargerNatural ==
  ASSUME NEW a \in Nat, NEW b \in Nat
  PROVE  Larger(a - b, 0) \in Nat
BY DEF Larger

(* What f adds to a sum at i. *)
Term(f, i) == IF i \in DOMAIN f THEN f[i] ELSE 0

(* The terms of f are integers, those of f are the sums of the terms of g
   and h, and those of f are at most those of g. *)
Summable(f) == \A i \in DOMAIN f : f[i] \in Int
Splits(f, g, h, m) == \A i \in 1..m : Term(f, i) = Term(g, i) + Term(h, i)
AtMost(f, g, m) == \A i \in 1..m : Term(f, i) <= Term(g, i)

LEMMA NaturalsSummable ==
  ASSUME NEW f, \A i \in DOMAIN f : f[i] \in Nat
  PROVE  Summable(f)
BY DEF Summable

(* A sum whose terms are those of two others is their sum. *)
LEMMA TotalOfSum ==
  ASSUME NEW f, Summable(f),
         NEW g, Summable(g),
         NEW h, Summable(h),
         NEW m \in Nat, Splits(f, g, h, m)
  PROVE  Total(f, m) = Total(g, m) + Total(h, m)
<1>. DEFINE T == {n \in Nat : n <= m => Total(f, n) = Total(g, n) + Total(h, n)}
<1>1. 0 \in T
  BY TotalRounds DEF Summable
<1>2. ASSUME NEW n \in Nat, n \in T
      PROVE  n+1 \in T
  <2>. SUFFICES ASSUME n+1 <= m
                PROVE  Total(f, n+1) = Total(g, n+1) + Total(h, n+1)
    OBVIOUS
  <2>1. /\ Total(f, n) \in Int /\ Total(g, n) \in Int /\ Total(h, n) \in Int
        /\ Total(f, n+1) = Total(f, n) + Term(f, n+1)
        /\ Total(g, n+1) = Total(g, n) + Term(g, n+1)
        /\ Total(h, n+1) = Total(h, n) + Term(h, n+1)
    BY TotalRounds DEF Term, Summable
  <2>2. Term(g, n+1) \in Int /\ Term(h, n+1) \in Int
    BY DEF Term, Summable
  <2>3. Total(f, n) = Total(g, n) + Total(h, n) /\ Term(f, n+1) = Term(g, n+1) + Term(h, n+1)
    BY <1>2 DEF Splits
  <2>. QED BY <2>1, <2>2, <2>3
<1>. HIDE DEF T
<1>3. Nat \subseteq T
  BY <1>1, <1>2, SetInduction
<1>4. m \in T /\ m <= m
  BY <1>3
<1>5. m <= m => Total(f, m) = Total(g, m) + Total(h, m)
  BY <1>4, Zenon DEF T
<1>. QED BY <1>4, <1>5

(* Sums with the same terms are equal. *)
LEMMA TotalOfSame ==
  ASSUME NEW f, Summable(f),
         NEW g, Summable(g),
         NEW m \in Nat,
         \A i \in 1..m : Term(f, i) = Term(g, i)
  PROVE  Total(f, m) = Total(g, m)
<1>. DEFINE h == [i \in {} |-> 0]
<1>1. DOMAIN h = {} /\ \A i \in DOMAIN h : h[i] \in Int /\ h[i] = 0
  OBVIOUS
<1>. HIDE DEF h
<1>2. \A i \in 1..m : Term(g, i) \in Int /\ Term(h, i) = 0
  BY <1>1 DEF Term, Summable
<1>3. Splits(f, g, h, m) /\ Summable(h)
  BY <1>1, <1>2 DEF Splits, Summable
<1>4. Total(f, m) = Total(g, m) + Total(h, m)
  BY <1>3, TotalOfSum
<1>5. Total(h, m) = 0 /\ Total(g, m) \in Int
  BY <1>1, TotalOfZeros, TotalRounds DEF Summable
<1>. QED BY <1>4, <1>5

(* Terms that are zero after the first m leave the sum of those. *)
LEMMA TotalOfPrefix ==
  ASSUME NEW f, Summable(f), NEW m \in Nat, NEW k \in Nat, m <= k,
         \A i \in (m+1)..k : Term(f, i) = 0
  PROVE  Total(f, k) = Total(f, m)
<1>. DEFINE T == {n \in Nat : n <= k - m => Total(f, m + n) = Total(f, m)}
<1>1. 0 \in T
  OBVIOUS
<1>2. ASSUME NEW n \in Nat, n \in T
      PROVE  n+1 \in T
  <2>. SUFFICES ASSUME n+1 <= k - m
                PROVE  Total(f, m + (n+1)) = Total(f, m)
    OBVIOUS
  <2>1. m + n \in Nat /\ m + (n+1) = (m+n) + 1 /\ (m+n) + 1 \in (m+1)..k
    OBVIOUS
  <2>2. Total(f, (m+n) + 1) = Total(f, m+n) + Term(f, (m+n) + 1) /\ Total(f, m+n) \in Int
    BY <2>1, TotalRounds DEF Term, Summable
  <2>3. Total(f, m+n) = Total(f, m)
    BY <1>2
  <2>. QED BY <2>1, <2>2, <2>3
<1>. HIDE DEF T
<1>3. Nat \subseteq T
  BY <1>1, <1>2, SetInduction
<1>4. k - m \in T /\ m + (k - m) = k
  BY <1>3
<1>. QED BY <1>4 DEF T

(* The sum of a single term. *)
LEMMA TotalOfOne ==
  ASSUME NEW m \in Nat, NEW k \in 1..m, NEW x \in Int
  PROVE  Total([i \in {k} |-> x], m) = x
<1>. DEFINE f == [i \in {k} |-> 0]
            g == [i \in {k} |-> x]
<1>1. /\ \A i \in DOMAIN f : f[i] = 0 /\ f[i] \in Int
      /\ \A i \in DOMAIN g : g[i] \in Int
      /\ DOMAIN f = DOMAIN g /\ k \in DOMAIN f /\ k \in Nat \ {0}
      /\ \A i \in DOMAIN f : i # k => g[i] = f[i]
      /\ f[k] = 0 /\ g[k] = x
  OBVIOUS
<1>. HIDE DEF f, g
<1>2. Total(g, m) = Total(f, m) + (IF k <= m THEN g[k] - f[k] ELSE 0)
  BY <1>1, TotalOfChange
<1>3. Total(f, m) = 0
  BY <1>1, TotalOfZeros
<1>4. Total(g, m) = x
  BY <1>1, <1>2, <1>3
<1>. QED BY <1>4 DEF g

(* Sums over the same terms are equal, whatever their upper ends. *)
LEMMA TotalOfTerms ==
  ASSUME NEW f, Summable(f),
         NEW g, Summable(g),
         NEW m \in Nat, NEW n \in Nat,
         DOMAIN f \subseteq 1..m, DOMAIN g \subseteq 1..n,
         \A i \in DOMAIN f \cup DOMAIN g : Term(f, i) = Term(g, i)
  PROVE  Total(f, m) = Total(g, n)
<1>. DEFINE k == IF m <= n THEN n ELSE m
<1>1. k \in Nat /\ m <= k /\ n <= k
  OBVIOUS
<1>. HIDE DEF k
<1>2. Total(f, k) = Total(f, m)
  <2>1. \A i \in (m+1)..k : Term(f, i) = 0
    BY DEF Term
  <2>. QED BY <1>1, <2>1, TotalOfPrefix
<1>3. Total(g, k) = Total(g, n)
  <2>1. \A i \in (n+1)..k : Term(g, i) = 0
    BY DEF Term
  <2>. QED BY <1>1, <2>1, TotalOfPrefix
<1>4. Total(f, k) = Total(g, k)
  <2>1. \A i \in 1..k : Term(f, i) = Term(g, i)
    BY DEF Term
  <2>. QED BY <1>1, <2>1, TotalOfSame
<1>. QED BY <1>2, <1>3, <1>4

(* A sum of larger terms is larger. *)
LEMMA TotalOfLarger ==
  ASSUME NEW f, Summable(f),
         NEW g, Summable(g),
         NEW m \in Nat, AtMost(f, g, m)
  PROVE  Total(f, m) <= Total(g, m)
<1>. DEFINE h == [i \in 1..m |-> Term(g, i) - Term(f, i)]
<1>1. \A i \in 1..m : Term(f, i) \in Int /\ Term(g, i) \in Int
  BY DEF Term, Summable
<1>2. /\ DOMAIN h = 1..m
      /\ \A i \in 1..m : h[i] \in Nat /\ Term(g, i) = Term(f, i) + h[i]
  BY <1>1 DEF AtMost
<1>. HIDE DEF h
<1>3. Splits(g, f, h, m)
  BY <1>2 DEF Term, Splits
<1>4. Summable(h) /\ \A i \in DOMAIN h : h[i] \in Nat
  BY <1>2 DEF Summable
<1>5. Total(g, m) = Total(f, m) + Total(h, m)
  BY <1>3, <1>4, TotalOfSum
<1>6. Total(h, m) \in Nat /\ Total(f, m) \in Int
  BY <1>4, TotalNonNegative, TotalRounds DEF Summable
<1>. QED BY <1>5, <1>6

-------------------------------------------------------------------------------
(* A finite set S and an order R, the set of the pairs <<e, f>> in which e
   comes before f. *)
Below(R, S, e) == {f \in S : <<f, e>> \in R}

Ordered(R, S) ==
  /\ IsFiniteSet(S)
  /\ \A e \in S : <<e, e>> \notin R
  /\ \A e, f, g \in S : <<e, f>> \in R /\ <<f, g>> \in R => <<e, g>> \in R

TotallyOrdered(R, S) ==
  Ordered(R, S) /\ \A e, f \in S : e # f => <<e, f>> \in R \/ <<f, e>> \in R

(* The rank of an element, the number of those before it, grows with the
   order and is smaller than the size of the set. *)
LEMMA RankGrows ==
  ASSUME NEW S, NEW R, Ordered(R, S)
  PROVE  /\ Cardinality(S) \in Nat
         /\ \A e \in S : /\ IsFiniteSet(Below(R, S, e))
                         /\ Cardinality(Below(R, S, e)) \in Nat
                         /\ Cardinality(Below(R, S, e)) < Cardinality(S)
         /\ \A e, f \in S : <<e, f>> \in R =>
              Cardinality(Below(R, S, e)) < Cardinality(Below(R, S, f))
<1>1. Cardinality(S) \in Nat
  BY FS_CardinalityType DEF Ordered
<1>2. ASSUME NEW e \in S
      PROVE  /\ IsFiniteSet(Below(R, S, e)) /\ Cardinality(Below(R, S, e)) \in Nat
             /\ Cardinality(Below(R, S, e)) < Cardinality(S)
  <2>1. Below(R, S, e) \in SUBSET S /\ e \notin Below(R, S, e)
    BY DEF Below, Ordered
  <2>2. /\ IsFiniteSet(Below(R, S, e)) /\ Cardinality(Below(R, S, e)) <= Cardinality(S)
        /\ Cardinality(S) = Cardinality(Below(R, S, e)) => S = Below(R, S, e)
    BY <2>1, FS_Subset DEF Ordered
  <2>3. Cardinality(Below(R, S, e)) \in Nat
    BY <2>2, FS_CardinalityType
  <2>. QED BY <1>1, <2>1, <2>2, <2>3
<1>3. ASSUME NEW e \in S, NEW f \in S, <<e, f>> \in R
      PROVE  Cardinality(Below(R, S, e)) < Cardinality(Below(R, S, f))
  <2>1. /\ Below(R, S, e) \in SUBSET Below(R, S, f)
        /\ e \in Below(R, S, f) /\ e \notin Below(R, S, e)
    BY <1>3 DEF Below, Ordered
  <2>2. /\ Cardinality(Below(R, S, e)) <= Cardinality(Below(R, S, f))
        /\ Cardinality(Below(R, S, f)) = Cardinality(Below(R, S, e))
             => Below(R, S, f) = Below(R, S, e)
    BY <1>2, <2>1, FS_Subset
  <2>. QED BY <1>2, <2>1, <2>2
<1>. QED BY <1>1, <1>2, <1>3

(* No two elements of a totally ordered set have the same rank. *)
LEMMA RankOnce ==
  ASSUME NEW S, NEW R, TotallyOrdered(R, S)
  PROVE  /\ Cardinality(S) \in Nat
         /\ \A e \in S : Cardinality(Below(R, S, e)) + 1 \in 1..Cardinality(S)
         /\ \A e, f \in S :
              Cardinality(Below(R, S, e)) = Cardinality(Below(R, S, f)) => e = f
<1>. DEFINE n == Cardinality(S)
            rank == [e \in S |-> Cardinality(Below(R, S, e))]
<1>1. /\ n \in Nat
      /\ \A e \in S : rank[e] \in Nat /\ rank[e] < n
      /\ \A e, f \in S : <<e, f>> \in R => rank[e] < rank[f]
      /\ \A e, f \in S : e # f => <<e, f>> \in R \/ <<f, e>> \in R
      /\ IsFiniteSet(S)
  BY RankGrows DEF TotallyOrdered, Ordered
<1>2. DOMAIN rank = S /\ \A e \in S : rank[e] = Cardinality(Below(R, S, e))
  OBVIOUS
<1>. HIDE DEF n, rank
<1>3. \A e, f \in S : rank[e] = rank[f] => e = f
  <2>. SUFFICES ASSUME NEW e \in S, NEW f \in S, rank[e] = rank[f], e # f PROVE FALSE
    OBVIOUS
  <2>1. rank[e] \in Nat /\ rank[f] \in Nat /\ (rank[e] < rank[f] \/ rank[f] < rank[e])
    BY <1>1
  <2>. QED BY <2>1
<1>4. \A e \in S : rank[e] + 1 \in 1..n
  BY <1>1
<1>. QED BY <1>1, <1>2, <1>3, <1>4 DEF n

(* Every rank up to the size of a totally ordered set is that of an element. *)
IsRank(R, S, k) == \E e \in S : Cardinality(Below(R, S, e)) = k

LEMMA RankTaken ==
  ASSUME NEW S, NEW R, TotallyOrdered(R, S)
  PROVE  \A k \in 0..(Cardinality(S) - 1) : IsRank(R, S, k)
<1>. DEFINE n == Cardinality(S)
            rank == [e \in S |-> Cardinality(Below(R, S, e))]
<1>1. /\ n \in Nat
      /\ \A e \in S : rank[e] \in Nat /\ rank[e] < n
      /\ IsFiniteSet(S)
  BY RankGrows DEF TotallyOrdered, Ordered
<1>2. DOMAIN rank = S /\ \A e \in S : rank[e] = Cardinality(Below(R, S, e))
  OBVIOUS
<1>3. \A e, f \in S : rank[e] = rank[f] => e = f
  BY RankOnce
<1>. HIDE DEF n, rank
<1>4. rank \in Injection(S, 0..(n-1))
  <2>1. rank = [e \in S |-> rank[e]] /\ \A e \in S : rank[e] \in 0..(n-1)
    BY <1>1, <1>2 DEF rank
  <2>2. rank \in [S -> 0..(n-1)]
    BY <2>1
  <2>. QED BY <1>3, <2>2 DEF Injection, IsInjective
<1>5. IsFiniteSet(0..(n-1)) /\ Cardinality(0..(n-1)) = n
  <2>1. 0 \in Int /\ n-1 \in Int
    BY <1>1
  <2>2. /\ IsFiniteSet(0..(n-1))
        /\ Cardinality(0..(n-1)) = IF 0 > n-1 THEN 0 ELSE (n-1) - 0 + 1
    BY <2>1, FS_Interval
  <2>. QED BY <2>2, <1>1
<1>6. rank \in Surjection(S, 0..(n-1))
  BY <1>1, <1>4, <1>5, FS_Injection DEF n
<1>7. \A r \in 0..(n-1) : \E e \in S : rank[e] = r
  BY <1>6 DEF Surjection
<1>. QED BY <1>2, <1>7 DEF n, IsRank

(* A finite set that is totally ordered has a first and a last element. *)
LEMMA FirstAndLast ==
  ASSUME NEW S, NEW R, TotallyOrdered(R, S), S # {}
  PROVE  /\ \E e \in S : \A f \in S : f # e => <<e, f>> \in R
         /\ \E e \in S : \A f \in S : f # e => <<f, e>> \in R
<1>. DEFINE rank(e) == Cardinality(Below(R, S, e))
            n == Cardinality(S)
<1>1. /\ n \in Nat
      /\ \A e \in S : rank(e) \in Nat /\ rank(e) < n
      /\ \A e, f \in S : <<e, f>> \in R => rank(e) < rank(f)
      /\ \A e, f \in S : e # f => <<e, f>> \in R \/ <<f, e>> \in R
  BY RankGrows DEF TotallyOrdered
<1>. HIDE DEF rank, n
<1>2. \E e \in S : \A f \in S : f # e => <<e, f>> \in R
  <2>. DEFINE T == {rank(e) : e \in S}
  <2>1. T \subseteq Nat /\ T # {}
    BY <1>1
  <2>2. PICK r \in T : \A q \in T : r <= q
    BY <2>1, LeastNatural
  <2>3. PICK e \in S : r = rank(e)
    OBVIOUS
  <2>4. \A f \in S : rank(e) <= rank(f)
    BY <2>2, <2>3
  <2>5. \A f \in S : f # e => <<e, f>> \in R
    <3>. TAKE f \in S
    <3>1. rank(e) <= rank(f) /\ rank(e) \in Nat /\ rank(f) \in Nat
      BY <1>1, <2>4
    <3>2. <<f, e>> \in R => rank(f) < rank(e)
      BY <1>1
    <3>3. ~ (<<f, e>> \in R)
      BY <3>1, <3>2
    <3>. QED BY <1>1, <3>3
  <2>. QED BY <2>5
<1>3. \E e \in S : \A f \in S : f # e => <<f, e>> \in R
  <2>. DEFINE T == {n - rank(e) : e \in S}
  <2>1. T \subseteq Nat /\ T # {}
    BY <1>1
  <2>2. PICK r \in T : \A q \in T : r <= q
    BY <2>1, LeastNatural
  <2>3. PICK e \in S : r = n - rank(e)
    OBVIOUS
  <2>4. \A f \in S : n - rank(e) <= n - rank(f)
    BY <2>2, <2>3
  <2>5. \A f \in S : rank(f) <= rank(e)
    BY <1>1, <2>4
  <2>6. \A f \in S : f # e => <<f, e>> \in R
    <3>. TAKE f \in S
    <3>1. rank(f) <= rank(e) /\ rank(e) \in Nat /\ rank(f) \in Nat
      BY <1>1, <2>5
    <3>2. <<e, f>> \in R => rank(e) < rank(f)
      BY <1>1
    <3>3. ~ (<<e, f>> \in R)
      BY <3>1, <3>2
    <3>. QED BY <1>1, <3>3
  <2>. QED BY <2>6
<1>. QED BY <1>2, <1>3

-------------------------------------------------------------------------------
(* Consumption in an order: the elements of S hold the amounts `held', a
   quantity q is taken from them from the first to the last, and what is
   taken from e is what the elements before it did not cover. *)
SumOver(held, T, n) == Total([e \in T |-> held[e]], n)

Drawn(R, S, held, q, n, e) ==
  Smaller(held[e], Larger(q - SumOver(held, Below(R, S, e), n), 0))

(* Sums over a set that gains an element, and over a part of a set. *)
LEMMA SumOverParts ==
  ASSUME NEW n \in Nat, NEW S \in SUBSET (1..n), NEW held \in [S -> Nat],
         NEW T \in SUBSET S
  PROVE  /\ SumOver(held, T, n) \in Nat
         /\ SumOver(held, {}, n) = 0
         /\ \A e \in S \ T : SumOver(held, T \cup {e}, n) = SumOver(held, T, n) + held[e]
         /\ \A U \in SUBSET T : SumOver(held, U, n) <= SumOver(held, T, n)
<1>. DEFINE f == [e \in T |-> held[e]]
<1>1. DOMAIN f = T /\ \A e \in T : f[e] = held[e] /\ f[e] \in Nat
  OBVIOUS
<1>2. SumOver(held, T, n) = Total(f, n)
  BY DEF SumOver
<1>. HIDE DEF f
<1>3. SumOver(held, T, n) \in Nat
  BY <1>1, <1>2, TotalNonNegative
<1>4. SumOver(held, {}, n) = 0
  <2>. DEFINE z == [e \in {} |-> held[e]]
  <2>1. \A i \in DOMAIN z : z[i] = 0
    OBVIOUS
  <2>2. SumOver(held, {}, n) = Total(z, n)
    BY DEF SumOver
  <2>. HIDE DEF z
  <2>. QED BY <2>1, <2>2, TotalOfZeros
<1>5. ASSUME NEW e \in S \ T
      PROVE  SumOver(held, T \cup {e}, n) = SumOver(held, T, n) + held[e]
  <2>. DEFINE g == [i \in T \cup {e} |-> held[i]]
              h == [i \in {e} |-> held[e]]
  <2>1. /\ DOMAIN g = T \cup {e} /\ \A i \in DOMAIN g : g[i] = held[i] /\ g[i] \in Nat
        /\ DOMAIN h = {e} /\ h[e] = held[e] /\ held[e] \in Nat
    OBVIOUS
  <2>2. SumOver(held, T \cup {e}, n) = Total(g, n)
    BY DEF SumOver
  <2>3. Total(h, n) = held[e]
    <3>1. e \in 1..n /\ held[e] \in Int
      OBVIOUS
    <3>. QED BY <3>1, TotalOfOne, Zenon
  <2>. HIDE DEF g, h
  <2>4. Splits(g, f, h, n) /\ Summable(g) /\ Summable(f) /\ Summable(h)
    <3>1. Summable(g) /\ Summable(f) /\ Summable(h)
      <4>1. /\ \A i \in DOMAIN f : f[i] \in Nat
            /\ \A i \in DOMAIN g : g[i] \in Nat
            /\ \A i \in DOMAIN h : h[i] \in Nat
        BY <1>1, <2>1
      <4>. QED BY <4>1, NaturalsSummable
    <3>2. ASSUME NEW i \in 1..n
          PROVE  Term(g, i) = Term(f, i) + Term(h, i)
      <4>1. CASE i = e
        BY <1>1, <2>1, <4>1 DEF Term
      <4>2. CASE i \in T
        BY <1>1, <2>1, <4>2 DEF Term
      <4>3. CASE i # e /\ i \notin T
        BY <1>1, <2>1, <4>3 DEF Term
      <4>. QED BY <4>1, <4>2, <4>3
    <3>. QED BY <3>1, <3>2 DEF Splits
  <2>5. Total(g, n) = Total(f, n) + Total(h, n)
    BY <2>4, TotalOfSum
  <2>. QED BY <1>2, <2>2, <2>3, <2>5
<1>6. ASSUME NEW U \in SUBSET T
      PROVE  SumOver(held, U, n) <= SumOver(held, T, n)
  <2>. DEFINE g == [i \in U |-> held[i]]
  <2>1. DOMAIN g = U /\ \A i \in U : g[i] = held[i] /\ g[i] \in Nat
    OBVIOUS
  <2>2. SumOver(held, U, n) = Total(g, n)
    BY DEF SumOver
  <2>. HIDE DEF g
  <2>3. AtMost(g, f, n) /\ Summable(g) /\ Summable(f)
    <3>1. Summable(g) /\ Summable(f)
      <4>1. /\ \A i \in DOMAIN f : f[i] \in Nat
            /\ \A i \in DOMAIN g : g[i] \in Nat
        BY <1>1, <2>1
      <4>. QED BY <4>1, NaturalsSummable
    <3>2. ASSUME NEW i \in 1..n
          PROVE  Term(g, i) <= Term(f, i)
      <4>1. i \in U => i \in T /\ g[i] = f[i]
        BY <1>1, <2>1
      <4>2. i \in T => f[i] \in Nat
        BY <1>1
      <4>. QED BY <1>1, <2>1, <4>1, <4>2 DEF Term
    <3>. QED BY <3>1, <3>2 DEF AtMost
  <2>. QED BY <1>2, <2>2, <2>3, TotalOfLarger
<1>. QED BY <1>3, <1>4, <1>5, <1>6

(* While the quantity reaches f, every element before f is used up. *)
LEMMA DrawnInOrder ==
  ASSUME NEW n \in Nat, NEW S \in SUBSET (1..n), NEW held \in [S -> Nat],
         NEW R, Ordered(R, S), NEW q \in Nat,
         NEW e \in S, NEW f \in S, <<e, f>> \in R, Drawn(R, S, held, q, n, f) > 0
  PROVE  Drawn(R, S, held, q, n, e) = held[e]
<1>. DEFINE D == Below(R, S, e)
            sumD == SumOver(held, D, n)
            sumF == SumOver(held, Below(R, S, f), n)
<1>1. D \in SUBSET S /\ e \in S \ D /\ D \cup {e} \in SUBSET Below(R, S, f)
  BY DEF Below, Ordered
<1>2. Below(R, S, f) \in SUBSET S
  BY DEF Below
<1>. HIDE DEF D
<1>3. /\ sumD \in Nat /\ sumF \in Nat
      /\ SumOver(held, D \cup {e}, n) = sumD + held[e]
      /\ SumOver(held, D \cup {e}, n) <= sumF
  <2>1. /\ SumOver(held, D, n) \in Nat
        /\ \A x \in S \ D : SumOver(held, D \cup {x}, n) = SumOver(held, D, n) + held[x]
    BY <1>1, SumOverParts
  <2>2. /\ SumOver(held, Below(R, S, f), n) \in Nat
        /\ \A U \in SUBSET Below(R, S, f) :
             SumOver(held, U, n) <= SumOver(held, Below(R, S, f), n)
    BY <1>2, SumOverParts
  <2>. QED BY <1>1, <2>1, <2>2
<1>4. held[e] \in Nat /\ held[f] \in Nat
  OBVIOUS
<1>5. /\ Drawn(R, S, held, q, n, f) = Smaller(held[f], Larger(q - sumF, 0))
      /\ Drawn(R, S, held, q, n, e) = Smaller(held[e], Larger(q - sumD, 0))
  BY DEF Drawn, D
<1>. HIDE DEF sumD, sumF
<1>6. q - sumF > 0
  BY <1>3, <1>4, <1>5 DEF Smaller, Larger
<1>. QED BY <1>3, <1>4, <1>5, <1>6 DEF Smaller, Larger

(* What is taken in all is the quantity, or what there is. *)
LEMMA DrawnInAll ==
  ASSUME NEW n \in Nat, NEW S \in SUBSET (1..n), NEW held \in [S -> Nat],
         NEW R, TotallyOrdered(R, S), NEW q \in Nat
  PROVE  SumOver([e \in S |-> Drawn(R, S, held, q, n, e)], S, n)
           = Smaller(q, SumOver(held, S, n))
<1>. DEFINE sum(T) == SumOver(held, T, n)
            drawn == [e \in S |-> Drawn(R, S, held, q, n, e)]
            below(e) == Below(R, S, e)
<1>1. \A e \in S : below(e) \in SUBSET S /\ e \in S \ below(e)
  BY DEF Below, TotallyOrdered, Ordered
<1>2. \A e \in S : drawn[e] = Smaller(held[e], Larger(q - sum(below(e)), 0))
  BY DEF Drawn
<1>3. \A T \in SUBSET S :
        /\ sum(T) \in Nat
        /\ \A e \in S \ T : sum(T \cup {e}) = sum(T) + held[e]
        /\ \A U \in SUBSET T : sum(U) <= sum(T)
  BY SumOverParts
<1>4. sum({}) = 0
  BY SumOverParts
<1>5. drawn \in [S -> Nat]
  <2>. HIDE DEF sum, below
  <2>1. \A e \in S : held[e] \in Nat /\ sum(below(e)) \in Nat
    BY <1>1, <1>3
  <2>2. \A e \in S : drawn[e] \in Nat
    BY <1>2, <2>1 DEF Smaller, Larger
  <2>. QED BY <2>2
<1>. HIDE DEF sum, drawn, below
<1>6. ASSUME q >= sum(S)
      PROVE  SumOver(drawn, S, n) = Smaller(q, sum(S))
  <2>1. ASSUME NEW e \in S
        PROVE  drawn[e] = held[e]
    <3>1. below(e) \cup {e} \in SUBSET S
      BY <1>1
    <3>2. sum(below(e)) + held[e] <= sum(S)
      BY <1>1, <1>3, <3>1
    <3>3. sum(below(e)) \in Nat /\ held[e] \in Nat /\ sum(S) \in Nat
      BY <1>1, <1>3
    <3>. QED BY <1>2, <1>6, <3>2, <3>3 DEF Smaller, Larger
  <2>2. drawn = held
    <3>1. drawn = [e \in S |-> drawn[e]] /\ held = [e \in S |-> held[e]]
      BY <1>5
    <3>. QED BY <2>1, <3>1
  <2>3. sum(S) \in Nat
    BY <1>3
  <2>4. SumOver(drawn, S, n) = sum(S)
    BY <2>2 DEF sum
  <2>. QED BY <1>6, <2>3, <2>4 DEF Smaller
<1>7. ASSUME q < sum(S)
      PROVE  SumOver(drawn, S, n) = Smaller(q, sum(S))
  <2>. DEFINE over == {e \in S : sum(below(e)) + held[e] > q}
  <2>1. over # {}
    <3>. SUFFICES ASSUME over = {} PROVE FALSE
      OBVIOUS
    <3>1. S # {}
      <4>1. S = {} => sum(S) = sum({})
        BY Zenon
      <4>. QED BY <1>4, <1>7, <4>1
    <3>2. PICK l \in S : \A f \in S : f # l => <<f, l>> \in R
      BY <3>1, FirstAndLast
    <3>3. S = below(l) \cup {l}
      BY <1>1, <3>2 DEF below, Below
    <3>4. sum(S) = sum(below(l)) + held[l]
      BY <1>1, <1>3, <3>3
    <3>5. ~ (sum(below(l)) + held[l] > q)
      OBVIOUS
    <3>. QED BY <1>7, <3>4, <3>5
  <2>2. TotallyOrdered(R, over)
    <3>1. over \in SUBSET S
      OBVIOUS
    <3>2. IsFiniteSet(over)
      BY <3>1, FS_Subset DEF TotallyOrdered, Ordered
    <3>. HIDE DEF over
    <3>. QED BY <3>1, <3>2 DEF TotallyOrdered, Ordered
  <2>3. PICK c \in over : \A f \in over : f # c => <<c, f>> \in R
    BY <2>1, <2>2, FirstAndLast
  <2>4. c \in S /\ sum(below(c)) + held[c] > q
    OBVIOUS
  <2>5. sum(below(c)) <= q
    <3>1. CASE below(c) = {}
      BY <1>4, <3>1
    <3>2. CASE below(c) # {}
      <4>1. TotallyOrdered(R, below(c))
        <5>1. below(c) \in SUBSET S
          BY <1>1
        <5>2. IsFiniteSet(below(c))
          BY <5>1, FS_Subset DEF TotallyOrdered, Ordered
        <5>. QED BY <5>1, <5>2 DEF TotallyOrdered, Ordered
      <4>2. PICK p \in below(c) : \A f \in below(c) : f # p => <<f, p>> \in R
        BY <3>2, <4>1, FirstAndLast
      <4>3. p \in S /\ <<p, c>> \in R
        BY DEF below, Below
      <4>4. p \notin over
        <5>. SUFFICES ASSUME p \in over PROVE FALSE
          OBVIOUS
        <5>1. p # c /\ ~ (<<p, p>> \in R)
          BY <4>3 DEF TotallyOrdered, Ordered
        <5>2. <<c, p>> \in R
          BY <2>3, <5>1
        <5>. QED BY <2>4, <4>3, <5>1, <5>2 DEF TotallyOrdered, Ordered
      <4>5. below(c) = below(p) \cup {p}
        <5>1. below(c) \subseteq below(p) \cup {p}
          BY <1>1, <2>4, <4>2 DEF below, Below
        <5>2. below(p) \subseteq below(c)
          BY <2>4, <4>3 DEF below, Below, TotallyOrdered, Ordered
        <5>. QED BY <5>1, <5>2
      <4>6. sum(below(c)) = sum(below(p)) + held[p]
        BY <1>1, <1>3, <4>3, <4>5
      <4>7. ~ (sum(below(p)) + held[p] > q)
        BY <4>3, <4>4
      <4>8. sum(below(p)) \in Nat /\ held[p] \in Nat
        BY <1>1, <1>3, <4>3
      <4>. QED BY <4>6, <4>7, <4>8
    <3>. QED BY <3>1, <3>2
  <2>. HIDE DEF over
  <2>6. ASSUME NEW e \in S, <<e, c>> \in R
        PROVE  drawn[e] = held[e]
    <3>1. below(e) \cup {e} \in SUBSET below(c)
      BY <2>4, <2>6, <1>1 DEF below, Below, TotallyOrdered, Ordered
    <3>2. below(e) \in SUBSET S /\ e \in S \ below(e) /\ below(c) \in SUBSET S
      BY <1>1, <2>4
    <3>3. sum(below(e)) + held[e] <= sum(below(c))
      BY <1>3, <3>1, <3>2
    <3>4. sum(below(e)) \in Nat /\ held[e] \in Nat /\ sum(below(c)) \in Nat
      BY <1>3, <3>2
    <3>. QED BY <1>2, <2>5, <3>3, <3>4 DEF Smaller, Larger
  <2>7. drawn[c] = q - sum(below(c))
    <3>1. sum(below(c)) \in Nat /\ held[c] \in Nat
      BY <1>1, <1>3, <2>4
    <3>. QED BY <1>2, <2>4, <2>5, <3>1 DEF Smaller, Larger
  <2>8. ASSUME NEW e \in S, <<c, e>> \in R
        PROVE  drawn[e] = 0
    <3>1. below(c) \cup {c} \in SUBSET below(e)
      BY <2>4, <2>8, <1>1 DEF below, Below, TotallyOrdered, Ordered
    <3>2. below(c) \in SUBSET S /\ c \in S \ below(c) /\ below(e) \in SUBSET S
      BY <1>1, <2>4
    <3>3. sum(below(c)) + held[c] <= sum(below(e))
      BY <1>3, <3>1, <3>2
    <3>4. sum(below(e)) \in Nat /\ held[e] \in Nat /\ sum(below(c)) \in Nat /\ held[c] \in Nat
      BY <1>3, <2>4, <3>2
    <3>. QED BY <1>2, <2>4, <3>3, <3>4 DEF Smaller, Larger
  <2>9. SumOver(drawn, S, n) = sum(below(c)) + drawn[c]
    <3>1. SumOver(drawn, S, n) = SumOver(drawn, below(c) \cup {c}, n)
      <4>. DEFINE f == [e \in S |-> drawn[e]]
                  g == [e \in below(c) \cup {c} |-> drawn[e]]
      <4>1. below(c) \cup {c} \in SUBSET S
        BY <1>1, <2>4
      <4>2. \A e \in S \ (below(c) \cup {c}) : drawn[e] = 0
        <5>. TAKE e \in S \ (below(c) \cup {c})
        <5>1. <<c, e>> \in R
          BY <2>4 DEF below, Below, TotallyOrdered
        <5>. QED BY <2>8, <5>1
      <4>3. /\ DOMAIN f = S /\ \A e \in S : f[e] = drawn[e] /\ f[e] \in Nat
            /\ DOMAIN g = below(c) \cup {c} /\ \A e \in DOMAIN g : g[e] = drawn[e] /\ g[e] \in Nat
        BY <1>5, <4>1
      <4>4. /\ SumOver(drawn, S, n) = Total(f, n)
            /\ SumOver(drawn, below(c) \cup {c}, n) = Total(g, n)
        BY DEF SumOver
      <4>. HIDE DEF f, g
      <4>5. Summable(f) /\ Summable(g)
        BY <4>3, NaturalsSummable
      <4>6. \A e \in 1..n : Term(f, e) = Term(g, e)
        BY <4>1, <4>2, <4>3 DEF Term
      <4>7. Total(f, n) = Total(g, n)
        BY <4>5, <4>6, TotalOfSame
      <4>. QED BY <4>4, <4>7
    <3>2. below(c) \in SUBSET S /\ c \in S \ below(c)
      BY <1>1, <2>4
    <3>3. SumOver(drawn, below(c) \cup {c}, n) = SumOver(drawn, below(c), n) + drawn[c]
      <4>1. \A x \in S \ below(c) :
              SumOver(drawn, below(c) \cup {x}, n) = SumOver(drawn, below(c), n) + drawn[x]
        BY <1>5, <3>2, SumOverParts
      <4>. QED BY <3>2, <4>1
    <3>4. SumOver(drawn, below(c), n) = sum(below(c))
      <4>1. \A e \in below(c) : drawn[e] = held[e]
        BY <2>6 DEF below, Below
      <4>2. [e \in below(c) |-> drawn[e]] = [e \in below(c) |-> held[e]]
        BY <4>1
      <4>. QED BY <4>2 DEF SumOver, sum
    <3>. QED BY <3>1, <3>3, <3>4
  <2>10. SumOver(drawn, S, n) = q
    <3>1. sum(below(c)) \in Nat
      BY <1>1, <1>3, <2>4
    <3>. QED BY <2>7, <2>9, <3>1
  <2>11. sum(S) \in Nat
    BY <1>3
  <2>. QED BY <1>7, <2>10, <2>11 DEF Smaller
<1>8. sum(S) \in Nat
  BY <1>3
<1>9. SumOver(drawn, S, n) = Smaller(q, sum(S))
  BY <1>6, <1>7, <1>8
<1>. QED BY <1>9, Zenon DEF sum, drawn

-------------------------------------------------------------------------------
(* Rounding an integer quotient gives an integer. *)
LEMMA QuantizedInt ==
  ASSUME NEW n \in Int, NEW d \in Int, d # 0
  PROVE  Quantized(n, d) \in Int
<1>. DEFINE num == IF d > 0 THEN n ELSE -n
            den == IF d > 0 THEN d ELSE -d
            q   == num \div den
<1>1. num \in Int /\ den \in Int /\ den > 0
  OBVIOUS
<1>2. q \in Int
  <2>. HIDE DEF num, den
  <2>. QED BY <1>1
<1>3. Quantized(n, d) = q \/ Quantized(n, d) = q + 1
  BY DEF Quantized
<1>. HIDE DEF q
<1>. QED BY <1>2, <1>3

(* Rounding a natural number of hundredths. *)
LEMMA CentsNatural ==
  ASSUME NEW n \in Nat
  PROVE  Quantized(n, 100) \in Nat
<1>. DEFINE q == n \div 100
<1>1. q \in Nat
  OBVIOUS
<1>2. Quantized(n, 100) = q \/ Quantized(n, 100) = q + 1
  BY DEF Quantized
<1>. HIDE DEF q
<1>. QED BY <1>1, <1>2

-------------------------------------------------------------------------------
(* A product with a natural number keeps an order. *)
LEMMA TimesNatural ==
  ASSUME NEW a \in Int, NEW b \in Int, a <= b, NEW n \in Nat
  PROVE  a * n <= b * n
OBVIOUS

(* Loops whose first m rounds are the same are in the same state after them. *)
LEMMA IterateAlike ==
  ASSUME NEW S, NEW s0 \in S, NEW f \in [Nat -> [S -> S]], NEW g \in [Nat -> [S -> S]],
         NEW m \in Nat, \A k \in 1..m : f[k] = g[k]
  PROVE  Iterate(f, s0, m) = Iterate(g, s0, m)
<1>. DEFINE T == {n \in Nat : n <= m => Iterate(f, s0, n) = Iterate(g, s0, n)}
<1>1. 0 \in T
  <2>1. Iterate(f, s0, 0) = s0 /\ Iterate(g, s0, 0) = s0
    BY IterateRounds
  <2>. QED BY <2>1
<1>2. ASSUME NEW n \in Nat, n \in T
      PROVE  n+1 \in T
  <2>. SUFFICES ASSUME n+1 <= m
                PROVE  Iterate(f, s0, n+1) = Iterate(g, s0, n+1)
    OBVIOUS
  <2>1. Iterate(f, s0, n+1) = f[n+1][Iterate(f, s0, n)]
    BY IterateRounds
  <2>2. Iterate(g, s0, n+1) = g[n+1][Iterate(g, s0, n)]
    BY IterateRounds, SMTT(30)
  <2>3. Iterate(f, s0, n) = Iterate(g, s0, n)
    BY <1>2
  <2>4. f[n+1] = g[n+1]
    OBVIOUS
  <2>. QED BY <2>1, <2>2, <2>3, <2>4
<1>. HIDE DEF T
<1>3. Nat \subseteq T
  BY <1>1, <1>2, SetInduction
<1>4. m \in T /\ m <= m
  BY <1>3
<1>. QED BY <1>4, Zenon DEF T

(* One more term. *)
LEMMA TotalOfOneMore ==
  ASSUME NEW m \in Nat, NEW ids \in SUBSET (1..m), NEW d \in [ids -> Int],
         NEW S \in SUBSET ids, NEW l \in ids, l \notin S
  PROVE  Total([i \in S \cup {l} |-> d[i]], m) = Total([i \in S |-> d[i]], m) + d[l]
<1>. DEFINE f == [i \in S \cup {l} |-> d[i]]
            g == [i \in S |-> d[i]]
            h == [i \in {l} |-> d[l]]
<1>1. /\ DOMAIN f = S \cup {l} /\ \A i \in S \cup {l} : f[i] = d[i] /\ f[i] \in Int
      /\ DOMAIN g = S /\ \A i \in S : g[i] = d[i] /\ g[i] \in Int
      /\ DOMAIN h = {l} /\ h[l] = d[l] /\ d[l] \in Int
  OBVIOUS
<1>2. Total(h, m) = d[l]
  BY TotalOfOne
<1>. HIDE DEF f, g, h
<1>3. Summable(f) /\ Summable(g) /\ Summable(h)
  BY <1>1 DEF Summable
<1>4. Splits(f, g, h, m)
  BY <1>1 DEF Splits, Term
<1>5. Total(f, m) = Total(g, m) + Total(h, m)
  BY <1>3, <1>4, TotalOfSum
<1>. QED BY <1>2, <1>5 DEF f, g

(* Rounding goes by at most half a unit. *)
LEMMA QuantizedClose ==
  ASSUME NEW n \in Int, NEW d \in Nat \ {0}
  PROVE  /\ Quantized(n, d) \in Int
         /\ 2 * (Quantized(n, d) * d) - 2 * n <= d
         /\ 2 * n - 2 * (Quantized(n, d) * d) <= d
<1>. DEFINE q == n \div d
            r == n % d
<1>1. q \in Int /\ r \in 0..(d-1) /\ n = d * q + r
  OBVIOUS
<1>2. \/ Quantized(n, d) = q /\ 2*r <= d
      \/ Quantized(n, d) = q + 1 /\ d <= 2*r
  <2>1. Quantized(n, d) = IF 2*r < d \/ (2*r = d /\ q % 2 = 0) THEN q ELSE q + 1
    BY DEF Quantized
  <2>. HIDE DEF q, r
  <2>2. CASE 2*r < d \/ (2*r = d /\ q % 2 = 0)
    BY <1>1, <2>1, <2>2
  <2>3. CASE ~ (2*r < d \/ (2*r = d /\ q % 2 = 0))
    <3>1. ~ 2*r < d
      BY <2>3
    <3>. QED BY <1>1, <2>1, <2>3, <3>1
  <2>. QED BY <2>2, <2>3
<1>. HIDE DEF q, r
<1>3. (q + 1) * d = d * q + d /\ q * d = d * q
  BY <1>1
<1>4. CASE Quantized(n, d) = q /\ 2*r <= d
  <2>1. Quantized(n, d) * d = d * q
    BY <1>3, <1>4
  <2>2. d * q \in Int
    BY <1>1
  <2>. QED BY <1>1, <1>4, <2>1, <2>2
<1>5. CASE Quantized(n, d) = q + 1 /\ d <= 2*r
  <2>1. Quantized(n, d) * d = d * q + d
    BY <1>3, <1>5
  <2>2. d * q \in Int
    BY <1>1
  <2>. QED BY <1>1, <1>5, <2>1, <2>2
<1>. QED BY <1>2, <1>4, <1>5

(* What holds of nothing and, with what is below a member of S, of that and
   the member. *)
HoldsAlong(R, S, P) ==
  /\ {} \in P
  /\ \A l \in S : Below(R, S, l) \in P => Below(R, S, l) \cup {l} \in P

(* Induction along a finite total order. *)
LEMMA OrderInduction ==
  ASSUME NEW S, NEW R, TotallyOrdered(R, S), NEW P, HoldsAlong(R, S, P)
  PROVE  S \in P
<1>. DEFINE n == Cardinality(S)
            rank == [e \in S |-> Cardinality(Below(R, S, e))]
            First(k) == {j \in S : rank[j] < k}
            T == {k \in Nat : k <= n => First(k) \in P}
<1>1. n \in Nat /\ \A e \in S : rank[e] \in Nat /\ rank[e] < n
  BY RankGrows DEF TotallyOrdered
<1>2. \A e, f \in S : <<e, f>> \in R => rank[e] < rank[f]
  BY RankGrows DEF TotallyOrdered
<1>3. \A e, f \in S : rank[e] = rank[f] => e = f
  BY RankOnce
<1>4. \A k \in 0..(n - 1) : \E e \in S : rank[e] = k
  <2>1. \A k \in 0..(n - 1) : IsRank(R, S, k)
    BY RankTaken
  <2>. QED BY <2>1 DEF IsRank
<1>5. \A e \in S : Below(R, S, e) = First(rank[e])
  <2>1. \A e, f \in S : e # f => <<e, f>> \in R \/ <<f, e>> \in R
    BY DEF TotallyOrdered
  <2>2. \A e \in S : Below(R, S, e) = {f \in S : <<f, e>> \in R}
    BY DEF Below
  <2>3. ASSUME NEW e \in S, NEW f \in S
        PROVE  <<f, e>> \in R <=> rank[f] < rank[e]
    <3>. HIDE DEF rank
    <3>1. rank[e] \in Nat /\ rank[f] \in Nat
      BY <1>1
    <3>2. /\ <<f, e>> \in R => rank[f] < rank[e]
          /\ <<e, f>> \in R => rank[e] < rank[f]
          /\ e = f \/ <<e, f>> \in R \/ <<f, e>> \in R
      BY <1>2, <2>1
    <3>3. ~ (rank[f] < rank[e] /\ rank[e] < rank[f]) /\ ~ rank[e] < rank[e]
      BY <3>1
    <3>. QED BY <3>2, <3>3
  <2>. QED BY <2>2, <2>3
<1>. HIDE DEF rank, n
<1>6. 0 \in T
  <2>1. First(0) = {}
    BY <1>1
  <2>. QED BY <2>1 DEF HoldsAlong
<1>7. ASSUME NEW k \in Nat, k \in T
      PROVE  k+1 \in T
  <2>0. k+1 \in Nat /\ (k+1 <= n => First(k+1) \in P) => k+1 \in T
    <3>. HIDE DEF First
    <3>. QED OBVIOUS
  <2>. SUFFICES ASSUME k+1 <= n PROVE First(k+1) \in P
    BY <2>0
  <2>1. PICK l \in S : rank[l] = k
    BY <1>1, <1>4
  <2>2. First(k) = Below(R, S, l)
    BY <1>5, <2>1
  <2>3. First(k+1) = First(k) \cup {l}
    BY <1>1, <1>3, <2>1
  <2>4. First(k) \in P
    BY <1>1, <1>7
  <2>. QED BY <2>2, <2>3, <2>4 DEF HoldsAlong
<1>8. n \in T /\ n <= n
  <2>1. Nat \subseteq T
    <3>. HIDE DEF T
    <3>. QED BY <1>6, <1>7, SetInduction
  <2>. QED BY <1>1, <2>1
<1>9. First(n) = S
  BY <1>1
<1>. QED BY <1>8, <1>9
===============================================================================
