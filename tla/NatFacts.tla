------------------------------ MODULE NatFacts ------------------------------
(***************************************************************************)
(* Facts about natural numbers and iteration that several proofs use.      *)
(***************************************************************************)
EXTENDS Integers, WellFoundedInduction, TLAPS

\* A set of naturals that is not empty has a least element.
LEMMA LeastNatural ==
    ASSUME NEW S \in SUBSET Nat, S # {}
    PROVE  \E x \in S : \A y \in S : x <= y
  <1> DEFINE R == OpToRel(<, Nat)
  <1>1. \A x, y \in Nat : x < y => <<x, y>> \in R
    BY Zenon DEF OpToRel
  <1>2. IsWellFoundedOn(R, Nat)
    BY NatLessThanWellFounded, Zenon
  <1> HIDE DEF R
  <1>3. PICK x \in S : \A y \in S : ~(<<y, x>> \in R)
    BY <1>2, WFMin, Zenon
  <1>4. \A y \in S : ~(y < x)
    BY <1>1, <1>3
  <1> QED
    BY <1>3, <1>4

\* Quotient and remainder.
LEMMA DivFacts ==
    ASSUME NEW a \in Nat, NEW b \in Nat \ {0}
    PROVE  a \div b \in Nat /\ a % b \in 0 .. b - 1 /\ a = b * (a \div b) + (a % b)
  <1> DEFINE q == a \div b
             r == a % b
  <1>1. q \in Int /\ r \in Int /\ 0 <= r /\ r < b /\ a = b * q + r
    OBVIOUS
  <1> HIDE DEF q, r
  <1>2. q >= 0
    <2> SUFFICES ASSUME q <= -1 PROVE FALSE
      BY <1>1
    <2>1. b * q <= b * (-1)
      BY <1>1
    <2> QED
      BY <1>1, <2>1
  <1>3. q \in Nat /\ r \in 0 .. b - 1 /\ a = b * q + r
    BY <1>1, <1>2
  <1> QED
    BY <1>3 DEF q, r

\* They are the only pair with which the division comes out.
LEMMA DivUnique ==
    ASSUME NEW b \in Nat \ {0}, NEW q \in Nat, NEW r \in 0 .. b - 1,
           NEW p \in Nat, NEW s \in 0 .. b - 1, b * q + r = b * p + s
    PROVE  q = p /\ r = s
  <1>1. \A x, y \in Nat : x < y => b * x + b <= b * y
    <2> SUFFICES ASSUME NEW x \in Nat, NEW y \in Nat, x < y PROVE b * x + b <= b * y
      OBVIOUS
    <2>1. PICK d \in Nat : y = x + 1 + d
      <3>1. y - x - 1 \in Nat /\ y = x + 1 + (y - x - 1)
        OBVIOUS
      <3> QED
        BY <3>1
    <2>2. b * y = b * x + b + b * d /\ b * d >= 0 /\ b * x \in Nat /\ b * d \in Nat
      BY <2>1
    <2> QED
      BY <2>2
  <1>2. b * q \in Nat /\ b * p \in Nat
    OBVIOUS
  <1>3. ~(q < p) /\ ~(p < q)
    BY <1>1, <1>2
  <1> QED
    BY <1>2, <1>3

\* Going on without passing a multiple of b.
LEMMA DivShift ==
    ASSUME NEW a \in Nat, NEW b \in Nat \ {0}, NEW j \in Nat, (a % b) + j < b
    PROVE  (a + j) \div b = a \div b /\ (a + j) % b = (a % b) + j
  <1> DEFINE q == a \div b
             r == a % b
             p == (a + j) \div b
             s == (a + j) % b
  <1>1. q \in Nat /\ r \in 0 .. b - 1 /\ a = b * q + r
    BY DivFacts
  <1>2. p \in Nat /\ s \in 0 .. b - 1 /\ a + j = b * p + s
    <2>1. \A e \in Nat : e \div b \in Nat /\ e % b \in 0 .. b - 1 /\ e = b * (e \div b) + (e % b)
      BY DivFacts
    <2>2. a + j \in Nat
      OBVIOUS
    <2> QED
      BY <2>1, <2>2
  <1>3. r + j < b
    OBVIOUS
  <1> HIDE DEF q, r, p, s
  <1>4. r + j \in 0 .. b - 1 /\ b * q \in Nat /\ b * p \in Nat
    BY <1>1, <1>2, <1>3
  <1>5. b * p + s = b * q + (r + j)
    BY <1>1, <1>2, <1>4
  <1>6. p = q /\ s = r + j
    BY <1>1, <1>2, <1>4, <1>5, DivUnique
  <1> QED
    BY <1>6 DEF q, r, p, s

\* Quotients grow with what is divided.
LEMMA DivMonotone ==
    ASSUME NEW a \in Nat, NEW e \in Nat, NEW b \in Nat \ {0}, a <= e
    PROVE  a \div b <= e \div b
  <1> DEFINE q == a \div b
             p == e \div b
  <1>1. PICK r \in 0 .. b - 1, s \in 0 .. b - 1 :
          q \in Nat /\ p \in Nat /\ a = b * q + r /\ e = b * p + s
    BY DivFacts
  <1> HIDE DEF q, p
  <1>2. SUFFICES ASSUME p < q PROVE FALSE
    BY <1>1 DEF q, p
  <1>3. PICK d \in Nat : q = p + 1 + d
    <2>1. q - p - 1 \in Nat /\ q = p + 1 + (q - p - 1)
      BY <1>1, <1>2
    <2> QED
      BY <2>1
  <1>4. b * q = b * p + b + b * d /\ b * d \in Nat /\ b * p \in Nat
    BY <1>1, <1>3
  <1> QED
    BY <1>1, <1>4

-----------------------------------------------------------------------------
(***************************************************************************)
(* Iteration. The loops of the model are recursive functions; what they    *)
(* compute is found by the least counterexample.                           *)
(***************************************************************************)
\* f is the iteration of the steps F from a.
Iterates(f, n, F, a) == f[0] = a /\ \A k \in 1 .. n : f[k] = F[k][f[k - 1]]

\* Steps that stay in a set can be iterated, and the iteration stays in the set.
LEMMA IterationExists ==
    ASSUME NEW S, NEW N \in Nat, NEW F \in [1 .. N -> [S -> S]], NEW a \in S
    PROVE  \E f \in [0 .. N -> S] : Iterates(f, N, F, a)
  <1> DEFINE Bad == {m \in Nat : m <= N /\ ~ \E f \in [0 .. m -> S] : Iterates(f, m, F, a)}
  <1>1. SUFFICES ASSUME Bad # {} PROVE FALSE
    OBVIOUS
  <1>2. Bad \in SUBSET Nat
    OBVIOUS
  <1>3. PICK m \in Bad : \A y \in Bad : m <= y
    <2> HIDE DEF Bad
    <2> QED
      BY <1>1, <1>2, LeastNatural
  <1>4. m \in Nat /\ m <= N /\ ~ \E f \in [0 .. m -> S] : Iterates(f, m, F, a)
    BY <1>3
  <1>5. CASE m = 0
    <2> DEFINE f == [i \in 0 .. m |-> a]
    <2>1. f \in [0 .. m -> S] /\ f[0] = a
      BY <1>5
    <2> HIDE DEF f
    <2> QED
      BY <1>4, <1>5, <2>1 DEF Iterates
  <1>6. CASE m # 0
    <2>1. PICK j \in Nat : m = j + 1 /\ ~(m <= j) /\ j <= N
      <3>1. m - 1 \in Nat /\ m = (m - 1) + 1 /\ ~(m <= m - 1) /\ m - 1 <= N
        BY <1>4, <1>6
      <3> QED
        BY <3>1
    <2>2. j \notin Bad
      BY <1>3, <2>1
    <2>3. PICK h \in [0 .. j -> S] : Iterates(h, j, F, a)
      BY <2>1, <2>2
    <2> HIDE DEF Bad
    <2>4. F[m] \in [S -> S] /\ h[j] \in S
      BY <1>4, <2>1
    <2>5. PICK last \in S : last = F[m][h[j]]
      BY <2>4
    <2> DEFINE f == [i \in 0 .. m |-> IF i = m THEN last ELSE h[i]]
    <2>6. f \in [0 .. m -> S]
      BY <1>4, <2>1
    <2>7. \A i \in 0 .. j : f[i] = h[i]
      BY <1>4, <2>1
    <2>8. f[m] = last
      BY <1>4
    <2> HIDE DEF f
    <2>9. f[0] = a
      BY <2>1, <2>3, <2>7 DEF Iterates
    <2>10. \A k \in 1 .. m : f[k] = F[k][f[k - 1]]
      <3> SUFFICES ASSUME NEW k \in 1 .. m PROVE f[k] = F[k][f[k - 1]]
        OBVIOUS
      <3>1. CASE k = m
        <4>1. k - 1 = j /\ j \in 0 .. j
          BY <2>1, <3>1
        <4> QED
          BY <2>5, <2>7, <2>8, <3>1, <4>1
      <3>2. CASE k # m
        <4>1. k \in 1 .. j /\ k \in 0 .. j /\ k - 1 \in 0 .. j
          BY <2>1, <3>2
        <4>2. h[k] = F[k][h[k - 1]]
          BY <2>3, <4>1 DEF Iterates
        <4> QED
          BY <2>7, <4>1, <4>2
      <3> QED
        BY <3>1, <3>2
    <2> QED
      BY <1>4, <2>6, <2>9, <2>10 DEF Iterates
  <1> QED
    BY <1>5, <1>6

\* Whatever holds at the start and is kept by the steps holds at the end.
LEMMA IterationKeeps ==
    ASSUME NEW N \in Nat, NEW f, NEW I, f[0] \in I,
           \A k \in 1 .. N : f[k - 1] \in I => f[k] \in I
    PROVE  \A k \in 0 .. N : f[k] \in I
  <1> DEFINE Bad == {k \in Nat : k <= N /\ f[k] \notin I}
  <1>1. SUFFICES ASSUME Bad # {} PROVE FALSE
    OBVIOUS
  <1>2. Bad \in SUBSET Nat
    OBVIOUS
  <1>3. PICK m \in Bad : \A y \in Bad : m <= y
    <2> HIDE DEF Bad
    <2> QED
      BY <1>1, <1>2, LeastNatural
  <1>4. m \in Nat /\ m <= N /\ f[m] \notin I /\ m # 0
    BY <1>3
  <1>5. PICK j \in Nat : j = m - 1 /\ ~(m <= j) /\ j <= N /\ m \in 1 .. N
    BY <1>4
  <1>6. f[j] \in I
    BY <1>3, <1>5
  <1> QED
    BY <1>4, <1>5, <1>6
=============================================================================
