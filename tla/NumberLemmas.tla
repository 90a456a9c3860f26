---------------------------- MODULE NumberLemmas ----------------------------
(***************************************************************************)
(* What the proofs use of numbers: quotients, remainders, products, the    *)
(* smallest of a set of them, and powers of two.                           *)
(***************************************************************************)
EXTENDS FiniteSetsExt, Integers, FiniteSetTheorems, TLAPS, WellFoundedInduction

\* A mask changes no number that fits in it.
LEMMA MaskFits ==
  ASSUME NEW n \in Nat \ {0}, NEW a \in 0 .. n - 1
  PROVE  a % n = a
  OBVIOUS

\* Quotient and remainder: the word of a bit, and its place in the word.
LEMMA DivMod ==
  ASSUME NEW d \in Nat \ {0}, NEW a \in Nat
  PROVE  \E q \in Nat, r \in 0 .. d - 1 : a \div d = q /\ a % d = r /\ a = d * q + r
  OBVIOUS

\* No other pair of numbers is that quotient and that remainder.
LEMMA DivUnique ==
  ASSUME NEW d \in Nat \ {0}, NEW q \in Nat, NEW r \in 0 .. d - 1, NEW a, a = d * q + r
  PROVE  a \div d = q /\ a % d = r
  OBVIOUS

\* Elements of c bits, one after the other: the next one begins where one
\* ends, and a later one no earlier.
LEMMA Products ==
  ASSUME NEW a \in Nat, NEW b \in Nat, NEW c \in Nat
  PROVE  /\ a * c \in Nat
         /\ (a + 1) * c = a * c + c
         /\ a < b => a * c + c <= b * c
  OBVIOUS

\* A non-empty set of numbers has a smallest one, which Min returns: the
\* base searches of compress() end on a value that some register has, and new
\* returns an address that is free.
LEMMA MinExists ==
  ASSUME NEW T \in SUBSET Nat, T # {}
  PROVE  Min(T) \in T /\ \A y \in T : Min(T) <= y
  <1> DEFINE Below == {ss \in Nat \X Nat : ss[1] < ss[2]}
  <1>1. IsWellFoundedOn(Below, Nat)
    BY NatLessThanWellFounded DEF OpToRel
  <1> HIDE DEF Below
  <1>2. PICK x \in T : \A y \in T : <<y, x>> \notin Below
    BY <1>1, WFMin, Zenon
  <1>3. \A y \in T : x <= y
    <2>1. \A y \in T : y < x => <<y, x>> \in Below
      BY DEF Below
    <2>2. \A y \in T : ~(y < x)
      BY <1>2, <2>1, Zenon
    <2> QED BY <2>2
  <1> QED BY <1>3 DEF Min

-----------------------------------------------------------------------------
(***************************************************************************)
(* Loops.                                                                  *)
(***************************************************************************)
\* What holds before a loop and is kept by every round holds at its end.
LEMMA Rounds ==
  ASSUME NEW n \in Nat, NEW T, 0 \in T, \A k \in 0 .. n - 1 : k \in T => k + 1 \in T
  PROVE  \A k \in 0 .. n : k \in T
  <1> DEFINE Bad == {k \in 0 .. n : k \notin T}
  <1> SUFFICES ASSUME Bad # {} PROVE FALSE
    OBVIOUS
  <1>1. Min(Bad) \in Bad /\ \A k \in Bad : Min(Bad) <= k
    <2>1. Bad \in SUBSET Nat
      OBVIOUS
    <2> HIDE DEF Bad
    <2> QED BY <2>1, MinExists
  <1>2. PICK k \in 0 .. n : k \in Bad /\ \A l \in Bad : k <= l
    BY <1>1
  <1>3. k - 1 \in 0 .. n - 1 /\ ~(k <= k - 1) /\ (k - 1) + 1 = k
    BY <1>2
  <1>4. k - 1 \in T
    BY <1>2, <1>3
  <1> QED BY <1>2, <1>3, <1>4

\* f[k] is the state of a loop after k of its n rounds.
Runs(f, a, n, step) == f[0] = a /\ \A k \in 0 .. n - 1 : f[k + 1] = step[k][f[k]]

\* A loop of n rounds that starts from a has a state after every round.
LEMMA Iterates ==
  ASSUME NEW n \in Nat, NEW S, NEW a \in S, NEW step \in [0 .. n - 1 -> [S -> S]]
  PROVE  \E f \in [0 .. n -> S] : Runs(f, a, n, step)
  <1> DEFINE T == {l \in 0 .. n : \E f \in [0 .. l -> S] : Runs(f, a, l, step)}
  <1>1. 0 \in T
    <2>1. PICK f \in [0 .. 0 -> S] : f = [k \in 0 .. 0 |-> a]
      OBVIOUS
    <2>2. Runs(f, a, 0, step)
      BY <2>1 DEF Runs
    <2> QED BY <2>2
  <1>2. ASSUME NEW l \in 0 .. n - 1, l \in T PROVE l + 1 \in T
    <2>1. PICK f \in [0 .. l -> S] : Runs(f, a, l, step)
      BY <1>2
    <2>2. PICK next \in S : next = step[l][f[l]]
      OBVIOUS
    <2>3. PICK g \in [0 .. l + 1 -> S] :
            g = [k \in 0 .. l + 1 |-> IF k = l + 1 THEN next ELSE f[k]]
      <3>1. \A k \in 0 .. l + 1 : k # l + 1 => k \in 0 .. l
        OBVIOUS
      <3> QED BY <3>1
    <2>4. \A k \in 0 .. l : g[k] = f[k]
      BY <2>3
    <2>5. g[l + 1] = step[l][g[l]]
      <3>1. l \in 0 .. l /\ l + 1 \in 0 .. l + 1
        OBVIOUS
      <3> QED BY <2>2, <2>3, <2>4, <3>1
    <2>6. g[0] = a
      BY <2>1, <2>4 DEF Runs
    <2>7. \A k \in 0 .. l - 1 : k \in 0 .. l /\ k + 1 \in 0 .. l
      OBVIOUS
    <2>8. \A k \in 0 .. l - 1 : g[k + 1] = step[k][g[k]]
      BY <2>1, <2>4, <2>7 DEF Runs
    <2>9. \A k \in 0 .. (l + 1) - 1 : k \in 0 .. l - 1 \/ k = l
      OBVIOUS
    <2>10. Runs(g, a, l + 1, step)
      BY <2>5, <2>6, <2>8, <2>9 DEF Runs
    <2> QED BY <2>10
  <1>3. n \in T
    <2> HIDE DEF T
    <2>1. \A k \in 0 .. n : k \in T
      BY <1>1, <1>2, Rounds
    <2> QED BY <2>1
  <1> QED BY <1>3

-----------------------------------------------------------------------------
(***************************************************************************)
(* Powers of two.  That 2^n doubles with each n is known to no prover, but *)
(* follows from the library's fact on the number of subsets of a set.      *)
(***************************************************************************)
LEMMA PowerIs ==
  ASSUME NEW n \in Nat
  PROVE  /\ 2^n \in Nat /\ 2^n > 0
         /\ 2^(n + 1) = 2 * 2^n
  <1> DEFINE S == 1 .. n
             T == {A \cup {n + 1} : A \in SUBSET S}
  <1>1. IsFiniteSet(S) /\ Cardinality(S) = n
    BY FS_Interval
  <1>2. IsFiniteSet(SUBSET S) /\ Cardinality(SUBSET S) = 2^n
    BY <1>1, FS_SUBSET
  <1>3. IsFiniteSet(1 .. n + 1) /\ Cardinality(1 .. n + 1) = n + 1
    BY FS_Interval
  <1>4. Cardinality(SUBSET (1 .. n + 1)) = 2^(n + 1)
    BY <1>3, FS_SUBSET
  <1>5. ExistsBijection(SUBSET S, T)
    <2> DEFINE f == [A \in SUBSET S |-> A \cup {n + 1}]
    <2>1. n + 1 \notin S
      OBVIOUS
    <2>2. f \in [SUBSET S -> T]
      OBVIOUS
    <2>3. \A A, B \in SUBSET S : f[A] = f[B] => A = B
      <3> SUFFICES ASSUME NEW A \in SUBSET S, NEW B \in SUBSET S, f[A] = f[B] PROVE A = B
        OBVIOUS
      <3>1. A \cup {n + 1} = B \cup {n + 1}
        OBVIOUS
      <3>2. n + 1 \notin A /\ n + 1 \notin B
        BY <2>1
      <3> HIDE DEF f, S, T
      <3> QED BY <3>1, <3>2
    <2>4. \A C \in T : \E A \in SUBSET S : f[A] = C
      OBVIOUS
    <2> HIDE DEF f, T
    <2> QED BY <2>2, <2>3, <2>4 DEF ExistsBijection, Bijection, Injection, Surjection, IsInjective
  <1>6. IsFiniteSet(T) /\ Cardinality(T) = 2^n
    BY <1>2, <1>5, FS_Bijection
  <1>7. (SUBSET S) \cap T = {}
    <2>1. n + 1 \notin S
      OBVIOUS
    <2> QED BY <2>1
  <1>8. (SUBSET S) \cup T = SUBSET (1 .. n + 1)
    <2>1. 1 .. n + 1 = S \cup {n + 1} /\ n + 1 \notin S
      OBVIOUS
    <2> HIDE DEF S
    <2>2. ASSUME NEW C \in SUBSET (S \cup {n + 1}) PROVE C \in (SUBSET S) \cup T
      <3>1. CASE n + 1 \in C
        <4>1. C \ {n + 1} \in SUBSET S /\ C = (C \ {n + 1}) \cup {n + 1}
          BY <3>1, <2>1
        <4> QED BY <4>1
      <3>2. CASE n + 1 \notin C
        BY <3>2
      <3> QED BY <3>1, <3>2
    <2>3. T \subseteq SUBSET (S \cup {n + 1})
      OBVIOUS
    <2> HIDE DEF T
    <2> QED BY <2>1, <2>2, <2>3
  <1>9. Cardinality({}) = 0
    BY FS_EmptySet
  <1> HIDE DEF S, T
  <1>10. 2^(n + 1) = 2^n + 2^n - 0
    BY <1>2, <1>4, <1>6, <1>7, <1>8, <1>9, FS_Union
  <1>11. 2^n \in Nat
    BY <1>2, FS_CardinalityType
  <1>12. 2^n # 0
    <2>1. {} \in SUBSET S
      OBVIOUS
    <2> QED BY <1>2, <2>1, FS_EmptySet
  <1> QED BY <1>10, <1>11, <1>12

LEMMA PowerAdd ==
  ASSUME NEW a \in Nat, NEW b \in Nat
  PROVE  2^(a + b) = 2^a * 2^b
  <1> DEFINE T == {k \in 0 .. b : 2^(a + k) = 2^a * 2^k}
  <1>1. 0 \in T
    <2>1. 2^0 = 1 /\ a + 0 = a /\ 2^a \in Nat
      BY PowerIs
    <2> QED BY <2>1
  <1>2. ASSUME NEW k \in 0 .. b - 1, k \in T PROVE k + 1 \in T
    <2>1. 2^(a + k) \in Nat /\ 2^k \in Nat /\ 2^a \in Nat
      BY PowerIs
    <2>2. 2^((a + k) + 1) = 2 * 2^(a + k) /\ 2^(k + 1) = 2 * 2^k
      BY PowerIs
    <2>3. a + (k + 1) = (a + k) + 1
      OBVIOUS
    <2>4. 2^(a + k) = 2^a * 2^k
      BY <1>2
    <2>5. 2 * (2^a * 2^k) = 2^a * (2 * 2^k)
      <3> DEFINE x == 2^a
                 y == 2^k
      <3>1. x \in Nat /\ y \in Nat
        BY <2>1
      <3> HIDE DEF x, y
      <3>2. 2 * (x * y) = x * (2 * y)
        BY <3>1
      <3> QED BY <3>2 DEF x, y
    <2>6. 2^(a + (k + 1)) = 2^a * 2^(k + 1)
      BY <2>2, <2>3, <2>4, <2>5
    <2> QED BY <2>6
  <1>3. b \in T
    <2> HIDE DEF T
    <2>1. \A k \in 0 .. b : k \in T
      BY <1>1, <1>2, Rounds
    <2> QED BY <2>1
  <1> QED BY <1>3

LEMMA PowerMonotone ==
  ASSUME NEW a \in Nat, NEW b \in Nat
  PROVE  /\ a <= b => 2^a <= 2^b
         /\ a < b => 2^a < 2^b
  <1>1. ASSUME NEW k \in Nat PROVE 2^k \in Nat /\ 2^k >= 1
    BY PowerIs
  <1>2. ASSUME a <= b PROVE 2^a <= 2^b
    <2>1. b - a \in Nat /\ a + (b - a) = b
      BY <1>2
    <2>2. 2^b = 2^a * 2^(b - a)
      BY <2>1, PowerAdd
    <2> DEFINE x == 2^a
               y == 2^(b - a)
    <2>3. x \in Nat /\ y \in Nat /\ y >= 1
      BY <1>1, <2>1
    <2> HIDE DEF x, y
    <2>4. x <= x * y
      BY <2>3
    <2> QED BY <2>2, <2>4 DEF x, y
  <1>3. ASSUME a < b PROVE 2^a < 2^b
    <2>1. b - a - 1 \in Nat /\ (a + 1) + (b - a - 1) = b /\ a + 1 \in Nat
      BY <1>3
    <2>2. 2^b = 2^(a + 1) * 2^(b - a - 1) /\ 2^(a + 1) = 2 * 2^a
      BY <2>1, PowerAdd, PowerIs
    <2> DEFINE x == 2^a
               y == 2^(b - a - 1)
    <2>3. x \in Nat /\ x >= 1 /\ y \in Nat /\ y >= 1
      BY <1>1, <2>1
    <2> HIDE DEF x, y
    <2>4. x < (2 * x) * y
      BY <2>3
    <2> QED BY <2>2, <2>4 DEF x, y
  <1> QED BY <1>2, <1>3

LEMMA PowerBeyond ==
  ASSUME NEW n \in Nat
  PROVE  n < 2^n
  <1> DEFINE T == {k \in 0 .. n : k < 2^k}
  <1>1. 0 \in T
    OBVIOUS
  <1>2. ASSUME NEW k \in 0 .. n - 1, k \in T PROVE k + 1 \in T
    <2>1. 2^k \in Nat /\ 2^(k + 1) = 2 * 2^k
      BY PowerIs
    <2> QED BY <1>2, <2>1
  <1> HIDE DEF T
  <1>3. \A k \in 0 .. n : k \in T
    BY <1>1, <1>2, Rounds
  <1> QED BY <1>3 DEF T

\* A number that an odd factor makes a multiple of a power of two is one.
LEMMA OddFactor ==
  ASSUME NEW n \in Nat, NEW s \in Nat, s % 2 = 1, NEW d \in Nat, (d * s) % 2^n = 0
  PROVE  d % 2^n = 0
  <1> DEFINE T == {k \in 0 .. n : \E e \in Nat : d = 2^k * e}
  <1>0. d * s \in Nat
    OBVIOUS
  <1>1. 0 \in T
    <2>1. 2^0 = 1 /\ d = 1 * d
      OBVIOUS
    <2> QED BY <2>1
  <1>2. ASSUME NEW k \in 0 .. n - 1, k \in T PROVE k + 1 \in T
    <2>1. PICK e \in Nat : d = 2^k * e
      BY <1>2
    <2>2. PICK q \in Nat : d * s = 2^n * q
      <3>1. 2^n \in Nat \ {0}
        BY PowerIs
      <3>2. PICK q \in Nat, r \in 0 .. 2^n - 1 :
              (d * s) % 2^n = r /\ d * s = 2^n * q + r
        BY <1>0, <3>1, DivMod
      <3> DEFINE qn == 2^n * q
      <3>3. qn \in Nat
        BY <3>1
      <3>4. r = 0 /\ d * s = qn + r
        BY <3>2
      <3> HIDE DEF qn
      <3>5. d * s = qn
        BY <3>3, <3>4
      <3> QED BY <3>5 DEF qn
    <2>3. k \in Nat /\ n - k - 1 \in Nat /\ (k + 1) + (n - k - 1) = n
      OBVIOUS
    <2>4. 2^n = 2^(k + 1) * 2^(n - k - 1) /\ 2^(k + 1) = 2 * 2^k
      <3>1. k + 1 \in Nat
        BY <2>3
      <3>2. 2^((k + 1) + (n - k - 1)) = 2^(k + 1) * 2^(n - k - 1)
        BY <2>3, <3>1, PowerAdd
      <3> QED BY <2>3, <3>2, PowerIs
    <2> DEFINE x == 2^k
               y == 2^(n - k - 1)
    <2>5. x \in Nat \ {0} /\ y \in Nat
      BY <2>3, PowerIs
    <2> HIDE DEF x, y
    <2>6. (x * e) * s = ((2 * x) * y) * q
      BY <2>1, <2>2, <2>4 DEF x, y
    <2>7. x * (e * s) = x * (2 * (y * q))
      BY <2>5, <2>6
    <2>8. e * s = 2 * (y * q)
      <3> DEFINE u == e * s
                 v == 2 * (y * q)
      <3>1. u \in Nat /\ v \in Nat
        BY <2>5
      <3> HIDE DEF u, v
      <3>2. x * u = x * v => u = v
        BY <2>5, <3>1
      <3> QED BY <2>7, <3>2 DEF u, v
    <2>9. PICK c \in Nat : e = 2 * c
      <3>1. PICK t \in Nat : s = 2 * t + 1
        OBVIOUS
      <3>2. PICK c \in Nat, r \in 0 .. 1 : e = 2 * c + r
        <4>1. e = 2 * (e \div 2) + (e % 2) /\ e \div 2 \in Nat /\ e % 2 \in 0 .. 1
          OBVIOUS
        <4> QED BY <4>1
      <3>3. CASE r = 1
        <4>1. (2 * c + 1) * (2 * t + 1) = 2 * (2 * (c * t) + c + t) + 1
          OBVIOUS
        <4> DEFINE u == 2 * (c * t) + c + t
                   v == y * q
        <4>2. u \in Nat /\ v \in Nat
          BY <2>5
        <4> HIDE DEF u, v
        <4>3. 2 * u + 1 = 2 * v
          BY <2>8, <3>1, <3>2, <3>3, <4>1 DEF u, v
        <4> QED BY <4>2, <4>3
      <3> QED BY <3>2, <3>3
    <2>10. d = 2^(k + 1) * c
      <3>1. x * (2 * c) = (2 * x) * c
        BY <2>5
      <3> QED BY <2>1, <2>4, <2>9, <3>1 DEF x
    <2> QED BY <2>10
  <1>3. n \in T
    <2> HIDE DEF T
    <2>1. \A k \in 0 .. n : k \in T
      BY <1>1, <1>2, Rounds
    <2> QED BY <2>1
  <1>4. PICK e \in Nat : d = 2^n * e
    BY <1>3
  <1>5. 2^n \in Nat \ {0} /\ 0 \in 0 .. 2^n - 1
    BY PowerIs
  <1>6. d = 2^n * e + 0
    BY <1>4, <1>5
  <1> QED BY <1>5, <1>6, DivUnique

\* Odd strides from one place meet no place of 2^n twice in 2^n steps.
LEMMA StridesDiffer ==
  ASSUME NEW n \in Nat, NEW s \in Nat, s % 2 = 1, NEW a \in Nat,
         NEW i \in 0 .. 2^n - 1, NEW j \in 0 .. 2^n - 1,
         (a + i * s) % 2^n = (a + j * s) % 2^n
  PROVE  i = j
  <1>1. 2^n \in Nat \ {0}
    BY PowerIs
  <1>2. ASSUME NEW k \in 0 .. 2^n - 1, NEW l \in 0 .. 2^n - 1, k < l,
               (a + k * s) % 2^n = (a + l * s) % 2^n
        PROVE  FALSE
    <2> DEFINE p == 2^n
               x == a + k * s
               y == a + l * s
    <2>1. p \in Nat \ {0} /\ k \in Nat /\ l \in Nat /\ l - k \in Nat /\ l - k < p /\ l - k # 0
      BY <1>1, <1>2
    <2>2. x \in Nat /\ y \in Nat /\ y = x + (l - k) * s /\ (l - k) * s \in Nat
      BY <2>1
    <2>3. x % p = y % p
      BY <1>2
    <2>12. (l - k) % p = l - k
      BY <2>1
    <2> HIDE DEF p, x, y
    <2>13. x \in Nat /\ y \in Nat /\ p \in Nat \ {0}
      BY <2>1, <2>2
    <2>4. PICK qx \in Nat, r \in 0 .. p - 1 : x % p = r /\ x = p * qx + r
      <3>1. x % p \in 0 .. p - 1 /\ x \div p \in Nat /\ x = p * (x \div p) + (x % p)
        BY <2>13
      <3> QED BY <3>1
    <2>5. PICK qy \in Nat : y = p * qy + r
      <3>1. y % p \in 0 .. p - 1 /\ y \div p \in Nat /\ y = p * (y \div p) + (y % p)
        BY <2>13
      <3> QED BY <2>3, <2>4, <3>1
    <2> DEFINE z == (l - k) * s
    <2>6. z = p * qy - p * qx /\ z \in Nat
      BY <2>1, <2>2, <2>4, <2>5
    <2> HIDE DEF z
    <2>7. p * (qy - qx) = p * qy - p * qx
      BY <2>1
    <2>8. qy - qx \in Nat
      <3> SUFFICES ASSUME qy < qx PROVE FALSE
        OBVIOUS
      <3>1. p * qy + p <= p * qx
        BY <2>1, Products
      <3> QED BY <2>1, <2>6, <3>1
    <2>9. z % p = 0
      <3>1. z = p * (qy - qx) + 0 /\ 0 \in 0 .. p - 1
        BY <2>1, <2>6, <2>7
      <3> QED BY <2>1, <2>6, <2>8, <3>1, DivUnique
    <2>10. ((l - k) * s) % 2^n = 0
      BY <2>9 DEF z, p
    <2>11. (l - k) % 2^n = 0
      BY <2>1, <2>10, OddFactor
    <2> QED BY <2>1, <2>11, <2>12 DEF p
  <1> QED BY <1>2
=============================================================================
