----------------------------- MODULE HashProofs -----------------------------
(***************************************************************************)
(* Theorems about Hash: for words of any length, any odd multiplier and    *)
(* any power of two of registers but one.                                  *)
(***************************************************************************)
EXTENDS Hash, NumberLemmas, FiniteSetTheorems, TLAPS

-----------------------------------------------------------------------------
(***************************************************************************)
(* log2i and clz.                                                          *)
(***************************************************************************)
\* Every positive number lies between two powers of two.
LEMMA LogExists ==
  ASSUME NEW y \in Nat \ {0}
  PROVE  \E n \in Nat : 2^n <= y /\ y < 2^(n + 1)
  <1> DEFINE T == {k \in Nat : y < 2^k}
  <1>1. T \in SUBSET Nat /\ y \in T
    BY PowerBeyond
  <1> HIDE DEF T
  <1>2. PICK k \in T : \A l \in T : k <= l
    BY <1>1, MinExists
  <1> USE DEF T
  <1>3. k \in Nat /\ y < 2^k
    OBVIOUS
  <1>4. k # 0
    <2> HIDE DEF T
    <2>1. 2^0 = 1
      OBVIOUS
    <2>2. k = 0 => y < 2^0
      BY <1>3
    <2> QED BY <2>1, <2>2
  <1>5. k - 1 \in Nat /\ ~(y < 2^(k - 1)) /\ (k - 1) + 1 = k
    BY <1>2, <1>3, <1>4
  <1>6. 2^(k - 1) \in Nat
    BY <1>5, PowerIs
  <1> QED BY <1>3, <1>5, <1>6

\* They are those of one number only.
LEMMA LogUnique ==
  ASSUME NEW y \in Nat, NEW a \in Nat, NEW b \in Nat,
         2^a <= y, y < 2^(a + 1), 2^b <= y, y < 2^(b + 1)
  PROVE  a = b
  <1>1. 2^a \in Nat /\ 2^b \in Nat /\ 2^(a + 1) \in Nat /\ 2^(b + 1) \in Nat
    BY PowerIs
  <1>2. ~(a + 1 <= b)
    BY <1>1, PowerMonotone
  <1>3. ~(b + 1 <= a)
    BY <1>1, PowerMonotone
  <1> QED BY <1>2, <1>3

\* A number divided by a power of two gives one if the power is the largest
\* one in it.
LEMMA LeadingOne ==
  ASSUME NEW y \in Nat, NEW n \in Nat
  PROVE  y \div 2^n = 1 <=> 2^n <= y /\ y < 2^(n + 1)
  <1> DEFINE p == 2^n
  <1>1. p \in Nat \ {0} /\ 2^(n + 1) = 2 * p
    BY PowerIs
  <1> HIDE DEF p
  <1>2. PICK q \in Nat, r \in 0 .. p - 1 : y \div p = q /\ y = p * q + r
    BY <1>1, DivMod
  <1>3. q = 0 => y < p
    BY <1>1, <1>2
  <1>4. q = 1 => p <= y /\ y < 2 * p
    BY <1>1, <1>2
  <1>5. q >= 2 => y >= 2 * p
    <2>1. q >= 2 => p * q >= p * 2
      BY <1>1
    <2> QED BY <1>1, <1>2, <2>1
  <1>6. y \div p = 1 <=> p <= y /\ y < 2 * p
    BY <1>1, <1>2, <1>3, <1>4, <1>5
  <1> QED BY <1>1, <1>6 DEF p

\* The recursion of log2i has a solution.
LEMMA Log2iIs ==
  log2i = [y \in Word |-> IF y < 2 THEN 0 ELSE 1 + log2i[y \div 2]]
  <1> DEFINE Log(y) == CHOOSE n \in Nat : 2^n <= y /\ y < 2^(n + 1)
             f == [y \in Word |-> IF y < 2 THEN 0 ELSE Log(y)]
  <1>1. ASSUME NEW y \in Word, ~(y < 2) PROVE f[y] = 1 + f[y \div 2]
    <2>1. y \in Nat \ {0} /\ y \div 2 \in Nat \ {0} /\ y \div 2 < y
          /\ 2 * (y \div 2) <= y /\ y < 2 * (y \div 2) + 2
      BY <1>1 DEF Word
    <2>2. y \div 2 \in Word
      <3>1. 2^W \in Nat
        BY HashAssumption, PowerIs
      <3> QED BY <2>1, <3>1, <1>1 DEF Word
    <2>3. Log(y) \in Nat /\ 2^Log(y) <= y /\ y < 2^(Log(y) + 1)
      BY <2>1, LogExists
    <2> DEFINE n == IF y \div 2 < 2 THEN 0 ELSE Log(y \div 2)
               z == y \div 2
    <2>4. n \in Nat /\ 2^n <= z /\ z < 2^(n + 1)
      <3>1. CASE z < 2
        <4>1. z = 1 /\ n = 0 /\ 2^0 = 1 /\ 2^(0 + 1) = 2
          BY <2>1, <3>1
        <4> HIDE DEF n, z
        <4> QED BY <4>1
      <3>2. CASE ~(z < 2)
        BY <2>1, <3>2, LogExists
      <3> QED BY <3>1, <3>2
    <2> HIDE DEF n, Log
    <2>5. 2^n \in Nat /\ 2^(n + 1) = 2 * 2^n /\ 2^((n + 1) + 1) = 2 * 2^(n + 1)
      BY <2>4, PowerIs
    <2>6. 2^(n + 1) <= y /\ y < 2^((n + 1) + 1)
      BY <2>1, <2>4, <2>5
    <2>7. Log(y) = n + 1
      BY <2>1, <2>3, <2>4, <2>6, LogUnique
    <2> QED BY <1>1, <2>2, <2>4, <2>7 DEF n
  <1>2. f = [y \in Word |-> IF y < 2 THEN 0 ELSE 1 + f[y \div 2]]
    <2> HIDE DEF Log
    <2>1. ASSUME NEW y \in Word PROVE f[y] = IF y < 2 THEN 0 ELSE 1 + f[y \div 2]
      <3>1. CASE y < 2
        BY <3>1
      <3>2. CASE ~(y < 2)
        <4>1. f[y] = 1 + f[y \div 2]
          BY <1>1, <3>2
        <4> HIDE DEF f
        <4> QED BY <3>2, <4>1
      <3> QED BY <3>1, <3>2
    <2>2. f = [y \in Word |-> f[y]]
      OBVIOUS
    <2> HIDE DEF f
    <2> QED BY <2>1, <2>2
  <1> HIDE DEF f
  <1> QED BY <1>2 DEF log2i

\* log2i is a number of bits.
LEMMA Log2iType ==
  ASSUME NEW y \in Word
  PROVE  log2i[y] \in Nat
  <1> DEFINE Bad == {z \in Word : log2i[z] \notin Nat}
  <1>1. SUFFICES ASSUME Bad # {} PROVE FALSE
    OBVIOUS
  <1>2. Bad \in SUBSET Nat
    BY DEF Word
  <1> HIDE DEF Bad
  <1>3. PICK z \in Bad : \A u \in Bad : z <= u
    BY <1>1, <1>2, MinExists
  <1> USE DEF Bad
  <1>4. z \in Word /\ log2i[z] \notin Nat
    OBVIOUS
  <1>5. log2i[z] = IF z < 2 THEN 0 ELSE 1 + log2i[z \div 2]
    BY <1>4, Log2iIs
  <1>6. ~(z < 2)
    BY <1>4, <1>5
  <1>7. z \div 2 \in Word /\ z \div 2 < z /\ z \div 2 \in Nat
    BY <1>4, <1>6, HashAssumption, PowerIs DEF Word
  <1>8. log2i[z \div 2] \in Nat
    <2> DEFINE u == z \div 2
    <2>1. u \in Word /\ ~(z <= u)
      <3>1. z \in Nat
        BY <1>4 DEF Word
      <3> QED BY <1>7, <3>1
    <2> HIDE DEF u
    <2>2. u \notin Bad
      BY <1>3, <2>1
    <2> QED BY <2>1, <2>2 DEF u
  <1> QED BY <1>4, <1>5, <1>6, <1>8

\* The constructor accepts powers of two.
LEMMA AcceptedIs ==
  ASSUME NEW k \in RegisterCounts, k # 1, Accepted(k)
  PROVE  log2i[k] \in 1 .. W - 1 /\ k = 2^log2i[k]
  <1>1. k \in Word /\ k \in Nat /\ k < 2^W
    BY HashAssumption, PowerIs DEF Word
  <1>2. log2i[k] \in Nat /\ k = 2^log2i[k] /\ W \in Nat
    BY <1>1, Log2iType, HashAssumption DEF Accepted
  <1>3. log2i[k] # 0
    <2>1. 2^0 = 1
      OBVIOUS
    <2> QED BY <1>2, <2>1
  <1>4. ~(W <= log2i[k])
    <2>1. W <= log2i[k] => 2^W <= 2^log2i[k]
      BY <1>2, PowerMonotone
    <2>2. 2^W \in Nat
      BY <1>2, PowerIs
    <2> QED BY <1>1, <1>2, <2>1, <2>2
  <1> QED BY <1>2, <1>3, <1>4
-----------------------------------------------------------------------------
(***************************************************************************)
(* How many hashes go to a register, and how many have a rank.             *)
(***************************************************************************)
Address(y, b) == ((Multiplier * y) % 2 ^ W) \div 2 ^ (W - b)

Rank(y) == 1 + CHOOSE n \in 0 .. W - 1 : y \div 2 ^ (W - 1 - n) = 1

\* Of the hashes below k.
Sent(j, b, k) == {y \in 0 .. k - 1 : Address(y, b) = j}

Ranked(r, k) == {y \in 1 .. k - 1 : Rank(y) = r}

\* An odd multiplier permutes the words.
LEMMA Permutes ==
  ASSUME Multiplier % 2 = 1
  PROVE  [y \in Word |-> (Multiplier * y) % 2 ^ W] \in Bijection(Word, Word)
  <1> DEFINE f == [y \in Word |-> (Multiplier * y) % 2 ^ W]
  <1>1. W \in Nat /\ Multiplier \in Nat /\ 2^W \in Nat \ {0}
    BY HashAssumption, PowerIs
  <1>2. ASSUME NEW y \in Word PROVE f[y] \in Word /\ f[y] = (0 + y * Multiplier) % 2 ^ W
    <2>1. y \in Nat /\ f[y] = (Multiplier * y) % 2 ^ W
      BY <1>1 DEF Word
    <2>2. Multiplier * y = 0 + y * Multiplier /\ Multiplier * y \in Nat
      BY <1>1, <2>1
    <2> HIDE DEF f
    <2> QED BY <1>1, <2>1, <2>2 DEF Word
  <1>3. \A y, z \in Word : f[y] = f[z] => y = z
    <2> HIDE DEF f
    <2>1. ASSUME NEW y \in Word, NEW z \in Word, f[y] = f[z] PROVE y = z
      <3>1. (0 + y * Multiplier) % 2 ^ W = (0 + z * Multiplier) % 2 ^ W
        BY <1>2, <2>1
      <3>2. y \in 0 .. 2^W - 1 /\ z \in 0 .. 2^W - 1
        BY DEF Word
      <3> QED BY <1>1, <3>1, <3>2, StridesDiffer
    <2> QED BY <2>1
  <1>4. DOMAIN f = Word /\ f = [y \in Word |-> f[y]]
    OBVIOUS
  <1> HIDE DEF f
  <1>5. f \in Injection(Word, Word)
    BY <1>2, <1>3, <1>4 DEF Injection, IsInjective
  <1>6. IsFiniteSet(Word)
    BY <1>1, FS_Interval DEF Word
  <1>7. f \in Surjection(Word, Word)
    BY <1>5, <1>6, FS_Injection
  <1>8. f \in Bijection(Word, Word)
    BY <1>5, <1>7 DEF Bijection
  <1> QED BY <1>8 DEF f

\* Every register is sent the same number of hashes.
LEMMA SentAll ==
  ASSUME Multiplier % 2 = 1, NEW b \in 1 .. W - 1, NEW j \in 0 .. 2^b - 1
  PROVE  Cardinality(Sent(j, b, 2^W)) = 2^(W - b)
  <1> DEFINE f == [y \in Word |-> (Multiplier * y) % 2 ^ W]
             D == 2^(W - b)
             A == Sent(j, b, 2^W)
             B == D * j .. D * j + D - 1
  <1>1. W \in Nat /\ b \in Nat /\ W - b \in Nat /\ (W - b) + b = W
    BY HashAssumption
  <1>2. D \in Nat \ {0} /\ 2^b \in Nat /\ 2^W = D * 2^b /\ 2^W \in Nat
    <2>1. 2^((W - b) + b) = 2^(W - b) * 2^b
      BY <1>1, PowerAdd
    <2> QED BY <1>1, <2>1, PowerIs
  <1>3. f \in Bijection(Word, Word)
    BY Permutes
  <1>4. A = {y \in Word : f[y] \div D = j}
    BY DEF Sent, Address, Word
  <1> HIDE DEF f, D, A
  <1>5. \A z \in B : z \in Word
    <2>1. D * j + D <= D * 2^b
      <3> DEFINE p == 2^b
      <3>1. p \in Nat /\ j \in Nat /\ j < p
        BY <1>2
      <3> HIDE DEF p
      <3>2. j * D + D <= p * D
        BY <1>2, <3>1, Products
      <3>3. j * D = D * j /\ p * D = D * p
        BY <1>2, <3>1
      <3> QED BY <3>2, <3>3 DEF p
    <2>2. D * j \in Nat
      BY <1>2
    <2> QED BY <1>2, <2>1, <2>2 DEF Word
  <1>6. \A z \in Word : z \div D = j <=> z \in B
    <2>1. ASSUME NEW z \in Word PROVE z \div D = j <=> z \in B
      <3>1. z \in Nat /\ j \in Nat /\ D * j \in Nat
        BY <1>2 DEF Word
      <3>2. PICK q \in Nat, r \in 0 .. D - 1 : z \div D = q /\ z = D * q + r
        <4> HIDE DEF B
        <4>1. D \in Nat \ {0} /\ z \in Nat
          BY <1>2, <3>1
        <4>2. \E q \in Nat, r \in 0 .. D - 1 : z \div D = q /\ z % D = r /\ z = D * q + r
          BY <4>1, DivMod
        <4> QED BY <4>2
      <3>3. z \div D = j => z \in B
        BY <1>2, <3>1, <3>2
      <3>4. ASSUME z \in B PROVE z \div D = j
        <4>1. z - D * j \in 0 .. D - 1 /\ z = D * j + (z - D * j)
          BY <1>2, <3>1, <3>4
        <4> QED BY <1>2, <3>1, <4>1, DivUnique
      <3> QED BY <3>3, <3>4
    <2> QED BY <2>1
  <1> DEFINE g == [y \in A |-> f[y]]
  <1>7. \A y \in A : y \in Word /\ f[y] \in B /\ g[y] = f[y]
    BY <1>3, <1>4, <1>6 DEF Bijection, Injection
  <1>8. \A z \in B : \E y \in A : g[y] = z
    <2>1. ASSUME NEW z \in B PROVE \E y \in A : g[y] = z
      <3>1. z \in Word /\ z \div D = j
        BY <1>5, <1>6
      <3>2. PICK y \in Word : f[y] = z
        BY <1>3, <3>1 DEF Bijection, Surjection
      <3>3. y \in A
        BY <1>4, <3>1, <3>2
      <3> QED BY <3>2, <3>3
    <2> QED BY <2>1
  <1>9. \A y, z \in A : g[y] = g[z] => y = z
    BY <1>3, <1>7 DEF Bijection, Injection, IsInjective
  <1>10. g \in [A -> B] /\ DOMAIN g = A
    BY <1>7
  <1> HIDE DEF g, B
  <1>11. ExistsBijection(A, B)
    <2>1. g \in Injection(A, B)
      BY <1>9, <1>10 DEF Injection, IsInjective
    <2>2. g \in Surjection(A, B)
      BY <1>8, <1>10 DEF Surjection
    <2> QED BY <2>1, <2>2 DEF Bijection, ExistsBijection
  <1>12. IsFiniteSet(A)
    <2>1. IsFiniteSet(Word)
      BY <1>2, FS_Interval DEF Word
    <2>2. A \in SUBSET Word
      BY <1>4
    <2> QED BY <2>1, <2>2, FS_Subset
  <1>13. Cardinality(B) = Cardinality(A)
    BY <1>11, <1>12, FS_Bijection
  <1>14. Cardinality(B) = D
    <2>1. D * j \in Int /\ D * j + D - 1 \in Int
      BY <1>2
    <2>2. Cardinality(B) = IF D * j > D * j + D - 1 THEN 0 ELSE (D * j + D - 1) - D * j + 1
      BY <2>1, FS_Interval DEF B
    <2> QED BY <1>2, <2>1, <2>2
  <1> QED BY <1>13, <1>14 DEF A, D

\* The rank of a hash says where its first one is.
LEMMA RankIs ==
  ASSUME NEW y \in 1 .. 2^W - 1
  PROVE  /\ Rank(y) \in 1 .. W
         /\ rho(y) = {Rank(y)}
         /\ 2^(W - Rank(y)) <= y /\ y < 2^((W - Rank(y)) + 1)
  <1>1. W \in Nat /\ 2^W \in Nat /\ y \in Nat \ {0} /\ y < 2^W
    BY HashAssumption, PowerIs
  <1>2. PICK a \in Nat : 2^a <= y /\ y < 2^(a + 1)
    BY <1>1, LogExists
  <1>3. ~(W <= a)
    <2>1. W <= a => 2^W <= 2^a
      BY <1>1, PowerMonotone
    <2>2. 2^a \in Nat
      BY PowerIs
    <2> QED BY <1>1, <1>2, <2>1, <2>2
  <1> DEFINE n == CHOOSE n \in 0 .. W - 1 : y \div 2 ^ (W - 1 - n) = 1
  <1>4. n \in 0 .. W - 1 /\ y \div 2 ^ (W - 1 - n) = 1
    <2>1. W - 1 - a \in 0 .. W - 1 /\ W - 1 - (W - 1 - a) = a
      BY <1>1, <1>3
    <2>2. y \div 2^a = 1
      BY <1>1, <1>2, LeadingOne
    <2>3. \E i \in 0 .. W - 1 : y \div 2 ^ (W - 1 - i) = 1
      BY <2>1, <2>2
    <2> QED BY <2>3
  <1>5. Rank(y) = 1 + n /\ rho(y) = {n + 1}
    BY <1>1 DEF Rank, rho, clz
  <1> HIDE DEF n
  <1>6. Rank(y) \in 1 .. W /\ W - Rank(y) = W - 1 - n /\ W - 1 - n \in Nat /\ 1 + n = n + 1
    BY <1>1, <1>4, <1>5
  <1>7. 2^(W - 1 - n) <= y /\ y < 2^((W - 1 - n) + 1)
    BY <1>1, <1>4, <1>6, LeadingOne
  <1> QED BY <1>5, <1>6, <1>7

\* Each rank is had by half as many hashes as the one before.
LEMMA RankedAll ==
  ASSUME NEW r \in 1 .. W
  PROVE  Cardinality(Ranked(r, 2^W)) = 2^(W - r)
  <1> DEFINE a == W - r
             D == 2^a
  <1>1. W \in Nat /\ a \in Nat /\ r \in Nat /\ a < W
    BY HashAssumption
  <1>2. D \in Nat \ {0} /\ 2^(a + 1) = 2 * D /\ 2^W \in Nat /\ 2^(a + 1) <= 2^W
    BY <1>1, PowerIs, PowerMonotone
  <1>3. ASSUME NEW y \in 1 .. 2^W - 1
        PROVE  Rank(y) = r <=> y \in D .. 2 * D - 1
    <2>1. /\ Rank(y) \in 1 .. W
          /\ 2^(W - Rank(y)) <= y /\ y < 2^((W - Rank(y)) + 1)
      BY RankIs
    <2>2. y \in Nat /\ W - Rank(y) \in Nat
      BY <1>1, <2>1
    <2>3. Rank(y) = r => y \in D .. 2 * D - 1
      BY <1>2, <2>1, <2>2
    <2>4. ASSUME y \in D .. 2 * D - 1 PROVE Rank(y) = r
      <3>1. 2^a <= y /\ y < 2^(a + 1)
        BY <1>2, <2>2, <2>4
      <3> HIDE DEF a
      <3>2. W - Rank(y) = a
        BY <1>1, <2>1, <2>2, <3>1, LogUnique
      <3> USE DEF a
      <3> QED BY <1>1, <2>1, <3>2
    <2> QED BY <2>3, <2>4
  <1>4. D .. 2 * D - 1 \subseteq 1 .. 2^W - 1
    BY <1>2
  <1> HIDE DEF D
  <1>5. Ranked(r, 2^W) = D .. 2 * D - 1
    BY <1>3, <1>4 DEF Ranked
  <1>6. Cardinality(D .. 2 * D - 1) = D
    <2>1. D \in Int /\ 2 * D - 1 \in Int
      BY <1>2
    <2>2. Cardinality(D .. 2 * D - 1) = IF D > 2 * D - 1 THEN 0 ELSE (2 * D - 1) - D + 1
      BY <2>1, FS_Interval
    <2> QED BY <1>2, <2>2
  <1> QED BY <1>5, <1>6 DEF D

\* One hash more.
LEMMA OneMore ==
  ASSUME NEW k \in Nat
  PROVE  /\ \A j, b : /\ Cardinality(Sent(j, b, k)) \in Nat
                      /\ Cardinality(Sent(j, b, k + 1)) =
                           Cardinality(Sent(j, b, k)) + (IF Address(k, b) = j THEN 1 ELSE 0)
         /\ \A r : /\ Cardinality(Ranked(r, k)) \in Nat
                   /\ Cardinality(Ranked(r, k + 1)) =
                        Cardinality(Ranked(r, k)) + (IF k # 0 /\ Rank(k) = r THEN 1 ELSE 0)
  <1>1. IsFiniteSet(0 .. k - 1) /\ IsFiniteSet(1 .. k - 1)
    BY FS_Interval
  <1>2. ASSUME NEW j, NEW b
        PROVE  /\ Cardinality(Sent(j, b, k)) \in Nat
               /\ Cardinality(Sent(j, b, k + 1)) =
                    Cardinality(Sent(j, b, k)) + (IF Address(k, b) = j THEN 1 ELSE 0)
    <2> DEFINE S == Sent(j, b, k)
    <2>1. S \in SUBSET (0 .. k - 1) /\ k \notin S
      BY DEF Sent
    <2>2. Sent(j, b, k + 1) = IF Address(k, b) = j THEN S \cup {k} ELSE S
      BY DEF Sent
    <2> HIDE DEF S
    <2>3. IsFiniteSet(S) /\ Cardinality(S) \in Nat
      <3>1. IsFiniteSet(S)
        BY <1>1, <2>1, FS_Subset
      <3> QED BY <3>1, FS_CardinalityType
    <2>4. Cardinality(S \cup {k}) = Cardinality(S) + 1
      BY <2>1, <2>3, FS_AddElement
    <2>5. Cardinality(Sent(j, b, k + 1)) = Cardinality(S) + (IF Address(k, b) = j THEN 1 ELSE 0)
      BY <2>2, <2>3, <2>4
    <2> QED BY <2>3, <2>5 DEF S
  <1>3. ASSUME NEW r
        PROVE  /\ Cardinality(Ranked(r, k)) \in Nat
               /\ Cardinality(Ranked(r, k + 1)) =
                    Cardinality(Ranked(r, k)) + (IF k # 0 /\ Rank(k) = r THEN 1 ELSE 0)
    <2> DEFINE S == Ranked(r, k)
    <2>1. S \in SUBSET (1 .. k - 1) /\ k \notin S
      BY DEF Ranked
    <2>2. Ranked(r, k + 1) = IF k # 0 /\ Rank(k) = r THEN S \cup {k} ELSE S
      BY DEF Ranked
    <2> HIDE DEF S
    <2>3. IsFiniteSet(S) /\ Cardinality(S) \in Nat
      <3>1. IsFiniteSet(S)
        BY <1>1, <2>1, FS_Subset
      <3> QED BY <3>1, FS_CardinalityType
    <2>4. Cardinality(S \cup {k}) = Cardinality(S) + 1
      BY <2>1, <2>3, FS_AddElement
    <2>5. Cardinality(Ranked(r, k + 1)) =
            Cardinality(S) + (IF k # 0 /\ Rank(k) = r THEN 1 ELSE 0)
      BY <2>2, <2>3, <2>4
    <2> QED BY <2>3, <2>5 DEF S
  <1> QED BY <1>2, <1>3
-----------------------------------------------------------------------------
(***************************************************************************)
(* The invariant: what was counted so far are the hashes below x.          *)
(***************************************************************************)
Inv ==
  /\ log2i[m] \in 1 .. W - 1 /\ m = 2^log2i[m]
  /\ x \in 0 .. 2^W
  /\ share = [j \in 0 .. m - 1 |-> Cardinality(Sent(j, log2i[m], x))]
  /\ DOMAIN count = 0 .. W + 1
  /\ \A r \in 1 .. W : count[r] = Cardinality(Ranked(r, x))

\* A sketch of more than one register starts with nothing counted.
LEMMA InitInv ==
  ASSUME 1 \notin RegisterCounts, Init
  PROVE  Inv
  <1>1. log2i[m] \in 1 .. W - 1 /\ m = 2^log2i[m]
    BY AcceptedIs DEF Init
  <1>2. \A j, b : Sent(j, b, 0) = {}
    BY DEF Sent
  <1>3. \A r : Ranked(r, 0) = {}
    BY DEF Ranked
  <1>4. Cardinality({}) = 0
    BY FS_EmptySet
  <1>5. 2^W \in Nat /\ W \in Nat
    BY HashAssumption, PowerIs
  <1>6. x = 0 /\ x \in 0 .. 2^W
    BY <1>5 DEF Init
  <1>7. share = [j \in 0 .. m - 1 |-> Cardinality(Sent(j, log2i[m], x))]
    BY <1>2, <1>4, <1>6 DEF Init
  <1>8. DOMAIN count = 0 .. W + 1 /\ \A r \in 1 .. W : count[r] = Cardinality(Ranked(r, x))
    <2>1. count = [r \in 0 .. W + 1 |-> 0]
      BY DEF Init
    <2>2. \A r \in 1 .. W : count[r] = 0
      BY <1>5, <2>1
    <2>3. \A r \in 1 .. W : Cardinality(Ranked(r, x)) = 0
      BY <1>3, <1>4, <1>6
    <2> QED BY <2>1, <2>2, <2>3
  <1> QED BY <1>1, <1>6, <1>7, <1>8 DEF Inv

\* Each hash goes to one register and, but for zero, has one rank.
LEMMA NextInv ==
  ASSUME Inv, [Next]_vars
  PROVE  Inv'
  <1>1. CASE AddHash
    <2> DEFINE b == log2i[m]
    <2>1. /\ b \in 1 .. W - 1 /\ m = 2^b /\ x \in 0 .. 2^W /\ x < 2^W
          /\ share = [j \in 0 .. m - 1 |-> Cardinality(Sent(j, b, x))]
          /\ DOMAIN count = 0 .. W + 1
          /\ \A r \in 1 .. W : count[r] = Cardinality(Ranked(r, x))
          /\ m' = m /\ log2i[m'] = b /\ x' = x + 1
      BY <1>1 DEF AddHash, Inv
    <2>2. PICK a \in fibonacciHash(x, b), s \in rho(x) :
            /\ share' = [i \in DOMAIN share |-> share[i] + (IF i = a THEN 1 ELSE 0)]
            /\ count' = [count EXCEPT ![s] = @ + (IF x = 0 THEN 0 ELSE 1)]
      BY <1>1 DEF AddHash
    <2> HIDE DEF b
    <2>3. W \in Nat \ {0} /\ 2^W \in Nat /\ x \in Nat /\ x' \in 0 .. 2^W
      BY <2>1, HashAssumption, PowerIs
    <2>4. a = Address(x, b)
      BY <2>1, <2>2, <2>3 DEF fibonacciHash, ShiftRight, Address
    <2>5. share' = [j \in 0 .. m - 1 |-> Cardinality(Sent(j, b, x + 1))]
      <3>1. \A j : Cardinality(Sent(j, b, x + 1)) =
                      Cardinality(Sent(j, b, x)) + (IF Address(x, b) = j THEN 1 ELSE 0)
        BY <2>3, OneMore
      <3>2. DOMAIN share = 0 .. m - 1
            /\ \A j \in 0 .. m - 1 : share[j] = Cardinality(Sent(j, b, x))
        BY <2>1
      <3> QED BY <2>2, <2>4, <3>1, <3>2
    <2>6. DOMAIN count' = 0 .. W + 1
      BY <2>1, <2>2
    <2>7. ASSUME NEW r \in 1 .. W PROVE count'[r] = Cardinality(Ranked(r, x + 1))
      <3>1. /\ Cardinality(Ranked(r, x)) \in Nat
            /\ Cardinality(Ranked(r, x + 1)) =
                 Cardinality(Ranked(r, x)) + (IF x # 0 /\ Rank(x) = r THEN 1 ELSE 0)
        BY <2>3, OneMore
      <3>2. count[r] = Cardinality(Ranked(r, x)) /\ r \in DOMAIN count
        BY <2>1, <2>3
      <3>3. CASE x = 0
        <4>1. count'[r] = count[r]
          BY <2>2, <3>1, <3>2, <3>3
        <4> QED BY <3>1, <3>2, <3>3, <4>1
      <3>4. CASE x # 0
        <4>1. s = Rank(x)
          <5>1. x \in 1 .. 2^W - 1
            BY <2>1, <2>3, <3>4
          <5> QED BY <2>2, <5>1, RankIs
        <4>2. count'[r] = count[r] + (IF s = r THEN 1 ELSE 0)
          BY <2>2, <3>1, <3>2, <3>4
        <4> QED BY <3>1, <3>2, <3>4, <4>1, <4>2
      <3> QED BY <3>3, <3>4
    <2> QED BY <2>1, <2>3, <2>5, <2>6, <2>7 DEF Inv
  <1>2. CASE UNCHANGED vars
    BY <1>2 DEF Inv, vars
  <1> QED BY <1>1, <1>2 DEF Next

\* Of all hashes.
LEMMA InvSpreads ==
  ASSUME Multiplier % 2 = 1, Inv
  PROVE  SpreadsHashes
  <1> SUFFICES ASSUME x = 2^W
               PROVE  /\ \A j \in DOMAIN share : share[j] = 2 ^ W \div m
                      /\ \A r \in 1 .. W : count[r] = 2 ^ (W - r)
    BY DEF SpreadsHashes
  <1> DEFINE b == log2i[m]
  <1>1. /\ b \in 1 .. W - 1 /\ m = 2^b
        /\ share = [j \in 0 .. m - 1 |-> Cardinality(Sent(j, b, x))]
        /\ \A r \in 1 .. W : count[r] = Cardinality(Ranked(r, x))
    BY DEF Inv
  <1> HIDE DEF b
  <1>2. 2 ^ W \div m = 2^(W - b)
    <2> DEFINE p == 2^b
               D == 2^(W - b)
    <2>1. b \in Nat /\ W - b \in Nat /\ (W - b) + b = W
      BY <1>1, HashAssumption
    <2>2. 2^((W - b) + b) = D * p
      BY <2>1, PowerAdd
    <2>3. p \in Nat \ {0} /\ D \in Nat
      BY <2>1, PowerIs
    <2>4. 2^W = D * p
      BY <2>1, <2>2
    <2> HIDE DEF p, D
    <2>5. D * p = p * D + 0 /\ 0 \in 0 .. p - 1
      BY <2>3
    <2>6. (D * p) \div p = D
      BY <2>3, <2>5, DivUnique
    <2> QED BY <1>1, <2>4, <2>6 DEF p, D
  <1>3. \A j \in DOMAIN share : share[j] = 2 ^ W \div m
    BY <1>1, <1>2, SentAll
  <1>4. \A r \in 1 .. W : count[r] = 2 ^ (W - r)
    BY <1>1, RankedAll
  <1> QED BY <1>3, <1>4

\* Every register is sent its share of the hashes, whatever the length of a
\* word and the number of registers, and the ranks are those the estimate is
\* derived from, if the multiplier is odd and there are two registers at least.
THEOREM AlwaysSpreads ==
  ASSUME Multiplier % 2 = 1, 1 \notin RegisterCounts
  PROVE  Spec => []SpreadsHashes
  <1>1. Inv /\ [Next]_vars => Inv'
    BY NextInv
  <1>2. Inv => SpreadsHashes
    BY InvSpreads
  <1> QED BY <1>1, <1>2, InitInv, PTL DEF Spec
=============================================================================
