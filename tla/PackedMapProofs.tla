-------------------------- MODULE PackedMapProofs --------------------------
(***************************************************************************)
(* Theorems about PackedMap, for any sizes of keys and values: the array   *)
(* stays sorted, the search finds what is there, and the loops have the    *)
(* effect of a finite map.                                                 *)
(***************************************************************************)
EXTENDS PackedMap, TLAPS, FiniteSetTheorems

Pair == 0 .. keyLimit * valueLimit - 1

(***************************************************************************)
(* The inductive invariant.                                                *)
(***************************************************************************)
Shape ==
  /\ size \in Nat
  /\ arr \in [0 .. size - 1 -> Pair]
  /\ l \in 0 .. size /\ r \in -1 .. size /\ hole \in 0 .. size
  /\ pc \in {"idle", "search", "up", "down"}
  /\ op \in [name  : {"none", "find", "erase", "eraseAt", "add"},
             key   : 0 .. keyLimit - 1,
             value : Nat]

\* What the search has excluded: the pairs below l are smaller, those above r
\* larger.
Searching ==
  pc = "search" =>
    /\ op.name \in {"find", "erase", "add"}
    /\ op.key \in Keys
    /\ r < size
    /\ l <= r + 1
    /\ \A i \in DOMAIN arr : i < l => keyAt(i) < op.key
    /\ \A i \in DOMAIN arr : i > r => keyAt(i) > op.key

\* The pairs shifted up so far are larger than the new one, and none has its
\* key.
ShiftingUp ==
  pc = "up" =>
    /\ op.name = "add"
    /\ op.key \in Keys
    /\ hole \in DOMAIN arr
    /\ \A i \in DOMAIN arr : i > hole => keyAt(i) > op.key
    /\ \A i \in DOMAIN arr : i # hole => keyAt(i) # op.key

ShiftingDown == pc = "down" => hole \in DOMAIN arr

Inv == Shape /\ Searching /\ ShiftingUp /\ ShiftingDown /\ Sorted

-----------------------------------------------------------------------------
(***************************************************************************)
(* Pairs: packElement() loses nothing of a key, and nothing of a value but *)
(* the bits that do not fit.                                               *)
(***************************************************************************)

\* Division undoes multiplication, with a remainder below the divisor.
LEMMA Quotient ==
  ASSUME NEW V \in Nat \ {0}, NEW a \in Nat, NEW b \in 0 .. V - 1
  PROVE  (a * V + b) \div V = a /\ (a * V + b) % V = b
<1>. DEFINE x == a * V + b
            q == x \div V
            m == x % V
<1>1. a * V \in Nat /\ x \in Nat
  OBVIOUS
<1>2. q \in Nat /\ m \in 0 .. V - 1 /\ x = V * q + m
  BY <1>1, Z3
<1>. HIDE DEF q, m
<1>3. q <= a
  <2>1. ASSUME q >= a + 1 PROVE FALSE
    <3>1. V * q >= V * (a + 1)
      BY <1>2, <2>1, Z3
    <3>. QED BY <3>1, <1>1, <1>2, Z3
  <2>. QED BY <2>1, <1>2
<1>4. a <= q
  <2>1. ASSUME a >= q + 1 PROVE FALSE
    <3>1. V * a >= V * (q + 1)
      BY <1>2, <2>1, Z3
    <3>. QED BY <3>1, <1>1, <1>2, Z3
  <2>. QED BY <2>1, <1>2
<1>5. q = a
  BY <1>2, <1>3, <1>4
<1>6. m = b
  BY <1>1, <1>2, <1>5, Z3
<1>. QED BY <1>5, <1>6 DEF q, m

\* The key and the value of the pair packElement() makes.
LEMMA PairParts ==
  ASSUME NEW key \in 0 .. keyLimit - 1, NEW value \in Nat
  PROVE  /\ packElement(key, value) \in Pair
         /\ packElement(key, value) \div valueLimit = key
         /\ packElement(key, value) % valueLimit = value % valueLimit
<1>. DEFINE w == value % valueLimit
<1>1. key % keyLimit = key
  BY MapAssumption, Z3
<1>2. w \in 0 .. valueLimit - 1
  BY MapAssumption, Z3
<1>3. packElement(key, value) = key * valueLimit + w
  BY <1>1 DEF packElement
<1>. HIDE DEF w
<1>4. key * valueLimit + w \in Pair
  <2>1. key * valueLimit <= (keyLimit - 1) * valueLimit
    BY MapAssumption, Z3
  <2>2. key * valueLimit \in Nat
    BY MapAssumption, Z3
  <2>3. (keyLimit - 1) * valueLimit + valueLimit = keyLimit * valueLimit
    BY MapAssumption, Z3
  <2>4. (keyLimit - 1) * valueLimit \in Nat /\ keyLimit * valueLimit \in Nat
    BY MapAssumption, Z3
  <2>. QED BY <1>2, <2>1, <2>2, <2>3, <2>4, MapAssumption DEF Pair
<1>5. /\ (key * valueLimit + w) \div valueLimit = key
      /\ (key * valueLimit + w) % valueLimit = w
  BY <1>2, MapAssumption, Quotient
<1>. QED BY <1>3, <1>4, <1>5 DEF w

\* Every pair has a key and a value.
LEMMA PartsOfPair ==
  ASSUME NEW x \in Pair
  PROVE  x \div valueLimit \in Nat /\ x % valueLimit \in 0 .. valueLimit - 1
<1>1. keyLimit * valueLimit \in Nat
  BY MapAssumption, Z3
<1>2. x \in Nat
  BY <1>1 DEF Pair
<1>. QED BY <1>2, MapAssumption, Z3

\* size() of an array with the positions 0 .. n - 1.
LEMMA IntervalSize ==
  ASSUME NEW n \in Nat PROVE Cardinality(0 .. n - 1) = n
<1>1. Cardinality(0 .. n - 1) = IF 0 > n - 1 THEN 0 ELSE (n - 1) - 0 + 1
  BY FS_Interval
<1>. QED BY <1>1

\* What the shape of the array says of its positions and keys.
LEMMA Positions ==
  ASSUME Shape
  PROVE  /\ DOMAIN arr = 0 .. size - 1
         /\ \A i \in DOMAIN arr : /\ arr[i] \in Pair
                                  /\ keyAt(i) \in Nat
                                  /\ at(i) \in 0 .. valueLimit - 1
<1>1. arr \in [0 .. size - 1 -> Pair]
  BY DEF Shape
<1>. QED BY <1>1, PartsOfPair DEF keyAt, at

\* The key the program looks for is one that fits.
LEMMA OpKey ==
  ASSUME Shape
  PROVE  /\ op.key \in 0 .. keyLimit - 1 /\ op.key \in Nat
         /\ op.value \in Nat
         /\ packElement(op.key, op.value) \in Pair
         /\ packElement(op.key, op.value) \div valueLimit = op.key
         /\ packElement(op.key, op.value) % valueLimit = op.value % valueLimit
<1>1. op.key \in 0 .. keyLimit - 1 /\ op.value \in Nat
  BY DEF Shape
<1>2. op.key \in Nat
  BY <1>1, MapAssumption
<1>. QED BY <1>1, <1>2, PairParts

-----------------------------------------------------------------------------
(***************************************************************************)
(* The invariant holds in the empty map, and every step keeps it.          *)
(***************************************************************************)
LEMMA InitInv == Init => Inv
<1>. SUFFICES ASSUME Init PROVE Inv
  OBVIOUS
<1>1. DOMAIN arr = {} /\ pc = "idle"
  BY DEF Init
<1>2. size = 0
  BY <1>1, FS_EmptySet DEF size
<1>3. op \in [name  : {"none", "find", "erase", "eraseAt", "add"},
              key   : 0 .. keyLimit - 1,
              value : Nat]
  BY MapAssumption DEF Init, NoCall
<1>4. arr \in [0 .. size - 1 -> Pair]
  BY <1>2 DEF Init
<1>5. Shape
  BY <1>2, <1>3, <1>4 DEF Init, Shape
<1>. QED BY <1>1, <1>5 DEF Inv, Searching, ShiftingUp, ShiftingDown, Sorted, Live

\* A return leaves no loop under way.
LEMMA ReturnInv ==
  ASSUME Return, size' \in Nat,
         arr' \in [0 .. size' - 1 -> Pair], Sorted'
  PROVE  Inv'
<1>1. op' \in [name  : {"none", "find", "erase", "eraseAt", "add"},
               key   : 0 .. keyLimit - 1,
               value : Nat]
  BY MapAssumption DEF Return, NoCall
<1>2. 0 \in 0 .. size' /\ 0 \in -1 .. size'
  OBVIOUS
<1>3. l' \in 0 .. size' /\ r' \in -1 .. size' /\ hole' \in 0 .. size'
  BY <1>2 DEF Return
<1>4. pc' = "idle"
  BY DEF Return
<1>5. Shape'
  BY <1>1, <1>3, <1>4 DEF Shape
<1>. QED BY <1>5 DEF Return, Inv, Searching, ShiftingUp, ShiftingDown

LEMMA SearchInv == Inv /\ Search => Inv'
<1>. SUFFICES ASSUME Inv, Search PROVE Inv'
  OBVIOUS
<1>1. Shape /\ Searching /\ Sorted /\ pc = "search" /\ l <= r
  BY DEF Inv, Search
<1>2. /\ DOMAIN arr = 0 .. size - 1 /\ size \in Nat
      /\ \A i \in DOMAIN arr : keyAt(i) \in Nat
      /\ op.key \in Nat /\ l \in 0 .. size /\ r \in -1 .. size /\ r < size
  BY <1>1, Positions, OpKey DEF Shape, Searching
<1>3. mid \in l .. r
  BY <1>1, <1>2 DEF mid
<1>4. mid \in DOMAIN arr /\ mid \in Int
  BY <1>2, <1>3
<1>5. UNCHANGED <<arr, pc, op, hole>>
  BY DEF Search
<1>6. size' = size /\ (\A i : keyAt(i)' = keyAt(i))
  BY <1>5 DEF size, keyAt
<1>7. Live = DOMAIN arr /\ Sorted'
  BY <1>1, <1>5, <1>6 DEF Live, Sorted
<1>8. \A i, k \in DOMAIN arr : i < k => keyAt(i) < keyAt(k)
  BY <1>1, <1>7 DEF Sorted
<1>9. CASE keyAt(mid) < op.key /\ l' = mid + 1 /\ UNCHANGED r
  <2>1. l' \in 0 .. size /\ l' <= r' + 1 /\ r' < size
    BY <1>2, <1>3, <1>9
  <2>2. Shape'
    BY <1>1, <1>5, <1>6, <1>9, <2>1 DEF Shape
  <2>3. ASSUME NEW i \in DOMAIN arr, i < mid + 1 PROVE keyAt(i) < op.key
    <3>1. i = mid \/ i < mid
      BY <1>2, <1>4, <2>3
    <3>2. i < mid => keyAt(i) < keyAt(mid)
      BY <1>4, <1>8
    <3>. QED BY <1>2, <1>4, <1>9, <3>1, <3>2
  <2>4. Searching'
    BY <1>1, <1>5, <1>6, <1>9, <2>1, <2>3 DEF Searching
  <2>. QED BY <1>1, <1>5, <1>7, <2>2, <2>4 DEF Inv, ShiftingUp, ShiftingDown
<1>10. CASE keyAt(mid) > op.key /\ r' = mid - 1 /\ UNCHANGED l
  <2>1. r' \in -1 .. size /\ l' <= r' + 1 /\ r' < size
    BY <1>2, <1>3, <1>10
  <2>2. Shape'
    BY <1>1, <1>5, <1>6, <1>10, <2>1 DEF Shape
  <2>3. ASSUME NEW i \in DOMAIN arr, i > mid - 1 PROVE keyAt(i) > op.key
    <3>1. i = mid \/ mid < i
      BY <1>2, <1>4, <2>3
    <3>2. mid < i => keyAt(mid) < keyAt(i)
      BY <1>4, <1>8
    <3>. QED BY <1>2, <1>4, <1>10, <3>1, <3>2
  <2>4. Searching'
    BY <1>1, <1>5, <1>6, <1>10, <2>1, <2>3 DEF Searching
  <2>. QED BY <1>1, <1>5, <1>7, <2>2, <2>4 DEF Inv, ShiftingUp, ShiftingDown
<1>. QED BY <1>9, <1>10 DEF Search, Narrow

\* The middle of the range is a position of the array.
LEMMA MiddleInRange ==
  ASSUME Inv, Hit
  PROVE  mid \in DOMAIN arr /\ Live = DOMAIN arr
<1>1. /\ DOMAIN arr = 0 .. size - 1 /\ size \in Nat
      /\ l \in 0 .. size /\ r \in -1 .. size /\ r < size /\ l <= r
      /\ pc = "search"
  BY Positions DEF Inv, Shape, Searching, Hit
<1>2. mid \in l .. r
  BY <1>1 DEF mid
<1>. QED BY <1>1, <1>2 DEF Live

\* When the range is empty, no pair has the key.
LEMMA MissMeansAbsent ==
  ASSUME Inv, Miss
  PROVE  Live = DOMAIN arr /\ \A i \in DOMAIN arr : keyAt(i) # op.key
<1>1. /\ DOMAIN arr = 0 .. size - 1 /\ size \in Nat
      /\ l \in 0 .. size /\ r \in -1 .. size /\ l > r
      /\ pc = "search" /\ Searching /\ op.key \in Nat
      /\ \A i \in DOMAIN arr : keyAt(i) \in Nat
  BY Positions, OpKey DEF Inv, Shape, Miss
<1>2. ASSUME NEW i \in DOMAIN arr PROVE keyAt(i) # op.key
  <2>1. i < l \/ i > r
    BY <1>1
  <2>2. keyAt(i) < op.key \/ keyAt(i) > op.key
    BY <1>1, <2>1 DEF Searching
  <2>. QED BY <1>1, <2>2
<1>. QED BY <1>1, <1>2 DEF Live

LEMMA FoundInv == Inv /\ Found => Inv'
<1>. SUFFICES ASSUME Inv, Found PROVE Inv'
  OBVIOUS
<1>1. UNCHANGED arr /\ Return /\ pc = "search" /\ pc' = "idle"
  BY DEF Found, Hit, Miss, Return
<1>2. size' = size /\ (\A i : keyAt(i)' = keyAt(i)) /\ Live' = Live
  BY <1>1 DEF size, keyAt, Live
<1>3. Sorted'
  BY <1>2 DEF Inv, Sorted
<1>4. size' \in Nat /\ arr' \in [0 .. size' - 1 -> Pair]
  BY <1>1, <1>2 DEF Inv, Shape
<1>. QED BY <1>1, <1>3, <1>4, ReturnInv

LEMMA ReplaceInv == Inv /\ Replace => Inv'
<1>. SUFFICES ASSUME Inv, Replace PROVE Inv'
  OBVIOUS
<1>. DEFINE pair == packElement(op.key, op.value)
<1>1. Hit /\ Return /\ Shape /\ arr' = [arr EXCEPT ![mid] = pair]
  BY DEF Replace, Inv
<1>2. /\ mid \in DOMAIN arr /\ Live = DOMAIN arr
      /\ pair \in Pair /\ pair \div valueLimit = op.key
      /\ keyAt(mid) = op.key
  BY <1>1, MiddleInRange, OpKey DEF Hit
<1>. HIDE DEF pair
<1>3. DOMAIN arr' = DOMAIN arr /\ size' = size /\ Live' = Live
  BY <1>1, <1>2 DEF size, Live, Return
<1>4. arr' \in [0 .. size' - 1 -> Pair] /\ size' \in Nat
  BY <1>1, <1>2, <1>3 DEF Shape
<1>5. \A i \in DOMAIN arr : keyAt(i)' = keyAt(i)
  BY <1>1, <1>2 DEF keyAt
<1>6. Sorted'
  BY <1>2, <1>3, <1>5 DEF Inv, Sorted
<1>. QED BY <1>1, <1>4, <1>6, ReturnInv

LEMMA AppendPairInv == Inv /\ AppendPair => Inv'
<1>. SUFFICES ASSUME Inv, AppendPair PROVE Inv'
  OBVIOUS
<1>. DEFINE pair == packElement(op.key, op.value)
            longer == [i \in 0 .. size |-> IF i = size THEN pair ELSE arr[i]]
<1>1. /\ Miss /\ Shape /\ Searching /\ pc = "search" /\ op.name = "add"
      /\ arr' = longer /\ pc' = "up" /\ hole' = size
      /\ UNCHANGED <<op, l, r>>
  BY DEF AppendPair, Inv, Miss
<1>2. /\ Live = DOMAIN arr /\ DOMAIN arr = 0 .. size - 1 /\ size \in Nat
      /\ \A i \in DOMAIN arr : keyAt(i) # op.key /\ arr[i] \in Pair
      /\ pair \in Pair
  BY <1>1, MissMeansAbsent, Positions, OpKey DEF Shape
<1>. HIDE DEF pair
<1>3. longer \in [0 .. size -> Pair]
  BY <1>2
<1>4. Cardinality(0 .. size) = size + 1
  BY <1>2, IntervalSize, (size + 1) - 1 = size
<1>5. DOMAIN arr' = 0 .. size /\ size' = size + 1 /\ size' - 1 = size
  BY <1>1, <1>2, <1>4 DEF size
<1>6. Shape'
  <2>1. arr' \in [0 .. size' - 1 -> Pair] /\ size' \in Nat
    BY <1>1, <1>2, <1>3, <1>5
  <2>2. l' \in 0 .. size' /\ r' \in -1 .. size' /\ hole' \in 0 .. size'
    BY <1>1, <1>2, <1>5 DEF Shape
  <2>. QED BY <1>1, <2>1, <2>2 DEF Shape
<1>7. \A i \in DOMAIN arr : i \in DOMAIN arr' /\ keyAt(i)' = keyAt(i)
  BY <1>1, <1>2, <1>5 DEF keyAt
<1>8. DOMAIN arr' \ {hole'} = DOMAIN arr
  BY <1>1, <1>2, <1>5
<1>9. ShiftingUp'
  <2>1. ~ \E i \in DOMAIN arr' : i > hole'
    BY <1>1, <1>2, <1>5
  <2>2. \A i \in DOMAIN arr' : i # hole' => keyAt(i)' # op'.key
    BY <1>1, <1>2, <1>7, <1>8
  <2>3. hole' \in DOMAIN arr'
    BY <1>1, <1>2, <1>5
  <2>. QED BY <1>1, <2>1, <2>2, <2>3 DEF ShiftingUp, Searching
<1>10. Sorted'
  BY <1>1, <1>2, <1>7, <1>8 DEF Inv, Sorted, Live
<1>. QED BY <1>1, <1>6, <1>9, <1>10 DEF Inv, Searching, ShiftingDown

LEMMA MoveUpInv == Inv /\ MoveUp => Inv'
<1>. SUFFICES ASSUME Inv, MoveUp PROVE Inv'
  OBVIOUS
<1>1. /\ Shape /\ ShiftingUp /\ Sorted /\ pc = "up" /\ hole > 0
      /\ keyAt(hole - 1) > op.key
      /\ arr' = [arr EXCEPT ![hole] = arr[hole - 1]] /\ hole' = hole - 1
      /\ UNCHANGED <<pc, op, l, r>>
  BY DEF MoveUp, MustMoveUp, Inv
<1>2. /\ DOMAIN arr = 0 .. size - 1 /\ size \in Nat /\ hole \in DOMAIN arr
      /\ \A i \in DOMAIN arr : arr[i] \in Pair /\ keyAt(i) \in Nat
      /\ op.key \in Nat
  BY <1>1, Positions, OpKey DEF Shape, ShiftingUp
<1>3. hole - 1 \in DOMAIN arr
  BY <1>1, <1>2
<1>4. DOMAIN arr' = DOMAIN arr /\ size' = size
  BY <1>1 DEF size
<1>5. Shape'
  <2>1. arr' \in [0 .. size' - 1 -> Pair]
    BY <1>1, <1>2, <1>3, <1>4 DEF Shape
  <2>2. hole' \in 0 .. size'
    BY <1>1, <1>2, <1>4
  <2>. QED BY <1>1, <1>4, <2>1, <2>2 DEF Shape
<1>6. \A i \in DOMAIN arr :
        keyAt(i)' = IF i = hole THEN keyAt(hole - 1) ELSE keyAt(i)
  BY <1>1, <1>2 DEF keyAt
<1>7. ShiftingUp'
  <2>1. ASSUME NEW i \in DOMAIN arr, i > hole - 1 PROVE keyAt(i)' > op.key
    <3>1. i = hole \/ i > hole
      BY <1>2, <2>1
    <3>. QED BY <1>1, <1>2, <1>6, <3>1 DEF ShiftingUp
  <2>2. ASSUME NEW i \in DOMAIN arr, i # hole - 1 PROVE keyAt(i)' # op.key
    <3>1. CASE i = hole
      BY <1>1, <1>2, <1>3, <1>6, <3>1
    <3>2. CASE i # hole
      BY <1>1, <1>6, <3>2 DEF ShiftingUp
    <3>. QED BY <3>1, <3>2
  <2>. QED BY <1>1, <1>3, <1>4, <2>1, <2>2 DEF ShiftingUp
<1>8. Sorted'
  <2>. SUFFICES ASSUME NEW i \in DOMAIN arr \ {hole - 1},
                       NEW k \in DOMAIN arr \ {hole - 1},
                       i < k
                PROVE  keyAt(i)' < keyAt(k)'
    BY <1>1, <1>4 DEF Sorted, Live
  <2>. DEFINE before(x) == IF x = hole THEN hole - 1 ELSE x
  <2>1. /\ before(i) \in DOMAIN arr \ {hole}
        /\ before(k) \in DOMAIN arr \ {hole}
        /\ before(i) < before(k)
    BY <1>1, <1>2, <1>3
  <2>2. keyAt(before(i)) < keyAt(before(k))
    BY <1>1, <2>1 DEF Sorted, Live
  <2>. QED BY <1>6, <2>2
<1>. QED BY <1>1, <1>5, <1>7, <1>8 DEF Inv, Searching, ShiftingDown

LEMMA PlaceInv == Inv /\ Place => Inv'
<1>. SUFFICES ASSUME Inv, Place PROVE Inv'
  OBVIOUS
<1>. DEFINE pair == packElement(op.key, op.value)
<1>1. /\ Shape /\ ShiftingUp /\ Sorted /\ pc = "up" /\ ~MustMoveUp
      /\ arr' = [arr EXCEPT ![hole] = pair] /\ Return
  BY DEF Place, Inv
<1>2. /\ DOMAIN arr = 0 .. size - 1 /\ size \in Nat /\ hole \in DOMAIN arr
      /\ \A i \in DOMAIN arr : arr[i] \in Pair /\ keyAt(i) \in Nat
      /\ op.key \in Nat /\ pair \in Pair /\ pair \div valueLimit = op.key
  BY <1>1, Positions, OpKey DEF Shape, ShiftingUp
<1>. HIDE DEF pair
<1>3. DOMAIN arr' = DOMAIN arr /\ size' = size
  BY <1>1 DEF size
<1>4. arr' \in [0 .. size' - 1 -> Pair] /\ size' \in Nat
  BY <1>1, <1>2, <1>3 DEF Shape
<1>5. \A i \in DOMAIN arr :
        keyAt(i)' = IF i = hole THEN op.key ELSE keyAt(i)
  BY <1>1, <1>2 DEF keyAt
<1>6. ASSUME NEW i \in DOMAIN arr, i < hole PROVE keyAt(i) < op.key
  <2>1. hole - 1 \in DOMAIN arr /\ hole > 0 /\ hole - 1 # hole
    BY <1>2, <1>6
  <2>2. keyAt(hole - 1) < op.key
    BY <1>1, <1>2, <2>1 DEF MustMoveUp, ShiftingUp
  <2>3. i = hole - 1 \/ i < hole - 1
    BY <1>2, <1>6
  <2>4. i < hole - 1 => keyAt(i) < keyAt(hole - 1)
    BY <1>1, <1>2, <1>6, <2>1 DEF Sorted, Live
  <2>. QED BY <1>2, <2>1, <2>2, <2>3, <2>4
<1>7. Sorted'
  <2>. SUFFICES ASSUME NEW i \in DOMAIN arr, NEW k \in DOMAIN arr, i < k
                PROVE  keyAt(i)' < keyAt(k)'
    BY <1>1, <1>3 DEF Sorted, Live, Return
  <2>1. CASE i = hole
    BY <1>1, <1>2, <1>5, <2>1 DEF ShiftingUp
  <2>2. CASE k = hole
    BY <1>2, <1>5, <1>6, <2>2
  <2>3. CASE i # hole /\ k # hole
    BY <1>1, <1>5, <2>3 DEF Sorted, Live
  <2>. QED BY <2>1, <2>2, <2>3
<1>. QED BY <1>1, <1>4, <1>7, ReturnInv

LEMMA EraseFoundInv == Inv /\ EraseFound => Inv'
<1>. SUFFICES ASSUME Inv, EraseFound PROVE Inv'
  OBVIOUS
<1>1. /\ Shape /\ Sorted /\ Hit /\ pc' = "down" /\ hole' = mid
      /\ UNCHANGED <<arr, op, l, r>>
  BY DEF EraseFound, Inv
<1>2. /\ mid \in DOMAIN arr /\ Live = DOMAIN arr
      /\ DOMAIN arr = 0 .. size - 1 /\ size \in Nat
  BY <1>1, MiddleInRange, Positions DEF Shape
<1>3. size' = size /\ (\A i : keyAt(i)' = keyAt(i)) /\ Live' \subseteq Live
  BY <1>1, <1>2 DEF size, keyAt, Live
<1>4. Shape'
  BY <1>1, <1>2, <1>3 DEF Shape
<1>5. Sorted'
  BY <1>1, <1>3 DEF Sorted
<1>. QED BY <1>1, <1>2, <1>4, <1>5 DEF Inv, Searching, ShiftingUp, ShiftingDown

LEMMA MoveDownInv == Inv /\ MoveDown => Inv'
<1>. SUFFICES ASSUME Inv, MoveDown PROVE Inv'
  OBVIOUS
<1>1. /\ Shape /\ ShiftingDown /\ Sorted /\ pc = "down" /\ hole + 1 < size
      /\ arr' = [arr EXCEPT ![hole] = arr[hole + 1]] /\ hole' = hole + 1
      /\ UNCHANGED <<pc, op, l, r>>
  BY DEF MoveDown, MustMoveDown, Inv
<1>2. /\ DOMAIN arr = 0 .. size - 1 /\ size \in Nat /\ hole \in DOMAIN arr
      /\ \A i \in DOMAIN arr : arr[i] \in Pair
  BY <1>1, Positions DEF Shape, ShiftingDown
<1>3. hole + 1 \in DOMAIN arr
  BY <1>1, <1>2
<1>4. DOMAIN arr' = DOMAIN arr /\ size' = size
  BY <1>1 DEF size
<1>5. Shape'
  <2>1. arr' \in [0 .. size' - 1 -> Pair]
    BY <1>1, <1>2, <1>3, <1>4 DEF Shape
  <2>2. hole' \in 0 .. size'
    BY <1>1, <1>2, <1>4
  <2>. QED BY <1>1, <1>4, <2>1, <2>2 DEF Shape
<1>6. \A i \in DOMAIN arr :
        keyAt(i)' = IF i = hole THEN keyAt(hole + 1) ELSE keyAt(i)
  BY <1>1, <1>2 DEF keyAt
<1>7. Sorted'
  <2>. SUFFICES ASSUME NEW i \in DOMAIN arr \ {hole + 1},
                       NEW k \in DOMAIN arr \ {hole + 1},
                       i < k
                PROVE  keyAt(i)' < keyAt(k)'
    BY <1>1, <1>4 DEF Sorted, Live
  <2>. DEFINE before(x) == IF x = hole THEN hole + 1 ELSE x
  <2>1. /\ before(i) \in DOMAIN arr \ {hole}
        /\ before(k) \in DOMAIN arr \ {hole}
        /\ before(i) < before(k)
    BY <1>1, <1>2, <1>3
  <2>2. keyAt(before(i)) < keyAt(before(k))
    BY <1>1, <2>1 DEF Sorted, Live
  <2>. QED BY <1>6, <2>2
<1>. QED BY <1>1, <1>3, <1>4, <1>5, <1>7
         DEF Inv, Searching, ShiftingUp, ShiftingDown

LEMMA ShrinkInv == Inv /\ Shrink => Inv'
<1>. SUFFICES ASSUME Inv, Shrink PROVE Inv'
  OBVIOUS
<1>1. /\ Shape /\ ShiftingDown /\ Sorted /\ pc = "down" /\ ~(hole + 1 < size)
      /\ arr' = [i \in 0 .. size - 2 |-> arr[i]] /\ Return
  BY DEF Shrink, MustMoveDown, Inv
<1>2. /\ DOMAIN arr = 0 .. size - 1 /\ size \in Nat /\ hole \in DOMAIN arr
      /\ \A i \in DOMAIN arr : arr[i] \in Pair
  BY <1>1, Positions DEF Shape, ShiftingDown
<1>3. hole = size - 1 /\ size - 1 \in Nat
  BY <1>1, <1>2
<1>4. 0 .. size - 2 = DOMAIN arr \ {hole} /\ size - 2 = (size - 1) - 1
  BY <1>2, <1>3
<1>5. DOMAIN arr' = DOMAIN arr \ {hole} /\ size' = size - 1
  BY <1>1, <1>3, <1>4, IntervalSize DEF size
<1>6. arr' \in [0 .. size' - 1 -> Pair] /\ size' \in Nat
  BY <1>1, <1>2, <1>3, <1>4, <1>5
<1>7. \A i \in DOMAIN arr' : keyAt(i)' = keyAt(i)
  BY <1>1, <1>4, <1>5 DEF keyAt
<1>8. Sorted'
  BY <1>1, <1>5, <1>7 DEF Sorted, Live, Return
<1>. QED BY <1>1, <1>6, <1>8, ReturnInv

LEMMA CallInv ==
  ASSUME Inv, NEW key \in Keys, NEW value \in Nat,
         NEW name \in {"find", "erase", "add"}, Call(name, key, value)
  PROVE  Inv'
<1>1. /\ Shape /\ Sorted /\ pc = "idle" /\ pc' = "search"
      /\ op' = [name |-> name, key |-> key, value |-> value]
      /\ l' = 0 /\ r' = size - 1 /\ UNCHANGED <<arr, hole>>
  BY DEF Call, Inv
<1>2. /\ DOMAIN arr = 0 .. size - 1 /\ size \in Nat
      /\ key \in 0 .. keyLimit - 1
  BY <1>1, Positions, MapAssumption DEF Shape
<1>3. size' = size /\ (\A i : keyAt(i)' = keyAt(i)) /\ Live' = Live
  BY <1>1 DEF size, keyAt, Live
<1>4. Shape'
  <2>1. op' \in [name  : {"none", "find", "erase", "eraseAt", "add"},
                 key   : 0 .. keyLimit - 1,
                 value : Nat]
    BY <1>1, <1>2
  <2>2. l' \in 0 .. size' /\ r' \in -1 .. size'
    BY <1>1, <1>2, <1>3
  <2>. QED BY <1>1, <1>3, <2>1, <2>2 DEF Shape
<1>5. Searching'
  <2>1. r' < size' /\ l' <= r' + 1
    BY <1>1, <1>2, <1>3
  <2>2. ~ \E i \in DOMAIN arr' : i < l' \/ i > r'
    BY <1>1, <1>2
  <2>3. op'.name \in {"find", "erase", "add"} /\ op'.key \in Keys
    BY <1>1
  <2>. QED BY <2>1, <2>2, <2>3 DEF Searching
<1>6. Sorted'
  BY <1>1, <1>3 DEF Sorted
<1>. QED BY <1>1, <1>4, <1>5, <1>6 DEF Inv, ShiftingUp, ShiftingDown

LEMMA EraseAtInv ==
  ASSUME Inv, NEW i \in DOMAIN arr, eraseAt(i)
  PROVE  Inv'
<1>1. /\ Shape /\ Sorted /\ pc = "idle" /\ pc' = "down" /\ hole' = i
      /\ op' = [NoCall EXCEPT !.name = "eraseAt"]
      /\ UNCHANGED <<arr, l, r>>
  BY DEF eraseAt, Inv
<1>2. DOMAIN arr = 0 .. size - 1 /\ size \in Nat
  BY <1>1, Positions DEF Shape
<1>3. size' = size /\ (\A k : keyAt(k)' = keyAt(k)) /\ Live' \subseteq Live
  BY <1>1 DEF size, keyAt, Live
<1>4. op' \in [name  : {"none", "find", "erase", "eraseAt", "add"},
               key   : 0 .. keyLimit - 1,
               value : Nat]
  BY <1>1, MapAssumption DEF NoCall
<1>5. hole' \in 0 .. size'
  BY <1>1, <1>2, <1>3
<1>6. Shape'
  BY <1>1, <1>3, <1>4, <1>5 DEF Shape
<1>7. Sorted'
  BY <1>1, <1>3 DEF Sorted
<1>. QED BY <1>1, <1>6, <1>7 DEF Inv, Searching, ShiftingUp, ShiftingDown

LEMMA StutterInv == Inv /\ UNCHANGED vars => Inv'
<1>. SUFFICES ASSUME Inv, UNCHANGED vars PROVE Inv'
  OBVIOUS
<1>1. UNCHANGED <<arr, pc, op, l, r, hole>>
  BY DEF vars
<1>2. size' = size /\ (\A k : keyAt(k)' = keyAt(k)) /\ Live' = Live
  BY <1>1 DEF size, keyAt, Live
<1>. QED BY <1>1, <1>2 DEF Inv, Shape, Searching, ShiftingUp, ShiftingDown, Sorted

LEMMA NextInv == Inv /\ [Next]_vars => Inv'
<1>. SUFFICES ASSUME Inv, [Next]_vars PROVE Inv'
  OBVIOUS
<1>1. CASE Step
  BY <1>1, SearchInv, FoundInv, ReplaceInv, AppendPairInv, MoveUpInv, PlaceInv,
     EraseFoundInv, MoveDownInv, ShrinkInv DEF Step
<1>2. ASSUME NEW key \in Keys,
             \/ Call("find", key, 0)
             \/ Call("erase", key, 0)
             \/ \E value \in Values : Call("add", key, value)
      PROVE  Inv'
  BY <1>2, CallInv, MapAssumption
<1>3. ASSUME NEW i \in DOMAIN arr, eraseAt(i) PROVE Inv'
  BY <1>3, EraseAtInv
<1>4. CASE UNCHANGED vars
  BY <1>4, StutterInv
<1>. QED BY <1>1, <1>2, <1>3, <1>4 DEF Next

LEMMA Invariance == Spec => []Inv
BY InitInv, NextInv, PTL DEF Spec

-----------------------------------------------------------------------------
(***************************************************************************)
(* The invariants the run of PackedMap checks.                             *)
(***************************************************************************)
\* The array holds pairs of the declared bits, one for each position, and no
\* loop leaves it, whatever the sizes of keys and values.
THEOREM TypeCorrect == Spec => []TypeOK
<1>1. Inv => TypeOK
  BY DEF Inv, Shape, TypeOK, Pair
<1>. QED BY <1>1, Invariance, PTL

\* The array is sorted and has no key twice, at every turn of the loops of
\* add() and erase().
THEOREM AlwaysSorted == Spec => []Sorted
<1>1. Inv => Sorted
  BY DEF Inv
<1>. QED BY <1>1, Invariance, PTL

\* find() never excludes the position of the key, so it misses only a key that
\* the map does not have.
THEOREM SearchFinds == Spec => []SearchNarrows
<1>1. ASSUME Inv PROVE SearchNarrows
  <2>. SUFFICES ASSUME pc = "search", NEW i \in DOMAIN arr, keyAt(i) = op.key
                PROVE  i \in l .. r
    BY DEF SearchNarrows
  <2>1. /\ i \in Int /\ l \in Int /\ r \in Int /\ op.key \in Nat
    BY <1>1, Positions, OpKey DEF Inv, Shape
  <2>2. ~(i < l) /\ ~(i > r)
    BY <1>1, <2>1 DEF Inv, Searching
  <2>. QED BY <2>1, <2>2
<1>. QED BY <1>1, Invariance, PTL

-----------------------------------------------------------------------------
(***************************************************************************)
(* The refinement: the pairs at the live positions of an array as a map.   *)
(***************************************************************************)
Key(x) == x \div valueLimit

MapOf(a, live) ==
  [key \in {Key(a[i]) : i \in live} |->
     a[CHOOSE i \in live : Key(a[i]) = key] % valueLimit]

Unique(a, live) == \A i, k \in live : Key(a[i]) = Key(a[k]) => i = k

\* The value of a key is that of its only pair.
LEMMA MapOfAt ==
  ASSUME NEW a, NEW live, Unique(a, live), NEW i \in live
  PROVE  /\ Key(a[i]) \in DOMAIN MapOf(a, live)
         /\ MapOf(a, live)[Key(a[i])] = a[i] % valueLimit
<1>. DEFINE j == CHOOSE k \in live : Key(a[k]) = Key(a[i])
<1>1. j \in live /\ Key(a[j]) = Key(a[i])
  OBVIOUS
<1>2. j = i
  BY <1>1 DEF Unique
<1>3. MapOf(a, live)[Key(a[i])] = a[j] % valueLimit
  BY DEF MapOf
<1>. QED BY <1>2, <1>3 DEF MapOf

\* A map is determined by what it has for each live pair.
LEMMA MapOfIs ==
  ASSUME NEW a, NEW live, Unique(a, live),
         NEW f, f = [k \in DOMAIN f |-> f[k]],
         \A i \in live :
            Key(a[i]) \in DOMAIN f /\ f[Key(a[i])] = a[i] % valueLimit,
         \A k \in DOMAIN f : \E i \in live : Key(a[i]) = k
  PROVE  MapOf(a, live) = f
<1>1. DOMAIN MapOf(a, live) = {Key(a[i]) : i \in live}
  BY DEF MapOf
<1>2. {Key(a[i]) : i \in live} = DOMAIN f
  OBVIOUS
<1>3. ASSUME NEW k \in DOMAIN f PROVE MapOf(a, live)[k] = f[k]
  <2>1. PICK i \in live : Key(a[i]) = k
    OBVIOUS
  <2>. QED BY <2>1, MapOfAt
<1>4. MapOf(a, live) = [k \in DOMAIN MapOf(a, live) |-> MapOf(a, live)[k]]
  BY DEF MapOf
<1>. QED BY <1>1, <1>2, <1>3, <1>4

\* Moving pairs to other positions changes no map.
LEMMA SamePairs ==
  ASSUME NEW a, NEW live, Unique(a, live),
         NEW b, NEW newlive, Unique(b, newlive),
         \A i \in live : \E k \in newlive : a[i] = b[k],
         \A k \in newlive : \E i \in live : a[i] = b[k]
  PROVE  MapOf(b, newlive) = MapOf(a, live)
<1>. DEFINE f == MapOf(a, live)
<1>1. f = [k \in DOMAIN f |-> f[k]]
  BY DEF MapOf
<1>2. \A k \in newlive :
         Key(b[k]) \in DOMAIN f /\ f[Key(b[k])] = b[k] % valueLimit
  BY MapOfAt
<1>3. \A x \in DOMAIN f : \E k \in newlive : Key(b[k]) = x
  BY DEF MapOf
<1>. HIDE DEF f
<1>4. MapOf(b, newlive) = f
  BY <1>1, <1>2, <1>3, MapOfIs
<1>. QED BY <1>4 DEF f

\* Writing one pair, in the place of a pair with its key or of no live pair.
LEMMA OnePairWritten ==
  ASSUME NEW a, NEW live, Unique(a, live),
         NEW b, NEW newlive, Unique(b, newlive),
         NEW h \in newlive,
         newlive \ {h} = live \ {h},
         \A i \in live \ {h} : b[i] = a[i],
         h \in live => Key(a[h]) = Key(b[h])
  PROVE  MapOf(b, newlive) =
           [k \in DOMAIN MapOf(a, live) \cup {Key(b[h])} |->
              IF k = Key(b[h]) THEN b[h] % valueLimit ELSE MapOf(a, live)[k]]
<1>. DEFINE m == MapOf(a, live)
            f == [k \in DOMAIN m \cup {Key(b[h])} |->
                    IF k = Key(b[h]) THEN b[h] % valueLimit ELSE m[k]]
<1>1. f = [k \in DOMAIN f |-> f[k]] /\ DOMAIN f = DOMAIN m \cup {Key(b[h])}
  OBVIOUS
<1>2. ASSUME NEW i \in newlive
      PROVE  Key(b[i]) \in DOMAIN f /\ f[Key(b[i])] = b[i] % valueLimit
  <2>1. CASE i = h
    BY <2>1
  <2>2. CASE i # h
    <3>1. i \in live /\ b[i] = a[i]
      BY <1>2, <2>2
    <3>2. Key(b[i]) # Key(b[h])
      BY <1>2, <2>2 DEF Unique
    <3>3. Key(a[i]) \in DOMAIN m /\ m[Key(a[i])] = a[i] % valueLimit
      BY <3>1, MapOfAt
    <3>. QED BY <3>1, <3>2, <3>3
  <2>. QED BY <2>1, <2>2
<1>3. ASSUME NEW k \in DOMAIN f PROVE \E i \in newlive : Key(b[i]) = k
  <2>1. CASE k = Key(b[h])
    BY <2>1
  <2>2. CASE k # Key(b[h])
    <3>1. PICK i \in live : Key(a[i]) = k
      BY <1>3, <2>2 DEF MapOf
    <3>2. i # h
      BY <2>2, <3>1
    <3>. QED BY <3>1, <3>2
  <2>. QED BY <2>1, <2>2
<1>. HIDE DEF f
<1>4. MapOf(b, newlive) = f
  BY <1>1, <1>2, <1>3, MapOfIs
<1>. QED BY <1>4 DEF f

\* Giving up one pair.
LEMMA OnePairDropped ==
  ASSUME NEW a, NEW live, Unique(a, live), NEW h \in live
  PROVE  MapOf(a, live \ {h}) =
           [k \in DOMAIN MapOf(a, live) \ {Key(a[h])} |-> MapOf(a, live)[k]]
<1>. DEFINE m == MapOf(a, live)
            f == [k \in DOMAIN m \ {Key(a[h])} |-> m[k]]
            rest == live \ {h}
<1>1. f = [k \in DOMAIN f |-> f[k]] /\ DOMAIN f = DOMAIN m \ {Key(a[h])}
  OBVIOUS
<1>2. ASSUME NEW i \in rest
      PROVE  Key(a[i]) \in DOMAIN f /\ f[Key(a[i])] = a[i] % valueLimit
  <2>1. Key(a[i]) # Key(a[h])
    BY DEF Unique
  <2>2. Key(a[i]) \in DOMAIN m /\ m[Key(a[i])] = a[i] % valueLimit
    BY MapOfAt
  <2>. QED BY <2>1, <2>2
<1>3. ASSUME NEW k \in DOMAIN f PROVE \E i \in rest : Key(a[i]) = k
  BY <1>3 DEF MapOf
<1>4. Unique(a, rest)
  BY DEF Unique
<1>. HIDE DEF f, rest
<1>5. MapOf(a, rest) = f
  BY <1>1, <1>2, <1>3, <1>4, MapOfIs
<1>. QED BY <1>5 DEF f, rest

LEMMA KeysUnique == Inv => Unique(arr, Live)
<1>. SUFFICES ASSUME Inv, NEW i \in Live, NEW k \in Live, keyAt(i) = keyAt(k)
              PROVE  i = k
  BY DEF Unique, Key, keyAt
<1>1. /\ i \in DOMAIN arr /\ k \in DOMAIN arr /\ DOMAIN arr = 0 .. size - 1
      /\ keyAt(i) \in Nat /\ keyAt(k) \in Nat
      /\ i < k => keyAt(i) < keyAt(k)
      /\ k < i => keyAt(k) < keyAt(i)
  BY Positions DEF Inv, Live, Sorted
<1>. QED BY <1>1

-----------------------------------------------------------------------------
(***************************************************************************)
(* Every step keeps the map, or adds or erases one key.                    *)
(***************************************************************************)
\* The steps that take the effect of a call.
Takes == Replace \/ Place \/ EraseFound \/ \E i \in DOMAIN arr : eraseAt(i)

LEMMA OtherStepsKeep ==
  ASSUME Inv, Inv', [Next]_vars, ~Takes PROVE Contents' = Contents
<1>1. Unique(arr, Live) /\ Unique(arr, Live)'
  BY KeysUnique, PTL
<1>2. SUFFICES /\ \A i \in Live : \E k \in Live' : arr[i] = arr'[k]
               /\ \A k \in Live' : \E i \in Live : arr[i] = arr'[k]
  <2>1. MapOf(arr', Live') = MapOf(arr, Live)
    BY <1>1, <1>2, SamePairs DEF Unique
  <2>2. Contents = MapOf(arr, Live) /\ Contents' = MapOf(arr', Live')
    BY DEF Contents, MapOf, Key, keyAt, at
  <2>. QED BY <2>1, <2>2
<1>3. DOMAIN arr = 0 .. size - 1 /\ size \in Nat
  BY Positions DEF Inv, Shape
<1>4. CASE arr' = arr /\ Live' = Live
  BY <1>4
<1>5. CASE Search \/ Found \/ UNCHANGED vars
  BY <1>4, <1>5 DEF Search, Found, Hit, Miss, Return, vars, Live
<1>6. ASSUME NEW name, NEW key, NEW value, Call(name, key, value)
      PROVE  arr' = arr /\ Live' = Live
  BY <1>6 DEF Call, Live
<1>7. CASE AppendPair
  <2>1. Live = DOMAIN arr
    BY <1>7, MissMeansAbsent DEF AppendPair
  <2>2. DOMAIN arr' = 0 .. size /\ hole' = size /\ pc' = "up"
        /\ \A i \in 0 .. size - 1 : arr'[i] = arr[i]
    BY <1>3, <1>7 DEF AppendPair
  <2>3. Live' = DOMAIN arr
    BY <1>3, <2>2 DEF Live
  <2>. QED BY <1>3, <2>1, <2>2, <2>3
<1>8. CASE MoveUp
  <2>1. /\ arr' = [arr EXCEPT ![hole] = arr[hole - 1]] /\ hole' = hole - 1
        /\ pc = "up" /\ pc' = "up" /\ hole \in DOMAIN arr
        /\ hole - 1 \in DOMAIN arr /\ hole - 1 # hole
    BY <1>3, <1>8 DEF MoveUp, MustMoveUp, Inv, ShiftingUp
  <2>2. Live = DOMAIN arr \ {hole} /\ Live' = DOMAIN arr \ {hole - 1}
    BY <2>1 DEF Live
  <2>3. arr[hole - 1] = arr'[hole] /\ \A i \in DOMAIN arr \ {hole} : arr'[i] = arr[i]
    BY <2>1
  <2>. QED BY <2>1, <2>2, <2>3
<1>9. CASE MoveDown
  <2>1. /\ arr' = [arr EXCEPT ![hole] = arr[hole + 1]] /\ hole' = hole + 1
        /\ pc = "down" /\ pc' = "down" /\ hole \in DOMAIN arr
        /\ hole + 1 \in DOMAIN arr /\ hole + 1 # hole
    BY <1>3, <1>9 DEF MoveDown, MustMoveDown, Inv, ShiftingDown
  <2>2. Live = DOMAIN arr \ {hole} /\ Live' = DOMAIN arr \ {hole + 1}
    BY <2>1 DEF Live
  <2>3. arr[hole + 1] = arr'[hole] /\ \A i \in DOMAIN arr \ {hole} : arr'[i] = arr[i]
    BY <2>1
  <2>. QED BY <2>1, <2>2, <2>3
<1>10. CASE Shrink
  <2>1. /\ arr' = [i \in 0 .. size - 2 |-> arr[i]] /\ pc = "down" /\ pc' = "idle"
        /\ hole \in 0 .. size - 1 /\ ~(hole + 1 < size)
    BY <1>3, <1>10 DEF Shrink, MustMoveDown, Return, Inv, ShiftingDown
  <2>2. 0 .. size - 2 = DOMAIN arr \ {hole}
    BY <1>3, <2>1
  <2>3. Live = DOMAIN arr \ {hole} /\ Live' = DOMAIN arr \ {hole}
    BY <2>1, <2>2 DEF Live
  <2>. QED BY <2>1, <2>2, <2>3
<1>. QED BY <1>4, <1>5, <1>6, <1>7, <1>8, <1>9, <1>10 DEF Next, Step, Takes

LEMMA AddTakes ==
  ASSUME Inv, Inv', Replace \/ Place
  PROVE  Promise!Add(op.key, op.value % valueLimit)
<1>. DEFINE h    == IF pc = "up" THEN hole ELSE mid
            pair == packElement(op.key, op.value)
<1>1. Unique(arr, Live) /\ Unique(arr, Live)'
  BY KeysUnique, PTL
<1>2. /\ arr' = [arr EXCEPT ![h] = pair] /\ h \in DOMAIN arr /\ pc' = "idle"
      /\ Live = IF pc = "up" THEN DOMAIN arr \ {h} ELSE DOMAIN arr
      /\ h \in Live => keyAt(h) = op.key
  <2>1. CASE Replace
    BY <2>1, MiddleInRange DEF Replace, Return, Hit
  <2>2. CASE Place
    BY <2>2 DEF Place, Return, Inv, ShiftingUp, Live
  <2>. QED BY <2>1, <2>2
<1>3. pair \div valueLimit = op.key /\ pair % valueLimit = op.value % valueLimit
  BY OpKey DEF Inv
<1>. HIDE DEF h, pair
<1>4. DOMAIN arr' = DOMAIN arr /\ Live' = DOMAIN arr
  BY <1>2 DEF Live
<1>5. /\ h \in Live' /\ Live' \ {h} = Live \ {h} /\ arr'[h] = pair
      /\ \A i \in Live \ {h} : arr'[i] = arr[i]
      /\ h \in Live => Key(arr[h]) = Key(pair)
  BY <1>2, <1>3, <1>4 DEF Key, keyAt, Live
<1>6. MapOf(arr', Live') =
        [k \in DOMAIN MapOf(arr, Live) \cup {Key(pair)} |->
           IF k = Key(pair) THEN pair % valueLimit ELSE MapOf(arr, Live)[k]]
  <2>1. Unique(arr', Live')
    BY <1>1 DEF Unique, Key
  <2>. QED BY <1>1, <1>5, <2>1, OnePairWritten
<1>7. Contents = MapOf(arr, Live) /\ Contents' = MapOf(arr', Live')
  BY DEF Contents, MapOf, Key, keyAt, at
<1>8. Key(pair) = op.key
  BY <1>3 DEF Key
<1>. QED BY <1>3, <1>6, <1>7, <1>8 DEF Promise!Add

LEMMA EraseTakes ==
  ASSUME Inv, EraseFound \/ \E i \in DOMAIN arr : eraseAt(i)
  PROVE  \E key \in DOMAIN Contents : Promise!Erase(key)
<1>1. PICK h \in Live : arr' = arr /\ Live' = Live \ {h}
  <2>1. CASE EraseFound
    BY <2>1, MiddleInRange DEF EraseFound, Live
  <2>2. CASE \E i \in DOMAIN arr : eraseAt(i)
    BY <2>2 DEF eraseAt, Live
  <2>. QED BY <2>1, <2>2
<1>2. Unique(arr, Live)
  BY KeysUnique
<1>3. MapOf(arr', Live') =
        [k \in DOMAIN MapOf(arr, Live) \ {Key(arr[h])} |-> MapOf(arr, Live)[k]]
  BY <1>1, <1>2, OnePairDropped
<1>4. Contents = MapOf(arr, Live) /\ Contents' = MapOf(arr', Live')
  BY DEF Contents, MapOf, Key, keyAt, at
<1>5. Key(arr[h]) \in DOMAIN Contents
  BY <1>1, <1>2, <1>4, MapOfAt
<1>. QED BY <1>3, <1>4, <1>5 DEF Promise!Erase

KnownKeys == DOMAIN Contents \subseteq Keys

LEMMA StepRefines ==
  ASSUME Inv, Inv', KnownKeys, [Next]_vars
  PROVE  [Promise!Next]_Contents /\ KnownKeys'
<1>1. CASE ~Takes
  BY <1>1, OtherStepsKeep DEF KnownKeys
<1>2. CASE Replace \/ Place
  <2>1. Promise!Add(op.key, op.value % valueLimit)
    BY <1>2, AddTakes
  <2>2. op.key \in Keys
    BY <1>2 DEF Replace, Hit, Place, Inv, Searching, ShiftingUp
  <2>3. op.value % valueLimit \in 0 .. valueLimit - 1
    BY OpKey, MapAssumption DEF Inv
  <2>4. Promise!Next
    BY <2>1, <2>2, <2>3 DEF Promise!Next
  <2>5. DOMAIN Contents' = DOMAIN Contents \cup {op.key}
    BY <2>1 DEF Promise!Add
  <2>. QED BY <2>2, <2>4, <2>5 DEF KnownKeys
<1>3. CASE EraseFound \/ \E i \in DOMAIN arr : eraseAt(i)
  <2>1. PICK key \in DOMAIN Contents : Promise!Erase(key)
    BY <1>3, EraseTakes
  <2>2. Promise!Next
    BY <2>1 DEF Promise!Next, KnownKeys
  <2>3. DOMAIN Contents' \subseteq DOMAIN Contents
    BY <2>1 DEF Promise!Erase
  <2>. QED BY <2>2, <2>3 DEF KnownKeys
<1>. QED BY <1>1, <1>2, <1>3 DEF Takes

\* The loops of add(), erase() and eraseAt() have the effect of a finite map, in
\* one step each, for all sizes of keys and values and all sequences of calls.
THEOREM MapRefinement == Spec => ImplementsMap
<1>1. Init => Promise!Init /\ KnownKeys
  <2>. SUFFICES ASSUME Init PROVE Promise!Init /\ KnownKeys
    OBVIOUS
  <2>1. Live = {}
    BY DEF Init, Live
  <2>2. Contents = [key \in {} |-> 0]
    BY <2>1 DEF Contents
  <2>. QED BY <2>2 DEF Promise!Init, KnownKeys
<1>2. Inv /\ Inv' /\ KnownKeys /\ [Next]_vars
        => [Promise!Next]_Contents /\ KnownKeys'
  BY StepRefines
<1>. QED BY <1>1, <1>2, Invariance, PTL DEF Spec, ImplementsMap, Promise!Spec

=============================================================================
