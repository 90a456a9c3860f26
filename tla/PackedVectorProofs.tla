------------------------- MODULE PackedVectorProofs -------------------------
(***************************************************************************)
(* PackedVector, for words and elements of any width and any number of     *)
(* vectors: who owns which array, that no element lies outside its array,  *)
(* and that the packed elements are the abstract sequences.                *)
(***************************************************************************)
EXTENDS PackedVector, NumberLemmas, FiniteSetTheorems

-----------------------------------------------------------------------------
(***************************************************************************)
(* Bits.  Bit g of an array is the one that its words, one after the       *)
(* other, have at that place; element i has the bits from i * elemSize on. *)
(***************************************************************************)
Array(n) == [0 .. n - 1 -> SUBSET Bits]

Bit(arr, g) == (g % WORD_BITS) \in arr[g \div WORD_BITS]

\* The width of the elements of w and their mask.
MaskFitting(w) == w.elemSize \in Bits /\ w.elemMask = 0 .. w.elemSize - 1

\* The part of a word that an element of w keeps.
Kept(w, e) == e \cap (0 .. w.elemSize - 1)

\* Element i lies within n words.
Within(w, i, n) == i * w.elemSize + w.elemSize <= WORD_BITS * n

LEMMA ElemMaskIs ==
  ASSUME NEW n \in Bits
  PROVE  ElemMask(n) = 0 .. n - 1
  <1>1. WORD_BITS \in Nat \ {0}
    BY VectorAssumption
  <1>2. \A b \in Bits : b - n \in Bits <=> n <= b
    BY <1>1 DEF Bits
  <1>3. \A b : b \in ElemMask(n) <=> b \in Bits /\ ~(n <= b)
    BY <1>2 DEF ElemMask, ShiftLeft
  <1>4. \A b : b \in ElemMask(n) <=> b \in 0 .. n - 1
    BY <1>1, <1>3 DEF Bits
  <1> QED BY <1>4

\* Where the bits of an element are: in word w from fb on, and in the next one
\* from where w ends.
Placed(at, es, n, w, fb) ==
  /\ at \div WORD_BITS = w
  /\ at % WORD_BITS = fb
  /\ at = WORD_BITS * w + fb
  /\ es # 0 => w < n
  /\ fb + es > WORD_BITS => w + 1 < n
  /\ \A b \in 0 .. es - 1 :
       /\ fb + b < WORD_BITS => /\ (at + b) \div WORD_BITS = w
                                /\ (at + b) % WORD_BITS = fb + b
       /\ fb + b >= WORD_BITS => /\ (at + b) \div WORD_BITS = w + 1
                                 /\ (at + b) % WORD_BITS = fb + b - WORD_BITS

LEMMA Place ==
  ASSUME NEW es \in Bits, NEW at \in Nat, NEW n \in Nat, at + es <= WORD_BITS * n
  PROVE  \E w \in Nat, fb \in Bits : Placed(at, es, n, w, fb)
  <1>1. WORD_BITS \in Nat \ {0} /\ es \in Nat /\ es < WORD_BITS
    BY VectorAssumption DEF Bits
  <1>2. PICK w \in Nat, fb \in 0 .. WORD_BITS - 1 :
          at \div WORD_BITS = w /\ at % WORD_BITS = fb /\ at = WORD_BITS * w + fb
    BY <1>1, DivMod
  <1>3. fb \in Bits /\ fb < WORD_BITS
    BY <1>1, <1>2 DEF Bits
  <1>4. es # 0 => w < n
    <2> SUFFICES ASSUME es # 0, ~(w < n) PROVE FALSE
      OBVIOUS
    <2>1. WORD_BITS * n <= WORD_BITS * w
      BY <1>1, <1>2
    <2> QED BY <1>1, <1>2, <2>1
  <1>5. fb + es > WORD_BITS => w + 1 < n
    <2> SUFFICES ASSUME fb + es > WORD_BITS, ~(w + 1 < n) PROVE FALSE
      OBVIOUS
    <2>1. WORD_BITS * n <= WORD_BITS * (w + 1)
      BY <1>1, <1>2
    <2>2. WORD_BITS * (w + 1) = WORD_BITS * w + WORD_BITS
      BY <1>1
    <2> QED BY <1>1, <1>2, <2>1, <2>2
  <1>6. ASSUME NEW b \in 0 .. es - 1, fb + b < WORD_BITS
        PROVE  (at + b) \div WORD_BITS = w /\ (at + b) % WORD_BITS = fb + b
    <2>1. PICK r \in 0 .. WORD_BITS - 1 : r = fb + b
      BY <1>1, <1>2, <1>6
    <2>2. PICK a : a = at + b /\ a = WORD_BITS * w + r
      BY <1>1, <1>2, <2>1
    <2>3. a \div WORD_BITS = w /\ a % WORD_BITS = r
      BY <1>1, <2>2, DivUnique
    <2> QED BY <2>1, <2>2, <2>3
  <1>7. ASSUME NEW b \in 0 .. es - 1, fb + b >= WORD_BITS
        PROVE  (at + b) \div WORD_BITS = w + 1 /\ (at + b) % WORD_BITS = fb + b - WORD_BITS
    <2>1. PICK r \in 0 .. WORD_BITS - 1 : r = fb + b - WORD_BITS
      BY <1>1, <1>2, <1>7
    <2>2. PICK q \in Nat : q = w + 1
      OBVIOUS
    <2>3. WORD_BITS * q = WORD_BITS * w + WORD_BITS
      BY <1>1, <2>2
    <2>4. PICK a : a = at + b /\ a = WORD_BITS * q + r
      BY <1>1, <1>2, <2>1, <2>3
    <2>5. a \div WORD_BITS = q /\ a % WORD_BITS = r
      BY <1>1, <2>4, DivUnique
    <2> QED BY <2>1, <2>2, <2>4, <2>5
  <1>8. Placed(at, es, n, w, fb)
    BY <1>2, <1>4, <1>5, <1>6, <1>7 DEF Placed
  <1> QED BY <1>3, <1>8

\* get() reads the bits of the element, from one word or from two.
LEMMA GetInIs ==
  ASSUME NEW n \in Nat, NEW arr \in Array(n), NEW v, MaskFitting(v),
         NEW i \in Nat, Within(v, i, n)
  PROVE  GetIn(arr, v, i) = {b \in 0 .. v.elemSize - 1 : Bit(arr, i * v.elemSize + b)}
  <1>1. PICK es \in Bits : es = v.elemSize
    BY DEF MaskFitting
  <1>2. WORD_BITS \in Nat \ {0} /\ es \in Nat /\ es < WORD_BITS
    BY VectorAssumption DEF Bits
  <1>3. PICK at \in Nat : at = i * es
    BY <1>2, Products
  <1>4. PICK w \in Nat, fb \in Bits : Placed(at, es, n, w, fb)
    BY <1>1, <1>3, Place DEF Within
  <1>5. fb \in Nat /\ fb < WORD_BITS
    BY <1>2 DEF Bits
  <1>6. GetIn(arr, v, i) = IF fb + es <= WORD_BITS THEN ShiftRight(arr[w], fb) \cap (0 .. es - 1)
                           ELSE ShiftRight(arr[w], fb)
                                  \cup (ShiftLeft(arr[w + 1], WORD_BITS - fb) \cap (0 .. es - 1))
    BY <1>1, <1>3, <1>4 DEF GetIn, MaskFitting, Placed
  <1>7. ASSUME NEW b \in 0 .. es - 1, fb + b < WORD_BITS
        PROVE  Bit(arr, at + b) <=> b + fb \in arr[w]
    BY <1>2, <1>4, <1>5, <1>7 DEF Bit, Placed
  <1>8. ASSUME NEW b \in 0 .. es - 1, ~(fb + b < WORD_BITS)
        PROVE  Bit(arr, at + b) <=> b - (WORD_BITS - fb) \in arr[w + 1]
    <2>1. fb + b >= WORD_BITS /\ b - (WORD_BITS - fb) = fb + b - WORD_BITS
      BY <1>2, <1>5, <1>8
    <2> QED BY <1>4, <2>1 DEF Bit, Placed
  <1>9. \A b : b \in ShiftRight(arr[w], fb) <=> b \in Bits /\ b + fb \in arr[w]
    BY DEF ShiftRight
  <1>10. \A b : b \in ShiftLeft(arr[w + 1], WORD_BITS - fb) <=>
                b \in Bits /\ b - (WORD_BITS - fb) \in arr[w + 1]
    BY DEF ShiftLeft
  <1>11. \A b \in 0 .. es - 1 : b \in Bits /\ b \in Nat /\ b < es
    BY <1>2 DEF Bits
  <1>12. ASSUME NEW b PROVE b \in GetIn(arr, v, i) <=> b \in 0 .. es - 1 /\ Bit(arr, at + b)
    <2>1. CASE fb + es <= WORD_BITS
      <3>1. b \in 0 .. es - 1 => fb + b < WORD_BITS
        BY <1>2, <1>5, <2>1
      <3> QED BY <1>6, <1>7, <1>9, <1>11, <2>1, <3>1
    <2>2. CASE ~(fb + es <= WORD_BITS)
      <3>1. arr[w] \in SUBSET Bits /\ arr[w + 1] \in SUBSET Bits
        <4>1. w + 1 < n
          BY <1>2, <1>4, <1>5, <2>2 DEF Placed
        <4>2. w \in 0 .. n - 1 /\ w + 1 \in 0 .. n - 1
          BY <4>1
        <4> QED BY <4>2 DEF Array
      <3>2. b \in Bits /\ b + fb \in arr[w] => b \in 0 .. es - 1 /\ fb + b < WORD_BITS
        BY <1>2, <1>5, <2>2, <3>1 DEF Bits
      <3>3. b \in 0 .. es - 1 /\ fb + b < WORD_BITS => ~(b - (WORD_BITS - fb) \in arr[w + 1])
        BY <1>2, <1>5, <3>1 DEF Bits
      <3>4. b \in 0 .. es - 1 /\ ~(fb + b < WORD_BITS) => ~(b + fb \in arr[w])
        BY <1>2, <1>5, <3>1 DEF Bits
      <3>5. b \in GetIn(arr, v, i) <=>
              \/ b \in Bits /\ b + fb \in arr[w]
              \/ b \in Bits /\ b - (WORD_BITS - fb) \in arr[w + 1] /\ b \in 0 .. es - 1
        BY <1>6, <1>9, <1>10, <2>2
      <3>6. CASE b \notin 0 .. es - 1
        BY <3>2, <3>5, <3>6
      <3>7. CASE b \in 0 .. es - 1 /\ fb + b < WORD_BITS
        BY <1>7, <1>11, <3>3, <3>5, <3>7
      <3>8. CASE b \in 0 .. es - 1 /\ ~(fb + b < WORD_BITS)
        BY <1>8, <1>11, <3>4, <3>5, <3>8
      <3> QED BY <3>6, <3>7, <3>8
    <2> QED BY <2>1, <2>2
  <1> QED BY <1>1, <1>3, <1>12

\* set() writes the bits of the element and no other: whatever they were, in
\* one word or in two.
LEMMA SetInBits ==
  ASSUME NEW n \in Nat, NEW arr \in Array(n), NEW v, MaskFitting(v),
         NEW i \in Nat, Within(v, i, n), NEW e, NEW at, at = i * v.elemSize
  PROVE  /\ SetIn(arr, v, i, e) \in Array(n)
         /\ \A g \in 0 .. WORD_BITS * n - 1 :
              Bit(SetIn(arr, v, i, e), g) <=> IF g - at \in 0 .. v.elemSize - 1 THEN g - at \in e
                                              ELSE Bit(arr, g)
  <1> DEFINE new == SetIn(arr, v, i, e)
  <1>1. PICK es \in Bits : es = v.elemSize
    BY DEF MaskFitting
  <1>2. WORD_BITS \in Nat \ {0} /\ es \in Nat /\ es < WORD_BITS
    BY VectorAssumption DEF Bits
  <1>3. at \in Nat
    BY <1>1, <1>2, Products
  <1>4. PICK w \in Nat, fb \in Bits : Placed(at, es, n, w, fb)
    BY <1>1, <1>3, Place DEF Within
  <1>5. fb \in Nat /\ fb < WORD_BITS
    BY <1>2 DEF Bits
  <1>6. PICK first :
          first = [arr EXCEPT ![w] = (@ \ ShiftLeft(0 .. es - 1, fb))
                                       \cup ShiftLeft(e \cap (0 .. es - 1), fb)]
    OBVIOUS
  <1>7. new = IF fb + es <= WORD_BITS THEN first
              ELSE [first EXCEPT ![w + 1] =
                      (@ \ ShiftRight(0 .. es - 1, WORD_BITS - fb))
                        \cup ShiftRight(e \cap (0 .. es - 1), WORD_BITS - fb)]
    BY <1>1, <1>4, <1>6 DEF SetIn, MaskFitting, Placed
  <1>8. \A x, s : ShiftLeft(s, x) \in SUBSET Bits /\ ShiftRight(s, x) \in SUBSET Bits
    BY DEF ShiftLeft, ShiftRight
  <1>9. first \in Array(n)
    BY <1>6, <1>8 DEF Array
  <1>10. new \in Array(n)
    BY <1>7, <1>8, <1>9 DEF Array
  <1>11. ASSUME NEW q \in 0 .. n - 1, NEW b \in Bits
         PROVE  b \in first[q] <=> IF q = w /\ b - fb \in 0 .. es - 1 THEN b - fb \in e
                                   ELSE b \in arr[q]
    <2>1. CASE q # w
      BY <1>6, <2>1 DEF Array
    <2>2. CASE q = w
      <3>1. first[q] = (arr[q] \ ShiftLeft(0 .. es - 1, fb)) \cup ShiftLeft(e \cap (0 .. es - 1), fb)
        BY <1>6, <2>2 DEF Array
      <3> QED BY <2>2, <3>1 DEF ShiftLeft
    <2> QED BY <2>1, <2>2
  <1>12. ASSUME NEW q \in 0 .. n - 1, NEW b \in Bits
         PROVE  b \in new[q] <=>
                  IF q = w /\ b - fb \in 0 .. es - 1 THEN b - fb \in e
                  ELSE IF q = w + 1 /\ fb + es > WORD_BITS /\ b + (WORD_BITS - fb) \in 0 .. es - 1
                       THEN b + (WORD_BITS - fb) \in e
                       ELSE b \in arr[q]
    <2>1. CASE fb + es <= WORD_BITS
      BY <1>2, <1>5, <1>7, <1>11, <2>1
    <2>2. CASE fb + es > WORD_BITS /\ q # w + 1
      BY <1>2, <1>5, <1>7, <1>9, <1>11, <2>2 DEF Array
    <2>3. CASE fb + es > WORD_BITS /\ q = w + 1
      <3>1. new[q] = (first[q] \ ShiftRight(0 .. es - 1, WORD_BITS - fb))
                       \cup ShiftRight(e \cap (0 .. es - 1), WORD_BITS - fb)
        <4>1. ~(fb + es <= WORD_BITS)
          BY <1>2, <1>5, <2>3
        <4> QED BY <1>7, <1>9, <2>3, <4>1 DEF Array
      <3>2. q # w
        BY <2>3
      <3>3. b \in first[q] <=> b \in arr[q]
        BY <1>11, <3>2
      <3> QED BY <2>3, <3>1, <3>2, <3>3 DEF ShiftRight
    <2>4. fb + es <= WORD_BITS \/ fb + es > WORD_BITS
      BY <1>2, <1>5
    <2> QED BY <2>1, <2>2, <2>3, <2>4
  <1>13. ASSUME NEW g \in 0 .. WORD_BITS * n - 1
         PROVE  Bit(new, g) <=> IF g - at \in 0 .. es - 1 THEN g - at \in e ELSE Bit(arr, g)
    <2>1. g \in Nat /\ g < WORD_BITS * n
      <3>1. WORD_BITS * n \in Nat
        BY <1>2
      <3> QED BY <3>1
    <2>2. PICK q \in Nat, b \in 0 .. WORD_BITS - 1 :
            g \div WORD_BITS = q /\ g % WORD_BITS = b /\ g = WORD_BITS * q + b
      BY <1>2, <2>1, DivMod
    <2>3. q \in 0 .. n - 1
      <3> SUFFICES ASSUME ~(q < n) PROVE FALSE
        OBVIOUS
      <3>1. WORD_BITS * n <= WORD_BITS * q
        BY <1>2, <2>2
      <3>2. WORD_BITS * n \in Nat /\ WORD_BITS * q \in Nat
        BY <1>2
      <3> QED BY <2>1, <2>2, <3>1, <3>2
    <2>4. b \in Bits
      BY <2>2 DEF Bits
    <2>5. (Bit(new, g) <=> b \in new[q]) /\ (Bit(arr, g) <=> b \in arr[q])
      BY <2>2 DEF Bit
    <2>6. at = WORD_BITS * w + fb
      BY <1>4 DEF Placed
    <2>7. CASE q = w
      <3>1. g - at = b - fb
        <4>1. WORD_BITS * q = WORD_BITS * w /\ WORD_BITS * q \in Nat
          BY <1>2, <2>7
        <4> QED BY <1>5, <2>2, <2>6, <4>1
      <3>2. q # w + 1
        BY <2>7
      <3> QED BY <1>12, <2>3, <2>4, <2>5, <2>7, <3>1, <3>2
    <2>8. CASE q = w + 1
      <3>1. g - at = b + (WORD_BITS - fb)
        <4>1. PICK a1 \in Nat, a2 \in Nat : /\ a1 = WORD_BITS * q /\ a2 = WORD_BITS * w
                                            /\ a1 = a2 + WORD_BITS
          BY <1>2, <2>8
        <4> QED BY <1>2, <1>5, <2>2, <2>6, <4>1
      <3>2. q # w
        BY <2>8
      <3>3. b + (WORD_BITS - fb) \in 0 .. es - 1 => fb + es > WORD_BITS
        BY <1>2, <1>5, <2>2
      <3> QED BY <1>12, <2>3, <2>4, <2>5, <2>8, <3>1, <3>2, <3>3
    <2>9. CASE q # w /\ q # w + 1
      <3>1. g - at \notin 0 .. es - 1
        <4>1. PICK a1 \in Nat, a2 \in Nat : a1 = WORD_BITS * q /\ a2 = WORD_BITS * w
          BY <1>2
        <4>2. CASE q < w
          <5>1. a1 + WORD_BITS <= a2
            <6>1. WORD_BITS * (q + 1) <= WORD_BITS * w
              BY <1>2, <4>2
            <6>2. WORD_BITS * (q + 1) = WORD_BITS * q + WORD_BITS
              BY <1>2
            <6> QED BY <4>1, <6>1, <6>2
          <5> QED BY <1>2, <1>5, <2>2, <2>6, <4>1, <5>1
        <4>3. CASE q > w + 1
          <5>1. a2 + WORD_BITS + WORD_BITS <= a1
            <6>1. WORD_BITS * (w + 2) <= WORD_BITS * q
              BY <1>2, <4>3
            <6>2. WORD_BITS * (w + 2) = WORD_BITS * w + WORD_BITS + WORD_BITS
              BY <1>2
            <6> QED BY <4>1, <6>1, <6>2
          <5> QED BY <1>2, <1>5, <2>2, <2>6, <4>1, <5>1
        <4> QED BY <2>9, <4>2, <4>3
      <3> QED BY <1>12, <2>3, <2>4, <2>5, <2>9, <3>1
    <2> QED BY <2>7, <2>8, <2>9
  <1> QED BY <1>1, <1>10, <1>13

\* set() changes the element it is given and no neighbour.
LEMMA SetInIs ==
  ASSUME NEW n \in Nat, NEW arr \in Array(n), NEW v, MaskFitting(v),
         NEW i \in Nat, Within(v, i, n), NEW e, NEW k \in Nat, Within(v, k, n)
  PROVE  GetIn(SetIn(arr, v, i, e), v, k) = IF k = i THEN Kept(v, e) ELSE GetIn(arr, v, k)
  <1>1. PICK es \in Nat : es = v.elemSize /\ es \in Bits
    BY VectorAssumption DEF MaskFitting, Bits
  <1>2. PICK at \in Nat : at = i * es
    BY Products
  <1>3. PICK new : new = SetIn(arr, v, i, e)
    OBVIOUS
  <1>4. /\ new \in Array(n)
        /\ \A g \in 0 .. WORD_BITS * n - 1 :
             Bit(new, g) <=> IF g - at \in 0 .. es - 1 THEN g - at \in e ELSE Bit(arr, g)
    BY <1>1, <1>2, <1>3, SetInBits
  <1>5. GetIn(new, v, k) = IF k = i THEN e \cap (0 .. es - 1) ELSE GetIn(arr, v, k)
    <2>1. PICK ak \in Nat : ak = k * es
      BY Products
    <2>2. ak + es <= WORD_BITS * n /\ WORD_BITS * n \in Nat
      BY <1>1, <2>1, VectorAssumption DEF Within
    <2>3. /\ GetIn(new, v, k) = {b \in 0 .. es - 1 : Bit(new, ak + b)}
          /\ GetIn(arr, v, k) = {b \in 0 .. es - 1 : Bit(arr, ak + b)}
      BY <1>1, <1>4, <2>1, GetInIs
    <2>4. \A b \in 0 .. es - 1 : ak + b \in 0 .. WORD_BITS * n - 1
      BY <2>2
    <2>5. CASE k = i
      <3>1. \A b \in 0 .. es - 1 : (ak + b) - at = b
        BY <1>2, <2>1, <2>5
      <3>2. \A b \in 0 .. es - 1 : Bit(new, ak + b) <=> b \in e
        BY <1>4, <2>4, <3>1
      <3> QED BY <2>3, <2>5, <3>2
    <2>6. CASE k # i
      <3>1. \A b \in 0 .. es - 1 : (ak + b) - at \notin 0 .. es - 1
        <4>1. CASE k < i
          <5>1. ak + es <= at
            BY <1>2, <2>1, <4>1, Products
          <5> QED BY <5>1
        <4>2. CASE i < k
          <5>1. at + es <= ak
            BY <1>2, <2>1, <4>2, Products
          <5> QED BY <5>1
        <4> QED BY <2>6, <4>1, <4>2
      <3>2. \A b \in 0 .. es - 1 : Bit(new, ak + b) <=> Bit(arr, ak + b)
        BY <1>4, <2>4, <3>1
      <3> QED BY <2>3, <2>6, <3>2
    <2> QED BY <2>5, <2>6
  <1> QED BY <1>1, <1>3, <1>5 DEF Kept

\* The words that append() adds behind the others change no element.
LEMMA GetInLonger ==
  ASSUME NEW n \in Nat, NEW arr \in Array(n), NEW l \in Nat, NEW long \in Array(l), n <= l,
         \A q \in 0 .. n - 1 : long[q] = arr[q],
         NEW v, MaskFitting(v), NEW i \in Nat, Within(v, i, n)
  PROVE  GetIn(long, v, i) = GetIn(arr, v, i)
  <1>1. PICK es \in Nat : es = v.elemSize /\ es \in Bits
    BY VectorAssumption DEF MaskFitting, Bits
  <1>2. PICK at \in Nat : at = i * es
    BY Products
  <1>3. WORD_BITS \in Nat \ {0}
    BY VectorAssumption
  <1>4. at + es <= WORD_BITS * n /\ WORD_BITS * n \in Nat /\ WORD_BITS * n <= WORD_BITS * l
    BY <1>1, <1>2, <1>3 DEF Within
  <1>5. Within(v, i, l)
    <2>1. WORD_BITS * l \in Nat
      BY <1>3
    <2> QED BY <1>1, <1>2, <1>4, <2>1 DEF Within
  <1>6. /\ GetIn(arr, v, i) = {b \in 0 .. es - 1 : Bit(arr, at + b)}
        /\ GetIn(long, v, i) = {b \in 0 .. es - 1 : Bit(long, at + b)}
    BY <1>1, <1>2, <1>5, GetInIs
  <1>7. ASSUME NEW b \in 0 .. es - 1 PROVE Bit(long, at + b) <=> Bit(arr, at + b)
    <2>1. PICK g \in Nat : g = at + b /\ g < WORD_BITS * n
      BY <1>1, <1>4
    <2>2. PICK q \in Nat, r \in 0 .. WORD_BITS - 1 :
            g \div WORD_BITS = q /\ g % WORD_BITS = r /\ g = WORD_BITS * q + r
      BY <1>3, <2>1, DivMod
    <2>3. q \in 0 .. n - 1
      <3> SUFFICES ASSUME ~(q < n) PROVE FALSE
        OBVIOUS
      <3>1. WORD_BITS * n <= WORD_BITS * q
        BY <1>3
      <3>2. WORD_BITS * q \in Nat
        BY <1>3
      <3> QED BY <1>4, <2>1, <2>2, <3>1, <3>2
    <2> QED BY <2>1, <2>2, <2>3 DEF Bit
  <1> QED BY <1>6, <1>7

LEMMA GetInFits ==
  ASSUME NEW n \in Nat, NEW arr \in Array(n), NEW v, MaskFitting(v),
         NEW i \in Nat, Within(v, i, n)
  PROVE  Kept(v, GetIn(arr, v, i)) = GetIn(arr, v, i)
  <1>1. GetIn(arr, v, i) \in SUBSET (0 .. v.elemSize - 1)
    BY GetInIs
  <1> QED BY <1>1 DEF Kept

LEMMA WithinBelow ==
  ASSUME NEW v, MaskFitting(v), NEW n \in Nat, NEW i \in Nat, NEW j \in Nat, j <= i, Within(v, i, n)
  PROVE  Within(v, j, n)
  <1>1. PICK es \in Nat : es = v.elemSize
    BY VectorAssumption DEF MaskFitting, Bits
  <1>2. WORD_BITS * n \in Nat
    BY VectorAssumption
  <1>3. i * es \in Nat /\ j * es \in Nat
    BY Products
  <1>4. j < i => j * es + es <= i * es
    BY Products
  <1> QED BY <1>1, <1>2, <1>3, <1>4 DEF Within

\* In new the elements of arr from i to the last but one are one position
\* higher; the others are where they were, and so is the one at i.
Risen(new, arr, v, n, i, last) ==
  /\ new \in Array(n)
  /\ \A k \in Nat : Within(v, k, n) =>
       GetIn(new, v, k) = IF k \in i + 1 .. last THEN GetIn(arr, v, k - 1) ELSE GetIn(arr, v, k)

\* In new those after i are one position lower.
Fallen(new, arr, v, n, i, last) ==
  /\ new \in Array(n)
  /\ \A k \in Nat : Within(v, k, n) =>
       GetIn(new, v, k) = IF k \in i .. last - 1 THEN GetIn(arr, v, k + 1) ELSE GetIn(arr, v, k)

\* The loop of insert().
LEMMA MovedUpIs ==
  ASSUME NEW n \in Nat, NEW arr \in Array(n), NEW v, MaskFitting(v),
         NEW i \in Nat, NEW last \in Nat, i <= last, Within(v, last, n)
  PROVE  Risen(MovedUp(arr, v, i, last), arr, v, n, i, last)
  <1> DEFINE Loop(f) == f = [j \in i .. last |->
                               IF j = last THEN arr
                               ELSE SetIn(f[j + 1], v, j + 1, GetIn(f[j + 1], v, j))]
             moved == CHOOSE f : Loop(f)
  <1>1. PICK rounds \in Nat : rounds = last - i
    OBVIOUS
  <1> DEFINE step == [k \in 0 .. rounds - 1 |-> [x \in Array(n) |->
                        SetIn(x, v, last - k, GetIn(x, v, last - k - 1))]]
  <1>2. \A j \in 0 .. last : Within(v, j, n)
    BY WithinBelow
  <1>3. \A e : \A x \in Array(n), j \in 0 .. last : SetIn(x, v, j, e) \in Array(n)
    BY <1>2, SetInBits
  <1>4. step \in [0 .. rounds - 1 -> [Array(n) -> Array(n)]]
    <2>1. \A k \in 0 .. rounds - 1 : last - k \in 0 .. last
      BY <1>1
    <2> QED BY <1>3, <2>1
  <1>5. PICK f \in [0 .. rounds -> Array(n)] : Runs(f, arr, rounds, step)
    <2> HIDE DEF Loop, moved, step
    <2> QED BY <1>4, Iterates
  <1>6. \A k \in 0 .. rounds - 1 :
          f[k + 1] = SetIn(f[k], v, last - k, GetIn(f[k], v, last - k - 1))
    <2> HIDE DEF Loop, moved
    <2>1. \A k \in 0 .. rounds - 1 : f[k] \in Array(n)
      BY <1>1
    <2> QED BY <1>5, <2>1 DEF Runs
  <1>7. PICK g : g = [j \in i .. last |-> f[last - j]]
    OBVIOUS
  <1>8. \A j \in i .. last :
          g[j] = IF j = last THEN arr ELSE SetIn(g[j + 1], v, j + 1, GetIn(g[j + 1], v, j))
    <2> SUFFICES ASSUME NEW j \in i .. last, j # last
                 PROVE  g[j] = SetIn(g[j + 1], v, j + 1, GetIn(g[j + 1], v, j))
      BY <1>1, <1>5, <1>7 DEF Runs
    <2>1. PICK k \in 0 .. rounds - 1 : k = last - j - 1
      BY <1>1
    <2>2. /\ j + 1 \in i .. last /\ last - (j + 1) = k
          /\ last - j = k + 1 /\ last - k = j + 1 /\ last - k - 1 = j
      BY <2>1
    <2>3. g[j] = f[k + 1] /\ g[j + 1] = f[k]
      BY <1>7, <2>2
    <2> QED BY <1>6, <2>2, <2>3
  <1>9. Loop(g)
    BY <1>7, <1>8
  <1>10. Loop(moved)
    <2> HIDE DEF Loop
    <2> QED BY <1>9
  <1>11. MovedUp(arr, v, i, last) = moved[i]
    BY DEF MovedUp
  <1> HIDE DEF moved
  <1> DEFINE Right(j) == Risen(moved[j], arr, v, n, j, last)
             T == {k \in 0 .. rounds : Right(last - k)}
  <1>12. Right(last)
    <2>1. moved[last] = arr
      BY <1>10
    <2>2. \A k \in Nat : k \notin last + 1 .. last
      OBVIOUS
    <2> QED BY <2>1, <2>2 DEF Risen
  <1>13. ASSUME NEW j \in i .. last, j # last, Right(j + 1) PROVE Right(j)
    <2>1. PICK x \in Array(n) : x = moved[j + 1]
      BY <1>13 DEF Risen
    <2>2. moved[j] = SetIn(x, v, j + 1, GetIn(x, v, j))
      BY <1>10, <1>13, <2>1
    <2>3. j \in Nat /\ j + 1 \in 0 .. last /\ j \in 0 .. last /\ j + 1 \in Nat
      BY <1>13
    <2>4. /\ moved[j] \in Array(n)
          /\ \A k \in Nat : Within(v, k, n) =>
               GetIn(moved[j], v, k) = IF k = j + 1 THEN Kept(v, GetIn(x, v, j))
                                       ELSE GetIn(x, v, k)
      <3>1. Within(v, j + 1, n)
        BY <1>2, <2>3
      <3> HIDE DEF Loop, step, Right, T
      <3>2. moved[j] \in Array(n)
        BY <2>2, <2>3, <3>1, SetInBits
      <3>3. ASSUME NEW k \in Nat, Within(v, k, n)
            PROVE  GetIn(moved[j], v, k) = IF k = j + 1 THEN Kept(v, GetIn(x, v, j))
                                           ELSE GetIn(x, v, k)
        BY <2>2, <2>3, <3>1, <3>3, SetInIs
      <3> QED BY <3>2, <3>3
    <2>5. Kept(v, GetIn(x, v, j)) = GetIn(x, v, j)
      BY <1>2, <2>3, GetInFits
    <2>6. \A k \in Nat : Within(v, k, n) =>
            GetIn(x, v, k) = IF k \in (j + 1) + 1 .. last THEN GetIn(arr, v, k - 1)
                             ELSE GetIn(arr, v, k)
      BY <1>13, <2>1 DEF Risen
    <2>7. GetIn(x, v, j) = GetIn(arr, v, j)
      <3>1. j \notin (j + 1) + 1 .. last
        OBVIOUS
      <3> QED BY <1>2, <2>3, <2>6, <3>1
    <2>8. ASSUME NEW k \in Nat, Within(v, k, n)
          PROVE  GetIn(moved[j], v, k) = IF k \in j + 1 .. last THEN GetIn(arr, v, k - 1)
                                         ELSE GetIn(arr, v, k)
      <3>1. CASE k = j + 1
        <4>1. k \in j + 1 .. last /\ k - 1 = j
          BY <2>3, <3>1
        <4> QED BY <2>4, <2>5, <2>7, <2>8, <3>1, <4>1
      <3>2. CASE k # j + 1
        <4>1. k \in j + 1 .. last <=> k \in (j + 1) + 1 .. last
          BY <3>2
        <4> QED BY <2>4, <2>6, <2>8, <3>2, <4>1
      <3> QED BY <3>1, <3>2
    <2> QED BY <2>4, <2>8 DEF Risen
  <1>14. rounds \in T
    <2>1. 0 \in T
      BY <1>12
    <2>2. \A k \in 0 .. rounds - 1 : k \in T => k + 1 \in T
      <3> SUFFICES ASSUME NEW k \in 0 .. rounds - 1, Right(last - k) PROVE k + 1 \in T
        OBVIOUS
      <3>1. PICK j \in i .. last : j = last - k - 1
        BY <1>1
      <3>2. j # last /\ j + 1 = last - k /\ j = last - (k + 1)
        BY <3>1
      <3>3. Right(j)
        <4> HIDE DEF Right
        <4> QED BY <1>13, <3>2
      <3>4. k + 1 \in 0 .. rounds
        OBVIOUS
      <3> HIDE DEF Right
      <3> QED BY <3>2, <3>3, <3>4
    <2> HIDE DEF T
    <2>3. \A k \in 0 .. rounds : k \in T
      BY <2>1, <2>2, Rounds
    <2> QED BY <1>1, <2>3
  <1>15. Right(i)
    <2>1. last - rounds = i
      BY <1>1
    <2> HIDE DEF Right
    <2> QED BY <1>14, <2>1
  <1> QED BY <1>11, <1>15

\* The loop of erase().
LEMMA MovedDownIs ==
  ASSUME NEW n \in Nat, NEW arr \in Array(n), NEW v, MaskFitting(v),
         NEW i \in Nat, NEW last \in Nat, i <= last, Within(v, last, n)
  PROVE  Fallen(MovedDown(arr, v, i, last), arr, v, n, i, last)
  <1> DEFINE Loop(f) == f = [j \in i .. last |->
                               IF j = i THEN arr
                               ELSE SetIn(f[j - 1], v, j - 1, GetIn(f[j - 1], v, j))]
             moved == CHOOSE f : Loop(f)
  <1>1. PICK rounds \in Nat : rounds = last - i
    OBVIOUS
  <1> DEFINE step == [k \in 0 .. rounds - 1 |-> [x \in Array(n) |->
                        SetIn(x, v, i + k, GetIn(x, v, i + k + 1))]]
  <1>2. \A j \in 0 .. last : Within(v, j, n)
    BY WithinBelow
  <1>3. \A e : \A x \in Array(n), j \in 0 .. last : SetIn(x, v, j, e) \in Array(n)
    BY <1>2, SetInBits
  <1>4. step \in [0 .. rounds - 1 -> [Array(n) -> Array(n)]]
    <2>1. \A k \in 0 .. rounds - 1 : i + k \in 0 .. last
      BY <1>1
    <2> QED BY <1>3, <2>1
  <1>5. PICK f \in [0 .. rounds -> Array(n)] : Runs(f, arr, rounds, step)
    <2> HIDE DEF Loop, moved, step
    <2> QED BY <1>4, Iterates
  <1>6. \A k \in 0 .. rounds - 1 :
          f[k + 1] = SetIn(f[k], v, i + k, GetIn(f[k], v, i + k + 1))
    <2> HIDE DEF Loop, moved
    <2>1. \A k \in 0 .. rounds - 1 : f[k] \in Array(n)
      BY <1>1
    <2> QED BY <1>5, <2>1 DEF Runs
  <1>7. PICK g : g = [j \in i .. last |-> f[j - i]]
    OBVIOUS
  <1>8. \A j \in i .. last :
          g[j] = IF j = i THEN arr ELSE SetIn(g[j - 1], v, j - 1, GetIn(g[j - 1], v, j))
    <2> SUFFICES ASSUME NEW j \in i .. last, j # i
                 PROVE  g[j] = SetIn(g[j - 1], v, j - 1, GetIn(g[j - 1], v, j))
      BY <1>1, <1>5, <1>7 DEF Runs
    <2>1. PICK k \in 0 .. rounds - 1 : k = j - i - 1
      BY <1>1
    <2>2. /\ j - 1 \in i .. last /\ (j - 1) - i = k
          /\ j - i = k + 1 /\ i + k = j - 1 /\ i + k + 1 = j
      BY <2>1
    <2>3. g[j] = f[k + 1] /\ g[j - 1] = f[k]
      BY <1>7, <2>2
    <2> QED BY <1>6, <2>2, <2>3
  <1>9. Loop(g)
    BY <1>7, <1>8
  <1>10. Loop(moved)
    <2> HIDE DEF Loop
    <2> QED BY <1>9
  <1>11. MovedDown(arr, v, i, last) = moved[last]
    BY DEF MovedDown
  <1> HIDE DEF moved
  <1> DEFINE Right(j) == Fallen(moved[j], arr, v, n, i, j)
             T == {k \in 0 .. rounds : Right(i + k)}
  <1>12. Right(i)
    <2>1. moved[i] = arr
      BY <1>10
    <2>2. \A k \in Nat : k \notin i .. i - 1
      OBVIOUS
    <2> QED BY <2>1, <2>2 DEF Fallen
  <1>13. ASSUME NEW j \in i .. last, j # i, Right(j - 1) PROVE Right(j)
    <2>1. PICK x \in Array(n) : x = moved[j - 1]
      BY <1>13 DEF Fallen
    <2>2. moved[j] = SetIn(x, v, j - 1, GetIn(x, v, j))
      BY <1>10, <1>13, <2>1
    <2>3. j \in Nat /\ j - 1 \in 0 .. last /\ j \in 0 .. last /\ j - 1 \in Nat
      BY <1>13
    <2>4. /\ moved[j] \in Array(n)
          /\ \A k \in Nat : Within(v, k, n) =>
               GetIn(moved[j], v, k) = IF k = j - 1 THEN Kept(v, GetIn(x, v, j))
                                       ELSE GetIn(x, v, k)
      <3>1. Within(v, j - 1, n)
        BY <1>2, <2>3
      <3> HIDE DEF Loop, step, Right, T
      <3>2. moved[j] \in Array(n)
        BY <2>2, <2>3, <3>1, SetInBits
      <3>3. ASSUME NEW k \in Nat, Within(v, k, n)
            PROVE  GetIn(moved[j], v, k) = IF k = j - 1 THEN Kept(v, GetIn(x, v, j))
                                           ELSE GetIn(x, v, k)
        BY <2>2, <2>3, <3>1, <3>3, SetInIs
      <3> QED BY <3>2, <3>3
    <2>5. Kept(v, GetIn(x, v, j)) = GetIn(x, v, j)
      BY <1>2, <2>3, GetInFits
    <2>6. \A k \in Nat : Within(v, k, n) =>
            GetIn(x, v, k) = IF k \in i .. (j - 1) - 1 THEN GetIn(arr, v, k + 1)
                             ELSE GetIn(arr, v, k)
      BY <1>13, <2>1 DEF Fallen
    <2>7. GetIn(x, v, j) = GetIn(arr, v, j)
      <3>1. j \notin i .. (j - 1) - 1
        OBVIOUS
      <3> QED BY <1>2, <2>3, <2>6, <3>1
    <2>8. ASSUME NEW k \in Nat, Within(v, k, n)
          PROVE  GetIn(moved[j], v, k) = IF k \in i .. j - 1 THEN GetIn(arr, v, k + 1)
                                         ELSE GetIn(arr, v, k)
      <3>1. CASE k = j - 1
        <4>1. k \in i .. j - 1 /\ k + 1 = j
          BY <1>13, <2>3, <3>1
        <4> QED BY <2>4, <2>5, <2>7, <2>8, <3>1, <4>1
      <3>2. CASE k # j - 1
        <4>1. k \in i .. j - 1 <=> k \in i .. (j - 1) - 1
          BY <3>2
        <4> QED BY <2>4, <2>6, <2>8, <3>2, <4>1
      <3> QED BY <3>1, <3>2
    <2> QED BY <2>4, <2>8 DEF Fallen
  <1>14. rounds \in T
    <2>1. 0 \in T
      BY <1>12
    <2>2. \A k \in 0 .. rounds - 1 : k \in T => k + 1 \in T
      <3> SUFFICES ASSUME NEW k \in 0 .. rounds - 1, Right(i + k) PROVE k + 1 \in T
        OBVIOUS
      <3>1. PICK j \in i .. last : j = i + k + 1
        BY <1>1
      <3>2. j # i /\ j - 1 = i + k /\ j = i + (k + 1)
        BY <3>1
      <3>3. Right(j)
        <4> HIDE DEF Right
        <4> QED BY <1>13, <3>2
      <3>4. k + 1 \in 0 .. rounds
        OBVIOUS
      <3> HIDE DEF Right
      <3> QED BY <3>2, <3>3, <3>4
    <2> HIDE DEF T
    <2>3. \A k \in 0 .. rounds : k \in T
      BY <2>1, <2>2, Rounds
    <2> QED BY <1>1, <2>3
  <1>15. Right(last)
    <2>1. i + rounds = last
      BY <1>1
    <2> HIDE DEF Right
    <2> QED BY <1>14, <2>1
  <1> QED BY <1>11, <1>15

-----------------------------------------------------------------------------
(***************************************************************************)
(* The memory: vectors and arrays.                                         *)
(***************************************************************************)
VectorType ==
  [elemSize : Bits, elemMask : SUBSET Bits, size : Nat, arr : Nat, capacity : Nat]

\* The vector w has an array of its capacity, with room for its elements.
Fits(w, arrays) ==
  /\ w \in VectorType
  /\ MaskFitting(w)
  /\ w.size * w.elemSize <= WORD_BITS * w.capacity
  /\ w.capacity = 0 => w.size = 0
  /\ IF w.arr = NULL THEN w.capacity = 0
     ELSE w.arr \in DOMAIN arrays /\ arrays[w.arr] \in Array(w.capacity)

\* What holds of the memory between any two operations.
MemoryOK(p) ==
  /\ p = [vec |-> p.vec, heap |-> p.heap]
  /\ IsFiniteSet(DOMAIN p.heap) /\ NULL \notin DOMAIN p.heap
  /\ \A v \in DOMAIN p.vec : Fits(p.vec[v], p.heap)
  /\ \A a \in DOMAIN p.heap : \E v \in DOMAIN p.vec : p.vec[v].arr = a
  /\ \A v, u \in DOMAIN p.vec : p.vec[v].arr = p.vec[u].arr => v = u \/ p.vec[v].arr = NULL

\* The elements of vector v.
ItemsIn(p, v) ==
  [width |-> p.vec[v].elemSize,
   items |-> [i \in 1 .. p.vec[v].size |-> GetIn(p.heap[p.vec[v].arr], p.vec[v], i - 1)]]

\* Every vector but those of X is as before.
Others(p, q, X) ==
  \A u \in DOMAIN p.vec \ X : u \in DOMAIN q.vec /\ ItemsIn(q, u) = ItemsIn(p, u)

\* new finds an address: there are more candidates than arrays.
LEMMA FreshIs ==
  ASSUME NEW p, IsFiniteSet(DOMAIN p.heap)
  PROVE  Fresh(p) \in Nat \ {NULL} /\ Fresh(p) \notin DOMAIN p.heap
  <1> DEFINE n == Cardinality(DOMAIN p.heap)
             T == (1 .. n + 1) \ DOMAIN p.heap
  <1>1. n \in Nat
    BY FS_CardinalityType
  <1>2. T # {}
    <2> SUFFICES ASSUME T = {} PROVE FALSE
      OBVIOUS
    <2>1. 1 .. n + 1 \in SUBSET DOMAIN p.heap
      OBVIOUS
    <2>2. Cardinality(1 .. n + 1) = n + 1
      <3> HIDE DEF n
      <3> QED BY <1>1, FS_Interval
    <2>3. Cardinality(1 .. n + 1) <= n
      BY <2>1, FS_Subset
    <2> QED BY <1>1, <2>2, <2>3
  <1>3. T \in SUBSET Nat
    BY <1>1
  <1>4. Fresh(p) = Min(T)
    BY DEF Fresh
  <1>5. Min(T) \in T
    <2> HIDE DEF T
    <2> QED BY <1>2, <1>3, MinExists
  <1> QED BY <1>1, <1>4, <1>5 DEF NULL

LEMMA ItemsAre ==
  ASSUME NEW q, NEW v, NEW es, NEW n, NEW f, f = [i \in 1 .. n |-> f[i]],
         q.vec[v].elemSize = es, q.vec[v].size = n,
         \A i \in 1 .. n : GetIn(q.heap[q.vec[v].arr], q.vec[v], i - 1) = f[i]
  PROVE  ItemsIn(q, v) = [width |-> es, items |-> f]
  <1>1. PICK g : g = [i \in 1 .. n |-> GetIn(q.heap[q.vec[v].arr], q.vec[v], i - 1)]
    OBVIOUS
  <1>2. g = f
    BY <1>1
  <1>3. ItemsIn(q, v) = [width |-> es, items |-> g]
    BY <1>1 DEF ItemsIn
  <1> QED BY <1>2, <1>3

\* A vector with the fields and the array of another has its elements.
LEMMA Carried ==
  ASSUME NEW p, NEW q, NEW u, NEW x, Fits(p.vec[u], p.heap), q.vec[x] = p.vec[u],
         p.vec[u].arr # NULL => /\ p.vec[u].arr \in DOMAIN q.heap
                                /\ q.heap[p.vec[u].arr] = p.heap[p.vec[u].arr]
  PROVE  Fits(q.vec[x], q.heap) /\ ItemsIn(q, x) = ItemsIn(p, u)
  <1>1. Fits(q.vec[x], q.heap)
    BY DEF Fits
  <1>2. CASE p.vec[u].arr = NULL
    <2>1. p.vec[u].size = 0
      BY <1>2 DEF Fits
    <2>2. ItemsIn(q, x).items = [i \in 1 .. 0 |-> {}] /\ ItemsIn(p, u).items = [i \in 1 .. 0 |-> {}]
      BY <2>1 DEF ItemsIn
    <2> QED BY <1>1, <2>1, <2>2 DEF ItemsIn
  <1>3. CASE p.vec[u].arr # NULL
    BY <1>1, <1>3 DEF ItemsIn
  <1> QED BY <1>2, <1>3

\* A new vector v with an array of its own.
LEMMA Allocated ==
  ASSUME NEW p, MemoryOK(p), NEW v, v \notin DOMAIN p.vec, NEW w, w.arr = Fresh(p), NEW arr,
         w \in VectorType, MaskFitting(w), w.size * w.elemSize <= WORD_BITS * w.capacity,
         w.capacity = 0 => w.size = 0, arr \in Array(w.capacity),
         NEW q, q = [vec |-> With(p.vec, v, w), heap |-> With(p.heap, Fresh(p), arr)]
  PROVE  /\ MemoryOK(q) /\ DOMAIN q.vec = DOMAIN p.vec \cup {v}
         /\ q.vec[v] = w /\ q.heap[w.arr] = arr
         /\ Others(p, q, {v})
  <1>1. PICK a \in Nat \ {NULL} : a = Fresh(p) /\ a \notin DOMAIN p.heap
    BY FreshIs DEF MemoryOK
  <1>2. /\ DOMAIN q.vec = DOMAIN p.vec \cup {v} /\ DOMAIN q.heap = DOMAIN p.heap \cup {a}
        /\ q.vec[v] = w /\ q.heap[a] = arr
        /\ \A u \in DOMAIN p.vec : q.vec[u] = p.vec[u]
        /\ \A b \in DOMAIN p.heap : q.heap[b] = p.heap[b]
    BY <1>1 DEF With
  <1>3. Fits(q.vec[v], q.heap)
    BY <1>1, <1>2 DEF Fits
  <1>4. \A u \in DOMAIN p.vec : /\ Fits(q.vec[u], q.heap) /\ ItemsIn(q, u) = ItemsIn(p, u)
                                /\ q.vec[u].arr = NULL \/ q.vec[u].arr \in DOMAIN p.heap
    <2> SUFFICES ASSUME NEW u \in DOMAIN p.vec
                 PROVE  /\ Fits(q.vec[u], q.heap) /\ ItemsIn(q, u) = ItemsIn(p, u)
                        /\ q.vec[u].arr = NULL \/ q.vec[u].arr \in DOMAIN p.heap
      OBVIOUS
    <2>1. Fits(p.vec[u], p.heap) /\ q.vec[u] = p.vec[u]
      BY <1>2 DEF MemoryOK
    <2>2. p.vec[u].arr = NULL \/ p.vec[u].arr \in DOMAIN p.heap
      BY <2>1 DEF Fits
    <2> QED BY <1>2, <2>1, <2>2, Carried, SMTT(30)
  <1>5. \A u, x \in DOMAIN q.vec : q.vec[u].arr = q.vec[x].arr => u = x \/ q.vec[u].arr = NULL
    BY <1>1, <1>2, <1>4 DEF MemoryOK
  <1>6. \A b \in DOMAIN q.heap : \E u \in DOMAIN q.vec : q.vec[u].arr = b
    BY <1>1, <1>2 DEF MemoryOK
  <1>7. IsFiniteSet(DOMAIN q.heap) /\ NULL \notin DOMAIN q.heap
    BY <1>1, <1>2, FS_AddElement DEF MemoryOK
  <1>8. MemoryOK(q)
    <2>1. q = [vec |-> q.vec, heap |-> q.heap]
      OBVIOUS
    <2> QED BY <1>2, <1>3, <1>4, <1>5, <1>6, <1>7, <2>1 DEF MemoryOK
  <1> QED BY <1>1, <1>2, <1>4, <1>8 DEF Others

\* A new vector without an array.
LEMMA Unallocated ==
  ASSUME NEW p, MemoryOK(p), NEW v, v \notin DOMAIN p.vec, NEW w, w.arr = NULL,
         w \in VectorType, MaskFitting(w), w.capacity = 0, w.size = 0,
         NEW q, q = [vec |-> With(p.vec, v, w), heap |-> p.heap]
  PROVE  /\ MemoryOK(q) /\ DOMAIN q.vec = DOMAIN p.vec \cup {v} /\ q.vec[v] = w
         /\ Others(p, q, {v})
  <1>1. /\ DOMAIN q.vec = DOMAIN p.vec \cup {v} /\ q.heap = p.heap /\ q.vec[v] = w
        /\ \A u \in DOMAIN p.vec : q.vec[u] = p.vec[u]
    BY DEF With
  <1>2. Fits(q.vec[v], q.heap)
    <2>1. w.size * w.elemSize = 0 /\ WORD_BITS * w.capacity = 0
      BY VectorAssumption DEF MaskFitting, Bits
    <2> QED BY <1>1, <2>1 DEF Fits
  <1>3. \A u \in DOMAIN p.vec : /\ Fits(q.vec[u], q.heap) /\ ItemsIn(q, u) = ItemsIn(p, u)
                                /\ q.vec[u].arr = NULL \/ q.vec[u].arr \in DOMAIN p.heap
    <2> SUFFICES ASSUME NEW u \in DOMAIN p.vec
                 PROVE  /\ Fits(q.vec[u], q.heap) /\ ItemsIn(q, u) = ItemsIn(p, u)
                        /\ q.vec[u].arr = NULL \/ q.vec[u].arr \in DOMAIN p.heap
      OBVIOUS
    <2>1. Fits(p.vec[u], p.heap) /\ q.vec[u] = p.vec[u]
      BY <1>1 DEF MemoryOK
    <2>2. p.vec[u].arr = NULL \/ p.vec[u].arr \in DOMAIN p.heap
      BY <2>1 DEF Fits
    <2> QED BY <1>1, <2>1, <2>2, Carried, SMTT(30)
  <1>4. \A u, x \in DOMAIN q.vec : q.vec[u].arr = q.vec[x].arr => u = x \/ q.vec[u].arr = NULL
    <2>1. \A u \in DOMAIN q.vec : q.vec[u].arr # NULL => u \in DOMAIN p.vec /\ q.vec[u] = p.vec[u]
      BY <1>1
    <2> QED BY <1>1, <2>1 DEF MemoryOK
  <1>5. MemoryOK(q)
    <2>1. q = [vec |-> q.vec, heap |-> q.heap]
      OBVIOUS
    <2> QED BY <1>1, <1>2, <1>3, <1>4, <2>1 DEF MemoryOK
  <1> QED BY <1>1, <1>3, <1>5 DEF Others
\* The words of a new array are zero, and so are the elements.
LEMMA ZeroWords ==
  ASSUME NEW n \in Nat, NEW arr \in Array(n), \A k \in 0 .. n - 1 : arr[k] = {},
         NEW v, MaskFitting(v), NEW i \in Nat, Within(v, i, n)
  PROVE  GetIn(arr, v, i) = {}
  <1>1. PICK es \in Nat : es = v.elemSize /\ es \in Bits
    BY VectorAssumption DEF MaskFitting, Bits
  <1>2. PICK at \in Nat : at = i * es
    BY Products
  <1>3. WORD_BITS \in Nat \ {0}
    BY VectorAssumption
  <1>4. at + es <= WORD_BITS * n /\ WORD_BITS * n \in Nat
    BY <1>1, <1>2, <1>3 DEF Within
  <1>5. GetIn(arr, v, i) = {b \in 0 .. es - 1 : Bit(arr, at + b)}
    BY <1>1, <1>2, GetInIs
  <1>6. ASSUME NEW b \in 0 .. es - 1 PROVE ~Bit(arr, at + b)
    <2>1. PICK g \in Nat : g = at + b /\ g < WORD_BITS * n
      BY <1>1, <1>4
    <2>2. PICK q \in Nat, r \in 0 .. WORD_BITS - 1 :
            g \div WORD_BITS = q /\ g % WORD_BITS = r /\ g = WORD_BITS * q + r
      BY <1>3, <2>1, DivMod
    <2>3. q \in 0 .. n - 1
      <3> SUFFICES ASSUME ~(q < n) PROVE FALSE
        OBVIOUS
      <3>1. WORD_BITS * n <= WORD_BITS * q
        BY <1>3
      <3>2. WORD_BITS * q \in Nat
        BY <1>3
      <3> QED BY <1>4, <2>1, <2>2, <3>1, <3>2
    <2> QED BY <2>1, <2>2, <2>3 DEF Bit
  <1> QED BY <1>5, <1>6

\* The elements that size counts lie within the words that capacity counts.
LEMMA ElementsWithin ==
  ASSUME NEW w, MaskFitting(w), w.size \in Nat, w.capacity \in Nat,
         w.size * w.elemSize <= WORD_BITS * w.capacity, NEW i \in 0 .. w.size - 1
  PROVE  Within(w, i, w.capacity)
  <1>1. PICK es \in Nat : es = w.elemSize
    BY VectorAssumption DEF MaskFitting, Bits
  <1>2. PICK n \in Nat : n = w.size
    OBVIOUS
  <1>3. i * es + es <= n * es /\ i * es \in Nat /\ n * es \in Nat
    BY <1>2, Products
  <1>4. WORD_BITS * w.capacity \in Nat
    BY VectorAssumption
  <1> QED BY <1>1, <1>2, <1>3, <1>4 DEF Within

\* PackedVector(elemSize, initialSize): as many zeros.
Built(p, q, v, es, n) ==
  /\ MemoryOK(q) /\ DOMAIN q.vec = DOMAIN p.vec \cup {v}
  /\ ItemsIn(q, v) = [width |-> es, items |-> [i \in 1 .. n |-> {}]]
  /\ Others(p, q, {v})

LEMMA ConstructedIs ==
  ASSUME NEW p, MemoryOK(p), NEW v, v \notin DOMAIN p.vec,
         NEW es \in ElemSizes, NEW n \in Nat, NEW q, q = Constructed(p, v, es, n)
  PROVE  Built(p, q, v, es, n)
  <1>1. WORD_BITS \in Nat \ {0} /\ es \in Nat \ {0} /\ es \in Bits
    BY VectorAssumption DEF Bits
  <1>2. PICK bits \in Nat : bits = n * es /\ n <= bits
    <2>1. n * es \in Nat /\ n * 1 <= n * es
      BY <1>1
    <2> QED BY <2>1
  <1>3. PICK cap \in Nat, r \in 0 .. WORD_BITS - 1 :
          /\ (bits + WORD_BITS - 1) \div WORD_BITS = cap
          /\ bits + WORD_BITS - 1 = WORD_BITS * cap + r
    <2>1. bits + WORD_BITS - 1 \in Nat
      BY <1>1
    <2> QED BY <1>1, <2>1, DivMod
  <1>4. bits <= WORD_BITS * cap /\ WORD_BITS * cap \in Nat
    <2>1. WORD_BITS * cap \in Nat
      BY <1>1
    <2> QED BY <1>1, <1>3, <2>1
  <1>5. ElemMask(es) = 0 .. es - 1
    BY <1>1, ElemMaskIs
  <1>6. 0 .. es - 1 \in SUBSET Bits
    BY <1>1 DEF Bits
  <1>7. PICK w : w = [elemSize |-> es, elemMask |-> ElemMask(es), size |-> n,
                      arr |-> IF cap > 0 THEN Fresh(p) ELSE NULL, capacity |-> cap]
    OBVIOUS
  <1>8. MaskFitting(w) /\ w.size * w.elemSize <= WORD_BITS * w.capacity
    BY <1>1, <1>2, <1>4, <1>5, <1>7 DEF MaskFitting
  <1>9. w \in VectorType
    <2>1. Fresh(p) \in Nat /\ NULL \in Nat
      BY FreshIs DEF MemoryOK, NULL
    <2> QED BY <1>1, <1>5, <1>6, <1>7, <2>1 DEF VectorType
  <1>10. cap = 0 => n = 0
    <2>1. cap = 0 => WORD_BITS * cap = 0
      BY <1>1
    <2> QED BY <1>2, <1>4, <2>1
  <1>11. CASE cap > 0
    <2>1. PICK arr : arr = [k \in 0 .. cap - 1 |-> {}]
      OBVIOUS
    <2>2. arr \in Array(w.capacity)
      BY <1>7, <2>1 DEF Array
    <2>3. q = [vec |-> With(p.vec, v, w), heap |-> With(p.heap, Fresh(p), arr)]
      BY <1>2, <1>3, <1>7, <1>11, <2>1 DEF Constructed
    <2>4. /\ MemoryOK(q) /\ DOMAIN q.vec = DOMAIN p.vec \cup {v}
          /\ q.vec[v] = w /\ q.heap[w.arr] = arr
          /\ Others(p, q, {v})
      <3>1. w.arr = Fresh(p) /\ (w.capacity = 0 => w.size = 0)
        BY <1>7, <1>11
      <3> QED BY <1>8, <1>9, <2>2, <2>3, <3>1, Allocated
    <2>5. \A i \in 1 .. n : GetIn(arr, w, i - 1) = {}
      <3> SUFFICES ASSUME NEW i \in 1 .. n PROVE GetIn(arr, w, i - 1) = {}
        OBVIOUS
      <3>1. i - 1 \in 0 .. w.size - 1 /\ w.size \in Nat /\ w.capacity \in Nat /\ i - 1 \in Nat
        BY <1>7
      <3>2. Within(w, i - 1, w.capacity)
        BY <1>8, <3>1, ElementsWithin
      <3>3. \A k \in 0 .. w.capacity - 1 : arr[k] = {}
        BY <1>7, <2>1
      <3> QED BY <1>8, <2>2, <3>1, <3>2, <3>3, ZeroWords
    <2>6. ItemsIn(q, v) = [width |-> es, items |-> [i \in 1 .. n |-> {}]]
      <3>1. PICK f : f = [i \in 1 .. n |-> {}]
        OBVIOUS
      <3>2. q.vec[v].elemSize = es /\ q.vec[v].size = n
        BY <1>7, <2>4
      <3>3. \A i \in 1 .. n : GetIn(q.heap[q.vec[v].arr], q.vec[v], i - 1) = f[i]
        BY <2>4, <2>5, <3>1
      <3>4. f = [i \in 1 .. n |-> f[i]]
        BY <3>1
      <3>5. ItemsIn(q, v) = [width |-> es, items |-> f]
        BY <3>2, <3>3, <3>4, ItemsAre
      <3> QED BY <3>1, <3>5
    <2> QED BY <2>4, <2>6 DEF Built
  <1>12. CASE ~(cap > 0)
    <2>1. cap = 0 /\ n = 0
      BY <1>10, <1>12
    <2>2. q = [vec |-> With(p.vec, v, w), heap |-> p.heap]
      BY <1>2, <1>3, <1>7, <1>12 DEF Constructed
    <2>3. w.arr = NULL /\ w.capacity = 0 /\ w.size = 0
      BY <1>7, <1>12, <2>1
    <2>4. /\ MemoryOK(q) /\ DOMAIN q.vec = DOMAIN p.vec \cup {v} /\ q.vec[v] = w
          /\ Others(p, q, {v})
      BY <1>8, <1>9, <2>2, <2>3, Unallocated
    <2>5. ItemsIn(q, v).items = [i \in 1 .. n |-> {}] /\ ItemsIn(q, v).width = es
      BY <1>7, <2>1, <2>4 DEF ItemsIn
    <2>6. ItemsIn(q, v) = [width |-> es, items |-> [i \in 1 .. n |-> {}]]
      BY <2>5 DEF ItemsIn
    <2> QED BY <2>4, <2>6 DEF Built
  <1> QED BY <1>11, <1>12

LEMMA NoItems ==
  ASSUME NEW q, NEW v, q.vec[v] = DefaultVector
  PROVE  ItemsIn(q, v) = [width |-> 0, items |-> <<>>]
  <1>1. q.vec[v].elemSize = 0 /\ q.vec[v].size = 0
    BY DEF DefaultVector
  <1>2. PICK f, g : /\ f = [i \in 1 .. 0 |-> GetIn(q.heap[q.vec[v].arr], q.vec[v], i - 1)]
                    /\ g = q.vec[v].elemSize
    OBVIOUS
  <1>3. ItemsIn(q, v) = [width |-> g, items |-> f]
    BY <1>1, <1>2 DEF ItemsIn
  <1>4. f = <<>>
    BY <1>2
  <1>5. g = 0
    BY <1>1, <1>2
  <1> QED BY <1>3, <1>4, <1>5

\* PackedVector(): no element, no array.
LEMMA DefaultIs ==
  ASSUME NEW p, MemoryOK(p), NEW v, v \notin DOMAIN p.vec,
         NEW q, q = [p EXCEPT !.vec = With(@, v, DefaultVector)]
  PROVE  /\ MemoryOK(q) /\ DOMAIN q.vec = DOMAIN p.vec \cup {v} /\ q.vec[v] = DefaultVector
         /\ ItemsIn(q, v) = [width |-> 0, items |-> <<>>]
         /\ Others(p, q, {v})
  <1>1. q = [vec |-> With(p.vec, v, DefaultVector), heap |-> p.heap]
    BY DEF MemoryOK
  <1>2. DefaultVector \in VectorType /\ MaskFitting(DefaultVector)
    <2>1. 0 \in Bits
      BY VectorAssumption DEF Bits
    <2> QED BY <2>1 DEF DefaultVector, VectorType, MaskFitting, NULL
  <1>3. DefaultVector.arr = NULL /\ DefaultVector.capacity = 0 /\ DefaultVector.size = 0
    BY DEF DefaultVector
  <1>4. /\ MemoryOK(q) /\ DOMAIN q.vec = DOMAIN p.vec \cup {v} /\ q.vec[v] = DefaultVector
        /\ Others(p, q, {v})
    BY <1>1, <1>2, <1>3, Unallocated
  <1>5. ItemsIn(q, v) = [width |-> 0, items |-> <<>>]
    BY <1>4, NoItems
  <1> QED BY <1>4, <1>5
\* ~PackedVector(): the vector and its array are gone, and no other has it.
LEMMA DestroyedIs ==
  ASSUME NEW p, MemoryOK(p), NEW v \in DOMAIN p.vec, NEW q, q = Destroyed(p, v)
  PROVE  MemoryOK(q) /\ DOMAIN q.vec = DOMAIN p.vec \ {v} /\ Others(p, q, {v})
  <1>1. PICK a : a = p.vec[v].arr
    OBVIOUS
  <1>2. /\ DOMAIN q.vec = DOMAIN p.vec \ {v} /\ DOMAIN q.heap = DOMAIN p.heap \ {a}
        /\ \A u \in DOMAIN q.vec : q.vec[u] = p.vec[u]
        /\ \A b \in DOMAIN q.heap : q.heap[b] = p.heap[b]
    BY <1>1 DEF Destroyed, Without
  <1>3. \A u \in DOMAIN q.vec : Fits(q.vec[u], q.heap) /\ ItemsIn(q, u) = ItemsIn(p, u)
    <2> SUFFICES ASSUME NEW u \in DOMAIN q.vec
                 PROVE  Fits(q.vec[u], q.heap) /\ ItemsIn(q, u) = ItemsIn(p, u)
      OBVIOUS
    <2>1. u \in DOMAIN p.vec /\ u # v /\ Fits(p.vec[u], p.heap) /\ q.vec[u] = p.vec[u]
      BY <1>2 DEF MemoryOK
    <2>2. p.vec[u].arr # NULL => p.vec[u].arr \in DOMAIN p.heap /\ p.vec[u].arr # a
      BY <1>1, <2>1 DEF Fits, MemoryOK
    <2> QED BY <1>2, <2>1, <2>2, Carried, SMTT(30)
  <1>4. \A b \in DOMAIN q.heap : \E u \in DOMAIN q.vec : q.vec[u].arr = b
    <2> SUFFICES ASSUME NEW b \in DOMAIN q.heap PROVE \E u \in DOMAIN q.vec : q.vec[u].arr = b
      OBVIOUS
    <2>1. PICK u \in DOMAIN p.vec : p.vec[u].arr = b
      BY <1>2 DEF MemoryOK
    <2> QED BY <1>1, <1>2, <2>1
  <1>5. IsFiniteSet(DOMAIN q.heap) /\ NULL \notin DOMAIN q.heap
    BY <1>2, FS_Subset DEF MemoryOK
  <1>6. q = [vec |-> q.vec, heap |-> q.heap]
    BY DEF Destroyed
  <1>7. \A u, x \in DOMAIN q.vec : q.vec[u].arr = q.vec[x].arr => u = x \/ q.vec[u].arr = NULL
    BY <1>2 DEF MemoryOK
  <1>8. MemoryOK(q)
    BY <1>3, <1>4, <1>5, <1>6, <1>7 DEF MemoryOK
  <1> QED BY <1>2, <1>3, <1>8 DEF Others

\* PackedVector(const PackedVector&): the same elements in an array of its own.
Copied(p, q, v, u) ==
  /\ MemoryOK(q) /\ DOMAIN q.vec = DOMAIN p.vec \cup {v}
  /\ ItemsIn(q, v) = ItemsIn(p, u)
  /\ Others(p, q, {v})

LEMMA CopyConstructedIs ==
  ASSUME NEW p, MemoryOK(p), NEW v, v \notin DOMAIN p.vec, NEW u \in DOMAIN p.vec,
         NEW q, q = CopyConstructed(p, v, u)
  PROVE  Copied(p, q, v, u)
  <1>1. Fits(p.vec[u], p.heap)
    BY DEF MemoryOK
  <1>2. PICK a \in Nat : a = Fresh(p)
    BY FreshIs DEF MemoryOK
  <1>3. PICK w : w = [p.vec[u] EXCEPT !.arr = a]
    OBVIOUS
  <1>4. /\ w \in VectorType /\ w.arr = a
        /\ w.elemSize = p.vec[u].elemSize /\ w.elemMask = p.vec[u].elemMask
        /\ w.size = p.vec[u].size /\ w.capacity = p.vec[u].capacity
    BY <1>1, <1>3 DEF Fits, VectorType
  <1>5. PICK arr : arr = [k \in 0 .. p.vec[u].capacity - 1 |-> p.heap[p.vec[u].arr][k]]
    OBVIOUS
  <1>6. arr \in Array(w.capacity)
    <2>1. CASE p.vec[u].arr = NULL
      <3>1. w.capacity = 0
        BY <1>1, <1>4, <2>1 DEF Fits
      <3> QED BY <1>4, <1>5, <3>1 DEF Array
    <2>2. CASE p.vec[u].arr # NULL
      BY <1>1, <1>4, <1>5, <2>2 DEF Fits, Array
    <2> QED BY <2>1, <2>2
  <1>7. q = [vec |-> With(p.vec, v, w), heap |-> With(p.heap, Fresh(p), arr)]
    BY <1>2, <1>3, <1>5 DEF CopyConstructed
  <1>8. /\ MemoryOK(q) /\ DOMAIN q.vec = DOMAIN p.vec \cup {v}
        /\ q.vec[v] = w /\ q.heap[w.arr] = arr
        /\ Others(p, q, {v})
    <2>1. MaskFitting(w) /\ w.size * w.elemSize <= WORD_BITS * w.capacity
          /\ (w.capacity = 0 => w.size = 0) /\ w.arr = Fresh(p)
      BY <1>1, <1>2, <1>4 DEF Fits, MaskFitting
    <2>2. w \in VectorType
      BY <1>4
    <2> QED BY <1>6, <1>7, <2>1, <2>2, Allocated
  <1>9. ItemsIn(q, v) = ItemsIn(p, u)
    <2>1. CASE p.vec[u].arr = NULL
      <3>1. w.size = 0 /\ p.vec[u].size = 0
        BY <1>1, <1>4, <2>1 DEF Fits
      <3>2. PICK f : f = [i \in 1 .. 0 |-> {}]
        OBVIOUS
      <3>3. ItemsIn(p, u) = [width |-> p.vec[u].elemSize, items |-> f]
        BY <3>1, <3>2 DEF ItemsIn
      <3>4. ItemsIn(q, v) = [width |-> p.vec[u].elemSize, items |-> f]
        BY <1>4, <1>8, <3>1, <3>2 DEF ItemsIn
      <3> QED BY <3>3, <3>4
    <2>2. CASE p.vec[u].arr # NULL
      <3>1. arr = p.heap[p.vec[u].arr]
        BY <1>1, <1>5, <2>2 DEF Fits, Array
      <3>2. \A k : GetIn(arr, w, k) = GetIn(arr, p.vec[u], k)
        BY <1>4 DEF GetIn
      <3> QED BY <1>4, <1>8, <3>1, <3>2 DEF ItemsIn
    <2> QED BY <2>1, <2>2
  <1> QED BY <1>8, <1>9 DEF Copied

\* swap(): the fields change places.
Exchanged(p, q, v, u) ==
  /\ MemoryOK(q) /\ DOMAIN q.vec = DOMAIN p.vec
  /\ ItemsIn(q, v) = ItemsIn(p, u) /\ ItemsIn(q, u) = ItemsIn(p, v)
  /\ Others(p, q, {v, u})

LEMMA SwappedIs ==
  ASSUME NEW p, MemoryOK(p), NEW v \in DOMAIN p.vec, NEW u \in DOMAIN p.vec, v # u,
         NEW q, q = Swapped(p, v, u)
  PROVE  Exchanged(p, q, v, u)
  <1>1. /\ q = [vec |-> q.vec, heap |-> p.heap] /\ q.heap = p.heap
        /\ DOMAIN q.vec = DOMAIN p.vec
        /\ q.vec[v] = p.vec[u] /\ q.vec[u] = p.vec[v]
        /\ \A x \in DOMAIN p.vec \ {v, u} : q.vec[x] = p.vec[x]
    BY DEF Swapped, MemoryOK
  <1>2. \A x \in DOMAIN p.vec : Fits(p.vec[x], p.heap)
    BY DEF MemoryOK
  <1>3. \A x \in DOMAIN p.vec : p.vec[x].arr # NULL => p.vec[x].arr \in DOMAIN p.heap
    BY <1>2 DEF Fits
  <1>4. ItemsIn(q, v) = ItemsIn(p, u) /\ Fits(q.vec[v], q.heap)
    BY <1>1, <1>2, <1>3, Carried, SMTT(30)
  <1>5. ItemsIn(q, u) = ItemsIn(p, v) /\ Fits(q.vec[u], q.heap)
    BY <1>1, <1>2, <1>3, Carried, SMTT(30)
  <1>6. \A x \in DOMAIN p.vec \ {v, u} : ItemsIn(q, x) = ItemsIn(p, x) /\ Fits(q.vec[x], q.heap)
    BY <1>1, <1>2, <1>3, Carried, SMTT(30)
  <1>7. \A a \in DOMAIN q.heap : \E x \in DOMAIN q.vec : q.vec[x].arr = a
    <2> SUFFICES ASSUME NEW a \in DOMAIN q.heap PROVE \E x \in DOMAIN q.vec : q.vec[x].arr = a
      OBVIOUS
    <2>1. PICK x \in DOMAIN p.vec : p.vec[x].arr = a
      BY <1>1 DEF MemoryOK
    <2> QED BY <1>1, <2>1
  <1>8. \A x, y \in DOMAIN q.vec : q.vec[x].arr = q.vec[y].arr => x = y \/ q.vec[x].arr = NULL
    <2> SUFFICES ASSUME NEW x \in DOMAIN q.vec, NEW y \in DOMAIN q.vec,
                        q.vec[x].arr = q.vec[y].arr, q.vec[x].arr # NULL
                 PROVE  x = y
      OBVIOUS
    <2>1. PICK x1 \in DOMAIN p.vec : x1 = IF x = v THEN u ELSE IF x = u THEN v ELSE x
      BY <1>1
    <2>2. PICK y1 \in DOMAIN p.vec : y1 = IF y = v THEN u ELSE IF y = u THEN v ELSE y
      BY <1>1
    <2>3. q.vec[x] = p.vec[x1] /\ q.vec[y] = p.vec[y1]
      BY <1>1, <2>1, <2>2
    <2>4. x1 = y1
      BY <2>3 DEF MemoryOK
    <2> QED BY <2>1, <2>2, <2>4
  <1>9. MemoryOK(q)
    <2>1. IsFiniteSet(DOMAIN q.heap) /\ NULL \notin DOMAIN q.heap
      BY <1>1 DEF MemoryOK
    <2>2. \A x \in DOMAIN q.vec : Fits(q.vec[x], q.heap)
      BY <1>1, <1>4, <1>5, <1>6
    <2>3. q = [vec |-> q.vec, heap |-> q.heap]
      BY <1>1
    <2> QED BY <1>7, <1>8, <2>1, <2>2, <2>3 DEF MemoryOK
  <1> QED BY <1>1, <1>4, <1>5, <1>6, <1>9 DEF Others, Exchanged

\* Writing words of the array of v.
Rewritten(p, v, words) == [p EXCEPT !.heap[p.vec[v].arr] = words]

SameButWords(p, q, v, words) ==
  /\ MemoryOK(q) /\ q.vec = p.vec /\ q.heap[p.vec[v].arr] = words
  /\ Others(p, q, {v})

LEMMA RewrittenIs ==
  ASSUME NEW p, MemoryOK(p), NEW v \in DOMAIN p.vec, p.vec[v].arr # NULL,
         NEW words \in Array(p.vec[v].capacity), NEW q, q = Rewritten(p, v, words)
  PROVE  SameButWords(p, q, v, words)
  <1>1. Fits(p.vec[v], p.heap) /\ p.vec[v].arr \in DOMAIN p.heap
    BY DEF MemoryOK, Fits
  <1>2. /\ q = [vec |-> p.vec, heap |-> q.heap] /\ q.vec = p.vec
        /\ DOMAIN q.heap = DOMAIN p.heap
        /\ q.heap[p.vec[v].arr] = words
        /\ \A a \in DOMAIN p.heap : a # p.vec[v].arr => q.heap[a] = p.heap[a]
    BY <1>1 DEF MemoryOK, Rewritten
  <1>3. Fits(q.vec[v], q.heap)
    BY <1>1, <1>2 DEF Fits
  <1>4. \A u \in DOMAIN p.vec \ {v} : Fits(q.vec[u], q.heap) /\ ItemsIn(q, u) = ItemsIn(p, u)
    <2> SUFFICES ASSUME NEW u \in DOMAIN p.vec \ {v}
                 PROVE  Fits(q.vec[u], q.heap) /\ ItemsIn(q, u) = ItemsIn(p, u)
      OBVIOUS
    <2>0. PICK t : t = q
      OBVIOUS
    <2>1. Fits(p.vec[u], p.heap) /\ (p.vec[u].arr # NULL => p.vec[u].arr \in DOMAIN p.heap)
      BY DEF MemoryOK, Fits
    <2>2. p.vec[u].arr # NULL => p.vec[u].arr # p.vec[v].arr
      BY DEF MemoryOK
    <2>3. t.vec[u] = p.vec[u]
      BY <1>2, <2>0
    <2>4. p.vec[u].arr # NULL => /\ p.vec[u].arr \in DOMAIN t.heap
                                 /\ t.heap[p.vec[u].arr] = p.heap[p.vec[u].arr]
      BY <1>2, <2>0, <2>1, <2>2
    <2>5. Fits(t.vec[u], t.heap) /\ ItemsIn(t, u) = ItemsIn(p, u)
      BY <2>1, <2>3, <2>4, Carried, SMTT(30)
    <2> QED BY <2>0, <2>5
  <1>5. MemoryOK(q)
    <2>1. IsFiniteSet(DOMAIN q.heap) /\ NULL \notin DOMAIN q.heap
      BY <1>2 DEF MemoryOK
    <2>2. \A x \in DOMAIN q.vec : Fits(q.vec[x], q.heap)
      BY <1>2, <1>3, <1>4
    <2>3. q = [vec |-> q.vec, heap |-> q.heap]
      BY <1>2
    <2>4. /\ \A a \in DOMAIN q.heap : \E x \in DOMAIN q.vec : q.vec[x].arr = a
          /\ \A x, u \in DOMAIN q.vec : q.vec[x].arr = q.vec[u].arr => x = u \/ q.vec[x].arr = NULL
      BY <1>2 DEF MemoryOK
    <2> QED BY <2>1, <2>2, <2>3, <2>4 DEF MemoryOK
  <1> QED BY <1>2, <1>4, <1>5 DEF Others, SameButWords
-----------------------------------------------------------------------------
(***************************************************************************)
(* The operations that change elements.                                    *)
(***************************************************************************)
Element(p, v, k) == GetIn(p.heap[p.vec[v].arr], p.vec[v], k)

\* Other fields for v, which keeps its array.
LEMMA Resized ==
  ASSUME NEW p, MemoryOK(p), NEW v \in DOMAIN p.vec, NEW w, Fits(w, p.heap), w.arr = p.vec[v].arr,
         NEW q, q = [vec |-> [p.vec EXCEPT ![v] = w], heap |-> p.heap]
  PROVE  MemoryOK(q) /\ DOMAIN q.vec = DOMAIN p.vec /\ q.vec[v] = w /\ Others(p, q, {v})
  <1>1. /\ DOMAIN q.vec = DOMAIN p.vec /\ q.heap = p.heap /\ q.vec[v] = w
        /\ \A u \in DOMAIN p.vec : u # v => q.vec[u] = p.vec[u]
        /\ q = [vec |-> q.vec, heap |-> q.heap]
    OBVIOUS
  <1>2. PICK t : t = q
    OBVIOUS
  <1>3. \A u \in DOMAIN p.vec : t.vec[u].arr = p.vec[u].arr
    BY <1>1, <1>2
  <1>4. ASSUME NEW u \in DOMAIN p.vec, u # v
        PROVE  Fits(t.vec[u], t.heap) /\ ItemsIn(t, u) = ItemsIn(p, u)
    <2>1. Fits(p.vec[u], p.heap) /\ t.vec[u] = p.vec[u] /\ t.heap = p.heap
      BY <1>1, <1>2, <1>4 DEF MemoryOK
    <2>2. p.vec[u].arr # NULL => p.vec[u].arr \in DOMAIN t.heap
      BY <2>1 DEF Fits
    <2> QED BY <2>1, <2>2, Carried, SMTT(30)
  <1>5. \A u \in DOMAIN t.vec : Fits(t.vec[u], t.heap)
    BY <1>1, <1>2, <1>4
  <1>6. /\ IsFiniteSet(DOMAIN t.heap) /\ NULL \notin DOMAIN t.heap
        /\ \A a \in DOMAIN t.heap : \E u \in DOMAIN t.vec : t.vec[u].arr = a
        /\ \A x, u \in DOMAIN t.vec : t.vec[x].arr = t.vec[u].arr => x = u \/ t.vec[x].arr = NULL
    BY <1>1, <1>2, <1>3 DEF MemoryOK
  <1>7. MemoryOK(t)
    BY <1>1, <1>2, <1>5, <1>6 DEF MemoryOK
  <1>8. Others(p, t, {v})
    BY <1>1, <1>2, <1>4 DEF Others
  <1> QED BY <1>1, <1>2, <1>7, <1>8

\* Other fields for v, and a new array for the one it had.
Replaces(p, q, v, w, words) ==
  /\ w.arr = Fresh(p)
  /\ q = [vec  |-> [p.vec EXCEPT ![v] = w],
          heap |-> With(Without(p.heap, p.vec[v].arr), w.arr, words)]
  /\ Fits(w, q.heap)

LEMMA Reallocated ==
  ASSUME NEW p, MemoryOK(p), NEW v \in DOMAIN p.vec, NEW w, NEW words,
         NEW q, Replaces(p, q, v, w, words)
  PROVE  /\ MemoryOK(q) /\ DOMAIN q.vec = DOMAIN p.vec /\ q.vec[v] = w /\ q.heap[w.arr] = words
         /\ Others(p, q, {v})
  <1>1. PICK a : a = w.arr /\ a \in Nat \ {NULL} /\ a \notin DOMAIN p.heap
    BY FreshIs DEF MemoryOK, Replaces
  <1>2. PICK old : old = p.vec[v].arr
    OBVIOUS
  <1>3. PICK t : t = q
    OBVIOUS
  <1>4. /\ DOMAIN t.vec = DOMAIN p.vec /\ t.vec[v] = w
        /\ \A u \in DOMAIN p.vec : u # v => t.vec[u] = p.vec[u]
        /\ t = [vec |-> t.vec, heap |-> t.heap]
    BY <1>3 DEF Replaces
  <1>5. /\ DOMAIN t.heap = (DOMAIN p.heap \ {old}) \cup {a} /\ t.heap[a] = words
        /\ \A b \in DOMAIN p.heap \ {old} : t.heap[b] = p.heap[b]
    BY <1>1, <1>2, <1>3 DEF Replaces, With, Without
  <1>6. ASSUME NEW u \in DOMAIN p.vec, u # v
        PROVE  /\ Fits(t.vec[u], t.heap) /\ ItemsIn(t, u) = ItemsIn(p, u)
               /\ t.vec[u].arr = p.vec[u].arr
               /\ p.vec[u].arr = NULL \/ p.vec[u].arr \in DOMAIN p.heap \ {old}
    <2>1. Fits(p.vec[u], p.heap) /\ t.vec[u] = p.vec[u]
      BY <1>4, <1>6 DEF MemoryOK
    <2>2. p.vec[u].arr # NULL => p.vec[u].arr \in DOMAIN p.heap \ {old}
      BY <1>2, <1>6, <2>1 DEF MemoryOK, Fits
    <2>3. p.vec[u].arr # NULL => /\ p.vec[u].arr \in DOMAIN t.heap
                                 /\ t.heap[p.vec[u].arr] = p.heap[p.vec[u].arr]
      BY <1>5, <2>2
    <2>4. Fits(t.vec[u], t.heap) /\ ItemsIn(t, u) = ItemsIn(p, u)
      BY <2>1, <2>3, Carried, SMTT(30)
    <2> QED BY <2>1, <2>2, <2>4
  <1>7. \A u \in DOMAIN t.vec : Fits(t.vec[u], t.heap)
    <2>1. Fits(t.vec[v], t.heap)
      BY <1>3, <1>4 DEF Replaces
    <2> QED BY <1>4, <1>6, <2>1
  <1>8. IsFiniteSet(DOMAIN t.heap) /\ NULL \notin DOMAIN t.heap
    <2>1. PICK D : D = DOMAIN p.heap \ {old}
      OBVIOUS
    <2>2. IsFiniteSet(D) /\ NULL \notin D
      BY <2>1, FS_Subset DEF MemoryOK
    <2>3. IsFiniteSet(D \cup {a})
      BY <2>2, FS_AddElement
    <2> QED BY <1>1, <1>5, <2>1, <2>2, <2>3
  <1>9. ASSUME NEW b \in DOMAIN t.heap PROVE \E u \in DOMAIN t.vec : t.vec[u].arr = b
    <2>1. CASE b = a
      BY <1>1, <1>4, <2>1
    <2>2. CASE b # a
      <3>1. b \in DOMAIN p.heap /\ b # old
        BY <1>5, <1>9, <2>2
      <3>2. PICK u \in DOMAIN p.vec : p.vec[u].arr = b
        BY <3>1 DEF MemoryOK
      <3>3. u # v
        BY <1>2, <3>1, <3>2
      <3> QED BY <1>4, <3>2, <3>3
    <2> QED BY <2>1, <2>2
  <1>10. ASSUME NEW x \in DOMAIN t.vec, NEW u \in DOMAIN t.vec, t.vec[x].arr = t.vec[u].arr
         PROVE  x = u \/ t.vec[x].arr = NULL
    <2>1. CASE x = v /\ u # v
      BY <1>1, <1>4, <1>6, <1>10, <2>1
    <2>2. CASE x # v /\ u = v
      BY <1>1, <1>4, <1>6, <1>10, <2>2
    <2>3. CASE x # v /\ u # v
      BY <1>4, <1>6, <1>10, <2>3 DEF MemoryOK
    <2> QED BY <2>1, <2>2, <2>3
  <1>11. MemoryOK(t)
    BY <1>4, <1>7, <1>8, <1>9, <1>10 DEF MemoryOK
  <1>12. Others(p, t, {v})
    BY <1>4, <1>6 DEF Others
  <1> QED BY <1>1, <1>3, <1>4, <1>5, <1>11, <1>12

\* What set(i, e) does.
Written(p, q, v, i, e) ==
  /\ MemoryOK(q) /\ q.vec = p.vec /\ Others(p, q, {v})
  /\ \A k \in 0 .. p.vec[v].size - 1 :
       Element(q, v, k) = IF k = i THEN Kept(p.vec[v], e) ELSE Element(p, v, k)

LEMMA UpdatedIs ==
  ASSUME NEW p, MemoryOK(p), NEW v \in DOMAIN p.vec, NEW i \in 0 .. p.vec[v].size - 1, NEW e,
         NEW q, q = Updated(p, v, i, e)
  PROVE  Written(p, q, v, i, e)
  <1>1. PICK w : w = p.vec[v]
    OBVIOUS
  <1>2. PICK words : words = p.heap[w.arr]
    OBVIOUS
  <1>3. Fits(w, p.heap) /\ w.size \in Nat /\ w.capacity \in Nat /\ MaskFitting(w)
    BY <1>1 DEF MemoryOK, Fits, VectorType
  <1>4. w.arr # NULL
    BY <1>1, <1>3 DEF Fits
  <1>5. words \in Array(w.capacity)
    BY <1>2, <1>3, <1>4 DEF Fits
  <1>6. \A k \in 0 .. w.size - 1 : k \in Nat /\ Within(w, k, w.capacity)
    BY <1>3, ElementsWithin DEF Fits
  <1>7. i \in Nat /\ Within(w, i, w.capacity)
    BY <1>1, <1>6
  <1>8. PICK new : new = SetIn(words, w, i, e)
    OBVIOUS
  <1>9. new \in Array(w.capacity)
    BY <1>3, <1>5, <1>7, <1>8, SetInBits
  <1>10. q = Rewritten(p, v, new)
    BY <1>1, <1>2, <1>8 DEF Updated, Rewritten
  <1>11. /\ MemoryOK(q) /\ q.vec = p.vec /\ q.heap[p.vec[v].arr] = new
         /\ Others(p, q, {v})
    <2>1. SameButWords(p, q, v, new)
      BY <1>1, <1>4, <1>9, <1>10, RewrittenIs
    <2> QED BY <2>1 DEF SameButWords
  <1>12. ASSUME NEW k \in 0 .. w.size - 1
         PROVE  Element(q, v, k) = IF k = i THEN Kept(p.vec[v], e) ELSE Element(p, v, k)
    <2>1. GetIn(new, w, k) = IF k = i THEN Kept(w, e) ELSE GetIn(words, w, k)
      BY <1>3, <1>5, <1>6, <1>7, <1>8, SetInIs
    <2>2. Element(q, v, k) = GetIn(new, w, k)
      BY <1>1, <1>11 DEF Element
    <2>3. Element(p, v, k) = GetIn(words, w, k)
      BY <1>1, <1>2 DEF Element
    <2> QED BY <1>1, <2>1, <2>2, <2>3
  <1> QED BY <1>1, <1>11, <1>12 DEF Written

\* append() counts the element first, and gets one more word when the elements
\* no longer fit or there was no word.
Counted(p, v) == [p EXCEPT !.vec[v].size = @ + 1]

Roomy(p, v) ==
  IF p.vec[v].capacity = 0 \/ Full(Counted(p, v).vec[v]) THEN Grown(Counted(p, v), v)
  ELSE Counted(p, v)

\* It has room for the element, since an element is narrower than a word.
LEMMA RoomyIs ==
  ASSUME NEW p, MemoryOK(p), NEW v \in DOMAIN p.vec, MayAppend(p, v),
         NEW q, q = Roomy(p, v)
  PROVE  /\ MemoryOK(q) /\ DOMAIN q.vec = DOMAIN p.vec /\ Others(p, q, {v})
         /\ q.vec[v].size = p.vec[v].size + 1
         /\ q.vec[v].elemSize = p.vec[v].elemSize
         /\ \A k \in 0 .. p.vec[v].size - 1 : Element(q, v, k) = Element(p, v, k)
  <1>1. PICK w : w = p.vec[v]
    OBVIOUS
  <1>2. /\ Fits(w, p.heap) /\ MaskFitting(w)
        /\ w.size \in Nat /\ w.capacity \in Nat /\ w.elemSize \in Nat /\ w.elemSize < WORD_BITS
        /\ w \in VectorType
    BY <1>1, VectorAssumption DEF MemoryOK, Fits, VectorType, Bits
  <1>3. PICK c : c = Counted(p, v)
    OBVIOUS
  <1>4. /\ c = [vec |-> c.vec, heap |-> p.heap] /\ c.heap = p.heap
        /\ c.vec = [p.vec EXCEPT ![v] = [w EXCEPT !.size = w.size + 1]]
    BY <1>1, <1>3 DEF Counted, MemoryOK
  <1>5. PICK w1 : w1 = [elemSize |-> w.elemSize, elemMask |-> w.elemMask, size |-> w.size + 1,
                        arr |-> w.arr, capacity |-> w.capacity]
    OBVIOUS
  <1>6. /\ w1 \in VectorType /\ w1.size = w.size + 1 /\ w1.elemSize = w.elemSize
        /\ w1.elemMask = w.elemMask /\ w1.arr = w.arr /\ w1.capacity = w.capacity
    BY <1>2, <1>5 DEF VectorType
  <1>7. c.vec[v] = w1 /\ c.vec = [p.vec EXCEPT ![v] = w1]
    <2>1. [w EXCEPT !.size = w.size + 1] = w1
      BY <1>2, <1>5 DEF VectorType
    <2> QED BY <1>4, <2>1
  <1>8. PICK used \in Nat, room \in Nat : /\ used = w.size * w.elemSize /\ room = WORD_BITS * w.capacity
                                          /\ used <= room
                                          /\ w1.size * w1.elemSize = used + w.elemSize
                                          /\ WORD_BITS * (w.capacity + 1) = room + WORD_BITS
    <2>1. WORD_BITS \in Nat
      BY VectorAssumption
    <2>2. w.size * w.elemSize \in Nat /\ (w.size + 1) * w.elemSize = w.size * w.elemSize + w.elemSize
      BY <1>2, Products
    <2>3. WORD_BITS * w.capacity \in Nat /\ WORD_BITS * (w.capacity + 1) = WORD_BITS * w.capacity + WORD_BITS
      BY <1>2, <2>1
    <2> QED BY <1>2, <1>6, <2>2, <2>3 DEF Fits
  <1>9. CASE ~(w.capacity = 0 \/ Full(w1))
    <2>1. q = [vec |-> [p.vec EXCEPT ![v] = w1], heap |-> p.heap]
      BY <1>1, <1>3, <1>4, <1>7, <1>9 DEF Roomy
    <2>2. Fits(w1, p.heap)
      <3>1. w1.size * w1.elemSize <= WORD_BITS * w1.capacity
        BY <1>2, <1>6, <1>8, <1>9 DEF Full
      <3>2. w.arr # NULL /\ w.arr \in DOMAIN p.heap /\ p.heap[w.arr] \in Array(w.capacity)
        BY <1>2, <1>9 DEF Fits
      <3> QED BY <1>2, <1>6, <1>9, <3>1, <3>2 DEF Fits, MaskFitting
    <2>3. MemoryOK(q) /\ DOMAIN q.vec = DOMAIN p.vec /\ q.vec[v] = w1 /\ Others(p, q, {v})
      BY <1>1, <1>6, <2>1, <2>2, Resized
    <2>4. ASSUME NEW k \in 0 .. w.size - 1 PROVE Element(q, v, k) = Element(p, v, k)
      <3>1. q.heap = p.heap
        BY <2>1
      <3>2. PICK words : words = p.heap[w.arr]
        OBVIOUS
      <3>3. GetIn(words, w1, k) = GetIn(words, w, k)
        BY <1>6 DEF GetIn
      <3>4. Element(q, v, k) = GetIn(words, w1, k)
        BY <1>6, <2>3, <3>1, <3>2 DEF Element
      <3>5. Element(p, v, k) = GetIn(words, w, k)
        BY <1>1, <3>2 DEF Element
      <3> QED BY <3>3, <3>4, <3>5
    <2> QED BY <1>1, <1>6, <2>3, <2>4
  <1>10. CASE w.capacity = 0 \/ Full(w1)
    <2>1. PICK a \in Nat \ {NULL} : a = Fresh(p) /\ a \notin DOMAIN p.heap
      BY FreshIs DEF MemoryOK
    <2>2. PICK w2 : w2 = [elemSize |-> w.elemSize, elemMask |-> w.elemMask, size |-> w1.size,
                          arr |-> a, capacity |-> w.capacity + 1]
      OBVIOUS
    <2>3. /\ w2 \in VectorType /\ w2.size = w1.size /\ w2.elemSize = w.elemSize
          /\ w2.elemMask = w.elemMask /\ w2.arr = a /\ w2.capacity = w.capacity + 1
      <3>1. w.capacity + 1 \in Nat /\ w1.size \in Nat
        BY <1>2, <1>6
      <3>2. w.elemSize \in Bits /\ w.elemMask \in SUBSET Bits
        BY <1>2 DEF VectorType
      <3> QED BY <2>1, <2>2, <3>1, <3>2 DEF VectorType
    <2>4. PICK before : before = IF w.capacity = 0 THEN [k \in {} |-> {}] ELSE p.heap[w.arr]
      OBVIOUS
    <2>5. before \in Array(w.capacity)
      <3>1. CASE w.capacity = 0
        <4>1. 0 .. w.capacity - 1 = {}
          BY <3>1
        <4> QED BY <2>4, <3>1, <4>1 DEF Array
      <3>2. CASE w.capacity # 0
        BY <1>2, <2>4, <3>2 DEF Fits
      <3> QED BY <3>1, <3>2
    <2>6. PICK words : words = With(before, w.capacity, {})
      OBVIOUS
    <2>7. words \in Array(w.capacity + 1) /\ \A k \in 0 .. w.capacity - 1 : words[k] = before[k]
      <3>1. 0 .. (w.capacity + 1) - 1 = (0 .. w.capacity - 1) \cup {w.capacity}
        BY <1>2
      <3>2. DOMAIN before = 0 .. w.capacity - 1 /\ \A k \in 0 .. w.capacity - 1 : before[k] \in SUBSET Bits
        BY <2>5 DEF Array
      <3>3. words = [k \in (0 .. w.capacity - 1) \cup {w.capacity} |->
                       IF k = w.capacity THEN {} ELSE before[k]]
        BY <2>6, <3>2 DEF With
      <3>4. words \in [(0 .. w.capacity - 1) \cup {w.capacity} -> SUBSET Bits]
        BY <3>2, <3>3
      <3>5. \A k \in 0 .. w.capacity - 1 : k # w.capacity
        BY <1>2
      <3> QED BY <3>1, <3>3, <3>4, <3>5 DEF Array
    <2>8. q = [vec  |-> [p.vec EXCEPT ![v] = w2],
               heap |-> With(Without(p.heap, p.vec[v].arr), a, words)]
      <3>1. q = Grown(c, v)
        BY <1>1, <1>3, <1>7, <1>10 DEF Roomy
      <3>2. Fresh(c) = a
        BY <1>4, <2>1 DEF Fresh
      <3>3. [c.vec EXCEPT ![v].arr = a, ![v].capacity = @ + 1] = [p.vec EXCEPT ![v] = w2]
        <4>1. PICK es, em, ar, cp, n, m :
                /\ es = w.elemSize /\ em = w.elemMask /\ ar = w.arr /\ cp = w.capacity
                /\ n = w.size + 1 /\ m = w.capacity + 1
          OBVIOUS
        <4>2. w1.capacity + 1 = m
          BY <1>6, <4>1
        <4>3. w2 = [elemSize |-> es, elemMask |-> em, size |-> n, arr |-> a, capacity |-> m]
          BY <1>6, <2>2, <4>1
        <4>4. w1 = [elemSize |-> es, elemMask |-> em, size |-> n, arr |-> ar, capacity |-> cp]
          BY <1>5, <4>1
        <4>5. [w1 EXCEPT !.arr = a, !.capacity = m] = w2
          <5>1. PICK x : x = [w1 EXCEPT !.arr = a, !.capacity = m]
            OBVIOUS
          <5>2. /\ x.elemSize = es /\ x.elemMask = em /\ x.size = n
                /\ x.arr = a /\ x.capacity = m
            BY <4>4, <5>1
          <5>3. x = [elemSize |-> x.elemSize, elemMask |-> x.elemMask, size |-> x.size,
                     arr |-> x.arr, capacity |-> x.capacity]
            BY <4>4, <5>1
          <5> QED BY <4>3, <5>1, <5>2, <5>3
        <4> QED BY <1>7, <4>2, <4>5
      <3>4. c.vec[v].arr = p.vec[v].arr /\ c.vec[v].capacity = w.capacity
        BY <1>1, <1>6, <1>7
      <3>5. words = With(IF c.vec[v].capacity = 0 THEN [k \in {} |-> {}] ELSE c.heap[c.vec[v].arr],
                         c.vec[v].capacity, {})
        BY <1>1, <1>4, <2>4, <2>6, <3>4
      <3> QED BY <1>4, <3>1, <3>2, <3>3, <3>4, <3>5 DEF Grown
    <2>9. Replaces(p, q, v, w2, words)
      <3>1. w2.size * w2.elemSize <= WORD_BITS * w2.capacity
        <4>1. w2.size * w2.elemSize = used + w.elemSize
          BY <1>8, <1>6, <2>3
        <4>2. WORD_BITS * w2.capacity = room + WORD_BITS
          BY <1>8, <2>3
        <4>3. used + w.elemSize <= room + WORD_BITS
          BY <1>2, <1>8, VectorAssumption
        <4> QED BY <4>1, <4>2, <4>3
      <3>2. w2.arr \in DOMAIN q.heap /\ q.heap[w2.arr] = words
        BY <2>3, <2>8 DEF With
      <3>3. Fits(w2, q.heap)
        BY <1>2, <2>1, <2>3, <2>7, <3>1, <3>2 DEF Fits, MaskFitting
      <3>4. w2.arr = a
        BY <2>3
      <3> QED BY <2>1, <2>8, <3>3, <3>4 DEF Replaces
    <2>10. /\ MemoryOK(q) /\ DOMAIN q.vec = DOMAIN p.vec /\ q.vec[v] = w2 /\ q.heap[w2.arr] = words
           /\ Others(p, q, {v})
      BY <2>9, Reallocated
    <2>11. ASSUME NEW k \in 0 .. w.size - 1 PROVE Element(q, v, k) = Element(p, v, k)
      <3>1. w.capacity # 0
        BY <1>2 DEF Fits
      <3>2. k \in Nat /\ Within(w, k, w.capacity)
        BY <1>2, ElementsWithin DEF Fits
      <3>3. GetIn(words, w, k) = GetIn(before, w, k)
        BY <1>2, <2>5, <2>7, <3>2, GetInLonger
      <3>4. GetIn(words, w2, k) = GetIn(words, w, k)
        BY <2>3 DEF GetIn
      <3>5. Element(q, v, k) = GetIn(words, w2, k)
        BY <2>3, <2>10 DEF Element
      <3>6. Element(p, v, k) = GetIn(before, w, k)
        BY <1>1, <2>4, <3>1 DEF Element
      <3> QED BY <3>3, <3>4, <3>5, <3>6
    <2> QED BY <1>1, <1>6, <2>3, <2>10, <2>11
  <1> QED BY <1>9, <1>10

LEMMA OthersAgain ==
  ASSUME NEW p, NEW q, NEW r, NEW X, Others(p, q, X), Others(q, r, X)
  PROVE  Others(p, r, X)
  BY DEF Others

\* The vector v has n elements more, of the same width.
Longer(p, q, v, n) ==
  /\ MemoryOK(q) /\ DOMAIN q.vec = DOMAIN p.vec /\ Others(p, q, {v})
  /\ q.vec[v].size = p.vec[v].size + n
  /\ q.vec[v].elemSize = p.vec[v].elemSize

\* append(e).
Put(p, q, v, e) ==
  /\ Longer(p, q, v, 1)
  /\ \A k \in 0 .. p.vec[v].size :
       Element(q, v, k) = IF k = p.vec[v].size THEN Kept(p.vec[v], e) ELSE Element(p, v, k)

LEMMA AppendedIs ==
  ASSUME NEW p, MemoryOK(p), NEW v \in DOMAIN p.vec, MayAppend(p, v), NEW e,
         NEW q, q = Appended(p, v, e)
  PROVE  Put(p, q, v, e)
  <1>1. PICK r : r = Roomy(p, v)
    OBVIOUS
  <1>2. /\ MemoryOK(r) /\ DOMAIN r.vec = DOMAIN p.vec /\ Others(p, r, {v})
        /\ r.vec[v].size = p.vec[v].size + 1
        /\ r.vec[v].elemSize = p.vec[v].elemSize
        /\ \A k \in 0 .. p.vec[v].size - 1 : Element(r, v, k) = Element(p, v, k)
    BY <1>1, RoomyIs
  <1>3. PICK n \in Nat : n = p.vec[v].size
    BY DEF MemoryOK, Fits, VectorType
  <1>4. q = Updated(r, v, n, e)
    BY <1>1, <1>3 DEF Appended, Roomy, Counted
  <1>5. n \in 0 .. r.vec[v].size - 1
    BY <1>2, <1>3
  <1>6. /\ MemoryOK(q) /\ q.vec = r.vec /\ Others(r, q, {v})
        /\ \A k \in 0 .. r.vec[v].size - 1 :
             Element(q, v, k) = IF k = n THEN Kept(r.vec[v], e) ELSE Element(r, v, k)
    <2>1. Written(r, q, v, n, e)
      BY <1>2, <1>4, <1>5, UpdatedIs
    <2> QED BY <2>1 DEF Written
  <1>7. Others(p, q, {v})
    BY <1>2, <1>6, OthersAgain
  <1>8. Kept(r.vec[v], e) = Kept(p.vec[v], e)
    BY <1>2 DEF Kept
  <1>9. ASSUME NEW k \in 0 .. n
        PROVE  Element(q, v, k) = IF k = n THEN Kept(p.vec[v], e) ELSE Element(p, v, k)
    <2>1. k \in 0 .. r.vec[v].size - 1
      BY <1>2, <1>3
    <2>2. k # n => k \in 0 .. p.vec[v].size - 1
      BY <1>3
    <2> QED BY <1>2, <1>6, <1>8, <2>1, <2>2
  <1> QED BY <1>2, <1>3, <1>6, <1>7, <1>9 DEF Put, Longer

\* What MovedUp and MovedDown need of the elements of v.
LEMMA InArray ==
  ASSUME NEW p, MemoryOK(p), NEW v \in DOMAIN p.vec, p.vec[v].size # 0
  PROVE  /\ MaskFitting(p.vec[v]) /\ p.vec[v].size \in Nat /\ p.vec[v].capacity \in Nat
         /\ p.vec[v].arr # NULL
         /\ p.heap[p.vec[v].arr] \in Array(p.vec[v].capacity)
         /\ \A k \in 0 .. p.vec[v].size - 1 : k \in Nat /\ Within(p.vec[v], k, p.vec[v].capacity)
  <1>1. PICK w : w = p.vec[v]
    OBVIOUS
  <1>2. Fits(w, p.heap) /\ w.size \in Nat /\ w.capacity \in Nat /\ MaskFitting(w)
    BY <1>1 DEF MemoryOK, Fits, VectorType
  <1>3. w.arr # NULL /\ p.heap[w.arr] \in Array(w.capacity)
    BY <1>1, <1>2 DEF Fits
  <1>4. \A k \in 0 .. w.size - 1 : k \in Nat /\ Within(w, k, w.capacity)
    BY <1>2, ElementsWithin DEF Fits
  <1> QED BY <1>1, <1>2, <1>3, <1>4

\* insert(i, e).
PutAt(p, q, v, i, e) ==
  /\ Longer(p, q, v, 1)
  /\ \A k \in 0 .. p.vec[v].size :
       Element(q, v, k) = IF k = i THEN Kept(p.vec[v], e)
                          ELSE IF k < i THEN Element(p, v, k) ELSE Element(p, v, k - 1)

LEMMA InsertedIs ==
  ASSUME NEW p, MemoryOK(p), NEW v \in DOMAIN p.vec, MayAppend(p, v), NEW e,
         NEW i \in 0 .. p.vec[v].size, NEW q, q = Inserted(p, v, i, e)
  PROVE  PutAt(p, q, v, i, e)
  <1>1. PICK r : r = Appended(p, v, {})
    OBVIOUS
  <1>2. /\ MemoryOK(r) /\ DOMAIN r.vec = DOMAIN p.vec /\ Others(p, r, {v})
        /\ r.vec[v].size = p.vec[v].size + 1
        /\ r.vec[v].elemSize = p.vec[v].elemSize
        /\ \A k \in 0 .. p.vec[v].size :
             Element(r, v, k) = IF k = p.vec[v].size THEN Kept(p.vec[v], {}) ELSE Element(p, v, k)
    <2>1. Put(p, r, v, {})
      BY <1>1, AppendedIs
    <2> QED BY <2>1 DEF Put, Longer
  <1>3. PICK n \in Nat : n = p.vec[v].size
    BY DEF MemoryOK, Fits, VectorType
  <1>4. PICK u : u = r.vec[v]
    OBVIOUS
  <1>5. u.size = n + 1 /\ u.elemSize = p.vec[v].elemSize
    BY <1>2, <1>3, <1>4
  <1>6. PICK words : words = r.heap[u.arr]
    OBVIOUS
  <1>7. PICK cap \in Nat : cap = u.capacity
    BY <1>2, <1>3, <1>4, <1>5, InArray
  <1>8. /\ MaskFitting(u) /\ u.arr # NULL /\ words \in Array(cap)
        /\ \A k \in 0 .. n : k \in Nat /\ Within(u, k, cap)
    BY <1>2, <1>3, <1>4, <1>5, <1>6, <1>7, InArray
  <1>9. i \in Nat /\ i <= n /\ n \in 0 .. n
    BY <1>3
  <1>10. PICK new : new = MovedUp(words, u, i, n)
    OBVIOUS
  <1>11. Risen(new, words, u, cap, i, n)
    BY <1>8, <1>9, <1>10, MovedUpIs
  <1>12. PICK s : s = Rewritten(r, v, new)
    OBVIOUS
  <1>13. /\ MemoryOK(s) /\ s.vec = r.vec /\ s.heap[u.arr] = new /\ Others(r, s, {v})
    <2>1. new \in Array(cap)
      BY <1>11 DEF Risen
    <2>2. SameButWords(r, s, v, new)
      BY <1>2, <1>4, <1>7, <1>8, <1>12, <2>1, RewrittenIs
    <2> QED BY <1>4, <2>2 DEF SameButWords
  <1>14. q = Updated(s, v, i, e)
    <2>1. u.size - 1 = n
      BY <1>5
    <2> QED BY <1>1, <1>4, <1>6, <1>10, <1>12, <2>1 DEF Inserted, Rewritten
  <1>15. /\ MemoryOK(q) /\ q.vec = s.vec /\ Others(s, q, {v})
         /\ \A k \in 0 .. n : Element(q, v, k) = IF k = i THEN Kept(u, e) ELSE Element(s, v, k)
    <2>1. i \in 0 .. s.vec[v].size - 1 /\ s.vec[v] = u /\ v \in DOMAIN s.vec
      BY <1>2, <1>4, <1>5, <1>9, <1>13
    <2>2. \A k \in 0 .. n : k \in 0 .. s.vec[v].size - 1
      BY <1>5, <2>1
    <2>3. Written(s, q, v, i, e)
      BY <1>13, <1>14, <2>1, UpdatedIs
    <2> QED BY <2>1, <2>2, <2>3 DEF Written
  <1>16. Others(p, q, {v})
    BY <1>2, <1>13, <1>15, OthersAgain
  <1>17. Kept(u, e) = Kept(p.vec[v], e)
    BY <1>5 DEF Kept
  <1>18. ASSUME NEW k \in 0 .. n
         PROVE  Element(q, v, k) = IF k = i THEN Kept(p.vec[v], e)
                                   ELSE IF k < i THEN Element(p, v, k) ELSE Element(p, v, k - 1)
    <2>1. Element(s, v, k) = GetIn(new, u, k)
      BY <1>4, <1>13 DEF Element
    <2>2. \A j \in 0 .. n - 1 : GetIn(words, u, j) = Element(p, v, j)
      <3>1. \A j : GetIn(words, u, j) = Element(r, v, j)
        BY <1>4, <1>6 DEF Element
      <3>2. \A j \in 0 .. n - 1 : j \in 0 .. n /\ j # n
        OBVIOUS
      <3> QED BY <1>2, <1>3, <3>1, <3>2
    <2>3. CASE k = i
      BY <1>15, <1>17, <2>3
    <2>4. CASE k < i
      <3>1. k \in 0 .. n - 1 /\ k \notin i + 1 .. n /\ k # i
        BY <1>9, <2>4
      <3>2. GetIn(new, u, k) = GetIn(words, u, k)
        BY <1>8, <1>11, <3>1 DEF Risen
      <3> QED BY <1>15, <2>1, <2>2, <2>4, <3>1, <3>2
    <2>5. CASE k > i
      <3>1. k - 1 \in 0 .. n - 1 /\ k \in i + 1 .. n /\ k # i /\ ~(k < i)
        BY <1>9, <2>5
      <3>2. GetIn(new, u, k) = GetIn(words, u, k - 1)
        BY <1>8, <1>11, <3>1 DEF Risen
      <3> QED BY <1>15, <2>1, <2>2, <3>1, <3>2
    <2> QED BY <1>9, <2>3, <2>4, <2>5
  <1> QED BY <1>2, <1>3, <1>13, <1>15, <1>16, <1>18 DEF PutAt, Longer

\* erase(i).
Taken(p, q, v, i) ==
  /\ Longer(p, q, v, -1)
  /\ \A k \in 0 .. p.vec[v].size - 2 :
       Element(q, v, k) = IF k < i THEN Element(p, v, k) ELSE Element(p, v, k + 1)

LEMMA ErasedIs ==
  ASSUME NEW p, MemoryOK(p), NEW v \in DOMAIN p.vec,
         NEW i \in 0 .. p.vec[v].size - 1, NEW q, q = Erased(p, v, i)
  PROVE  Taken(p, q, v, i)
  <1>1. PICK n \in Nat : n = p.vec[v].size
    BY DEF MemoryOK, Fits, VectorType
  <1>2. PICK u : u = p.vec[v]
    OBVIOUS
  <1>3. i \in Nat /\ n # 0 /\ n - 1 \in Nat /\ i <= n - 1 /\ n - 1 \in 0 .. n - 1
    BY <1>1
  <1>4. PICK words : words = p.heap[u.arr]
    OBVIOUS
  <1>5. PICK cap \in Nat : cap = u.capacity
    BY <1>1, <1>2, <1>3, InArray
  <1>6. /\ MaskFitting(u) /\ u.arr # NULL /\ words \in Array(cap)
        /\ \A k \in 0 .. n - 1 : k \in Nat /\ Within(u, k, cap)
    BY <1>1, <1>2, <1>3, <1>4, <1>5, InArray
  <1>7. PICK new : new = MovedDown(words, u, i, n - 1)
    OBVIOUS
  <1>8. Fallen(new, words, u, cap, i, n - 1)
    BY <1>3, <1>6, <1>7, MovedDownIs
  <1>9. PICK s : s = Rewritten(p, v, new)
    OBVIOUS
  <1>10. MemoryOK(s) /\ s.vec = p.vec /\ s.heap[u.arr] = new /\ Others(p, s, {v})
    <2>1. new \in Array(cap)
      BY <1>8 DEF Fallen
    <2>2. SameButWords(p, s, v, new)
      BY <1>2, <1>5, <1>6, <1>9, <2>1, RewrittenIs
    <2> QED BY <1>2, <2>2 DEF SameButWords
  <1>11. PICK m \in Nat : m = n - 1
    BY <1>3
  <1>12. PICK w : w = [u EXCEPT !.size = m]
    OBVIOUS
  <1>13. Fits(u, s.heap) /\ Fits(u, p.heap)
    BY <1>2, <1>10 DEF MemoryOK
  <1>14. /\ w \in VectorType /\ w.size = m /\ w.elemSize = u.elemSize
         /\ w.elemMask = u.elemMask /\ w.arr = u.arr /\ w.capacity = u.capacity
    BY <1>12, <1>13 DEF Fits, VectorType
  <1>15. Fits(w, s.heap)
    <2>1. w.size * w.elemSize <= WORD_BITS * w.capacity
      <3>1. PICK es \in Nat : es = u.elemSize
        BY <1>6, VectorAssumption DEF MaskFitting, Bits
      <3>2. m * es <= n * es /\ m * es \in Nat /\ n * es \in Nat
        BY <1>3, <1>11, <3>1, Products
      <3>3. n * es <= WORD_BITS * u.capacity
        BY <1>1, <1>2, <1>13, <3>1 DEF Fits
      <3>4. WORD_BITS * cap \in Nat
        BY VectorAssumption
      <3> QED BY <1>5, <1>14, <3>1, <3>2, <3>3, <3>4
    <2>2. w.capacity = 0 => w.size = 0
      BY <1>1, <1>2, <1>3, <1>13, <1>14 DEF Fits
    <2> QED BY <1>6, <1>13, <1>14, <2>1, <2>2 DEF Fits, MaskFitting
  <1>16. q = [vec |-> [s.vec EXCEPT ![v] = w], heap |-> s.heap]
    <2>1. q = [s EXCEPT !.vec[v].size = m]
      BY <1>1, <1>2, <1>4, <1>7, <1>9, <1>11 DEF Erased, MemoryOK, Rewritten
    <2> QED BY <1>2, <1>10, <1>12, <2>1 DEF MemoryOK
  <1>17. MemoryOK(q) /\ DOMAIN q.vec = DOMAIN s.vec /\ q.vec[v] = w /\ Others(s, q, {v})
    BY <1>2, <1>10, <1>14, <1>15, <1>16, Resized
  <1>18. q.heap = s.heap
    BY <1>16
  <1>19. ASSUME NEW k \in 0 .. n - 2
         PROVE  Element(q, v, k) = IF k < i THEN Element(p, v, k) ELSE Element(p, v, k + 1)
    <2>1. Element(q, v, k) = GetIn(new, u, k)
      <3>1. Element(q, v, k) = GetIn(new, w, k)
        BY <1>10, <1>14, <1>17, <1>18 DEF Element
      <3>2. GetIn(new, w, k) = GetIn(new, u, k)
        BY <1>14 DEF GetIn
      <3> QED BY <3>1, <3>2
    <2>2. Element(p, v, k) = GetIn(words, u, k) /\ Element(p, v, k + 1) = GetIn(words, u, k + 1)
      BY <1>2, <1>4 DEF Element
    <2>3. k \in Nat /\ Within(u, k, cap) /\ (k \in i .. (n - 1) - 1 <=> ~(k < i))
      BY <1>3, <1>6
    <2> QED BY <1>8, <2>1, <2>2, <2>3 DEF Fallen
  <1>20. Others(p, q, {v})
    BY <1>10, <1>17, OthersAgain
  <1> QED BY <1>1, <1>2, <1>10, <1>11, <1>14, <1>17, <1>19, <1>20 DEF Taken, Longer

\* operator=(const PackedVector&): the copy, in a temporary, is swapped in.
CopiedOver(p, q, v, u) ==
  /\ MemoryOK(q) /\ DOMAIN q.vec = DOMAIN p.vec
  /\ ItemsIn(q, v) = ItemsIn(p, u)
  /\ Others(p, q, {v})

LEMMA CopyAssignedIs ==
  ASSUME NEW p, MemoryOK(p), NEW v \in DOMAIN p.vec, NEW u \in DOMAIN p.vec, v # u,
         Temp \notin DOMAIN p.vec,
         NEW q, q = Destroyed(Swapped(CopyConstructed(p, Temp, u), Temp, v), Temp)
  PROVE  CopiedOver(p, q, v, u)
  <1>1. PICK c : c = CopyConstructed(p, Temp, u)
    OBVIOUS
  <1>2. /\ MemoryOK(c) /\ DOMAIN c.vec = DOMAIN p.vec \cup {Temp}
        /\ ItemsIn(c, Temp) = ItemsIn(p, u)
        /\ Others(p, c, {Temp})
    <2>1. Copied(p, c, Temp, u)
      BY <1>1, CopyConstructedIs
    <2> QED BY <2>1 DEF Copied
  <1>3. PICK s : s = Swapped(c, Temp, v)
    OBVIOUS
  <1>4. v # Temp /\ v \in DOMAIN c.vec /\ Temp \in DOMAIN c.vec
    BY <1>2
  <1>5. /\ MemoryOK(s) /\ DOMAIN s.vec = DOMAIN c.vec
        /\ ItemsIn(s, v) = ItemsIn(c, Temp)
        /\ Others(c, s, {Temp, v})
    BY <1>2, <1>3, <1>4, SwappedIs DEF Exchanged
  <1>6. q = Destroyed(s, Temp)
    BY <1>1, <1>3
  <1>7. MemoryOK(q) /\ DOMAIN q.vec = DOMAIN s.vec \ {Temp} /\ Others(s, q, {Temp})
    BY <1>4, <1>5, <1>6, DestroyedIs
  <1>8. ItemsIn(q, v) = ItemsIn(p, u)
    BY <1>2, <1>4, <1>5, <1>7 DEF Others
  <1>9. Others(p, q, {v})
    BY <1>2, <1>4, <1>5, <1>7 DEF Others
  <1> QED BY <1>2, <1>4, <1>5, <1>7, <1>8, <1>9 DEF CopiedOver

-----------------------------------------------------------------------------
(***************************************************************************)
(* The abstract sequences: what InsertAt and RemoveAt do.                  *)
(***************************************************************************)
LEMMA Subsequence ==
  ASSUME NEW S, NEW n \in Nat, NEW s \in [1 .. n -> S], NEW i \in 1 .. n + 1, NEW j \in i - 1 .. n
  PROVE  Shown!SubSeq(s, i, j) = [k \in 1 .. j - i + 1 |-> s[k + i - 1]]
  OBVIOUS

LEMMA ConcatIs ==
  ASSUME NEW S, NEW s \in Shown!Seq(S), NEW t \in Shown!Seq(S)
  PROVE  /\ Shown!\o(s, t) \in Shown!Seq(S)
         /\ Shown!Len(Shown!\o(s, t)) = Shown!Len(s) + Shown!Len(t)
         /\ \A k \in 1 .. Shown!Len(s) + Shown!Len(t) :
              Shown!\o(s, t)[k] = IF k <= Shown!Len(s) THEN s[k] ELSE t[k - Shown!Len(s)]
  OBVIOUS

\* r is s and then t.
Joined(r, s, n, t, m) ==
  /\ r = [k \in 1 .. n + m |-> r[k]]
  /\ \A k \in 1 .. n + m : r[k] = IF k <= n THEN s[k] ELSE t[k - n]

LEMMA Concatenated ==
  ASSUME NEW S, NEW n \in Nat, NEW s \in [1 .. n -> S], NEW m \in Nat, NEW t \in [1 .. m -> S]
  PROVE  Joined(Shown!\o(s, t), s, n, t, m)
  <1>1. s \in Shown!Seq(S) /\ Shown!Len(s) = n
    OBVIOUS
  <1>2. t \in Shown!Seq(S) /\ Shown!Len(t) = m
    OBVIOUS
  <1>3. /\ Shown!\o(s, t) \in Shown!Seq(S)
        /\ Shown!Len(Shown!\o(s, t)) = Shown!Len(s) + Shown!Len(t)
        /\ \A k \in 1 .. Shown!Len(s) + Shown!Len(t) :
             Shown!\o(s, t)[k] = IF k <= Shown!Len(s) THEN s[k] ELSE t[k - Shown!Len(s)]
    BY <1>1, <1>2, ConcatIs
  <1>4. PICK q : q = Shown!\o(s, t)
    OBVIOUS
  <1>5. /\ q \in Shown!Seq(S) /\ Shown!Len(q) = n + m
        /\ \A k \in 1 .. n + m : q[k] = IF k <= n THEN s[k] ELSE t[k - n]
    BY <1>1, <1>2, <1>3, <1>4
  <1>6. q = [k \in 1 .. n + m |-> q[k]]
    BY <1>5
  <1>7. Joined(q, s, n, t, m)
    BY <1>5, <1>6 DEF Joined
  <1> QED BY <1>4, <1>7


\* One element more, at i.
OneMore(r, s, n, i, x) ==
  r = [k \in 1 .. n + 1 |-> IF k < i THEN s[k] ELSE IF k = i THEN x ELSE s[k - 1]]

LEMMA InsertedAt ==
  ASSUME NEW S, NEW n \in Nat, NEW s \in [1 .. n -> S], NEW x \in S, NEW i \in 1 .. n + 1
  PROVE  OneMore(Shown!InsertAt(s, i, x), s, n, i, x)
  <1>1. PICK a : a = [k \in 1 .. i - 1 |-> s[k]]
    OBVIOUS
  <1>2. Shown!SubSeq(s, 1, i - 1) = a
    <2>1. Shown!SubSeq(s, 1, i - 1) = [k \in 1 .. (i - 1) - 1 + 1 |-> s[k + 1 - 1]]
      BY Subsequence
    <2>2. a = [k \in 1 .. (i - 1) - 1 + 1 |-> s[k + 1 - 1]]
      BY <1>1
    <2> QED BY <2>1, <2>2
  <1>3. PICK b : b = [k \in 1 .. n - i + 1 |-> s[k + i - 1]]
    OBVIOUS
  <1>4. Shown!SubSeq(s, i, Shown!Len(s)) = b
    <2>1. Shown!Len(s) = n
      OBVIOUS
    <2>2. Shown!SubSeq(s, i, n) = [k \in 1 .. n - i + 1 |-> s[k + i - 1]]
      BY Subsequence
    <2> QED BY <1>3, <2>1, <2>2
  <1>5. PICK c : c = <<x>>
    OBVIOUS
  <1>6. a \in [1 .. i - 1 -> S] /\ b \in [1 .. n - i + 1 -> S] /\ c \in [1 .. 1 -> S] /\ c[1] = x
    BY <1>1, <1>3, <1>5
  <1>7. PICK d : d = Shown!\o(a, c)
    OBVIOUS
  <1>8. /\ d \in [1 .. i -> S]
        /\ \A k \in 1 .. i : d[k] = IF k < i THEN s[k] ELSE x
    <2>1. Joined(d, a, i - 1, c, 1)
      <3>1. i - 1 \in Nat /\ 1 \in Nat
        OBVIOUS
      <3> QED BY <1>6, <1>7, <3>1, Concatenated
    <2>2. (i - 1) + 1 = i
      OBVIOUS
    <2>3. /\ d = [k \in 1 .. i |-> d[k]]
          /\ \A k \in 1 .. i : d[k] = IF k <= i - 1 THEN a[k] ELSE c[k - (i - 1)]
      BY <2>1, <2>2 DEF Joined
    <2>4. ASSUME NEW k \in 1 .. i PROVE d[k] = (IF k < i THEN s[k] ELSE x) /\ d[k] \in S
      <3>1. CASE k < i
        BY <1>1, <2>3, <3>1
      <3>2. CASE k = i
        BY <1>6, <2>3, <3>2
      <3> QED BY <3>1, <3>2
    <2> QED BY <2>3, <2>4
  <1>9. PICK e : e = Shown!\o(d, b)
    OBVIOUS
  <1>10. /\ e = [k \in 1 .. n + 1 |-> e[k]]
         /\ \A k \in 1 .. n + 1 : e[k] = IF k <= i THEN d[k] ELSE b[k - i]
    <2>1. i \in Nat /\ n - i + 1 \in Nat /\ i + (n - i + 1) = n + 1
      OBVIOUS
    <2>2. Joined(e, d, i, b, n - i + 1)
      BY <1>6, <1>8, <1>9, <2>1, Concatenated
    <2> QED BY <2>1, <2>2 DEF Joined
  <1>11. Shown!InsertAt(s, i, x) = e
    BY <1>2, <1>4, <1>5, <1>7, <1>9 DEF Shown!InsertAt
  <1>12. ASSUME NEW k \in 1 .. n + 1
         PROVE  e[k] = IF k < i THEN s[k] ELSE IF k = i THEN x ELSE s[k - 1]
    <2>1. CASE k <= i
      BY <1>8, <1>10, <2>1
    <2>2. CASE k > i
      <3>1. PICK j \in 1 .. n - i + 1 : j = k - i
        BY <2>2
      <3>2. j + i - 1 = k - 1
        BY <3>1
      <3>3. b[j] = s[j + i - 1]
        BY <1>3
      <3>4. e[k] = b[k - i]
        BY <1>10, <2>2
      <3> QED BY <2>2, <3>1, <3>2, <3>3, <3>4
    <2> QED BY <2>1, <2>2
  <1> QED BY <1>10, <1>11, <1>12 DEF OneMore

\* One element less.
OneLess(r, s, n, i) == r = [k \in 1 .. n - 1 |-> IF k < i THEN s[k] ELSE s[k + 1]]

LEMMA RemovedAt ==
  ASSUME NEW S, NEW n \in Nat, NEW s \in [1 .. n -> S], NEW i \in 1 .. n
  PROVE  OneLess(Shown!RemoveAt(s, i), s, n, i)
  <1>1. PICK a : a = [k \in 1 .. i - 1 |-> s[k]]
    OBVIOUS
  <1>2. Shown!SubSeq(s, 1, i - 1) = a
    <2>1. Shown!SubSeq(s, 1, i - 1) = [k \in 1 .. (i - 1) - 1 + 1 |-> s[k + 1 - 1]]
      BY Subsequence
    <2>2. a = [k \in 1 .. (i - 1) - 1 + 1 |-> s[k + 1 - 1]]
      BY <1>1
    <2> QED BY <2>1, <2>2
  <1>3. PICK b : b = [k \in 1 .. n - i |-> s[k + i]]
    OBVIOUS
  <1>4. Shown!SubSeq(s, i + 1, Shown!Len(s)) = b
    <2>1. Shown!Len(s) = n
      OBVIOUS
    <2>2. i + 1 \in 1 .. n + 1 /\ n \in (i + 1) - 1 .. n
      OBVIOUS
    <2>3. Shown!SubSeq(s, i + 1, n) = [k \in 1 .. n - (i + 1) + 1 |-> s[k + (i + 1) - 1]]
      BY <2>2, Subsequence
    <2>4. b = [k \in 1 .. n - (i + 1) + 1 |-> s[k + (i + 1) - 1]]
      BY <1>3
    <2> QED BY <2>1, <2>3, <2>4
  <1>5. a \in [1 .. i - 1 -> S] /\ b \in [1 .. n - i -> S]
    BY <1>1, <1>3
  <1>6. PICK e : e = Shown!\o(a, b)
    OBVIOUS
  <1>7. /\ e = [k \in 1 .. n - 1 |-> e[k]]
        /\ \A k \in 1 .. n - 1 : e[k] = IF k <= i - 1 THEN a[k] ELSE b[k - (i - 1)]
    <2>1. i - 1 \in Nat /\ n - i \in Nat /\ (i - 1) + (n - i) = n - 1
      OBVIOUS
    <2>2. Joined(e, a, i - 1, b, n - i)
      BY <1>5, <1>6, <2>1, Concatenated
    <2> QED BY <2>1, <2>2 DEF Joined
  <1>8. Shown!RemoveAt(s, i) = e
    BY <1>2, <1>4, <1>6 DEF Shown!RemoveAt
  <1>9. ASSUME NEW k \in 1 .. n - 1 PROVE e[k] = IF k < i THEN s[k] ELSE s[k + 1]
    <2>1. CASE k < i
      BY <1>1, <1>7, <2>1
    <2>2. CASE k >= i
      <3>1. PICK j \in 1 .. n - i : j = k - (i - 1)
        BY <2>2
      <3>2. j + i = k + 1
        BY <3>1
      <3>3. b[j] = s[j + i]
        BY <1>3
      <3>4. e[k] = b[k - (i - 1)]
        BY <1>7, <2>2
      <3> QED BY <2>2, <3>1, <3>2, <3>3, <3>4
    <2> QED BY <2>1, <2>2
  <1> QED BY <1>7, <1>8, <1>9 DEF OneLess

-----------------------------------------------------------------------------
(***************************************************************************)
(* The steps of the program.                                               *)
(***************************************************************************)
\* The elements of all the vectors.
View(p) == [v \in DOMAIN p.vec |-> ItemsIn(p, v)]

Seqs == [v \in Alive |-> Items(v)]

Assigned(s, v, value) == [w \in DOMAIN s \cup {v} |-> IF w = v THEN value ELSE s[w]]

Bounded(s) == \A v \in DOMAIN s : DOMAIN s[v].items \in SUBSET (1 .. MaxSize)

\* The inductive invariant: the memory is in order, and no vector has more
\* elements than the program puts into one.
Inv ==
  /\ Alive \in SUBSET Vectors
  /\ MemoryOK(Memory)
  /\ Bounded(Seqs)

LEMMA SeqsAre == Seqs = View(Memory) /\ Seqs' = View(Memory')
  BY DEF Seqs, View, Items, ItemsIn, Memory, Alive

LEMMA Becomes ==
  ASSUME NEW q, MemoryOK(q), Become(q)
  PROVE  Memory' = q
  BY DEF MemoryOK, Become, Memory

LEMMA ViewAssigned ==
  ASSUME NEW p, NEW q, NEW v, DOMAIN q.vec = DOMAIN p.vec \cup {v}, Others(p, q, {v})
  PROVE  View(q) = Assigned(View(p), v, ItemsIn(q, v))
  <1>1. PICK s, t : s = View(p) /\ t = View(q)
    OBVIOUS
  <1>2. DOMAIN s = DOMAIN p.vec /\ \A u \in DOMAIN p.vec : s[u] = ItemsIn(p, u)
    BY <1>1 DEF View
  <1>3. t = [u \in DOMAIN q.vec |-> t[u]] /\ DOMAIN t = DOMAIN q.vec
        /\ \A u \in DOMAIN q.vec : t[u] = ItemsIn(q, u)
    BY <1>1 DEF View
  <1>4. PICK x : x = ItemsIn(q, v)
    OBVIOUS
  <1>5. \A u \in DOMAIN q.vec : t[u] = IF u = v THEN x ELSE s[u]
    BY <1>2, <1>3, <1>4 DEF Others
  <1>6. t = Assigned(s, v, x)
    BY <1>2, <1>3, <1>5 DEF Assigned
  <1> QED BY <1>1, <1>4, <1>6

\* A step that assigns to one vector.
LEMMA StepAssigns ==
  ASSUME Inv, NEW v \in Vectors, NEW q, Become(q), MemoryOK(q),
         DOMAIN q.vec = Alive \cup {v}, Others(Memory, q, {v}),
         DOMAIN ItemsIn(q, v).items \in SUBSET (1 .. MaxSize)
  PROVE  /\ Inv' /\ Shown!Assign(v, ItemsIn(q, v))
         /\ DOMAIN Seqs = Alive /\ Seqs' = Assigned(Seqs, v, ItemsIn(q, v))
  <1>1. Memory' = q
    BY Becomes
  <1>2. DOMAIN q.vec = DOMAIN Memory.vec \cup {v}
    BY DEF Memory, Alive
  <1>3. PICK x : x = ItemsIn(q, v)
    OBVIOUS
  <1>4. Seqs' = Assigned(Seqs, v, x)
    BY <1>1, <1>2, <1>3, SeqsAre, ViewAssigned
  <1>5. DOMAIN Seqs = Alive /\ DOMAIN Seqs' = Alive'
    BY DEF Seqs
  <1>6. Bounded(Seqs')
    <2>1. PICK s, t : s = Seqs /\ t = Seqs'
      OBVIOUS
    <2>2. DOMAIN t = DOMAIN s \cup {v} /\ \A u \in DOMAIN t : t[u] = IF u = v THEN x ELSE s[u]
      BY <1>4, <2>1 DEF Assigned
    <2>3. Bounded(s)
      BY <2>1 DEF Inv
    <2>4. Bounded(t)
      BY <1>3, <2>2, <2>3 DEF Bounded
    <2> QED BY <2>1, <2>4
  <1>7. Alive' \in SUBSET Vectors
    BY DEF Inv, Become, Alive
  <1>8. Inv'
    BY <1>1, <1>6, <1>7 DEF Inv
  <1>9. Shown!Assign(v, x)
    BY <1>4, <1>5 DEF Assigned, Seqs, Shown!Assign, Shown!Alive
  <1> QED BY <1>3, <1>4, <1>5, <1>8, <1>9

\* The vector v of p has n elements of width es: those of f.
Shape(p, v, n, es, f) ==
  /\ n = p.vec[v].size /\ es = p.vec[v].elemSize
  /\ f = [k \in 1 .. n |-> Element(p, v, k - 1)]

LEMMA ItemsShape ==
  ASSUME NEW p, NEW v, NEW n, NEW es, NEW f, Shape(p, v, n, es, f)
  PROVE  ItemsIn(p, v) = [width |-> es, items |-> f]
  <1>1. f = [k \in 1 .. n |-> GetIn(p.heap[p.vec[v].arr], p.vec[v], k - 1)]
    BY DEF Shape, Element
  <1> QED BY <1>1 DEF ItemsIn, Shape

LEMMA AssignsItems ==
  ASSUME NEW s, s = [w \in DOMAIN s |-> s[w]], NEW v \in DOMAIN s, NEW width, NEW f, NEW g,
         s[v] = [width |-> width, items |-> f]
  PROVE  Assigned(s, v, [width |-> width, items |-> g]) = [s EXCEPT ![v].items = g]
  BY DEF Assigned

\* PackedVector(elemSize, initialSize).
LEMMA ConstructShown ==
  ASSUME Inv, NEW v \in Vectors, NEW es \in ElemSizes, NEW n \in 0 .. MaxSize, Construct(v, es, n)
  PROVE  Inv' /\ Shown!Construct(v, es)
  <1>1. PICK p : p = Memory
    OBVIOUS
  <1>2. MemoryOK(p) /\ DOMAIN p.vec = Alive /\ v \notin DOMAIN p.vec
    BY <1>1 DEF Inv, Construct, Memory, Alive
  <1>3. PICK q : q = Constructed(p, v, es, n)
    OBVIOUS
  <1>4. Become(q)
    BY <1>1, <1>3 DEF Construct
  <1>5. /\ MemoryOK(q) /\ DOMAIN q.vec = DOMAIN p.vec \cup {v}
        /\ ItemsIn(q, v) = [width |-> es, items |-> [i \in 1 .. n |-> {}]]
        /\ Others(p, q, {v})
    <2>1. n \in Nat
      OBVIOUS
    <2>2. Built(p, q, v, es, n)
      BY <1>2, <1>3, <2>1, ConstructedIs
    <2> QED BY <2>2 DEF Built
  <1>6. DOMAIN ItemsIn(q, v).items \in SUBSET (1 .. MaxSize)
    BY <1>5, VectorAssumption
  <1>7. /\ Inv' /\ Shown!Assign(v, ItemsIn(q, v)) /\ DOMAIN Seqs = Alive
    BY <1>1, <1>2, <1>4, <1>5, <1>6, StepAssigns
  <1>8. Shown!Assign(v, [width |-> es, items |-> [i \in 1 .. n |-> {}]])
    BY <1>5, <1>7
  <1>9. v \notin Shown!Alive
    BY <1>2 DEF Shown!Alive
  <1> QED BY <1>7, <1>8, <1>9 DEF Shown!Construct

\* PackedVector().
LEMMA DefaultShown ==
  ASSUME Inv, NEW v \in Vectors, ConstructDefault(v)
  PROVE  Inv' /\ Shown!Construct(v, 0)
  <1>1. PICK p : p = Memory
    OBVIOUS
  <1>2. MemoryOK(p) /\ DOMAIN p.vec = Alive /\ v \notin DOMAIN p.vec
    BY <1>1 DEF Inv, ConstructDefault, Memory, Alive
  <1>3. PICK q : q = [p EXCEPT !.vec = With(@, v, DefaultVector)]
    OBVIOUS
  <1>4. Become(q)
    BY <1>1, <1>3 DEF ConstructDefault
  <1>5. /\ MemoryOK(q) /\ DOMAIN q.vec = DOMAIN p.vec \cup {v}
        /\ ItemsIn(q, v) = [width |-> 0, items |-> <<>>]
        /\ Others(p, q, {v})
    BY <1>2, <1>3, DefaultIs
  <1>6. DOMAIN ItemsIn(q, v).items \in SUBSET (1 .. MaxSize)
    BY <1>5
  <1>7. /\ Inv' /\ Shown!Assign(v, ItemsIn(q, v)) /\ DOMAIN Seqs = Alive
    BY <1>1, <1>2, <1>4, <1>5, <1>6, StepAssigns
  <1>8. 0 \in 0 .. MaxSize /\ [i \in 1 .. 0 |-> {}] = <<>>
    BY VectorAssumption
  <1>9. Shown!Assign(v, [width |-> 0, items |-> [i \in 1 .. 0 |-> {}]])
    BY <1>5, <1>7, <1>8
  <1>10. v \notin Shown!Alive
    BY <1>2 DEF Shown!Alive
  <1> QED BY <1>7, <1>8, <1>9, <1>10 DEF Shown!Construct

\* ~PackedVector().
LEMMA DestroyShown ==
  ASSUME Inv, NEW v \in Vectors, Destroy(v)
  PROVE  Inv' /\ Shown!Destroy(v)
  <1>1. PICK p : p = Memory
    OBVIOUS
  <1>2. MemoryOK(p) /\ DOMAIN p.vec = Alive /\ v \in DOMAIN p.vec
    BY <1>1 DEF Inv, Destroy, Memory, Alive
  <1>3. PICK q : q = Destroyed(p, v)
    OBVIOUS
  <1>4. Become(q)
    BY <1>1, <1>3 DEF Destroy
  <1>5. MemoryOK(q) /\ DOMAIN q.vec = DOMAIN p.vec \ {v} /\ Others(p, q, {v})
    BY <1>2, <1>3, DestroyedIs
  <1>6. Memory' = q
    BY <1>4, <1>5, Becomes
  <1>7. PICK s, t : s = View(p) /\ t = View(q)
    OBVIOUS
  <1>8. Seqs = s /\ Seqs' = t
    BY <1>1, <1>6, <1>7, SeqsAre
  <1>9. t = [u \in DOMAIN s \ {v} |-> s[u]]
    BY <1>5, <1>7 DEF View, Others
  <1>10. Bounded(t)
    <2>1. Bounded(s)
      BY <1>8 DEF Inv
    <2> QED BY <1>9, <2>1 DEF Bounded
  <1>11. Inv'
    <2>1. Alive' \in SUBSET Vectors
      BY <1>2, <1>4, <1>5 DEF Inv, Become, Alive
    <2> QED BY <1>5, <1>6, <1>8, <1>10, <2>1 DEF Inv
  <1>12. Shown!Destroy(v)
    BY <1>8, <1>9 DEF Seqs, Shown!Destroy, Shown!Alive
  <1> QED BY <1>11, <1>12

\* PackedVector(const PackedVector&) and operator=(const PackedVector&).
LEMMA CopyShown ==
  ASSUME Inv, NEW v \in Vectors, NEW u \in Vectors, CopyConstruct(v, u) \/ CopyAssign(v, u)
  PROVE  Inv' /\ Shown!Copy(v, u)
  <1>1. PICK p : p = Memory
    OBVIOUS
  <1>2. MemoryOK(p) /\ DOMAIN p.vec = Alive /\ u \in DOMAIN p.vec
    BY <1>1 DEF Inv, CopyConstruct, CopyAssign, Memory, Alive
  <1>3. PICK q : /\ Become(q) /\ MemoryOK(q) /\ DOMAIN q.vec = DOMAIN p.vec \cup {v}
                 /\ ItemsIn(q, v) = ItemsIn(p, u)
                 /\ Others(p, q, {v})
    <2>1. CASE CopyConstruct(v, u)
      <3>1. PICK q : q = CopyConstructed(p, v, u)
        OBVIOUS
      <3>2. Become(q) /\ v \notin DOMAIN p.vec
        BY <1>1, <1>2, <2>1, <3>1 DEF CopyConstruct
      <3>3. Copied(p, q, v, u)
        BY <1>2, <3>1, <3>2, CopyConstructedIs
      <3> QED BY <3>2, <3>3 DEF Copied
    <2>2. CASE CopyAssign(v, u)
      <3>1. PICK q : q = Destroyed(Swapped(CopyConstructed(p, Temp, u), Temp, v), Temp)
        OBVIOUS
      <3>2. Become(q) /\ v \in DOMAIN p.vec /\ v # u
        BY <1>1, <1>2, <2>2, <3>1 DEF CopyAssign
      <3>3. Temp \notin DOMAIN p.vec
        BY <1>2, VectorAssumption DEF Inv
      <3>4. CopiedOver(p, q, v, u)
        BY <1>2, <3>1, <3>2, <3>3, CopyAssignedIs
      <3> QED BY <3>2, <3>4 DEF CopiedOver
    <2> QED BY <2>1, <2>2
  <1>4. PICK s : s = View(p)
    OBVIOUS
  <1>5. Seqs = s /\ s[u] = ItemsIn(p, u) /\ u \in DOMAIN s
    BY <1>1, <1>2, <1>4, SeqsAre DEF View
  <1>6. DOMAIN ItemsIn(q, v).items \in SUBSET (1 .. MaxSize)
    <2>1. Bounded(s)
      BY <1>5 DEF Inv
    <2> QED BY <1>3, <1>5, <2>1 DEF Bounded
  <1>7. Inv' /\ Shown!Assign(v, ItemsIn(q, v))
    BY <1>1, <1>2, <1>3, <1>6, StepAssigns
  <1>8. ItemsIn(q, v) = Seqs[u]
    BY <1>3, <1>5
  <1>9. u \in Shown!Alive
    BY <1>2 DEF Shown!Alive
  <1> QED BY <1>7, <1>8, <1>9 DEF Shown!Copy, Seqs

LEMMA StepBecomes ==
  ASSUME Inv, NEW q, Become(q), MemoryOK(q), DOMAIN q.vec \in SUBSET Vectors, Bounded(View(q))
  PROVE  Inv' /\ Seqs = View(Memory) /\ Seqs' = View(q)
  <1>1. Memory' = q
    BY Becomes
  <1>2. Seqs = View(Memory) /\ Seqs' = View(q)
    BY <1>1, SeqsAre
  <1>3. Alive' \in SUBSET Vectors
    BY DEF Become, Alive
  <1> QED BY <1>1, <1>2, <1>3 DEF Inv

\* PackedVector(PackedVector&&).
LEMMA MoveNewShown ==
  ASSUME Inv, NEW v \in Vectors, NEW u \in Vectors, MoveConstruct(v, u)
  PROVE  Inv' /\ Shown!MoveNew(v, u)
  <1>1. PICK p : p = Memory
    OBVIOUS
  <1>2. MemoryOK(p) /\ DOMAIN p.vec = Alive /\ u \in DOMAIN p.vec /\ v \notin DOMAIN p.vec
    BY <1>1 DEF Inv, MoveConstruct, Memory, Alive
  <1>3. PICK r : r = [p EXCEPT !.vec = With(@, v, DefaultVector)]
    OBVIOUS
  <1>4. PICK q : q = Swapped(r, v, u)
    OBVIOUS
  <1>5. Become(q)
    BY <1>1, <1>3, <1>4 DEF MoveConstruct
  <1>6. /\ MemoryOK(r) /\ DOMAIN r.vec = DOMAIN p.vec \cup {v}
        /\ ItemsIn(r, v) = [width |-> 0, items |-> <<>>]
        /\ Others(p, r, {v})
    BY <1>2, <1>3, DefaultIs
  <1>7. /\ MemoryOK(q) /\ DOMAIN q.vec = DOMAIN r.vec
        /\ ItemsIn(q, v) = ItemsIn(r, u) /\ ItemsIn(q, u) = ItemsIn(r, v)
        /\ Others(r, q, {v, u})
    <2>1. v # u /\ v \in DOMAIN r.vec /\ u \in DOMAIN r.vec
      BY <1>2, <1>6
    <2>2. Exchanged(r, q, v, u)
      BY <1>4, <1>6, <2>1, SwappedIs
    <2> QED BY <2>2 DEF Exchanged
  <1>8. PICK s, t : s = View(p) /\ t = View(q)
    OBVIOUS
  <1>9. /\ DOMAIN s = DOMAIN p.vec /\ DOMAIN t = DOMAIN s \cup {v}
        /\ t = [w \in DOMAIN t |-> t[w]]
        /\ \A w \in DOMAIN p.vec : s[w] = ItemsIn(p, w)
        /\ \A w \in DOMAIN q.vec : t[w] = ItemsIn(q, w)
    BY <1>6, <1>7, <1>8 DEF View
  <1>10. PICK nothing : nothing = [width |-> 0, items |-> <<>>]
    OBVIOUS
  <1>11. /\ t[v] = s[u] /\ t[u] = nothing
         /\ \A w \in DOMAIN s : w # u => t[w] = s[w]
    BY <1>2, <1>6, <1>7, <1>9, <1>10 DEF Others
  <1>12. Seqs = s
    BY <1>1, <1>8, SeqsAre
  <1>13. Bounded(View(q))
    <2>1. Bounded(s) /\ DOMAIN nothing.items \in SUBSET (1 .. MaxSize)
      BY <1>10, <1>12 DEF Inv
    <2>2. Bounded(t)
      BY <1>2, <1>9, <1>11, <2>1 DEF Bounded
    <2> QED BY <1>8, <2>2
  <1>14. Inv' /\ Seqs' = t
    <2>1. DOMAIN q.vec \in SUBSET Vectors
      BY <1>2, <1>6, <1>7 DEF Inv
    <2> QED BY <1>5, <1>7, <1>8, <1>13, <2>1, StepBecomes
  <1>15. t = [w \in DOMAIN s \cup {v} |->
               CASE w = v -> s[u] [] w = u -> nothing [] OTHER -> s[w]]
    <2>1. \A w \in DOMAIN s \cup {v} :
            t[w] = CASE w = v -> s[u] [] w = u -> nothing [] OTHER -> s[w]
      BY <1>2, <1>9, <1>11
    <2> QED BY <1>9, <2>1
  <1>16. u \in Shown!Alive /\ v \notin Shown!Alive /\ Shown!Default = nothing
         /\ Shown!Alive = DOMAIN s
    BY <1>2, <1>9, <1>10 DEF Shown!Alive, Shown!Default
  <1>17. Seqs' = [w \in Shown!Alive \cup {v} |->
                   CASE w = v -> Seqs[u] [] w = u -> Shown!Default [] OTHER -> Seqs[w]]
    BY <1>12, <1>14, <1>15, <1>16
  <1> QED BY <1>14, <1>16, <1>17 DEF Shown!MoveNew, Seqs

\* operator=(PackedVector&&) and swap.
LEMMA ExchangeShown ==
  ASSUME Inv, NEW v \in Vectors, NEW u \in Vectors, MoveAssign(v, u)
  PROVE  Inv' /\ Shown!Exchange(v, u)
  <1>1. PICK p : p = Memory
    OBVIOUS
  <1>2. /\ MemoryOK(p) /\ DOMAIN p.vec = Alive
        /\ u \in DOMAIN p.vec /\ v \in DOMAIN p.vec /\ v # u
    BY <1>1 DEF Inv, MoveAssign, Memory, Alive
  <1>3. PICK q : q = Swapped(p, v, u)
    OBVIOUS
  <1>4. Become(q)
    BY <1>1, <1>3 DEF MoveAssign
  <1>5. /\ MemoryOK(q) /\ DOMAIN q.vec = DOMAIN p.vec
        /\ ItemsIn(q, v) = ItemsIn(p, u) /\ ItemsIn(q, u) = ItemsIn(p, v)
        /\ Others(p, q, {v, u})
    <2>1. Exchanged(p, q, v, u)
      BY <1>2, <1>3, SwappedIs
    <2> QED BY <2>1 DEF Exchanged
  <1>6. PICK s, t : s = View(p) /\ t = View(q)
    OBVIOUS
  <1>7. /\ DOMAIN s = DOMAIN p.vec /\ DOMAIN t = DOMAIN s
        /\ s = [w \in DOMAIN s |-> s[w]] /\ t = [w \in DOMAIN t |-> t[w]]
        /\ \A w \in DOMAIN p.vec : s[w] = ItemsIn(p, w) /\ t[w] = ItemsIn(q, w)
    BY <1>5, <1>6 DEF View
  <1>8. t[v] = s[u] /\ t[u] = s[v] /\ \A w \in DOMAIN s \ {v, u} : t[w] = s[w]
    BY <1>2, <1>5, <1>7 DEF Others
  <1>9. Seqs = s
    BY <1>1, <1>6, SeqsAre
  <1>10. Bounded(View(q))
    <2>1. Bounded(s)
      BY <1>9 DEF Inv
    <2>2. Bounded(t)
      BY <1>2, <1>7, <1>8, <2>1 DEF Bounded
    <2> QED BY <1>6, <2>2
  <1>11. Inv' /\ Seqs' = t
    <2>1. DOMAIN q.vec \in SUBSET Vectors
      BY <1>2, <1>5 DEF Inv
    <2> QED BY <1>4, <1>5, <1>6, <1>10, <2>1, StepBecomes
  <1>12. t = [s EXCEPT ![v] = s[u], ![u] = s[v]]
    BY <1>2, <1>7, <1>8
  <1>13. {v, u} \subseteq Shown!Alive
    BY <1>2 DEF Shown!Alive
  <1>14. Seqs' = [Seqs EXCEPT ![v] = Seqs[u], ![u] = Seqs[v]]
    BY <1>9, <1>11, <1>12
  <1> QED BY <1>11, <1>13, <1>14 DEF Shown!Exchange, Seqs

\* A step that changes the elements of one vector.
Changes(v, es, f, g) ==
  /\ Inv' /\ v \in Shown!Alive /\ Seqs[v].width = es /\ Seqs[v].items = f
  /\ v \in DOMAIN Seqs
  /\ Seqs' = [Seqs EXCEPT ![v].items = g]

LEMMA ItemsShown ==
  ASSUME Inv, NEW v \in Vectors, v \in Alive, NEW q, Become(q), MemoryOK(q),
         DOMAIN q.vec = Alive, Others(Memory, q, {v}), NEW es, NEW f, NEW g,
         ItemsIn(Memory, v) = [width |-> es, items |-> f],
         ItemsIn(q, v) = [width |-> es, items |-> g], DOMAIN g \in SUBSET (1 .. MaxSize)
  PROVE  Changes(v, es, f, g)
  <1>1. DOMAIN q.vec = Alive \cup {v}
    OBVIOUS
  <1>2. PICK x : x = ItemsIn(q, v)
    OBVIOUS
  <1>3. DOMAIN x.items \in SUBSET (1 .. MaxSize)
    BY <1>2
  <1>4. Inv' /\ DOMAIN Seqs = Alive /\ Seqs' = Assigned(Seqs, v, x)
    BY <1>1, <1>2, <1>3, StepAssigns
  <1>5. PICK s : s = Seqs
    OBVIOUS
  <1>6. s = [w \in DOMAIN s |-> s[w]] /\ v \in DOMAIN s /\ s[v] = ItemsIn(Memory, v)
    BY <1>4, <1>5 DEF Seqs, Items, ItemsIn, Memory
  <1>7. Assigned(s, v, x) = [s EXCEPT ![v].items = g]
    BY <1>2, <1>6, AssignsItems
  <1>8. Seqs' = [Seqs EXCEPT ![v].items = g]
    BY <1>4, <1>5, <1>7
  <1>9. Seqs[v].width = es /\ Seqs[v].items = f
    BY <1>5, <1>6
  <1>10. v \in Shown!Alive
    BY DEF Shown!Alive
  <1> QED BY <1>4, <1>5, <1>6, <1>8, <1>9, <1>10 DEF Changes

\* What the operations on elements start from.
Starts(p, v, n, es, f) ==
  /\ p = Memory /\ MemoryOK(p) /\ DOMAIN p.vec = Alive /\ v \in DOMAIN p.vec
  /\ n \in Nat /\ n = vec[v].size /\ Shape(p, v, n, es, f)
  /\ ItemsIn(p, v) = [width |-> es, items |-> f]
  /\ 1 .. n \in SUBSET (1 .. MaxSize)

LEMMA ItemsNow ==
  ASSUME Inv, NEW v \in Alive
  PROVE  \E p, n, es, f : Starts(p, v, n, es, f)
  <1>1. PICK p : p = Memory
    OBVIOUS
  <1>2. MemoryOK(p) /\ DOMAIN p.vec = Alive /\ v \in DOMAIN p.vec
    BY <1>1 DEF Inv, Memory, Alive
  <1>3. PICK n \in Nat : n = p.vec[v].size
    BY <1>2 DEF MemoryOK, Fits, VectorType
  <1>4. PICK es, f : es = p.vec[v].elemSize /\ f = [k \in 1 .. n |-> Element(p, v, k - 1)]
    OBVIOUS
  <1>5. Shape(p, v, n, es, f) /\ ItemsIn(p, v) = [width |-> es, items |-> f]
    <2>1. Shape(p, v, n, es, f)
      BY <1>3, <1>4 DEF Shape
    <2> QED BY <2>1, ItemsShape
  <1>6. n = vec[v].size
    BY <1>1, <1>3 DEF Memory
  <1>7. 1 .. n \in SUBSET (1 .. MaxSize)
    <2>1. PICK s : s = View(p)
      OBVIOUS
    <2>2. Bounded(s)
      BY <1>1, <2>1, SeqsAre DEF Inv
    <2>3. v \in DOMAIN s /\ s[v] = ItemsIn(p, v)
      BY <1>2, <2>1 DEF View
    <2>4. DOMAIN f \in SUBSET (1 .. MaxSize)
      BY <1>5, <2>2, <2>3 DEF Bounded
    <2> QED BY <1>4, <2>4
  <1>8. Starts(p, v, n, es, f)
    BY <1>1, <1>2, <1>5, <1>6, <1>7 DEF Starts
  <1> QED BY <1>8

\* set(i, e).
LEMMA SetShown ==
  ASSUME Inv, NEW v \in Vectors, NEW i \in 0 .. MaxSize, NEW e, Set(v, i, e)
  PROVE  Inv' /\ Shown!Set(v, i + 1, e)
  <1>1. PICK p, n, es, f : Starts(p, v, n, es, f)
    BY ItemsNow DEF Set
  <1>2. /\ p = Memory /\ MemoryOK(p) /\ DOMAIN p.vec = Alive /\ v \in DOMAIN p.vec
        /\ n \in Nat /\ n = vec[v].size /\ n = p.vec[v].size /\ es = p.vec[v].elemSize
        /\ ItemsIn(p, v) = [width |-> es, items |-> f]
        /\ 1 .. n \in SUBSET (1 .. MaxSize)
    BY <1>1 DEF Starts, Shape
  <1>3. f = [k \in 1 .. n |-> Element(p, v, k - 1)]
    BY <1>1 DEF Starts, Shape
  <1>4. i \in 0 .. n - 1 /\ i + 1 \in 1 .. n
    BY <1>2, VectorAssumption DEF Set
  <1>5. PICK q : q = Updated(p, v, i, e)
    OBVIOUS
  <1>6. Become(q) /\ v \in Alive
    BY <1>2, <1>5 DEF Set
  <1>7. Written(p, q, v, i, e)
    BY <1>2, <1>4, <1>5, UpdatedIs
  <1>8. /\ MemoryOK(q) /\ q.vec = p.vec /\ Others(p, q, {v})
        /\ \A k \in 0 .. n - 1 :
             Element(q, v, k) = IF k = i THEN Kept(p.vec[v], e) ELSE Element(p, v, k)
    BY <1>2, <1>7 DEF Written
  <1>9. PICK x, g : x = e \cap (0 .. es - 1) /\ g = [k \in 1 .. n |-> Element(q, v, k - 1)]
    OBVIOUS
  <1>10. ItemsIn(q, v) = [width |-> es, items |-> g]
    <2>1. Shape(q, v, n, es, g)
      BY <1>2, <1>8, <1>9 DEF Shape
    <2> QED BY <2>1, ItemsShape
  <1>11. g = [f EXCEPT ![i + 1] = x]
    <2>1. ASSUME NEW k \in 1 .. n PROVE g[k] = IF k = i + 1 THEN x ELSE f[k]
      <3>1. k - 1 \in 0 .. n - 1 /\ (k - 1 = i <=> k = i + 1)
        BY <1>2, <1>4
      <3>2. x = Kept(p.vec[v], e)
        BY <1>2, <1>9 DEF Kept
      <3>3. f[k] = Element(p, v, k - 1) /\ g[k] = Element(q, v, k - 1)
        BY <1>3, <1>9
      <3> QED BY <1>8, <3>1, <3>2, <3>3
    <2> QED BY <1>3, <1>9, <2>1
  <1>12. /\ Inv' /\ v \in Shown!Alive /\ Seqs[v].width = es /\ Seqs[v].items = f
         /\ v \in DOMAIN Seqs
         /\ Seqs' = [Seqs EXCEPT ![v].items = g]
    <2>1. DOMAIN g \in SUBSET (1 .. MaxSize)
      BY <1>2, <1>9
    <2>2. ItemsIn(Memory, v) = [width |-> es, items |-> f] /\ Others(Memory, q, {v})
          /\ DOMAIN q.vec = Alive
      BY <1>2, <1>8
    <2>3. Changes(v, es, f, g)
      BY <1>6, <1>8, <1>10, <2>1, <2>2, ItemsShown
    <2> QED BY <2>3 DEF Changes
  <1>13. Shown!Fitted(e, Seqs[v].width) = x
    BY <1>9, <1>12 DEF Shown!Fitted
  <1>14. PICK s : s = Seqs
    OBVIOUS
  <1>15. Seqs' = [Seqs EXCEPT ![v].items[i + 1] = Shown!Fitted(e, Seqs[v].width)]
    <2>1. [s EXCEPT ![v].items[i + 1] = x] = [s EXCEPT ![v].items = [s[v].items EXCEPT ![i + 1] = x]]
      OBVIOUS
    <2> QED BY <1>11, <1>12, <1>13, <1>14, <2>1
  <1>16. i + 1 \in DOMAIN Seqs[v].items
    BY <1>3, <1>4, <1>12
  <1> QED BY <1>12, <1>15, <1>16 DEF Shown!Set, Seqs

\* append(e) and insert(i, e): one element more.
LEMMA PutShown ==
  ASSUME Inv, NEW v \in Vectors, NEW p, NEW n, NEW es, NEW f, Starts(p, v, n, es, f),
         n < MaxSize, NEW i \in 0 .. n, NEW e, NEW q, Become(q), PutAt(p, q, v, i, e)
  PROVE  Inv' /\ Shown!Insert(v, i + 1, e)
  <1>1. /\ p = Memory /\ MemoryOK(p) /\ DOMAIN p.vec = Alive /\ v \in DOMAIN p.vec
        /\ n \in Nat /\ n = p.vec[v].size /\ es = p.vec[v].elemSize
        /\ ItemsIn(p, v) = [width |-> es, items |-> f]
    BY DEF Starts, Shape
  <1>2. f = [k \in 1 .. n |-> Element(p, v, k - 1)]
    BY DEF Starts, Shape
  <1>3. PICK x : x = e \cap (0 .. es - 1)
    OBVIOUS
  <1>4. /\ MemoryOK(q) /\ DOMAIN q.vec = DOMAIN p.vec /\ Others(p, q, {v})
        /\ q.vec[v].size = n + 1 /\ q.vec[v].elemSize = es
    BY <1>1 DEF PutAt, Longer
  <1>5. \A k \in 0 .. n : Element(q, v, k) = IF k = i THEN x
                                            ELSE IF k < i THEN Element(p, v, k)
                                            ELSE Element(p, v, k - 1)
    BY <1>1, <1>3 DEF PutAt, Kept
  <1>6. PICK g : g = [k \in 1 .. n + 1 |-> Element(q, v, k - 1)]
    OBVIOUS
  <1>7. ItemsIn(q, v) = [width |-> es, items |-> g]
    <2>1. Shape(q, v, n + 1, es, g)
      BY <1>4, <1>6 DEF Shape
    <2> QED BY <2>1, ItemsShape
  <1>8. PICK S : S = {f[k] : k \in 1 .. n} \cup {x}
    OBVIOUS
  <1>9. f \in [1 .. n -> S] /\ x \in S
    BY <1>2, <1>8
  <1>10. PICK j \in 1 .. n + 1 : j = i + 1
    BY <1>1
  <1>11. Shown!InsertAt(f, j, x) =
           [k \in 1 .. n + 1 |-> IF k < j THEN f[k] ELSE IF k = j THEN x ELSE f[k - 1]]
    <2>1. OneMore(Shown!InsertAt(f, j, x), f, n, j, x)
      BY <1>1, <1>9, InsertedAt
    <2> QED BY <2>1 DEF OneMore
  <1>12. ASSUME NEW k \in 1 .. n + 1
         PROVE  g[k] = IF k < j THEN f[k] ELSE IF k = j THEN x ELSE f[k - 1]
    <2>1. g[k] = Element(q, v, k - 1) /\ k - 1 \in 0 .. n
      BY <1>1, <1>6
    <2>2. CASE k < j
      <3>1. k - 1 # i /\ k - 1 < i /\ k \in 1 .. n
        BY <1>1, <1>10, <2>2
      <3>2. f[k] = Element(p, v, k - 1)
        BY <1>2, <3>1
      <3> QED BY <1>5, <2>1, <2>2, <3>1, <3>2
    <2>3. CASE k = j
      <3>1. k - 1 = i /\ ~(k < j)
        BY <1>10, <2>3
      <3> QED BY <1>5, <2>1, <2>3, <3>1
    <2>4. CASE k > j
      <3>1. k - 1 # i /\ ~(k - 1 < i) /\ k - 1 \in 1 .. n /\ ~(k < j) /\ k # j
        BY <1>1, <1>10, <2>4
      <3>2. f[k - 1] = Element(p, v, (k - 1) - 1)
        BY <1>2, <3>1
      <3> QED BY <1>5, <2>1, <3>1, <3>2
    <2> QED BY <1>1, <2>2, <2>3, <2>4
  <1>13. Shown!InsertAt(f, j, x) = g
    BY <1>6, <1>11, <1>12
  <1>14. Changes(v, es, f, g)
    <2>1. DOMAIN g \in SUBSET (1 .. MaxSize)
      BY <1>1, <1>6, VectorAssumption
    <2>2. ItemsIn(Memory, v) = [width |-> es, items |-> f] /\ Others(Memory, q, {v})
          /\ DOMAIN q.vec = Alive /\ v \in Alive
      BY <1>1, <1>4
    <2> QED BY <1>4, <1>7, <2>1, <2>2, ItemsShown
  <1>15. Shown!Fitted(e, Seqs[v].width) = x
    BY <1>3, <1>14 DEF Shown!Fitted, Changes
  <1>16. PICK s : s = Seqs
    OBVIOUS
  <1>17. /\ s[v].items = f /\ v \in DOMAIN s /\ Seqs' = [s EXCEPT ![v].items = g]
         /\ Inv' /\ v \in Shown!Alive
    BY <1>14, <1>16 DEF Changes
  <1>18. Seqs' = [Seqs EXCEPT ![v].items = Shown!InsertAt(Seqs[v].items, i + 1,
                                                          Shown!Fitted(e, Seqs[v].width))]
    BY <1>10, <1>13, <1>15, <1>16, <1>17
  <1>19. i + 1 \in 1 .. Shown!Len(Seqs[v].items) + 1
    <2>1. Shown!Len(f) = n
      BY <1>1, <1>9
    <2> QED BY <1>1, <1>10, <1>16, <1>17, <2>1
  <1> QED BY <1>17, <1>18, <1>19 DEF Shown!Insert, Seqs

\* append(e).
LEMMA AppendShown ==
  ASSUME Inv, NEW v \in Vectors, NEW e, Append(v, e)
  PROVE  Inv' /\ \E i \in 0 .. MaxSize : Shown!Insert(v, i + 1, e)
  <1>1. PICK p, n, es, f : Starts(p, v, n, es, f)
    BY ItemsNow DEF Append
  <1>2. /\ p = Memory /\ MemoryOK(p) /\ v \in DOMAIN p.vec
        /\ n \in Nat /\ n = p.vec[v].size /\ n < MaxSize /\ MayAppend(p, v)
    BY <1>1 DEF Starts, Shape, Append
  <1>3. PICK q : q = Appended(p, v, e)
    OBVIOUS
  <1>4. Become(q)
    BY <1>2, <1>3 DEF Append
  <1>5. Put(p, q, v, e)
    BY <1>2, <1>3, AppendedIs
  <1>6. PutAt(p, q, v, n, e)
    <2>1. ASSUME NEW k \in 0 .. n
          PROVE  Element(q, v, k) = IF k = n THEN Kept(p.vec[v], e)
                                    ELSE IF k < n THEN Element(p, v, k) ELSE Element(p, v, k - 1)
      <3>1. k # n => k < n
        BY <1>2
      <3> QED BY <1>2, <1>5, <3>1 DEF Put
    <2> QED BY <1>2, <1>5, <2>1 DEF Put, PutAt
  <1>7. n \in 0 .. n /\ n \in 0 .. MaxSize
    BY <1>2, VectorAssumption
  <1>8. Inv' /\ Shown!Insert(v, n + 1, e)
    BY <1>1, <1>2, <1>4, <1>6, <1>7, PutShown
  <1> QED BY <1>7, <1>8

\* insert(i, e).
LEMMA InsertShown ==
  ASSUME Inv, NEW v \in Vectors, NEW i \in 0 .. MaxSize, NEW e, Insert(v, i, e)
  PROVE  Inv' /\ Shown!Insert(v, i + 1, e)
  <1>1. PICK p, n, es, f : Starts(p, v, n, es, f)
    BY ItemsNow DEF Insert
  <1>2. /\ p = Memory /\ MemoryOK(p) /\ v \in DOMAIN p.vec
        /\ n \in Nat /\ n = p.vec[v].size /\ n < MaxSize /\ MayAppend(p, v) /\ i <= n
    BY <1>1 DEF Starts, Shape, Insert
  <1>3. PICK q : q = Inserted(p, v, i, e)
    OBVIOUS
  <1>4. Become(q)
    BY <1>2, <1>3 DEF Insert
  <1>5. i \in 0 .. n /\ i \in 0 .. p.vec[v].size
    BY <1>2
  <1>6. PutAt(p, q, v, i, e)
    BY <1>2, <1>3, <1>5, InsertedIs
  <1> QED BY <1>1, <1>2, <1>4, <1>5, <1>6, PutShown

\* erase(i).
LEMMA EraseShown ==
  ASSUME Inv, NEW v \in Vectors, NEW i \in 0 .. MaxSize, Erase(v, i)
  PROVE  Inv' /\ i + 1 \in 1 .. MaxSize /\ Shown!Erase(v, i + 1)
  <1>1. PICK p, n, es, f : Starts(p, v, n, es, f)
    BY ItemsNow DEF Erase
  <1>2. /\ p = Memory /\ MemoryOK(p) /\ DOMAIN p.vec = Alive /\ v \in DOMAIN p.vec
        /\ n \in Nat /\ n = p.vec[v].size /\ es = p.vec[v].elemSize /\ i < n
        /\ ItemsIn(p, v) = [width |-> es, items |-> f]
        /\ 1 .. n \in SUBSET (1 .. MaxSize)
    BY <1>1 DEF Starts, Shape, Erase
  <1>3. f = [k \in 1 .. n |-> Element(p, v, k - 1)]
    BY <1>1 DEF Starts, Shape
  <1>4. PICK q : q = Erased(p, v, i)
    OBVIOUS
  <1>5. Become(q)
    BY <1>2, <1>4 DEF Erase
  <1>6. PICK j \in 1 .. n : j = i + 1
    BY <1>2
  <1>7. Taken(p, q, v, i)
    <2>1. i \in 0 .. p.vec[v].size - 1
      BY <1>2
    <2> QED BY <1>2, <1>4, <2>1, ErasedIs
  <1>8. /\ MemoryOK(q) /\ DOMAIN q.vec = DOMAIN p.vec /\ Others(p, q, {v})
        /\ q.vec[v].size = n - 1 /\ q.vec[v].elemSize = es
    <2>1. q.vec[v].size = n + (-1)
      BY <1>2, <1>7 DEF Taken, Longer
    <2> QED BY <1>2, <1>7, <2>1 DEF Taken, Longer
  <1>9. \A k \in 0 .. n - 2 :
          Element(q, v, k) = IF k < i THEN Element(p, v, k) ELSE Element(p, v, k + 1)
    BY <1>2, <1>7 DEF Taken
  <1>10. PICK g : g = [k \in 1 .. n - 1 |-> Element(q, v, k - 1)]
    OBVIOUS
  <1>11. ItemsIn(q, v) = [width |-> es, items |-> g]
    <2>1. Shape(q, v, n - 1, es, g)
      BY <1>8, <1>10 DEF Shape
    <2> QED BY <2>1, ItemsShape
  <1>12. PICK S : S = {f[k] : k \in 1 .. n}
    OBVIOUS
  <1>13. f \in [1 .. n -> S]
    BY <1>3, <1>12
  <1>14. Shown!RemoveAt(f, j) = [k \in 1 .. n - 1 |-> IF k < j THEN f[k] ELSE f[k + 1]]
    <2>1. OneLess(Shown!RemoveAt(f, j), f, n, j)
      BY <1>2, <1>13, RemovedAt
    <2> QED BY <2>1 DEF OneLess
  <1>15. ASSUME NEW k \in 1 .. n - 1 PROVE g[k] = IF k < j THEN f[k] ELSE f[k + 1]
    <2>1. g[k] = Element(q, v, k - 1) /\ k - 1 \in 0 .. n - 2
      BY <1>2, <1>10
    <2>2. CASE k < j
      <3>1. k - 1 < i /\ k \in 1 .. n
        BY <1>2, <1>6, <2>2
      <3>2. f[k] = Element(p, v, k - 1)
        BY <1>3, <3>1
      <3> QED BY <1>9, <2>1, <2>2, <3>1, <3>2
    <2>3. CASE ~(k < j)
      <3>1. ~(k - 1 < i) /\ k + 1 \in 1 .. n /\ (k - 1) + 1 = (k + 1) - 1
        BY <1>2, <1>6, <2>3
      <3>2. f[k + 1] = Element(p, v, (k + 1) - 1)
        BY <1>3, <3>1
      <3>3. g[k] = Element(p, v, (k - 1) + 1)
        BY <1>9, <2>1, <3>1
      <3> QED BY <2>3, <3>1, <3>2, <3>3
    <2> QED BY <2>2, <2>3
  <1>16. Shown!RemoveAt(f, j) = g
    BY <1>10, <1>14, <1>15
  <1>17. Changes(v, es, f, g)
    <2>1. DOMAIN g \in SUBSET (1 .. MaxSize)
      <3>1. 1 .. n - 1 \in SUBSET (1 .. n)
        BY <1>2
      <3> QED BY <1>2, <1>10, <3>1
    <2>2. ItemsIn(Memory, v) = [width |-> es, items |-> f] /\ Others(Memory, q, {v})
          /\ DOMAIN q.vec = Alive /\ v \in Alive
      BY <1>2, <1>8
    <2> QED BY <1>5, <1>8, <1>11, <2>1, <2>2, ItemsShown
  <1>18. PICK s : s = Seqs
    OBVIOUS
  <1>19. /\ s[v].items = f /\ v \in DOMAIN s /\ Seqs' = [s EXCEPT ![v].items = g]
         /\ Inv' /\ v \in Shown!Alive
    BY <1>17, <1>18 DEF Changes
  <1>20. Seqs' = [Seqs EXCEPT ![v].items = Shown!RemoveAt(Seqs[v].items, i + 1)]
    BY <1>6, <1>16, <1>18, <1>19
  <1>21. i + 1 \in DOMAIN Seqs[v].items /\ i + 1 \in 1 .. MaxSize
    BY <1>2, <1>3, <1>6, <1>18, <1>19
  <1> QED BY <1>19, <1>20, <1>21 DEF Shown!Erase, Seqs

-----------------------------------------------------------------------------
(***************************************************************************)
(* Every execution.                                                        *)
(***************************************************************************)
LEMMA InitInv == Init => Inv /\ Shown!Init
  <1> SUFFICES ASSUME Init PROVE Inv /\ Shown!Init
    OBVIOUS
  <1>1. DOMAIN vec = {} /\ DOMAIN heap = {}
    BY DEF Init
  <1>2. Seqs = [v \in {} |-> Shown!Default]
    BY <1>1 DEF Seqs, Alive
  <1>3. MemoryOK(Memory)
    BY <1>1, FS_EmptySet DEF MemoryOK, Memory
  <1>4. Bounded(Seqs)
    BY <1>2 DEF Bounded
  <1> QED BY <1>1, <1>2, <1>3, <1>4 DEF Inv, Alive, Seqs, Shown!Init

LEMMA OperateShown ==
  ASSUME Inv, NEW v \in Vectors, Operate(v)
  PROVE  Inv' /\ Shown!Next
  <1>1. ASSUME NEW es \in ElemSizes, NEW n \in 0 .. MaxSize, Construct(v, es, n)
        PROVE  Inv' /\ Shown!Next
    BY <1>1, ConstructShown DEF Shown!Next
  <1>2. CASE ConstructDefault(v)
    BY <1>2, DefaultShown DEF Shown!Next
  <1>3. CASE Destroy(v)
    BY <1>3, DestroyShown DEF Shown!Next
  <1>4. ASSUME NEW u \in Vectors, CopyConstruct(v, u) \/ CopyAssign(v, u)
        PROVE  Inv' /\ Shown!Next
    BY <1>4, CopyShown DEF Shown!Next
  <1>5. ASSUME NEW u \in Vectors, MoveConstruct(v, u)
        PROVE  Inv' /\ Shown!Next
    BY <1>5, MoveNewShown DEF Shown!Next
  <1>6. ASSUME NEW u \in Vectors, MoveAssign(v, u)
        PROVE  Inv' /\ Shown!Next
    BY <1>6, ExchangeShown DEF Shown!Next
  <1>7. ASSUME NEW i \in 0 .. MaxSize, NEW e \in Elements, Inv', 
               Shown!Set(v, i + 1, e) \/ Shown!Insert(v, i + 1, e)
        PROVE  Inv' /\ Shown!Next
    <2>1. i + 1 \in 1 .. MaxSize + 1
      BY VectorAssumption
    <2> QED BY <1>7, <2>1 DEF Shown!Next
  <1>8. ASSUME NEW e \in Elements, Append(v, e) PROVE Inv' /\ Shown!Next
    BY <1>7, <1>8, AppendShown
  <1>9. ASSUME NEW i \in 0 .. MaxSize, NEW e \in Elements, Set(v, i, e)
        PROVE  Inv' /\ Shown!Next
    BY <1>7, <1>9, SetShown
  <1>10. ASSUME NEW i \in 0 .. MaxSize, NEW e \in Elements, Insert(v, i, e)
         PROVE  Inv' /\ Shown!Next
    BY <1>7, <1>10, InsertShown
  <1>11. ASSUME NEW i \in 0 .. MaxSize, Erase(v, i) PROVE Inv' /\ Shown!Next
    BY <1>11, EraseShown DEF Shown!Next
  <1> QED BY <1>1, <1>2, <1>3, <1>4, <1>5, <1>6, <1>8, <1>9, <1>10, <1>11 DEF Operate

LEMMA StepInv ==
  ASSUME Inv, [Next]_vars
  PROVE  Inv' /\ (Shown!Next \/ UNCHANGED Seqs)
  <1>1. ASSUME UNCHANGED <<vec, heap>> PROVE Inv' /\ UNCHANGED Seqs
    <2>1. Memory' = Memory /\ Alive' = Alive
      BY <1>1 DEF Memory, Alive
    <2>2. Seqs' = Seqs
      BY <2>1, SeqsAre
    <2> QED BY <2>1, <2>2 DEF Inv
  <1>2. CASE UNCHANGED vars
    BY <1>1, <1>2 DEF vars
  <1>3. ASSUME NEW v \in Vectors, Operate(v) PROVE Inv' /\ Shown!Next
    BY <1>3, OperateShown
  <1>4. ASSUME NEW v \in Vectors, Abort(v) PROVE Inv' /\ UNCHANGED Seqs
    BY <1>1, <1>4 DEF Abort
  <1> QED BY <1>2, <1>3, <1>4 DEF Next

\* In every reachable state the memory is in order.
THEOREM MemoryInOrder == Spec => []Inv
  <1>1. Inv /\ [Next]_vars => Inv'
    BY StepInv
  <1> QED BY <1>1, InitInv, PTL DEF Spec

\* No order of constructions, copies, moves, swaps, reallocations and
\* destructions deletes an array twice, uses it afterwards or leaks it: each
\* allocated array belongs to exactly one vector.
THEOREM ArraysOwned == Spec => []Owned
  <1>1. Inv => Owned
    <2> SUFFICES ASSUME Inv PROVE Owned
      OBVIOUS
    <2>1. PICK p : p = Memory
      OBVIOUS
    <2>2. MemoryOK(p) /\ p.vec = vec /\ p.heap = heap
      BY <2>1 DEF Inv, Memory
    <2>3. /\ NULL \notin DOMAIN heap
          /\ \A a \in DOMAIN heap : \E v \in Alive : vec[v].arr = a
          /\ \A v \in Alive : vec[v].arr # NULL => vec[v].arr \in DOMAIN heap
          /\ \A v, u \in Alive : vec[v].arr = vec[u].arr => v = u \/ vec[v].arr = NULL
      BY <2>2 DEF MemoryOK, Fits, Alive
    <2>4. \A a : a \in DOMAIN heap <=> a \in {vec[v].arr : v \in Alive} \ {NULL}
      BY <2>3
    <2> QED BY <2>3, <2>4 DEF Owned
  <1> QED BY <1>1, MemoryInOrder, PTL

\* The array of every vector has the words that capacity counts, and they hold
\* all the elements that size counts, for any width below that of a word: no
\* get() or set() of an element leaves the array.
THEOREM ElementsInside == Spec => []InCapacity
  <1>1. Inv => InCapacity
    <2> SUFFICES ASSUME Inv, NEW v \in Alive
                 PROVE  /\ vec[v].size * vec[v].elemSize <= WORD_BITS * vec[v].capacity
                        /\ IF vec[v].arr = NULL THEN vec[v].capacity = 0
                           ELSE DOMAIN heap[vec[v].arr] = 0 .. vec[v].capacity - 1
      BY DEF InCapacity
    <2>1. Fits(vec[v], heap)
      BY DEF Inv, MemoryOK, Memory, Alive
    <2> QED BY <2>1 DEF Fits, Array
  <1> QED BY <1>1, MemoryInOrder, PTL

\* The elements that get() returns are sequences, and every operation does to
\* them what its comment says: a write changes no neighbour in the same words,
\* insert() and erase() move the others by one, a copy is independent of its
\* source, and no operation on one vector shows in another.
THEOREM VectorRefinement == Spec => ImplementsSequences
  <1>1. Init => Shown!Init
    BY InitInv
  <1>2. Inv /\ [Next]_vars => [Shown!Next]_Seqs
    BY StepInv
  <1> QED BY <1>1, <1>2, MemoryInOrder, PTL DEF Spec, ImplementsSequences, Shown!Spec, Seqs
=============================================================================
