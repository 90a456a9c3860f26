--------------------------- MODULE HllUnionProofs ---------------------------
(***************************************************************************)
(* Theorems about HllUnion: a sketch and a union of DataSketches, for any  *)
(* number of slots, any values, any sizes of the tables and any coupons.   *)
(* They assume that no sketch is saved as an updatable byte array, the one *)
(* image that loses coupons (run hll_image).                               *)
(*                                                                         *)
(* In order: the open-addressing tables; coupons, and the loops over them; *)
(* coupon sets and the map of exceptions; sums over the slots; registers,  *)
(* and the bytes they are packed in; an array and its operations; what an  *)
(* array shows; lists and sets; a sketch; the union; the invariant.        *)
(***************************************************************************)
EXTENDS HllUnion, NumberLemmas, FiniteSetTheorems, TLAPS

(***************************************************************************)
(* The open-addressing tables. An entry e has an identity id[e], by which  *)
(* it is sought, and a key[e], which says where the search begins.         *)
(***************************************************************************)
Identified(E, key, id) ==
  /\ E \subseteq Nat \ {EMPTY}
  /\ key \in [E -> Nat] /\ id \in [E -> Nat]
  /\ \A e, f \in E : id[e] = id[f] => key[e] = key[f]

\* The entry in a slot is met before an empty slot is, and before any other
\* entry of the same identity.
Seated(table, lg, key, id, slot) ==
  \E n \in 0 .. 2^lg - 1 :
    /\ Probe(lg, key[table[slot]], n) = slot
    /\ \A l \in 0 .. n - 1 :
         /\ table[Probe(lg, key[table[slot]], l)] # EMPTY
         /\ id[table[Probe(lg, key[table[slot]], l)]] # id[table[slot]]

Probed(table, lg, E, key, id) ==
  /\ table \in [0 .. 2^lg - 1 -> E \cup {EMPTY}]
  /\ \A i \in 0 .. 2^lg - 1 : table[i] # EMPTY => Seated(table, lg, key, id, i)

\* The stride of a search is odd, so it comes to every slot once.
LEMMA ProbeIs ==
  ASSUME NEW lg \in Nat, NEW key \in Nat
  PROVE  /\ \A n \in 0 .. 2^lg - 1 : Probe(lg, key, n) \in 0 .. 2^lg - 1
         /\ \A n, l \in 0 .. 2^lg - 1 : Probe(lg, key, n) = Probe(lg, key, l) => n = l
         /\ \A i \in 0 .. 2^lg - 1 : \E n \in 0 .. 2^lg - 1 : Probe(lg, key, n) = i
  <1> DEFINE quotient == key \div 2^lg
             stride == IF quotient % 2 = 1 THEN quotient ELSE quotient + 1
  <1>1. 2^lg \in Nat \ {0}
    BY PowerIs
  <1>2. quotient \in Nat
    BY <1>1
  <1>3. stride \in Nat /\ stride % 2 = 1
    <2> HIDE DEF quotient
    <2> QED BY <1>2
  <1>4. \A n \in 0 .. 2^lg - 1 : Probe(lg, key, n) = (key + n * stride) % 2^lg
    BY DEF Probe
  <1> HIDE DEF stride
  <1>5. ASSUME NEW n \in 0 .. 2^lg - 1 PROVE Probe(lg, key, n) \in 0 .. 2^lg - 1
    <2>1. key + n * stride \in Nat
      BY <1>1, <1>3
    <2> QED BY <1>1, <1>4, <2>1
  <1>6. ASSUME NEW n \in 0 .. 2^lg - 1, NEW l \in 0 .. 2^lg - 1,
               Probe(lg, key, n) = Probe(lg, key, l)
        PROVE  n = l
    BY <1>3, <1>4, <1>6, StridesDiffer
  <1>7. ASSUME NEW i \in 0 .. 2^lg - 1 PROVE \E n \in 0 .. 2^lg - 1 : Probe(lg, key, n) = i
    <2> DEFINE S == 0 .. 2^lg - 1
               f == [n \in S |-> Probe(lg, key, n)]
    <2>1. f \in [S -> S] /\ \A n, l \in S : f[n] = f[l] => n = l
      BY <1>5, <1>6
    <2>2. IsFiniteSet(S)
      BY <1>1, FS_Interval
    <2>3. f \in Injection(S, S)
      <3> HIDE DEF f, S
      <3> QED BY <2>1 DEF Injection, IsInjective
    <2>4. f \in Surjection(S, S)
      <3> HIDE DEF f, S
      <3> QED BY <2>2, <2>3, FS_Injection
    <2>5. \E n \in S : f[n] = i
      <3>1. i \in S
        OBVIOUS
      <3> HIDE DEF f, S
      <3> QED BY <2>4, <3>1 DEF Surjection
    <2> QED BY <2>5
  <1> QED BY <1>5, <1>6, <1>7

\* A search ends at the first slot that is empty or holds what is sought.
LEMMA FindIs ==
  ASSUME NEW lg \in Nat, NEW key \in Nat, NEW table, NEW sought
  PROVE  \/ /\ Find(table, lg, key, sought) = -1
            /\ \A n \in 0 .. 2^lg - 1 : table[Probe(lg, key, n)] \notin sought \cup {EMPTY}
         \/ \E n \in 0 .. 2^lg - 1 :
              /\ Find(table, lg, key, sought) = Probe(lg, key, n)
              /\ table[Probe(lg, key, n)] \in sought \cup {EMPTY}
              /\ \A l \in 0 .. n - 1 : table[Probe(lg, key, l)] \notin sought \cup {EMPTY}
  <1> DEFINE stops == {n \in 0 .. 2^lg - 1 : table[Probe(lg, key, n)] \in sought \cup {EMPTY}}
  <1>1. CASE stops = {}
    BY <1>1 DEF Find
  <1>2. CASE stops # {}
    <2>1. stops \in SUBSET Nat
      BY PowerIs
    <2>2. Min(stops) \in stops /\ \A n \in stops : Min(stops) <= n
      <3> HIDE DEF stops
      <3> QED BY <1>2, <2>1, MinExists
    <2>3. Find(table, lg, key, sought) = Probe(lg, key, Min(stops))
      BY <1>2 DEF Find
    <2> DEFINE n == Min(stops)
    <2>4. n \in 0 .. 2^lg - 1 /\ table[Probe(lg, key, n)] \in sought \cup {EMPTY}
      BY <2>2
    <2>5. ASSUME NEW l \in 0 .. n - 1 PROVE table[Probe(lg, key, l)] \notin sought \cup {EMPTY}
      <3>1. l \in 0 .. 2^lg - 1 /\ ~(n <= l)
        BY <2>4, PowerIs
      <3> QED BY <2>2, <3>1
    <2> HIDE DEF n
    <2> QED BY <2>3, <2>4, <2>5 DEF n
  <1> QED BY <1>1, <1>2

\* What is sought are the entries with the identity of e.
Seeks(table, sought, id, e) ==
  \A i \in DOMAIN table : table[i] # EMPTY => (table[i] \in sought <=> id[table[i]] = id[e])

\* An entry that is in the table is found.
LEMMA FindHit ==
  ASSUME NEW lg \in Nat, NEW E, NEW key, NEW id, Identified(E, key, id),
         NEW table, Probed(table, lg, E, key, id), NEW e \in E, NEW sought,
         Seeks(table, sought, id, e),
         NEW i \in 0 .. 2^lg - 1, table[i] # EMPTY, id[table[i]] = id[e]
  PROVE  Find(table, lg, key[e], sought) = i
  <1>1. /\ table \in [0 .. 2^lg - 1 -> E \cup {EMPTY}] /\ DOMAIN table = 0 .. 2^lg - 1
        /\ table[i] \in E /\ key[table[i]] = key[e] /\ key[e] \in Nat
    BY DEF Probed, Identified
  <1>2. PICK n \in 0 .. 2^lg - 1 :
          /\ Probe(lg, key[e], n) = i
          /\ \A l \in 0 .. n - 1 : /\ table[Probe(lg, key[e], l)] # EMPTY
                                   /\ id[table[Probe(lg, key[e], l)]] # id[e]
    BY <1>1 DEF Probed, Seated
  <1>3. \A l \in 0 .. 2^lg - 1 : Probe(lg, key[e], l) \in 0 .. 2^lg - 1
    BY <1>1, ProbeIs
  <1>4. 2^lg \in Nat /\ \A l \in 0 .. n - 1 : l \in 0 .. 2^lg - 1
    BY PowerIs
  <1>5. \A l \in 0 .. n - 1 : table[Probe(lg, key[e], l)] \notin sought \cup {EMPTY}
    BY <1>1, <1>2, <1>3, <1>4 DEF Seeks
  <1>6. table[Probe(lg, key[e], n)] \in sought \cup {EMPTY}
    BY <1>1, <1>2 DEF Seeks
  <1>7. PICK p \in 0 .. 2^lg - 1 :
          /\ Find(table, lg, key[e], sought) = Probe(lg, key[e], p)
          /\ table[Probe(lg, key[e], p)] \in sought \cup {EMPTY}
          /\ \A l \in 0 .. p - 1 : table[Probe(lg, key[e], l)] \notin sought \cup {EMPTY}
    BY <1>1, <1>6, FindIs
  <1>8. ~(p < n) /\ ~(n < p)
    <2>1. p < n => p \in 0 .. n - 1
      BY <1>4
    <2>2. n < p => n \in 0 .. p - 1
      BY <1>4
    <2> QED BY <1>5, <1>6, <1>7, <2>1, <2>2
  <1>9. p = n
    BY <1>4, <1>8
  <1> QED BY <1>2, <1>7, <1>9

\* For an entry that is not, a search finds a free slot it can be put in.
LEMMA FindMiss ==
  ASSUME NEW lg \in Nat, NEW E, NEW key, NEW id, Identified(E, key, id),
         NEW table, Probed(table, lg, E, key, id), NEW e \in E, NEW sought,
         Seeks(table, sought, id, e),
         \A i \in 0 .. 2^lg - 1 : table[i] # EMPTY => id[table[i]] # id[e],
         \E i \in 0 .. 2^lg - 1 : table[i] = EMPTY
  PROVE  LET r == Find(table, lg, key[e], sought)
         IN  /\ r \in 0 .. 2^lg - 1 /\ table[r] = EMPTY
             /\ Probed([table EXCEPT ![r] = e], lg, E, key, id)
  <1> DEFINE S == 0 .. 2^lg - 1
             r == Find(table, lg, key[e], sought)
             new == [table EXCEPT ![r] = e]
  <1>1. table \in [S -> E \cup {EMPTY}] /\ DOMAIN table = S /\ key[e] \in Nat
    BY DEF Probed, Identified
  <1>2. /\ \A l \in S : Probe(lg, key[e], l) \in S
        /\ \A i \in S : \E n \in S : Probe(lg, key[e], n) = i
    BY <1>1, ProbeIs
  <1>3. PICK n \in S :
          /\ r = Probe(lg, key[e], n)
          /\ table[Probe(lg, key[e], n)] \in sought \cup {EMPTY}
          /\ \A l \in 0 .. n - 1 : table[Probe(lg, key[e], l)] \notin sought \cup {EMPTY}
    <2>1. \E l \in S : table[Probe(lg, key[e], l)] \in sought \cup {EMPTY}
      BY <1>2
    <2> QED BY <1>1, <2>1, FindIs
  <1>4. r \in S /\ table[r] = EMPTY
    BY <1>1, <1>2, <1>3 DEF Seeks
  <1>5. new \in [S -> E \cup {EMPTY}] /\ new[r] = e /\ \A i \in S : i # r => new[i] = table[i]
    BY <1>1, <1>4
  <1>6. e # EMPTY
    BY DEF Identified
  <1>7. 2^lg \in Nat /\ \A p \in S : \A l \in 0 .. p - 1 : l \in S
    BY PowerIs
  <1>8. ASSUME NEW i \in S, new[i] # EMPTY PROVE Seated(new, lg, key, id, i)
    <2>1. CASE i = r
      <3>1. ASSUME NEW l \in 0 .. n - 1
            PROVE  /\ new[Probe(lg, key[e], l)] # EMPTY
                   /\ id[new[Probe(lg, key[e], l)]] # id[e]
        <4>1. Probe(lg, key[e], l) \in S /\ Probe(lg, key[e], l) # r
          BY <1>2, <1>3, <1>4, <1>7
        <4>2. table[Probe(lg, key[e], l)] # EMPTY
          BY <1>3
        <4> QED BY <1>5, <4>1, <4>2
      <3> HIDE DEF r, new
      <3> QED BY <1>3, <1>5, <2>1, <3>1 DEF Seated
    <2>2. CASE i # r
      <3> HIDE DEF r, new
      <3>1. new[i] = table[i] /\ table[i] \in E /\ table[i] # EMPTY
        BY <1>1, <1>5, <1>8, <2>2
      <3>2. PICK p \in S :
              /\ Probe(lg, key[table[i]], p) = i
              /\ \A l \in 0 .. p - 1 : /\ table[Probe(lg, key[table[i]], l)] # EMPTY
                                       /\ id[table[Probe(lg, key[table[i]], l)]] # id[table[i]]
        BY <3>1 DEF Probed, Seated
      <3>3. \A l \in S : Probe(lg, key[table[i]], l) \in S
        BY <3>1, ProbeIs DEF Identified
      <3>4. ASSUME NEW l \in 0 .. p - 1
            PROVE  new[Probe(lg, key[table[i]], l)] = table[Probe(lg, key[table[i]], l)]
        <4>1. Probe(lg, key[table[i]], l) \in S
          BY <1>7, <3>3
        <4>2. Probe(lg, key[table[i]], l) # r
          BY <1>4, <3>2
        <4> QED BY <1>5, <4>1, <4>2
      <3> QED BY <3>1, <3>2, <3>4 DEF Seated
    <2> QED BY <2>1, <2>2
  <1>9. Probed(new, lg, E, key, id)
    <2> HIDE DEF new
    <2> QED BY <1>5, <1>8 DEF Probed
  <1> QED BY <1>4, <1>9

\* No two entries have the same identity.
LEMMA OneSeat ==
  ASSUME NEW lg \in Nat, NEW E, NEW key, NEW id, Identified(E, key, id),
         NEW table, Probed(table, lg, E, key, id),
         NEW i \in 0 .. 2^lg - 1, NEW j \in 0 .. 2^lg - 1,
         table[i] # EMPTY, table[j] # EMPTY, id[table[i]] = id[table[j]]
  PROVE  i = j
  <1> DEFINE sought == {f \in E : id[f] = id[table[i]]}
  <1>1. table \in [0 .. 2^lg - 1 -> E \cup {EMPTY}] /\ table[i] \in E /\ table[j] \in E
    BY DEF Probed
  <1>2. Seeks(table, sought, id, table[i])
    BY <1>1 DEF Seeks
  <1> HIDE DEF sought
  <1>3. Find(table, lg, key[table[i]], sought) = i
    BY <1>1, <1>2, FindHit
  <1>4. Find(table, lg, key[table[i]], sought) = j
    BY <1>1, <1>2, FindHit
  <1> QED BY <1>3, <1>4

\* An entry can be replaced by one of the same identity.
LEMMA Reseat ==
  ASSUME NEW lg \in Nat, NEW E, NEW key, NEW id, Identified(E, key, id),
         NEW table, Probed(table, lg, E, key, id), NEW e \in E,
         NEW i \in 0 .. 2^lg - 1, table[i] # EMPTY, id[table[i]] = id[e]
  PROVE  Probed([table EXCEPT ![i] = e], lg, E, key, id)
  <1> DEFINE S == 0 .. 2^lg - 1
             new == [table EXCEPT ![i] = e]
  <1>1. table \in [S -> E \cup {EMPTY}]
    BY DEF Probed
  <1>2. new \in [S -> E \cup {EMPTY}] /\ new[i] = e /\ \A j \in S : j # i => new[j] = table[j]
    BY <1>1
  <1>3. e # EMPTY /\ table[i] \in E /\ key[table[i]] = key[e]
    BY <1>1 DEF Identified
  <1>4. \A j \in S : table[j] # EMPTY => /\ new[j] # EMPTY /\ id[new[j]] = id[table[j]]
                                         /\ key[new[j]] = key[table[j]]
    BY <1>2, <1>3
  <1>5. 2^lg \in Nat /\ \A p \in S : \A l \in 0 .. p - 1 : l \in S
    BY PowerIs
  <1>6. ASSUME NEW j \in S, new[j] # EMPTY PROVE Seated(new, lg, key, id, j)
    <2>1. table[j] # EMPTY /\ table[j] \in E
      BY <1>1, <1>2, <1>6
    <2> HIDE DEF new
    <2>2. PICK p \in S :
            /\ Probe(lg, key[table[j]], p) = j
            /\ \A l \in 0 .. p - 1 : /\ table[Probe(lg, key[table[j]], l)] # EMPTY
                                     /\ id[table[Probe(lg, key[table[j]], l)]] # id[table[j]]
      BY <2>1 DEF Probed, Seated
    <2>3. \A l \in S : Probe(lg, key[table[j]], l) \in S
      BY <2>1, ProbeIs DEF Identified
    <2>4. \A l \in 0 .. p - 1 : /\ new[Probe(lg, key[new[j]], l)] # EMPTY
                                /\ id[new[Probe(lg, key[new[j]], l)]] # id[new[j]]
      BY <1>4, <1>5, <2>1, <2>2, <2>3
    <2> QED BY <1>4, <2>1, <2>2, <2>4 DEF Seated
  <1> HIDE DEF new
  <1>7. Probed(new, lg, E, key, id)
    BY <1>2, <1>6 DEF Probed
  <1> QED BY <1>7 DEF new

\* An empty table can be searched.
LEMMA NewTableProbed ==
  ASSUME NEW lg \in Nat, NEW E, NEW key, NEW id
  PROVE  Probed(NewTable(lg), lg, E, key, id) /\ Entries(NewTable(lg)) = {}
  BY PowerIs DEF Probed, NewTable, Entries

\* A table has as many entries as slots that are not empty.
LEMMA EntriesFinite ==
  ASSUME NEW lg \in Nat, NEW E, NEW key, NEW id, NEW table, Probed(table, lg, E, key, id)
  PROVE  /\ IsFiniteSet(Entries(table)) /\ Entries(table) \subseteq E
         /\ IsFiniteSet(DOMAIN table) /\ Cardinality(DOMAIN table) = 2^lg
  <1>1. table \in [0 .. 2^lg - 1 -> E \cup {EMPTY}] /\ DOMAIN table = 0 .. 2^lg - 1
    BY DEF Probed
  <1>2. IsFiniteSet(0 .. 2^lg - 1) /\ Cardinality(0 .. 2^lg - 1) = 2^lg
    <2>1. 2^lg \in Nat /\ 2^lg - 1 \in Int /\ ~(0 > 2^lg - 1) /\ 2^lg - 1 - 0 + 1 = 2^lg
      BY PowerIs
    <2> QED BY <2>1, FS_Interval
  <1>3. IsFiniteSet({table[i] : i \in DOMAIN table})
    <2> DEFINE T == {table[i] : i \in DOMAIN table}
    <2>1. table \in Surjection(DOMAIN table, T)
      BY <1>1 DEF Surjection
    <2> HIDE DEF T
    <2>2. IsFiniteSet(T)
      BY <1>1, <1>2, <2>1, FS_Surjection
    <2> QED BY <2>2 DEF T
  <1>4. IsFiniteSet(Entries(table))
    BY <1>3, FS_Subset DEF Entries
  <1>5. Entries(table) \subseteq E
    BY <1>1 DEF Entries
  <1> QED BY <1>1, <1>2, <1>4, <1>5

\* A table with fewer entries than slots has an empty one.
LEMMA HasSpace ==
  ASSUME NEW lg \in Nat, NEW E, NEW key, NEW id, Identified(E, key, id),
         NEW table, Probed(table, lg, E, key, id), Cardinality(Entries(table)) < 2^lg
  PROVE  \E i \in 0 .. 2^lg - 1 : table[i] = EMPTY
  <1> SUFFICES ASSUME \A i \in 0 .. 2^lg - 1 : table[i] # EMPTY PROVE FALSE
    OBVIOUS
  <1>1. table \in [0 .. 2^lg - 1 -> E \cup {EMPTY}] /\ DOMAIN table = 0 .. 2^lg - 1
    BY DEF Probed
  <1>2. table \in [0 .. 2^lg - 1 -> Entries(table)]
    BY <1>1 DEF Entries
  <1>3. PICK i \in 0 .. 2^lg - 1, j \in 0 .. 2^lg - 1 : i # j /\ table[i] = table[j]
    BY <1>1, <1>2, EntriesFinite, FS_PigeonHole
  <1> QED BY <1>3, OneSeat

(***************************************************************************)
(* Coupons.                                                                *)
(***************************************************************************)
Coupon == {pair(slotNo, value) : slotNo \in 0 .. 2^KeyBits - 1, value \in 1 .. ValueMax}

\* The remainder by a power of two keeps the remainder by a smaller one.
LEMMA ModMod ==
  ASSUME NEW a \in Nat, NEW b \in Nat, a <= b, NEW x \in Nat
  PROVE  /\ (x % 2^b) % 2^a = x % 2^a
         /\ x % 2^a \in 0 .. 2^a - 1
  <1> DEFINE p == 2^a
             m == 2^(b - a)
  <1>1. b - a \in Nat /\ a + (b - a) = b
    OBVIOUS
  <1>2. p \in Nat \ {0} /\ m \in Nat \ {0} /\ 2^b = p * m
    <2>1. 2^(a + (b - a)) = 2^a * 2^(b - a)
      BY <1>1, PowerAdd
    <2> QED BY <1>1, <2>1, PowerIs
  <1> HIDE DEF p, m
  <1> DEFINE w == p * m
  <1>3. w \in Nat \ {0}
    BY <1>2
  <1> HIDE DEF w
  <1> DEFINE q == x \div w
             r == x % w
  <1>4. q \in Nat /\ r \in 0 .. w - 1 /\ x = w * q + r
    BY <1>3
  <1> HIDE DEF q, r
  <1> DEFINE q2 == r \div p
             r2 == r % p
  <1>5. q2 \in Nat /\ r2 \in 0 .. p - 1 /\ r = p * q2 + r2
    <2>1. r \in Nat
      BY <1>3, <1>4
    <2> QED BY <1>2, <2>1
  <1> HIDE DEF q2, r2
  <1>6. x = p * (m * q + q2) + r2
    <2>1. w * q = p * (m * q)
      BY <1>2, <1>4 DEF w
    <2>2. p * (m * q + q2) = p * (m * q) + p * q2
      BY <1>2, <1>4, <1>5
    <2> QED BY <1>2, <1>3, <1>4, <1>5, <2>1, <2>2
  <1>7. m * q + q2 \in Nat
    BY <1>2, <1>4, <1>5
  <1>8. x % p = r2
    BY <1>2, <1>5, <1>6, <1>7, DivUnique
  <1>9. r % p = r2
    BY DEF r2
  <1> QED BY <1>2, <1>5, <1>8, <1>9 DEF p, r, w

\* An address and a value can be read back from their coupon.
LEMMA PairIs ==
  ASSUME NEW s \in 0 .. 2^KeyBits - 1, NEW w \in 1 .. ValueMax
  PROVE  /\ pair(s, w) \in Coupon
         /\ pair(s, w) \in Nat /\ pair(s, w) # EMPTY
         /\ getLow26(pair(s, w)) = s /\ getValue(pair(s, w)) = w
  <1> DEFINE p == 2^KeyBits
  <1>1. p \in Nat \ {0} /\ ValueMax \in Nat
    BY PowerIs, TableAssumption, ArrayAssumption
  <1>2. s \in 0 .. p - 1 /\ s \in Nat
    BY <1>1
  <1>3. pair(s, w) = p * w + s
    <2> HIDE DEF p
    <2>1. s % p = s /\ w * p = p * w
      BY <1>1, <1>2
    <2> QED BY <2>1 DEF pair, p
  <1> HIDE DEF p
  <1>4. p * w \in Nat /\ p * w # 0 /\ w \in Nat
    BY <1>1
  <1>5. pair(s, w) \div p = w /\ pair(s, w) % p = s
    BY <1>1, <1>2, <1>3, <1>4, DivUnique
  <1> QED BY <1>2, <1>3, <1>4, <1>5 DEF Coupon, EMPTY, getLow26, getValue, p

\* A coupon is made of its address and its value.
LEMMA CouponIs ==
  ASSUME NEW c \in Coupon
  PROVE  /\ c \in Nat /\ c # EMPTY
         /\ getLow26(c) \in 0 .. 2^KeyBits - 1 /\ getLow26(c) \in Nat
         /\ getValue(c) \in 1 .. ValueMax
         /\ c = pair(getLow26(c), getValue(c))
  <1>1. PICK s \in 0 .. 2^KeyBits - 1, w \in 1 .. ValueMax : c = pair(s, w)
    BY DEF Coupon
  <1>2. s \in Nat
    BY PowerIs, TableAssumption
  <1> QED BY <1>1, <1>2, PairIs

\* Its slot among 2^k, by its key or by the coupon itself.
LEMMA SlotIs ==
  ASSUME NEW c \in Coupon, NEW k \in 1 .. KeyBits
  PROVE  /\ getLow26(c) % 2^k = c % 2^k
         /\ c % 2^k \in 0 .. 2^k - 1
  <1>1. c \in Nat /\ k \in Nat /\ KeyBits \in Nat /\ k <= KeyBits
    BY CouponIs, TableAssumption
  <1> QED BY <1>1, ModMod DEF getLow26

\* The sizes 2^k an array may have.
LEMMA SlotsIn ==
  ASSUME NEW k \in 1 .. KeyBits
  PROVE  /\ 2^k \in Nat /\ 2^k > 0 /\ 2^k <= 2^KeyBits
         /\ 0 .. 2^k - 1 \subseteq 0 .. 2^KeyBits - 1
         /\ 2^(k - 1) \in Nat /\ 2^(k - 1) > 0 /\ 2^k = 2 * 2^(k - 1)
         /\ k \in Nat
  <1>1. k \in Nat /\ k - 1 \in Nat /\ (k - 1) + 1 = k /\ KeyBits \in Nat /\ k <= KeyBits
    BY TableAssumption
  <1>2. 2^k \in Nat /\ 2^k > 0 /\ 2^KeyBits \in Nat /\ 2^k <= 2^KeyBits
    BY <1>1, PowerIs, PowerMonotone
  <1>3. 2^(k - 1) \in Nat /\ 2^(k - 1) > 0 /\ 2^k = 2 * 2^(k - 1)
    BY <1>1, PowerIs
  <1> QED BY <1>1, <1>2, <1>3

\* A register of a slot as a coupon.
LEMMA RegisterPair ==
  ASSUME NEW k \in 1 .. KeyBits, NEW i \in 0 .. 2^k - 1, NEW w \in 1 .. ValueMax
  PROVE  /\ pair(i, w) \in Coupon /\ pair(i, w) # EMPTY
         /\ getLow26(pair(i, w)) = i /\ getValue(pair(i, w)) = w
         /\ i % 2^k = i /\ pair(i, w) % 2^k = i
  <1>1. i \in 0 .. 2^KeyBits - 1 /\ 2^k \in Nat \ {0}
    BY SlotsIn
  <1>2. /\ pair(i, w) \in Coupon /\ pair(i, w) # EMPTY
        /\ getLow26(pair(i, w)) = i /\ getValue(pair(i, w)) = w
    BY <1>1, PairIs
  <1>3. i % 2^k = i
    BY <1>1, MaskFits
  <1> QED BY <1>2, <1>3, SlotIs

(***************************************************************************)
(* Loops over the entries of a table. The rounds of every loop of the      *)
(* sketches, by number, so that one proof shows that each has a state      *)
(* after every round.                                                      *)
(***************************************************************************)
Round(loop, lg, k, x, e) ==
  CASE loop = 1 -> [x EXCEPT ![FindCoupon(x, lg, e)] = e]
    [] loop = 2 -> [x EXCEPT ![FindSlot(x, lg, k, e % 2^k)] = e]
    [] loop = 3 -> mustAdd(x, k, getLow26(e) % 2^k, getValue(e))
    [] loop = 4 -> internalCouponUpdate(x, e)
    [] loop = 5 -> SetInsert(x, e)
    [] loop = 6 -> couponUpdate(x, e)
    [] loop = 7 -> RaiseOnce(x)

\* g[i] is the state after i rounds.
IsLoop(g, loop, lg, k, first, t, n) ==
  /\ g = [i \in 0 .. n |-> g[i]]
  /\ \A i \in 0 .. n : g[i] = IF i = 0 THEN first
                           ELSE IF t[i - 1] = EMPTY THEN g[i - 1]
                           ELSE Round(loop, lg, k, g[i - 1], t[i - 1])

\* A loop over n entries has a state after each of its rounds.
LEMMA LoopExists ==
  ASSUME NEW loop, NEW lg, NEW k, NEW first, NEW t, NEW n \in Nat
  PROVE  \E g : IsLoop(g, loop, lg, k, first, t, n)
  <1> DEFINE Ok(g, l) == \A i \in 0 .. l : g[i] = IF i = 0 THEN first
                                      ELSE IF t[i - 1] = EMPTY THEN g[i - 1]
                                      ELSE Round(loop, lg, k, g[i - 1], t[i - 1])
             T == {l \in 0 .. n : \E g : g = [i \in 0 .. l |-> g[i]] /\ Ok(g, l)}
  <1>1. 0 \in T
    <2> DEFINE g == [i \in 0 .. 0 |-> first]
    <2>1. g = [i \in 0 .. 0 |-> g[i]] /\ Ok(g, 0)
      OBVIOUS
    <2> HIDE DEF g
    <2>2. \E h : h = [i \in 0 .. 0 |-> h[i]] /\ Ok(h, 0)
      BY <2>1
    <2> QED BY <2>2
  <1>2. ASSUME NEW l \in 0 .. n - 1, l \in T PROVE l + 1 \in T
    <2>1. PICK g : g = [i \in 0 .. l |-> g[i]] /\ Ok(g, l)
      BY <1>2
    <2> DEFINE next == IF t[l] = EMPTY THEN g[l] ELSE Round(loop, lg, k, g[l], t[l])
               h == [i \in 0 .. l + 1 |-> IF i = l + 1 THEN next ELSE g[i]]
    <2>2. l \in Nat /\ (l + 1) - 1 = l /\ l \in 0 .. l + 1 /\ l # l + 1
      OBVIOUS
    <2>3. \A i \in 0 .. l : i \in 0 .. l + 1 /\ i # l + 1
      OBVIOUS
    <2>4. \A i \in 0 .. l : h[i] = g[i]
      BY <2>3
    <2>5. h[l + 1] = next
      BY <2>2
    <2>6. h = [i \in 0 .. l + 1 |-> h[i]]
      OBVIOUS
    <2> HIDE DEF h
    <2>7. ASSUME NEW i \in 0 .. l + 1
          PROVE  h[i] = IF i = 0 THEN first
                        ELSE IF t[i - 1] = EMPTY THEN h[i - 1]
                        ELSE Round(loop, lg, k, h[i - 1], t[i - 1])
      <3>1. CASE i = l + 1
        <4>1. h[i - 1] = g[l] /\ i - 1 = l /\ i # 0 /\ h[i] = next
          BY <2>2, <2>4, <2>5, <3>1
        <4> QED BY <4>1
      <3>2. CASE i = 0
        <4>1. 0 \in 0 .. l
          BY <2>2
        <4> QED BY <2>1, <2>4, <3>2, <4>1
      <3>3. CASE i # l + 1 /\ i # 0
        <4>1. i \in 0 .. l /\ i - 1 \in 0 .. l
          BY <3>3
        <4>2. h[i] = g[i] /\ h[i - 1] = g[i - 1]
          BY <2>4, <4>1
        <4> QED BY <2>1, <3>3, <4>1, <4>2
      <3> QED BY <3>1, <3>2, <3>3
    <2>8. Ok(h, l + 1)
      BY <2>7
    <2> HIDE DEF Ok
    <2>9. \E f : f = [i \in 0 .. l + 1 |-> f[i]] /\ Ok(f, l + 1)
      BY <2>6, <2>8
    <2> QED BY <2>9
  <1>3. n \in T
    <2> HIDE DEF T
    <2>1. \A l \in 0 .. n : l \in T
      BY <1>1, <1>2, Rounds
    <2> QED BY <2>1
  <1>4. PICK g : g = [i \in 0 .. n |-> g[i]] /\ Ok(g, n)
    BY <1>3
  <1>5. IsLoop(g, loop, lg, k, first, t, n)
    BY <1>4 DEF IsLoop
  <1> QED BY <1>5

\* The rounds of a loop pass over the empty slots.
LEMMA LoopRounds ==
  ASSUME NEW f, NEW loop, NEW lg, NEW k, NEW first, NEW t, NEW n \in Nat,
         IsLoop(f, loop, lg, k, first, t, n)
  PROVE  /\ f[0] = first
         /\ \A i \in 0 .. n - 1 : /\ t[i] = EMPTY => f[i + 1] = f[i]
                                  /\ t[i] # EMPTY => f[i + 1] = Round(loop, lg, k, f[i], t[i])
  <1>1. \A i \in 0 .. n : f[i] = IF i = 0 THEN first
                             ELSE IF t[i - 1] = EMPTY THEN f[i - 1]
                             ELSE Round(loop, lg, k, f[i - 1], t[i - 1])
    BY DEF IsLoop
  <1>2. 0 \in 0 .. n
    OBVIOUS
  <1>3. ASSUME NEW i \in 0 .. n - 1
        PROVE  /\ t[i] = EMPTY => f[i + 1] = f[i]
               /\ t[i] # EMPTY => f[i + 1] = Round(loop, lg, k, f[i], t[i])
    <2>1. i + 1 \in 0 .. n /\ i + 1 # 0 /\ (i + 1) - 1 = i
      OBVIOUS
    <2> QED BY <1>1, <2>1
  <1> QED BY <1>1, <1>2, <1>3

\* The loops of the model.
UpdateAll(h, t) == ForEach(internalCouponUpdate, h, t)

InsertAll(x, t) == ForEach(SetInsert, x, t)

CouponAll(x, t) == ForEach(couponUpdate, x, t)

\* The table growAuxSpace fills.
Regrown(lg, k, t) ==
  ForEach(LAMBDA grown, entry : [grown EXCEPT ![FindSlot(grown, lg, k, entry % 2^k)] = entry],
          NewTable(lg), t)

\* Each loop of the model is one of these, with its own round.
LEMMA UpdateLoop ==
  ASSUME NEW first, NEW t, NEW n \in Nat, DOMAIN t = 0 .. n - 1
  PROVE  \E f : IsLoop(f, 4, 0, 0, first, t, n) /\ f[n] = UpdateAll(first, t)
  <1> DEFINE Body(g) == [i \in 0 .. n |->
                          IF i = 0 THEN first
                          ELSE IF t[i - 1] = EMPTY THEN g[i - 1]
                          ELSE internalCouponUpdate(g[i - 1], t[i - 1])]
             after == CHOOSE g : g = Body(g)
  <1>1. \A x, e : Round(4, 0, 0, x, e) = internalCouponUpdate(x, e)
    BY DEF Round
  <1>2. PICK g : IsLoop(g, 4, 0, 0, first, t, n)
    BY LoopExists
  <1>3. g = Body(g)
    BY <1>1, <1>2 DEF IsLoop
  <1>4. after = Body(after)
    <2> HIDE DEF Body
    <2> QED BY <1>3
  <1>5. UpdateAll(first, t) = after[n]
    <2>1. Cardinality(DOMAIN t) = n
      BY FS_Interval
    <2> QED BY <2>1 DEF ForEach, UpdateAll
  <1> HIDE DEF after
  <1>6. IsLoop(after, 4, 0, 0, first, t, n)
    BY <1>1, <1>4 DEF IsLoop
  <1> QED BY <1>5, <1>6

LEMMA InsertLoop ==
  ASSUME NEW first, NEW t, NEW n \in Nat, DOMAIN t = 0 .. n - 1
  PROVE  \E f : IsLoop(f, 5, 0, 0, first, t, n) /\ f[n] = InsertAll(first, t)
  <1> DEFINE Body(g) == [i \in 0 .. n |->
                          IF i = 0 THEN first
                          ELSE IF t[i - 1] = EMPTY THEN g[i - 1]
                          ELSE SetInsert(g[i - 1], t[i - 1])]
             after == CHOOSE g : g = Body(g)
  <1>1. \A x, e : Round(5, 0, 0, x, e) = SetInsert(x, e)
    BY DEF Round
  <1>2. PICK g : IsLoop(g, 5, 0, 0, first, t, n)
    BY LoopExists
  <1>3. g = Body(g)
    BY <1>1, <1>2 DEF IsLoop
  <1>4. after = Body(after)
    <2> HIDE DEF Body
    <2> QED BY <1>3
  <1>5. InsertAll(first, t) = after[n]
    <2>1. Cardinality(DOMAIN t) = n
      BY FS_Interval
    <2> QED BY <2>1 DEF ForEach, InsertAll
  <1> HIDE DEF after
  <1>6. IsLoop(after, 5, 0, 0, first, t, n)
    BY <1>1, <1>4 DEF IsLoop
  <1> QED BY <1>5, <1>6

LEMMA CouponLoop ==
  ASSUME NEW first, NEW t, NEW n \in Nat, DOMAIN t = 0 .. n - 1
  PROVE  \E f : IsLoop(f, 6, 0, 0, first, t, n) /\ f[n] = CouponAll(first, t)
  <1> DEFINE Body(g) == [i \in 0 .. n |->
                          IF i = 0 THEN first
                          ELSE IF t[i - 1] = EMPTY THEN g[i - 1]
                          ELSE couponUpdate(g[i - 1], t[i - 1])]
             after == CHOOSE g : g = Body(g)
  <1>1. \A x, e : Round(6, 0, 0, x, e) = couponUpdate(x, e)
    BY DEF Round
  <1>2. PICK g : IsLoop(g, 6, 0, 0, first, t, n)
    BY LoopExists
  <1>3. g = Body(g)
    BY <1>1, <1>2 DEF IsLoop
  <1>4. after = Body(after)
    <2> HIDE DEF Body
    <2> QED BY <1>3
  <1>5. CouponAll(first, t) = after[n]
    <2>1. Cardinality(DOMAIN t) = n
      BY FS_Interval
    <2> QED BY <2>1 DEF ForEach, CouponAll
  <1> HIDE DEF after
  <1>6. IsLoop(after, 6, 0, 0, first, t, n)
    BY <1>1, <1>4 DEF IsLoop
  <1> QED BY <1>5, <1>6

LEMMA AddLoop ==
  ASSUME NEW lg, NEW k, NEW t, NEW n \in Nat, DOMAIN t = 0 .. n - 1
  PROVE  \E f : IsLoop(f, 3, 0, k, NewAux(lg), t, n) /\ f[n] = AuxOf(lg, k, t)
  <1> DEFINE first == NewAux(lg)
             Body(g) == [i \in 0 .. n |->
                          IF i = 0 THEN first
                          ELSE IF t[i - 1] = EMPTY THEN g[i - 1]
                          ELSE mustAdd(g[i - 1], k, getLow26(t[i - 1]) % 2^k, getValue(t[i - 1]))]
             after == CHOOSE g : g = Body(g)
  <1>1. \A x, e : Round(3, 0, k, x, e) = mustAdd(x, k, getLow26(e) % 2^k, getValue(e))
    BY DEF Round
  <1>2. PICK g : IsLoop(g, 3, 0, k, first, t, n)
    BY LoopExists
  <1>3. g = Body(g)
    BY <1>1, <1>2 DEF IsLoop
  <1>4. after = Body(after)
    <2> HIDE DEF Body
    <2> QED BY <1>3
  <1>5. AuxOf(lg, k, t) = after[n]
    <2>1. Cardinality(DOMAIN t) = n
      BY FS_Interval
    <2> QED BY <2>1 DEF ForEach, AuxOf
  <1> HIDE DEF after
  <1>6. IsLoop(after, 3, 0, k, first, t, n)
    BY <1>1, <1>4 DEF IsLoop
  <1> QED BY <1>5, <1>6

LEMMA RehashLoop ==
  ASSUME NEW lg, NEW t, NEW n \in Nat, DOMAIN t = 0 .. n - 1
  PROVE  \E f : IsLoop(f, 1, lg, 0, NewTable(lg), t, n) /\ f[n] = Rehash(t, lg)
  <1> DEFINE first == NewTable(lg)
             Body(g) == [i \in 0 .. n |->
                          IF i = 0 THEN first
                          ELSE IF t[i - 1] = EMPTY THEN g[i - 1]
                          ELSE [g[i - 1] EXCEPT ![FindCoupon(g[i - 1], lg, t[i - 1])] = t[i - 1]]]
             after == CHOOSE g : g = Body(g)
  <1>1. \A x, e : Round(1, lg, 0, x, e) = [x EXCEPT ![FindCoupon(x, lg, e)] = e]
    BY DEF Round
  <1>2. PICK g : IsLoop(g, 1, lg, 0, first, t, n)
    BY LoopExists
  <1>3. g = Body(g)
    BY <1>1, <1>2 DEF IsLoop
  <1>4. after = Body(after)
    <2> HIDE DEF Body
    <2> QED BY <1>3
  <1>5. Rehash(t, lg) = after[n]
    <2>1. Cardinality(DOMAIN t) = n
      BY FS_Interval
    <2> QED BY <2>1 DEF ForEach, Rehash
  <1> HIDE DEF after
  <1>6. IsLoop(after, 1, lg, 0, first, t, n)
    BY <1>1, <1>4 DEF IsLoop
  <1> QED BY <1>5, <1>6

LEMMA GrowLoop ==
  ASSUME NEW lg, NEW k, NEW t, NEW n \in Nat, DOMAIN t = 0 .. n - 1
  PROVE  \E f : IsLoop(f, 2, lg, k, NewTable(lg), t, n) /\ f[n] = Regrown(lg, k, t)
  <1> DEFINE first == NewTable(lg)
             Body(g) == [i \in 0 .. n |->
                          IF i = 0 THEN first
                          ELSE IF t[i - 1] = EMPTY THEN g[i - 1]
                          ELSE [g[i - 1] EXCEPT ![FindSlot(g[i - 1], lg, k, t[i - 1] % 2^k)] = t[i - 1]]]
             after == CHOOSE g : g = Body(g)
  <1>1. \A x, e : Round(2, lg, k, x, e) = [x EXCEPT ![FindSlot(x, lg, k, e % 2^k)] = e]
    BY DEF Round
  <1>2. PICK g : IsLoop(g, 2, lg, k, first, t, n)
    BY LoopExists
  <1>3. g = Body(g)
    BY <1>1, <1>2 DEF IsLoop
  <1>4. after = Body(after)
    <2> HIDE DEF Body
    <2> QED BY <1>3
  <1>5. Regrown(lg, k, t) = after[n]
    <2>1. Cardinality(DOMAIN t) = n
      BY FS_Interval
    <2> QED BY <2>1 DEF ForEach, Regrown
  <1> HIDE DEF after
  <1>6. IsLoop(after, 2, lg, k, first, t, n)
    BY <1>1, <1>4 DEF IsLoop
  <1> QED BY <1>5, <1>6

\* The entries a loop over a table has met after i rounds.
Before(t, i) == {t[l] : l \in 0 .. i - 1} \ {EMPTY}

\* The entries before slot i, as i goes up.
LEMMA BeforeIs ==
  ASSUME NEW n \in Nat, NEW t, DOMAIN t = 0 .. n - 1
  PROVE  /\ Before(t, 0) = {} /\ Before(t, n) = Entries(t)
         /\ \A i \in 0 .. n - 1 :
              Before(t, i + 1) = IF t[i] = EMPTY THEN Before(t, i) ELSE Before(t, i) \cup {t[i]}
         /\ \A i \in 0 .. n : Before(t, i) \subseteq Entries(t)
         /\ \A i \in 0 .. n - 1 : t[i] # EMPTY => t[i] \in Entries(t)
  <1>1. Before(t, 0) = {} /\ Before(t, n) = Entries(t)
    BY DEF Before, Entries
  <1>2. ASSUME NEW i \in 0 .. n - 1
        PROVE  Before(t, i + 1) = IF t[i] = EMPTY THEN Before(t, i) ELSE Before(t, i) \cup {t[i]}
    <2>1. 0 .. (i + 1) - 1 = (0 .. i - 1) \cup {i}
      OBVIOUS
    <2> QED BY <2>1 DEF Before
  <1>3. ASSUME NEW i \in 0 .. n PROVE Before(t, i) \subseteq Entries(t)
    <2>1. 0 .. i - 1 \subseteq 0 .. n - 1
      OBVIOUS
    <2> QED BY <2>1 DEF Before, Entries
  <1>4. \A i \in 0 .. n - 1 : t[i] # EMPTY => t[i] \in Entries(t)
    BY DEF Entries
  <1> QED BY <1>1, <1>2, <1>3, <1>4

\* Putting an entry into an empty slot adds it.
LEMMA EntriesPut ==
  ASSUME NEW t, NEW i \in DOMAIN t, t = [j \in DOMAIN t |-> t[j]], NEW e, e # EMPTY
  PROVE  /\ t[i] = EMPTY => Entries([t EXCEPT ![i] = e]) = Entries(t) \cup {e}
         /\ (\A j \in DOMAIN t : t[j] = t[i] => j = i) =>
              Entries([t EXCEPT ![i] = e]) = (Entries(t) \ {t[i]}) \cup {e}
  <1> DEFINE u == [t EXCEPT ![i] = e]
  <1>1. DOMAIN u = DOMAIN t /\ u[i] = e /\ \A j \in DOMAIN t : j # i => u[j] = t[j]
    OBVIOUS
  <1> HIDE DEF u
  <1>2. ASSUME t[i] = EMPTY PROVE Entries(u) = Entries(t) \cup {e}
    BY <1>1, <1>2 DEF Entries
  <1>3. ASSUME \A j \in DOMAIN t : t[j] = t[i] => j = i
        PROVE  Entries(u) = (Entries(t) \ {t[i]}) \cup {e}
    BY <1>1, <1>3 DEF Entries
  <1> QED BY <1>2, <1>3 DEF u

-----------------------------------------------------------------------------
(***************************************************************************)
(* The coupon set.                                                         *)
(***************************************************************************)
LowOf == [c \in Coupon |-> getLow26(c)]
Self == [c \in Coupon |-> c]

CouponTable(t, lg) == Probed(t, lg, Coupon, LowOf, Self)

LEMMA CouponsIdentified == Identified(Coupon, LowOf, Self)
  <1>1. \A c \in Coupon : c \in Nat \ {EMPTY} /\ getLow26(c) \in Nat
    BY CouponIs
  <1> QED BY <1>1 DEF Identified, LowOf, Self

\* A coupon set is a function on its slots.
LEMMA CouponTableIs ==
  ASSUME NEW lg \in Nat, NEW t, CouponTable(t, lg)
  PROVE  /\ t \in [0 .. 2^lg - 1 -> Coupon \cup {EMPTY}] /\ DOMAIN t = 0 .. 2^lg - 1
         /\ 2^lg \in Nat /\ 2^lg > 0
         /\ IsFiniteSet(Entries(t)) /\ Entries(t) \subseteq Coupon
         /\ Cardinality(DOMAIN t) = 2^lg
  BY PowerIs, EntriesFinite DEF CouponTable, Probed

\* Where the table sends a coupon, it is or goes.
CouponPut(t, lg, c) == [t EXCEPT ![FindCoupon(t, lg, c)] = c]

\* A coupon is found if the set has it; if not, an empty slot of the set is
\* found, and the set with the coupon in it can still be searched.
LEMMA FindCouponIs ==
  ASSUME NEW lg \in Nat, NEW t, CouponTable(t, lg), NEW c \in Coupon
  PROVE  LET slot == FindCoupon(t, lg, c)
             u == CouponPut(t, lg, c)
         IN  /\ c \in Entries(t) =>
                  slot \in 0 .. 2^lg - 1 /\ t[slot] = c /\ u = t
             /\ c \notin Entries(t) /\ Cardinality(Entries(t)) < 2^lg =>
                  /\ slot \in 0 .. 2^lg - 1 /\ t[slot] = EMPTY
                  /\ CouponTable(u, lg) /\ Entries(u) = Entries(t) \cup {c}
  <1> DEFINE slot == FindCoupon(t, lg, c)
             u == [t EXCEPT ![slot] = c]
  <1>0. CouponPut(t, lg, c) = u
    BY DEF CouponPut
  <1>1. t \in [0 .. 2^lg - 1 -> Coupon \cup {EMPTY}] /\ DOMAIN t = 0 .. 2^lg - 1
    BY CouponTableIs
  <1>2. Seeks(t, {c}, Self, c)
    BY <1>1 DEF Seeks, Self
  <1>3. slot = Find(t, lg, LowOf[c], {c})
    BY DEF FindCoupon, LowOf
  <1>4. Probed(t, lg, Coupon, LowOf, Self)
    BY DEF CouponTable
  <1>5. c # EMPTY
    BY CouponIs
  <1>6. ASSUME c \in Entries(t)
        PROVE  slot \in 0 .. 2^lg - 1 /\ t[slot] = c /\ u = t
    <2>1. PICK i \in 0 .. 2^lg - 1 : t[i] = c
      BY <1>1, <1>6 DEF Entries
    <2>2. t[i] # EMPTY /\ Self[t[i]] = Self[c]
      BY <1>5, <2>1
    <2>3. slot = i
      BY <1>2, <1>3, <1>4, <2>2, CouponsIdentified, FindHit
    <2> HIDE DEF slot
    <2>4. u = t
      BY <1>1, <2>1, <2>3
    <2> QED BY <2>1, <2>3, <2>4
  <1>7. ASSUME c \notin Entries(t), Cardinality(Entries(t)) < 2^lg
        PROVE  /\ slot \in 0 .. 2^lg - 1 /\ t[slot] = EMPTY
               /\ CouponTable(u, lg) /\ Entries(u) = Entries(t) \cup {c}
    <2>1. \A i \in 0 .. 2^lg - 1 : t[i] # EMPTY => Self[t[i]] # Self[c]
      BY <1>1, <1>5, <1>7 DEF Entries, Self
    <2>2. \E i \in 0 .. 2^lg - 1 : t[i] = EMPTY
      BY <1>4, <1>7, CouponsIdentified, HasSpace
    <2> DEFINE r == Find(t, lg, LowOf[c], {c})
    <2>3. /\ r \in 0 .. 2^lg - 1 /\ t[r] = EMPTY
          /\ Probed([t EXCEPT ![r] = c], lg, Coupon, LowOf, Self)
      BY <1>2, <1>4, <2>1, <2>2, CouponsIdentified, FindMiss
    <2> HIDE DEF r
    <2>4. Entries([t EXCEPT ![r] = c]) = Entries(t) \cup {c}
      <3>1. r \in DOMAIN t /\ t = [j \in DOMAIN t |-> t[j]]
        BY <1>1, <2>3
      <3> QED BY <1>5, <2>3, <3>1, EntriesPut
    <2>5. slot = r
      BY <1>3 DEF r
    <2> HIDE DEF slot
    <2> QED BY <2>3, <2>4, <2>5 DEF CouponTable
  <1> HIDE DEF u, slot
  <1> QED BY <1>0, <1>6, <1>7 DEF slot

\* An empty set.
LEMMA NewCouponTable ==
  ASSUME NEW lg \in Nat
  PROVE  CouponTable(NewTable(lg), lg) /\ Entries(NewTable(lg)) = {}
  BY NewTableProbed DEF CouponTable

\* A table of another size that is large enough has the same coupons.
LEMMA RehashIs ==
  ASSUME NEW lg \in Nat, NEW new \in Nat, NEW t, CouponTable(t, lg),
         Cardinality(Entries(t)) < 2^new
  PROVE  CouponTable(Rehash(t, new), new) /\ Entries(Rehash(t, new)) = Entries(t)
  <1> DEFINE n == 2^lg
  <1>1. /\ n \in Nat /\ DOMAIN t = 0 .. n - 1 /\ t \in [0 .. n - 1 -> Coupon \cup {EMPTY}]
        /\ IsFiniteSet(Entries(t)) /\ Entries(t) \subseteq Coupon
    BY CouponTableIs
  <1> HIDE DEF n
  <1>2. PICK f : IsLoop(f, 1, new, 0, NewTable(new), t, n) /\ f[n] = Rehash(t, new)
    BY <1>1, RehashLoop
  <1>0. /\ f[0] = NewTable(new)
        /\ \A i \in 0 .. n - 1 : /\ t[i] = EMPTY => f[i + 1] = f[i]
                                 /\ t[i] # EMPTY => f[i + 1] = Round(1, new, 0, f[i], t[i])
    BY <1>1, <1>2, LoopRounds
  <1> DEFINE T == {i \in 0 .. n : CouponTable(f[i], new) /\ Entries(f[i]) = Before(t, i)}
  <1>3. 0 \in T
    <2>1. CouponTable(f[0], new) /\ Entries(f[0]) = {} /\ Before(t, 0) = {}
      BY <1>0, <1>1, NewCouponTable, BeforeIs
    <2>2. 0 \in 0 .. n
      BY <1>1
    <2> QED BY <2>1, <2>2
  <1>4. ASSUME NEW i \in 0 .. n - 1, i \in T PROVE i + 1 \in T
    <2>1. CouponTable(f[i], new) /\ Entries(f[i]) = Before(t, i)
      BY <1>4
    <2>2. i \in 0 .. n /\ i + 1 \in 0 .. n
      BY <1>1
    <2>3. Cardinality(Entries(f[i])) < 2^new
      <3>1. Entries(f[i]) \subseteq Entries(t)
        <4>1. Before(t, i) \subseteq Entries(t)
          BY <1>1, <2>2, BeforeIs
        <4> QED BY <2>1, <4>1
      <3>2. /\ Cardinality(Entries(f[i])) <= Cardinality(Entries(t))
            /\ Cardinality(Entries(f[i])) \in Nat /\ Cardinality(Entries(t)) \in Nat
        BY <1>1, <3>1, FS_Subset, FS_CardinalityType
      <3>3. 2^new \in Nat
        BY PowerIs
      <3> QED BY <3>2, <3>3
    <2>4. CASE t[i] = EMPTY
      <3>1. Before(t, i + 1) = Before(t, i)
        BY <1>1, <2>4, BeforeIs
      <3>2. f[i + 1] = f[i]
        BY <1>0, <2>4
      <3> QED BY <2>1, <2>2, <3>1, <3>2
    <2>5. CASE t[i] # EMPTY
      <3>1. t[i] \in Coupon
        BY <1>1, <2>5
      <3>2. /\ CouponTable(f[i + 1], new)
            /\ Entries(f[i + 1]) = Entries(f[i]) \cup {t[i]}
        <4>1. f[i + 1] = CouponPut(f[i], new, t[i])
          BY <1>0, <2>5 DEF Round, CouponPut
        <4> QED BY <2>1, <2>3, <3>1, <4>1, FindCouponIs
      <3>3. Before(t, i + 1) = Before(t, i) \cup {t[i]}
        BY <1>1, <2>5, BeforeIs
      <3> QED BY <2>1, <2>2, <3>2, <3>3
    <2> QED BY <2>4, <2>5
  <1>5. n \in T
    <2> HIDE DEF T
    <2>1. \A i \in 0 .. n : i \in T
      BY <1>1, <1>3, <1>4, Rounds
    <2> QED BY <1>1, <2>1
  <1> QED BY <1>1, <1>2, <1>5, BeforeIs

(***************************************************************************)
(* The exceptions of a four-bit array.                                     *)
(***************************************************************************)
SlotKey(k) == [c \in Coupon |-> c % 2^k]

AuxTable(t, lg, k) == Probed(t, lg, Coupon, SlotKey(k), SlotKey(k))

\* An exception is sought by its slot, which is also where the search begins.
LEMMA SlotsIdentified ==
  ASSUME NEW k \in 1 .. KeyBits
  PROVE  Identified(Coupon, SlotKey(k), SlotKey(k))
  <1>1. \A c \in Coupon : c \in Nat \ {EMPTY} /\ c % 2^k \in Nat
    BY CouponIs, SlotIs, SlotsIn
  <1> QED BY <1>1 DEF Identified, SlotKey

\* A table of exceptions is a function on its slots.
LEMMA AuxTableIs ==
  ASSUME NEW lg \in Nat, NEW k \in 1 .. KeyBits, NEW t, AuxTable(t, lg, k)
  PROVE  /\ t \in [0 .. 2^lg - 1 -> Coupon \cup {EMPTY}] /\ DOMAIN t = 0 .. 2^lg - 1
         /\ 2^lg \in Nat /\ 2^lg > 0
         /\ IsFiniteSet(Entries(t)) /\ Entries(t) \subseteq Coupon
         /\ \A i, j \in 0 .. 2^lg - 1 :
              t[i] # EMPTY /\ t[j] # EMPTY /\ t[i] % 2^k = t[j] % 2^k => i = j
  <1>1. /\ t \in [0 .. 2^lg - 1 -> Coupon \cup {EMPTY}] /\ DOMAIN t = 0 .. 2^lg - 1
        /\ 2^lg \in Nat /\ 2^lg > 0
        /\ IsFiniteSet(Entries(t)) /\ Entries(t) \subseteq Coupon
    BY PowerIs, EntriesFinite DEF AuxTable, Probed
  <1>2. ASSUME NEW i \in 0 .. 2^lg - 1, NEW j \in 0 .. 2^lg - 1,
               t[i] # EMPTY, t[j] # EMPTY, t[i] % 2^k = t[j] % 2^k
        PROVE  i = j
    <2>1. SlotKey(k)[t[i]] = SlotKey(k)[t[j]]
      BY <1>1, <1>2 DEF SlotKey
    <2> QED BY <1>2, <2>1, SlotsIdentified, OneSeat DEF AuxTable
  <1> QED BY <1>1, <1>2

InSlot(e, k, s) == e % 2^k = s

\* The exception of a slot, in a table that has at most one for each.
LEMMA SlotSought ==
  ASSUME NEW lg \in Nat, NEW k \in 1 .. KeyBits, NEW t, AuxTable(t, lg, k),
         NEW s \in 0 .. 2^k - 1, NEW e \in Coupon, InSlot(e, k, s)
  PROVE  \E sought : /\ Seeks(t, sought, SlotKey(k), e)
                     /\ FindSlot(t, lg, k, s) = Find(t, lg, SlotKey(k)[e], sought)
  <1> DEFINE sought == {entry \in Entries(t) : entry % 2^k = s}
  <1>1. t \in [0 .. 2^lg - 1 -> Coupon \cup {EMPTY}] /\ DOMAIN t = 0 .. 2^lg - 1
    BY AuxTableIs
  <1>2. Seeks(t, sought, SlotKey(k), e)
    BY <1>1 DEF Seeks, SlotKey, Entries, InSlot
  <1>3. FindSlot(t, lg, k, s) = Find(t, lg, SlotKey(k)[e], sought)
    BY DEF FindSlot, SlotKey, InSlot
  <1> HIDE DEF sought
  <1> QED BY <1>2, <1>3

\* A slot that has an exception is found,
LEMMA FindSlotHit ==
  ASSUME NEW lg \in Nat, NEW k \in 1 .. KeyBits, NEW t, AuxTable(t, lg, k),
         NEW s \in 0 .. 2^k - 1,
         NEW i \in 0 .. 2^lg - 1, t[i] # EMPTY, InSlot(t[i], k, s)
  PROVE  FindSlot(t, lg, k, s) = i
  <1>1. t[i] \in Coupon
    BY AuxTableIs
  <1>2. PICK sought : /\ Seeks(t, sought, SlotKey(k), t[i])
                      /\ FindSlot(t, lg, k, s) = Find(t, lg, SlotKey(k)[t[i]], sought)
    BY <1>1, SlotSought
  <1> QED BY <1>1, <1>2, SlotsIdentified, FindHit DEF AuxTable

\* and one that has none leads to an empty slot it can be put into.
LEMMA FindSlotMiss ==
  ASSUME NEW lg \in Nat, NEW k \in 1 .. KeyBits, NEW t, AuxTable(t, lg, k),
         NEW s \in 0 .. 2^k - 1, NEW e \in Coupon, InSlot(e, k, s),
         \A i \in 0 .. 2^lg - 1 : t[i] # EMPTY => ~InSlot(t[i], k, s),
         Cardinality(Entries(t)) < 2^lg
  PROVE  LET slot == FindSlot(t, lg, k, s)
         IN  /\ slot \in 0 .. 2^lg - 1 /\ t[slot] = EMPTY
             /\ AuxTable([t EXCEPT ![slot] = e], lg, k)
             /\ Entries([t EXCEPT ![slot] = e]) = Entries(t) \cup {e}
  <1>1. t \in [0 .. 2^lg - 1 -> Coupon \cup {EMPTY}] /\ DOMAIN t = 0 .. 2^lg - 1
    BY AuxTableIs
  <1>2. PICK sought : /\ Seeks(t, sought, SlotKey(k), e)
                      /\ FindSlot(t, lg, k, s) = Find(t, lg, SlotKey(k)[e], sought)
    BY SlotSought
  <1>3. \A i \in 0 .. 2^lg - 1 : t[i] # EMPTY => SlotKey(k)[t[i]] # SlotKey(k)[e]
    BY <1>1 DEF SlotKey, InSlot
  <1>4. \E i \in 0 .. 2^lg - 1 : t[i] = EMPTY
    BY SlotsIdentified, HasSpace DEF AuxTable
  <1> DEFINE r == Find(t, lg, SlotKey(k)[e], sought)
  <1>5. /\ r \in 0 .. 2^lg - 1 /\ t[r] = EMPTY
        /\ Probed([t EXCEPT ![r] = e], lg, Coupon, SlotKey(k), SlotKey(k))
    BY <1>2, <1>3, <1>4, SlotsIdentified, FindMiss DEF AuxTable
  <1>6. FindSlot(t, lg, k, s) = r
    BY <1>2
  <1> HIDE DEF r
  <1>7. Entries([t EXCEPT ![r] = e]) = Entries(t) \cup {e}
    <2>1. r \in DOMAIN t /\ t = [j \in DOMAIN t |-> t[j]] /\ e # EMPTY
      BY <1>1, <1>5, CouponIs
    <2> QED BY <1>5, <2>1, EntriesPut
  <1> QED BY <1>5, <1>6, <1>7 DEF AuxTable

\* An empty table of exceptions.
LEMMA NewAuxTable ==
  ASSUME NEW lg \in Nat, NEW k \in 1 .. KeyBits
  PROVE  AuxTable(NewTable(lg), lg, k) /\ Entries(NewTable(lg)) = {}
  BY NewTableProbed DEF AuxTable

\* The exceptions survive the growth of their table.
LEMMA RegrownIs ==
  ASSUME NEW lg \in Nat, NEW new \in Nat, NEW k \in 1 .. KeyBits, NEW t, AuxTable(t, lg, k),
         Cardinality(Entries(t)) < 2^new
  PROVE  AuxTable(Regrown(new, k, t), new, k) /\ Entries(Regrown(new, k, t)) = Entries(t)
  <1> DEFINE n == 2^lg
  <1>1. /\ n \in Nat /\ DOMAIN t = 0 .. n - 1 /\ t \in [0 .. n - 1 -> Coupon \cup {EMPTY}]
        /\ IsFiniteSet(Entries(t)) /\ Entries(t) \subseteq Coupon
        /\ \A i, j \in 0 .. n - 1 :
              t[i] # EMPTY /\ t[j] # EMPTY /\ t[i] % 2^k = t[j] % 2^k => i = j
    BY AuxTableIs
  <1> HIDE DEF n
  <1>2. PICK f : IsLoop(f, 2, new, k, NewTable(new), t, n) /\ f[n] = Regrown(new, k, t)
    BY <1>1, GrowLoop
  <1>3. /\ f[0] = NewTable(new)
        /\ \A i \in 0 .. n - 1 : /\ t[i] = EMPTY => f[i + 1] = f[i]
                                 /\ t[i] # EMPTY => f[i + 1] = Round(2, new, k, f[i], t[i])
    BY <1>1, <1>2, LoopRounds
  <1> DEFINE T == {i \in 0 .. n : AuxTable(f[i], new, k) /\ Entries(f[i]) = Before(t, i)}
  <1>4. 0 \in T
    <2>1. AuxTable(f[0], new, k) /\ Entries(f[0]) = {} /\ Before(t, 0) = {}
      <3>1. Before(t, 0) = {}
        BY <1>1, BeforeIs
      <3> QED BY <1>3, <3>1, NewAuxTable
    <2>2. 0 \in 0 .. n
      BY <1>1
    <2> QED BY <2>1, <2>2
  <1>5. ASSUME NEW i \in 0 .. n - 1, i \in T PROVE i + 1 \in T
    <2>1. AuxTable(f[i], new, k) /\ Entries(f[i]) = Before(t, i)
      BY <1>5
    <2>2. i \in 0 .. n /\ i + 1 \in 0 .. n
      BY <1>1
    <2>3. Cardinality(Entries(f[i])) < 2^new
      <3>1. Entries(f[i]) \subseteq Entries(t)
        <4>1. Before(t, i) \subseteq Entries(t)
          BY <1>1, <2>2, BeforeIs
        <4> QED BY <2>1, <4>1
      <3>2. /\ Cardinality(Entries(f[i])) <= Cardinality(Entries(t))
            /\ Cardinality(Entries(f[i])) \in Nat /\ Cardinality(Entries(t)) \in Nat
        BY <1>1, <3>1, FS_Subset, FS_CardinalityType
      <3>3. 2^new \in Nat
        BY PowerIs
      <3> QED BY <3>2, <3>3
    <2>4. CASE t[i] = EMPTY
      <3>1. Before(t, i + 1) = Before(t, i)
        BY <1>1, <2>4, BeforeIs
      <3>2. f[i + 1] = f[i]
        BY <1>3, <2>4
      <3> QED BY <2>1, <2>2, <3>1, <3>2
    <2>5. CASE t[i] # EMPTY
      <3> DEFINE s == t[i] % 2^k
      <3>1. t[i] \in Coupon /\ s \in 0 .. 2^k - 1
        BY <1>1, <2>5, SlotIs
      <3>2. \A j \in 0 .. 2^new - 1 : f[i][j] # EMPTY => ~InSlot(f[i][j], k, s)
        <4>1. SUFFICES ASSUME NEW j \in 0 .. 2^new - 1, f[i][j] # EMPTY, f[i][j] % 2^k = s
                       PROVE  FALSE
          BY DEF InSlot
        <4>2. DOMAIN f[i] = 0 .. 2^new - 1
          BY <2>1, AuxTableIs
        <4>3. f[i][j] \in Before(t, i)
          BY <2>1, <4>1, <4>2 DEF Entries
        <4>4. PICK l \in 0 .. i - 1 : t[l] = f[i][j]
          BY <4>3 DEF Before
        <4>5. l \in 0 .. n - 1 /\ l # i
          BY <1>1, <4>4
        <4> QED BY <1>1, <2>5, <4>1, <4>4, <4>5
      <3>3. f[i + 1] = [f[i] EXCEPT ![FindSlot(f[i], new, k, s)] = t[i]]
        BY <1>3, <2>5 DEF Round
      <3>4. /\ AuxTable(f[i + 1], new, k)
            /\ Entries(f[i + 1]) = Entries(f[i]) \cup {t[i]}
        <4>1. InSlot(t[i], k, s)
          BY DEF InSlot
        <4> HIDE DEF s
        <4> QED BY <2>1, <2>3, <3>1, <3>2, <3>3, <4>1, FindSlotMiss
      <3>5. Before(t, i + 1) = Before(t, i) \cup {t[i]}
        BY <1>1, <2>5, BeforeIs
      <3> QED BY <2>1, <2>2, <3>4, <3>5
    <2> QED BY <2>4, <2>5
  <1>6. n \in T
    <2> HIDE DEF T
    <2>1. \A i \in 0 .. n : i \in T
      BY <1>1, <1>4, <1>5, Rounds
    <2> QED BY <1>1, <2>1
  <1> QED BY <1>1, <1>2, <1>6, BeforeIs

Exceptions(v, T) == {pair(i, v[i]) : i \in T}

\* The map holds the registers v of the slots in T.
AuxOK(a, k, v, T) ==
  /\ DOMAIN a = {"lgAuxArrInts", "auxCount", "entries", "ok"}
  /\ a = [f \in DOMAIN a |-> a[f]]
  /\ T \subseteq 0 .. 2^k - 1
  /\ \A i \in T : v[i] \in 1 .. ValueMax
  /\ a.ok = TRUE
  /\ a.lgAuxArrInts \in Nat
  /\ AuxTable(a.entries, a.lgAuxArrInts, k)
  /\ Entries(a.entries) = Exceptions(v, T)
  /\ a.auxCount = Cardinality(T)
  /\ 4 * a.auxCount <= 3 * 2^a.lgAuxArrInts

\* There are as many exceptions as slots that have one.
LEMMA ExceptionsAre ==
  ASSUME NEW k \in 1 .. KeyBits, NEW v, NEW T \in SUBSET (0 .. 2^k - 1),
         \A i \in T : v[i] \in 1 .. ValueMax
  PROVE  /\ IsFiniteSet(T) /\ Cardinality(T) \in Nat
         /\ Exceptions(v, T) \subseteq Coupon
         /\ IsFiniteSet(Exceptions(v, T)) /\ Cardinality(Exceptions(v, T)) = Cardinality(T)
         /\ \A i \in T : /\ pair(i, v[i]) \in Coupon /\ pair(i, v[i]) # EMPTY
                         /\ pair(i, v[i]) % 2^k = i
                         /\ getLow26(pair(i, v[i])) = i
                         /\ getValue(pair(i, v[i])) = v[i]
  <1>1. IsFiniteSet(T) /\ Cardinality(T) \in Nat
    <2>1. IsFiniteSet(0 .. 2^k - 1)
      <3>1. 0 \in Int /\ 2^k - 1 \in Int
        BY SlotsIn
      <3> QED BY <3>1, FS_Interval
    <2> QED BY <2>1, FS_Subset, FS_CardinalityType
  <1>2. \A i \in T : /\ pair(i, v[i]) \in Coupon /\ pair(i, v[i]) # EMPTY
                     /\ pair(i, v[i]) % 2^k = i
                     /\ getLow26(pair(i, v[i])) = i
                     /\ getValue(pair(i, v[i])) = v[i]
    BY RegisterPair
  <1>3. IsFiniteSet(Exceptions(v, T)) /\ Cardinality(Exceptions(v, T)) = Cardinality(T)
    <2> DEFINE g == [i \in T |-> pair(i, v[i])]
               X == Exceptions(v, T)
    <2>1. g \in [T -> X] /\ \A x \in X : \E i \in T : g[i] = x
      BY DEF Exceptions
    <2>2. \A i, j \in T : g[i] = g[j] => i = j
      BY <1>2
    <2> HIDE DEF g, X
    <2>3. ExistsBijection(T, X)
      BY <2>1, <2>2 DEF ExistsBijection, Bijection, Injection, Surjection, IsInjective
    <2>4. IsFiniteSet(X) /\ Cardinality(X) = Cardinality(T)
      BY <1>1, <2>3, FS_Bijection
    <2> QED BY <2>4 DEF X
  <1>4. Exceptions(v, T) \subseteq Coupon
    BY <1>2 DEF Exceptions
  <1> QED BY <1>1, <1>2, <1>3, <1>4

\* The parts of a map that holds the registers of the slots in T.
LEMMA AuxFields ==
  ASSUME NEW k \in 1 .. KeyBits, NEW a, NEW v, NEW T, AuxOK(a, k, v, T)
  PROVE  /\ T \in SUBSET (0 .. 2^k - 1) /\ \A i \in T : v[i] \in 1 .. ValueMax
         /\ a.lgAuxArrInts \in Nat /\ 2^a.lgAuxArrInts \in Nat /\ 2^a.lgAuxArrInts > 0
         /\ a.auxCount = Cardinality(T) /\ a.auxCount \in Nat /\ IsFiniteSet(T)
         /\ DOMAIN a.entries = 0 .. 2^a.lgAuxArrInts - 1
         /\ a.entries \in [0 .. 2^a.lgAuxArrInts - 1 -> Coupon \cup {EMPTY}]
         /\ Cardinality(Entries(a.entries)) = Cardinality(T)
         /\ Cardinality(Entries(a.entries)) < 2^a.lgAuxArrInts
         /\ a # NoAux
  <1>1. T \in SUBSET (0 .. 2^k - 1) /\ (\A i \in T : v[i] \in 1 .. ValueMax)
    BY DEF AuxOK
  <1>2. /\ IsFiniteSet(T) /\ Cardinality(T) \in Nat
        /\ Cardinality(Exceptions(v, T)) = Cardinality(T)
    BY <1>1, ExceptionsAre
  <1>3. /\ a.lgAuxArrInts \in Nat /\ a.auxCount = Cardinality(T)
        /\ AuxTable(a.entries, a.lgAuxArrInts, k) /\ Entries(a.entries) = Exceptions(v, T)
        /\ 4 * a.auxCount <= 3 * 2^a.lgAuxArrInts
    BY DEF AuxOK
  <1>4. /\ 2^a.lgAuxArrInts \in Nat /\ 2^a.lgAuxArrInts > 0
        /\ DOMAIN a.entries = 0 .. 2^a.lgAuxArrInts - 1
        /\ a.entries \in [0 .. 2^a.lgAuxArrInts - 1 -> Coupon \cup {EMPTY}]
    BY <1>3, AuxTableIs
  <1>5. a # NoAux
    <2>1. NoAux.lgAuxArrInts = -1
      BY DEF NoAux
    <2> QED BY <1>3, <2>1
  <1>6. Cardinality(Entries(a.entries)) < 2^a.lgAuxArrInts
    BY <1>2, <1>3, <1>4
  <1> QED BY <1>1, <1>2, <1>3, <1>4, <1>5, <1>6

\* A new map holds none.
LEMMA NewAuxIs ==
  ASSUME NEW k \in 1 .. KeyBits, NEW lg \in Nat, NEW v
  PROVE  AuxOK(NewAux(lg), k, v, {})
  <1>1. Cardinality({}) = 0
    BY FS_EmptySet
  <1>2. Exceptions(v, {}) = {}
    BY DEF Exceptions
  <1>3. AuxTable(NewTable(lg), lg, k) /\ Entries(NewTable(lg)) = {}
    BY NewAuxTable
  <1>4. 2^lg \in Nat
    BY PowerIs
  <1> QED BY <1>1, <1>2, <1>3, <1>4 DEF AuxOK, NewAux

\* Where a slot's exception is.
LEMMA AuxIndexHit ==
  ASSUME NEW k \in 1 .. KeyBits, NEW a, NEW v, NEW T, AuxOK(a, k, v, T), NEW s \in T
  PROVE  /\ AuxIndex(a, k, s) \in 0 .. 2^a.lgAuxArrInts - 1
         /\ a.entries[AuxIndex(a, k, s)] = pair(s, v[s])
  <1> DEFINE t == a.entries
             lg == a.lgAuxArrInts
  <1>1. /\ lg \in Nat /\ AuxTable(t, lg, k) /\ Entries(t) = Exceptions(v, T)
        /\ DOMAIN t = 0 .. 2^lg - 1
        /\ s \in 0 .. 2^k - 1 /\ v[s] \in 1 .. ValueMax
    <2>1. lg \in Nat /\ AuxTable(t, lg, k) /\ Entries(t) = Exceptions(v, T)
      BY DEF AuxOK
    <2>2. DOMAIN t = 0 .. 2^lg - 1 /\ s \in 0 .. 2^k - 1 /\ v[s] \in 1 .. ValueMax
      BY AuxFields
    <2> QED BY <2>1, <2>2
  <1>2. AuxIndex(a, k, s) = FindSlot(t, lg, k, s)
    BY DEF AuxIndex
  <1> HIDE DEF t, lg
  <1>3. pair(s, v[s]) \in Entries(t)
    BY <1>1 DEF Exceptions
  <1>4. PICK i \in 0 .. 2^lg - 1 : t[i] = pair(s, v[s])
    BY <1>1, <1>3 DEF Entries
  <1>5. t[i] # EMPTY /\ InSlot(t[i], k, s)
    BY <1>1, <1>4, RegisterPair DEF InSlot
  <1>6. FindSlot(t, lg, k, s) = i
    BY <1>1, <1>5, FindSlotHit
  <1> QED BY <1>2, <1>4, <1>6 DEF t, lg

\* Where it goes, if the slot has none.
LEMMA AuxIndexMiss ==
  ASSUME NEW k \in 1 .. KeyBits, NEW a, NEW v, NEW T, AuxOK(a, k, v, T),
         NEW s \in 0 .. 2^k - 1, s \notin T, NEW e \in Coupon, InSlot(e, k, s)
  PROVE  /\ AuxIndex(a, k, s) \in 0 .. 2^a.lgAuxArrInts - 1
         /\ a.entries[AuxIndex(a, k, s)] = EMPTY
         /\ AuxTable([a.entries EXCEPT ![AuxIndex(a, k, s)] = e], a.lgAuxArrInts, k)
         /\ Entries([a.entries EXCEPT ![AuxIndex(a, k, s)] = e]) = Entries(a.entries) \cup {e}
  <1> DEFINE t == a.entries
             lg == a.lgAuxArrInts
             index == AuxIndex(a, k, s)
  <1>1. /\ lg \in Nat /\ AuxTable(t, lg, k) /\ Entries(t) = Exceptions(v, T)
        /\ DOMAIN t = 0 .. 2^lg - 1 /\ Cardinality(Entries(t)) < 2^lg
        /\ T \in SUBSET (0 .. 2^k - 1) /\ \A i \in T : v[i] \in 1 .. ValueMax
    BY AuxFields DEF AuxOK
  <1>2. index = FindSlot(t, lg, k, s)
    BY DEF AuxIndex
  <1> HIDE DEF t, lg, index
  <1>3. ASSUME NEW i \in 0 .. 2^lg - 1, t[i] # EMPTY PROVE ~InSlot(t[i], k, s)
    <2>1. t[i] \in Exceptions(v, T)
      BY <1>1, <1>3 DEF Entries
    <2>2. PICK j \in T : t[i] = pair(j, v[j])
      BY <2>1 DEF Exceptions
    <2>3. t[i] % 2^k = j
      BY <1>1, <2>2, RegisterPair
    <2> QED BY <2>3 DEF InSlot
  <1>4. /\ index \in 0 .. 2^lg - 1 /\ t[index] = EMPTY
        /\ AuxTable([t EXCEPT ![index] = e], lg, k)
        /\ Entries([t EXCEPT ![index] = e]) = Entries(t) \cup {e}
    <2> DEFINE r == FindSlot(t, lg, k, s)
    <2>1. /\ r \in 0 .. 2^lg - 1 /\ t[r] = EMPTY
          /\ AuxTable([t EXCEPT ![r] = e], lg, k)
          /\ Entries([t EXCEPT ![r] = e]) = Entries(t) \cup {e}
      <3>1. lg \in Nat /\ AuxTable(t, lg, k) /\ Cardinality(Entries(t)) < 2^lg
        BY <1>1
      <3>2. \A i \in 0 .. 2^lg - 1 : t[i] # EMPTY => ~InSlot(t[i], k, s)
        BY <1>3
      <3>3. r \in 0 .. 2^lg - 1
        BY <3>1, <3>2, FindSlotMiss
      <3>4. t[r] = EMPTY
        BY <3>1, <3>2, FindSlotMiss
      <3>5. AuxTable([t EXCEPT ![r] = e], lg, k)
        BY <3>1, <3>2, FindSlotMiss
      <3>6. Entries([t EXCEPT ![r] = e]) = Entries(t) \cup {e}
        BY <3>1, <3>2, FindSlotMiss
      <3> QED BY <3>3, <3>4, <3>5, <3>6
    <2> HIDE DEF r
    <2> QED BY <1>2, <2>1 DEF r
  <1> QED BY <1>4 DEF t, lg, index

\* Where it goes, if the slot has none.
LEMMA AuxFree ==
  ASSUME NEW k \in 1 .. KeyBits, NEW a, NEW v, NEW T, AuxOK(a, k, v, T),
         NEW s \in 0 .. 2^k - 1, s \notin T
  PROVE  /\ AuxIndex(a, k, s) \in 0 .. 2^a.lgAuxArrInts - 1
         /\ a.entries[AuxIndex(a, k, s)] = EMPTY
  <1> DEFINE e == pair(s, 1)
  <1>1. e \in Coupon /\ InSlot(e, k, s)
    BY ArrayAssumption, RegisterPair DEF InSlot
  <1> HIDE DEF e
  <1> DEFINE index == AuxIndex(a, k, s)
             t == a.entries
             u == [t EXCEPT ![index] = e]
  <1>2. /\ index \in 0 .. 2^a.lgAuxArrInts - 1 /\ t[index] = EMPTY
        /\ AuxTable(u, a.lgAuxArrInts, k) /\ Entries(u) = Entries(t) \cup {e}
    BY <1>1, AuxIndexMiss
  <1> QED BY <1>2

\* mustFindValueFor returns the register.
LEMMA AuxFound ==
  ASSUME NEW k \in 1 .. KeyBits, NEW a, NEW v, NEW T, AuxOK(a, k, v, T), NEW s \in T
  PROVE  Holds(a, k, s) /\ mustFindValueFor(a, k, s) = v[s]
  <1> DEFINE index == AuxIndex(a, k, s)
  <1>1. /\ s \in 0 .. 2^k - 1 /\ T \in SUBSET (0 .. 2^k - 1)
        /\ \A i \in T : v[i] \in 1 .. ValueMax
        /\ a.lgAuxArrInts \in Nat /\ 2^a.lgAuxArrInts \in Nat
    BY AuxFields
  <1>2. index \in 0 .. 2^a.lgAuxArrInts - 1 /\ a.entries[index] = pair(s, v[s])
    BY AuxIndexHit
  <1>3. pair(s, v[s]) # EMPTY /\ getValue(pair(s, v[s])) = v[s]
    BY <1>1, RegisterPair
  <1>4. a.lgAuxArrInts # -1 /\ index # -1
    BY <1>1, <1>2
  <1> QED BY <1>2, <1>3, <1>4 DEF Holds, mustFindValueFor

\* An exception for a slot that has none.
LEMMA AuxAdded ==
  ASSUME NEW k \in 1 .. KeyBits, NEW a, NEW v, NEW T, AuxOK(a, k, v, T),
         NEW s \in 0 .. 2^k - 1, s \notin T, NEW w, w[s] \in 1 .. ValueMax,
         \A i \in T : w[i] = v[i]
  PROVE  AuxOK(mustAdd(a, k, s, w[s]), k, w, T \cup {s})
  <1> DEFINE e == pair(s, w[s])
             lg == a.lgAuxArrInts
             t == a.entries
             index == AuxIndex(a, k, s)
             u == [t EXCEPT ![index] = e]
             added == [a EXCEPT !.entries[index] = e, !.auxCount = @ + 1]
             U == T \cup {s}
  <1>1. /\ DOMAIN a = {"lgAuxArrInts", "auxCount", "entries", "ok"}
        /\ a = [f \in DOMAIN a |-> a[f]]
        /\ T \subseteq 0 .. 2^k - 1 /\ (\A i \in T : v[i] \in 1 .. ValueMax)
        /\ a.ok = TRUE /\ lg \in Nat /\ Entries(t) = Exceptions(v, T)
        /\ a.auxCount = Cardinality(T) /\ 4 * a.auxCount <= 3 * 2^lg
    BY DEF AuxOK
  <1>2. 2^lg \in Nat /\ 2^lg > 0 /\ a.auxCount \in Nat /\ IsFiniteSet(T)
    BY AuxFields
  <1>3. e \in Coupon /\ e # EMPTY /\ InSlot(e, k, s)
    BY RegisterPair DEF InSlot
  <1>4. /\ index \in 0 .. 2^lg - 1 /\ t[index] = EMPTY
        /\ AuxTable(u, lg, k) /\ Entries(u) = Entries(t) \cup {e}
    <2> HIDE DEF e
    <2>1. index \in 0 .. 2^lg - 1
      BY AuxFree
    <2>4. t[index] = EMPTY
      BY AuxFree
    <2>2. AuxTable(u, lg, k)
      BY <1>3, AuxIndexMiss
    <2>3. Entries(u) = Entries(t) \cup {e}
      BY <1>3, AuxIndexMiss
    <2> QED BY <2>1, <2>2, <2>3, <2>4
  <1>5. Entries(u) = Exceptions(w, U)
    BY <1>1, <1>4 DEF Exceptions
  <1>6. U \in SUBSET (0 .. 2^k - 1) /\ \A i \in U : w[i] \in 1 .. ValueMax
    BY <1>1
  <1>7. Cardinality(U) = Cardinality(T) + 1
    BY <1>2, FS_AddElement
  <1>8. Cardinality(Entries(u)) = Cardinality(U)
    BY <1>5, <1>6, ExceptionsAre
  <1>9. index # -1
    BY <1>2, <1>4
  <1> HIDE DEF e, u, U
  <1>10. /\ added.ok = TRUE /\ added.lgAuxArrInts = lg /\ added.entries = u
         /\ added.auxCount = Cardinality(U)
         /\ DOMAIN added = {"lgAuxArrInts", "auxCount", "entries", "ok"}
         /\ added = [f \in DOMAIN added |-> added[f]]
    <2> HIDE DEF index
    <2> QED BY <1>1, <1>7 DEF u
  <1>11. mustAdd(a, k, s, w[s]) = IF 4 * added.auxCount > 3 * 2^lg
                                  THEN growAuxSpace(added, k) ELSE added
    BY <1>4, <1>9 DEF mustAdd, e
  <1> HIDE DEF added, index, lg
  <1>12. CASE ~(4 * added.auxCount > 3 * 2^lg)
    <2>1. 4 * added.auxCount <= 3 * 2^lg
      BY <1>1, <1>2, <1>7, <1>10, <1>12
    <2>2. AuxOK(added, k, w, U)
      BY <1>1, <1>4, <1>5, <1>6, <1>10, <2>1 DEF AuxOK
    <2> QED BY <1>11, <1>12, <2>2 DEF U
  <1>13. CASE 4 * added.auxCount > 3 * 2^lg
    <2> DEFINE grown == growAuxSpace(added, k)
    <2>1. lg + 1 \in Nat /\ 2^(lg + 1) = 2 * 2^lg
      BY <1>1, PowerIs
    <2>2. 4 * Cardinality(U) <= 3 * 2^(lg + 1) /\ Cardinality(U) < 2^(lg + 1)
      BY <1>1, <1>2, <1>7, <2>1
    <2>3. AuxTable(Regrown(lg + 1, k, u), lg + 1, k) /\ Entries(Regrown(lg + 1, k, u)) = Entries(u)
      <3>1. lg \in Nat /\ AuxTable(u, lg, k) /\ Cardinality(Entries(u)) < 2^(lg + 1)
        BY <1>1, <1>4, <1>8, <2>2
      <3>2. AuxTable(Regrown(lg + 1, k, u), lg + 1, k)
        BY <2>1, <3>1, RegrownIs
      <3>3. Entries(Regrown(lg + 1, k, u)) = Entries(u)
        BY <2>1, <3>1, RegrownIs
      <3> QED BY <3>2, <3>3
    <2>4. grown = [added EXCEPT !.lgAuxArrInts = lg + 1, !.entries = Regrown(lg + 1, k, u)]
      BY <1>10 DEF growAuxSpace, Regrown
    <2>5. /\ grown.ok = TRUE /\ grown.lgAuxArrInts = lg + 1
          /\ grown.entries = Regrown(lg + 1, k, u) /\ grown.auxCount = Cardinality(U)
          /\ DOMAIN grown = {"lgAuxArrInts", "auxCount", "entries", "ok"}
          /\ grown = [f \in DOMAIN grown |-> grown[f]]
      BY <1>10, <2>4
    <2> HIDE DEF grown
    <2>6. AuxOK(grown, k, w, U)
      BY <1>5, <1>6, <2>1, <2>2, <2>3, <2>5 DEF AuxOK
    <2> QED BY <1>11, <1>13, <2>6 DEF U, grown
  <1> QED BY <1>12, <1>13

\* Another value for a slot that has one.
LEMMA AuxReplaced ==
  ASSUME NEW k \in 1 .. KeyBits, NEW a, NEW v, NEW T, AuxOK(a, k, v, T),
         NEW s \in T, NEW w, w[s] \in 1 .. ValueMax,
         \A i \in T : i # s => w[i] = v[i]
  PROVE  AuxOK(mustReplace(a, k, s, w[s]), k, w, T)
  <1> DEFINE e == pair(s, w[s])
             lg == a.lgAuxArrInts
             t == a.entries
             index == AuxIndex(a, k, s)
             u == [t EXCEPT ![index] = e]
             r == [a EXCEPT !.entries[index] = e]
  <1>1. /\ DOMAIN a = {"lgAuxArrInts", "auxCount", "entries", "ok"}
        /\ a = [f \in DOMAIN a |-> a[f]]
        /\ T \subseteq 0 .. 2^k - 1 /\ (\A i \in T : v[i] \in 1 .. ValueMax)
        /\ a.ok = TRUE /\ lg \in Nat /\ Entries(t) = Exceptions(v, T)
        /\ a.auxCount = Cardinality(T) /\ 4 * a.auxCount <= 3 * 2^lg
        /\ AuxTable(t, lg, k)
    BY DEF AuxOK
  <1>2. index \in 0 .. 2^lg - 1 /\ t[index] = pair(s, v[s])
    BY AuxIndexHit
  <1>3. s \in 0 .. 2^k - 1 /\ v[s] \in 1 .. ValueMax
    BY <1>1
  <1>4. /\ e \in Coupon /\ e # EMPTY /\ e % 2^k = s
        /\ t[index] \in Coupon /\ t[index] # EMPTY /\ t[index] % 2^k = s
    BY <1>2, <1>3, RegisterPair
  <1>5. t \in [0 .. 2^lg - 1 -> Coupon \cup {EMPTY}] /\ DOMAIN t = 0 .. 2^lg - 1
    BY <1>1, AuxTableIs
  <1>6. \A j \in DOMAIN t : t[j] = t[index] => j = index
    <2>1. \A i, j \in 0 .. 2^lg - 1 :
            t[i] # EMPTY /\ t[j] # EMPTY /\ t[i] % 2^k = t[j] % 2^k => i = j
      BY <1>1, AuxTableIs
    <2> QED BY <1>2, <1>4, <1>5, <2>1
  <1>7. mustReplace(a, k, s, w[s]) = r
    BY AuxFound DEF mustReplace
  <1> HIDE DEF e, index
  <1>8. AuxTable(u, lg, k)
    <2>1. SlotKey(k)[t[index]] = SlotKey(k)[e]
      BY <1>4 DEF SlotKey
    <2> QED BY <1>1, <1>2, <1>4, <2>1, SlotsIdentified, Reseat DEF AuxTable
  <1>9. Entries(u) = (Entries(t) \ {t[index]}) \cup {e}
    <2>1. t = [j \in DOMAIN t |-> t[j]] /\ index \in DOMAIN t
      BY <1>2, <1>5
    <2> QED BY <1>4, <1>6, <2>1, EntriesPut
  <1>10. Entries(u) = Exceptions(w, T)
    <2>1. \A i \in T : pair(i, v[i]) = pair(s, v[s]) => i = s
      <3>1. \A i \in T : getLow26(pair(i, v[i])) = i
        <4>1. T \in SUBSET (0 .. 2^k - 1) /\ \A i \in T : v[i] \in 1 .. ValueMax
          BY <1>1
        <4> QED BY <4>1, RegisterPair
      <3> QED BY <3>1
    <2>2. Entries(t) \ {t[index]} = {pair(i, v[i]) : i \in T \ {s}}
      BY <1>1, <1>2, <2>1 DEF Exceptions
    <2>3. \A i \in T \ {s} : pair(i, v[i]) = pair(i, w[i])
      OBVIOUS
    <2> QED BY <1>9, <2>2, <2>3 DEF Exceptions, e
  <1>11. /\ r.ok = TRUE /\ r.lgAuxArrInts = lg /\ r.entries = u
         /\ r.auxCount = Cardinality(T)
         /\ DOMAIN r = {"lgAuxArrInts", "auxCount", "entries", "ok"}
         /\ r = [f \in DOMAIN r |-> r[f]]
    BY <1>1
  <1>12. \A i \in T : w[i] \in 1 .. ValueMax
    BY <1>1
  <1> HIDE DEF r, u
  <1>13. AuxOK(r, k, w, T)
    BY <1>1, <1>8, <1>10, <1>11, <1>12 DEF AuxOK
  <1> QED BY <1>7, <1>13

SlotNo(e, k) == e % 2^k

SlotsOf(E, k) == {SlotNo(e, k) : e \in E}

\* A map built from the entries of a table holds them.
LEMMA AuxRebuilt ==
  ASSUME NEW k \in 1 .. KeyBits, NEW lg \in Nat, NEW t, NEW n \in Nat, NEW v,
         DOMAIN t = 0 .. n - 1,
         \A i \in 0 .. n - 1 : t[i] # EMPTY =>
           t[i] \in Coupon /\ v[SlotNo(t[i], k)] = getValue(t[i]),
         \A i, j \in 0 .. n - 1 :
           t[i] # EMPTY /\ t[j] # EMPTY /\ SlotNo(t[i], k) = SlotNo(t[j], k) => i = j
  PROVE  AuxOK(AuxOf(lg, k, t), k, v, SlotsOf(Entries(t), k))
  <1>1. PICK f : IsLoop(f, 3, 0, k, NewAux(lg), t, n) /\ f[n] = AuxOf(lg, k, t)
    BY AddLoop
  <1>2. /\ f[0] = NewAux(lg)
        /\ \A i \in 0 .. n - 1 : /\ t[i] = EMPTY => f[i + 1] = f[i]
                                 /\ t[i] # EMPTY => f[i + 1] = Round(3, 0, k, f[i], t[i])
    BY <1>1, LoopRounds
  <1> DEFINE S(i) == SlotsOf(Before(t, i), k)
             T == {i \in 0 .. n : AuxOK(f[i], k, v, S(i))}
  <1>3. 0 \in T
    <2>1. Before(t, 0) = {}
      BY BeforeIs
    <2>2. S(0) = {}
      BY <2>1 DEF SlotsOf
    <2> HIDE DEF S
    <2>3. AuxOK(f[0], k, v, S(0))
      BY <1>2, <2>2, NewAuxIs
    <2> QED BY <2>3
  <1>4. ASSUME NEW i \in 0 .. n - 1, i \in T PROVE i + 1 \in T
    <2>1. AuxOK(f[i], k, v, S(i)) /\ i + 1 \in 0 .. n
      BY <1>4
    <2>2. CASE t[i] = EMPTY
      <3>1. Before(t, i + 1) = Before(t, i)
        BY <2>2, BeforeIs
      <3>2. f[i + 1] = f[i]
        BY <1>2, <2>2
      <3>3. S(i + 1) = S(i)
        BY <3>1
      <3> HIDE DEF S
      <3> QED BY <2>1, <3>2, <3>3
    <2>3. CASE t[i] # EMPTY
      <3> DEFINE c == t[i]
                 s == SlotNo(c, k)
      <3>1. Before(t, i + 1) = Before(t, i) \cup {c}
        BY <2>3, BeforeIs
      <3>2. S(i + 1) = S(i) \cup {s}
        BY <3>1 DEF SlotsOf
      <3>3. c \in Coupon /\ v[s] = getValue(c)
        BY <2>3
      <3>4. s \in 0 .. 2^k - 1 /\ getLow26(c) % 2^k = s /\ v[s] \in 1 .. ValueMax
        BY <3>3, SlotIs, CouponIs DEF SlotNo
      <3>5. s \notin S(i)
        BY <2>3 DEF SlotsOf, Before
      <3>6. f[i + 1] = mustAdd(f[i], k, s, v[s])
        <4>1. f[i + 1] = Round(3, 0, k, f[i], c)
          BY <1>2, <2>3
        <4>2. Round(3, 0, k, f[i], c) = mustAdd(f[i], k, getLow26(c) % 2^k, getValue(c))
          BY DEF Round
        <4> HIDE DEF s, c
        <4> QED BY <3>3, <3>4, <4>1, <4>2
      <3> HIDE DEF S, s, c
      <3>7. AuxOK(f[i + 1], k, v, S(i + 1))
        <4> DEFINE U == S(i)
                   a == f[i]
        <4>1. AuxOK(a, k, v, U) /\ s \in 0 .. 2^k - 1 /\ s \notin U
          BY <2>1, <3>4, <3>5
        <4>2. v[s] \in 1 .. ValueMax /\ \A l \in U : v[l] = v[l]
          BY <3>4
        <4> HIDE DEF U, a
        <4>3. AuxOK(mustAdd(a, k, s, v[s]), k, v, U \cup {s})
          BY <4>1, <4>2, AuxAdded
        <4> QED BY <3>2, <3>6, <4>3 DEF U, a
      <3> QED BY <2>1, <3>7
    <2> QED BY <2>2, <2>3
  <1> HIDE DEF T
  <1>5. \A i \in 0 .. n : i \in T
    BY <1>3, <1>4, Rounds
  <1>6. AuxOK(f[n], k, v, S(n))
    BY <1>5 DEF T
  <1>7. Before(t, n) = Entries(t)
    BY BeforeIs
  <1> QED BY <1>1, <1>6, <1>7

\* computeLgArrInts returns the logarithm of a size.
LEMMA computeLgIs ==
  ASSUME NEW least \in Nat, NEW count \in Nat
  PROVE  computeLgArrInts(least, count) \in Nat
  <1> DEFINE L == {l \in 0 .. count : 2^l >= count}
             lg == Min(L)
             x == IF 4 * count > 3 * 2^lg THEN lg + 1 ELSE lg
  <1>1. count \in L
    BY PowerBeyond, PowerIs
  <1>2. lg \in L
    BY <1>1, MinExists
  <1>3. lg \in Nat
    BY <1>2
  <1> HIDE DEF lg
  <1>4. x \in Nat
    BY <1>3
  <1> HIDE DEF x
  <1>5. Max({least, x}) \in {least, x}
    BY <1>4 DEF Max
  <1>6. computeLgArrInts(least, count) = Max({least, x})
    BY DEF computeLgArrInts, x, lg
  <1> QED BY <1>4, <1>5, <1>6

\* A map built anew from some of the exceptions of another.
LEMMA AuxKept ==
  ASSUME NEW k \in 1 .. KeyBits, NEW a, NEW v, NEW T, AuxOK(a, k, v, T),
         NEW lg \in Nat, NEW U, U \subseteq T, NEW t, DOMAIN t = DOMAIN a.entries,
         \A i \in DOMAIN t : t[i] # EMPTY => t[i] = a.entries[i],
         Entries(t) = Exceptions(v, U)
  PROVE  AuxOK(AuxOf(lg, k, t), k, v, U)
  <1> DEFINE n == 2^a.lgAuxArrInts
             old == a.entries
  <1>1. /\ n \in Nat /\ DOMAIN t = 0 .. n - 1 /\ DOMAIN old = 0 .. n - 1
        /\ T \in SUBSET (0 .. 2^k - 1) /\ \A i \in T : v[i] \in 1 .. ValueMax
    BY AuxFields
  <1>2. AuxTable(old, a.lgAuxArrInts, k) /\ a.lgAuxArrInts \in Nat
    BY DEF AuxOK
  <1>3. \A i, j \in 0 .. n - 1 :
          old[i] # EMPTY /\ old[j] # EMPTY /\ SlotNo(old[i], k) = SlotNo(old[j], k) => i = j
    BY <1>2, AuxTableIs DEF SlotNo
  <1> HIDE DEF n, old
  <1>4. \A i, j \in 0 .. n - 1 :
          t[i] # EMPTY /\ t[j] # EMPTY /\ SlotNo(t[i], k) = SlotNo(t[j], k) => i = j
    BY <1>1, <1>3 DEF old
  <1>5. \A i \in U : /\ pair(i, v[i]) \in Coupon /\ SlotNo(pair(i, v[i]), k) = i
                     /\ getValue(pair(i, v[i])) = v[i]
    BY <1>1, ExceptionsAre DEF SlotNo
  <1>6. \A i \in 0 .. n - 1 : t[i] # EMPTY =>
          t[i] \in Coupon /\ v[SlotNo(t[i], k)] = getValue(t[i])
    <2>1. SUFFICES ASSUME NEW i \in 0 .. n - 1, t[i] # EMPTY
                   PROVE  t[i] \in Coupon /\ v[SlotNo(t[i], k)] = getValue(t[i])
      OBVIOUS
    <2>2. t[i] \in Exceptions(v, U)
      BY <1>1, <2>1 DEF Entries
    <2>3. PICK j \in U : t[i] = pair(j, v[j])
      BY <2>2 DEF Exceptions
    <2> QED BY <1>5, <2>3
  <1>7. AuxOK(AuxOf(lg, k, t), k, v, SlotsOf(Entries(t), k))
    BY <1>1, <1>4, <1>6, AuxRebuilt
  <1>8. SlotsOf(Exceptions(v, U), k) = U
    BY <1>5 DEF SlotsOf, Exceptions
  <1> QED BY <1>7, <1>8

\* A map read back from a stream holds what the one that was saved held.
LEMMA AuxRestored ==
  ASSUME NEW k \in 1 .. KeyBits, NEW a, NEW v, NEW T, AuxOK(a, k, v, T), NEW compact
  PROVE  AuxOK(RestoreAux(a, k, compact), k, v, T)
  <1> DEFINE lg == IF compact
                   THEN computeLgArrInts(LgAuxArrInts[k], a.auxCount)
                   ELSE a.lgAuxArrInts
             restored == AuxOf(lg, k, a.entries)
  <1>1. a.lgAuxArrInts \in Nat /\ a.auxCount \in Nat /\ a.auxCount = Cardinality(T)
    BY AuxFields
  <1>2. lg \in Nat
    <2>1. LgAuxArrInts[k] \in Nat
      BY TableAssumption
    <2> QED BY <1>1, <2>1, computeLgIs
  <1>3. Entries(a.entries) = Exceptions(v, T)
    BY DEF AuxOK
  <1> HIDE DEF lg
  <1>4. AuxOK(restored, k, v, T)
    BY <1>2, <1>3, AuxKept
  <1> HIDE DEF restored
  <1>5. /\ restored.ok = TRUE /\ restored.auxCount = a.auxCount
        /\ DOMAIN restored = {"lgAuxArrInts", "auxCount", "entries", "ok"}
        /\ restored = [f \in DOMAIN restored |-> restored[f]]
    BY <1>1, <1>4 DEF AuxOK
  <1>6. [restored EXCEPT !.ok = @ /\ restored.auxCount = a.auxCount] = restored
    BY <1>5
  <1>7. RestoreAux(a, k, compact) = restored
    BY <1>6 DEF RestoreAux, restored, lg
  <1> QED BY <1>4, <1>7

(***************************************************************************)
(* Sums over the slots.                                                    *)
(***************************************************************************)
IsSum(s, f, n) ==
  /\ s \in [0 .. n -> Int]
  /\ s[0] = 0
  /\ \A i \in 0 .. n - 1 : s[i + 1] = s[i] + f[i]

\* Total is the sum: the recursive function it is defined by exists.
LEMMA TotalIs ==
  ASSUME NEW n \in Nat, NEW f \in [0 .. n - 1 -> Int]
  PROVE  \E s : IsSum(s, f, n) /\ Total(f, n) = s[n]
  <1> DEFINE Body(g) == [i \in 0 .. n |-> IF i = 0 THEN 0 ELSE g[i - 1] + f[i - 1]]
             sum == CHOOSE g : g = Body(g)
             step == [i \in 0 .. n - 1 |-> [x \in Int |-> x + f[i]]]
  <1>1. step \in [0 .. n - 1 -> [Int -> Int]]
    OBVIOUS
  <1>2. PICK g \in [0 .. n -> Int] : Runs(g, 0, n, step)
    <2> HIDE DEF step
    <2>1. 0 \in Int
      OBVIOUS
    <2> QED BY <1>1, <2>1, Iterates
  <1>3. g[0] = 0 /\ \A i \in 0 .. n - 1 : g[i + 1] = g[i] + f[i]
    <2>1. g[0] = 0 /\ \A i \in 0 .. n - 1 : g[i + 1] = step[i][g[i]]
      BY <1>2 DEF Runs
    <2>2. \A i \in 0 .. n - 1 : g[i] \in Int
      OBVIOUS
    <2>3. \A i \in 0 .. n - 1 : step[i][g[i]] = g[i] + f[i]
      BY <2>2
    <2> QED BY <2>1, <2>3
  <1>4. g = Body(g)
    <2>1. ASSUME NEW i \in 0 .. n PROVE g[i] = IF i = 0 THEN 0 ELSE g[i - 1] + f[i - 1]
      <3>1. CASE i = 0
        BY <1>3, <3>1
      <3>2. CASE i # 0
        <4>1. i - 1 \in 0 .. n - 1 /\ (i - 1) + 1 = i
          BY <3>2
        <4>2. g[(i - 1) + 1] = g[i - 1] + f[i - 1]
          BY <1>3, <4>1
        <4> QED BY <3>2, <4>1, <4>2
      <3> QED BY <3>1, <3>2
    <2>2. g = [i \in 0 .. n |-> g[i]]
      BY <1>2
    <2> QED BY <2>1, <2>2
  <1>5. sum = Body(sum)
    <2> HIDE DEF Body
    <2> QED BY <1>4
  <1>6. Total(f, n) = sum[n]
    BY DEF Total
  <1> HIDE DEF sum
  <1>7. sum[0] = 0 /\ \A i \in 0 .. n - 1 : sum[i + 1] = sum[i] + f[i]
    <2>1. \A i \in 0 .. n : sum[i] = IF i = 0 THEN 0 ELSE sum[i - 1] + f[i - 1]
      BY <1>5
    <2>2. 0 \in 0 .. n /\ \A i \in 0 .. n - 1 : i + 1 \in 0 .. n /\ i + 1 # 0 /\ (i + 1) - 1 = i
      OBVIOUS
    <2>3. sum[0] = 0
      BY <2>1, <2>2
    <2>4. ASSUME NEW i \in 0 .. n - 1 PROVE sum[i + 1] = sum[i] + f[i]
      <3>1. sum[i + 1] = sum[(i + 1) - 1] + f[(i + 1) - 1]
        BY <2>1, <2>2
      <3> QED BY <2>2, <3>1
    <2> QED BY <2>3, <2>4
  <1>8. sum \in [0 .. n -> Int]
    <2> DEFINE T == {i \in 0 .. n : sum[i] \in Int}
    <2>1. 0 \in T
      BY <1>7
    <2>2. ASSUME NEW i \in 0 .. n - 1, i \in T PROVE i + 1 \in T
      <3>1. sum[i] \in Int /\ f[i] \in Int /\ i + 1 \in 0 .. n
        BY <2>2
      <3>2. sum[i + 1] \in Int
        BY <1>7, <3>1
      <3> QED BY <3>1, <3>2
    <2> HIDE DEF T
    <2>3. \A i \in 0 .. n : i \in T
      BY <2>1, <2>2, Rounds
    <2>4. \A i \in 0 .. n : sum[i] \in Int
      BY <2>3 DEF T
    <2> QED BY <1>5, <2>4
  <1> QED BY <1>6, <1>7, <1>8 DEF IsSum

\* A sum after one of its terms has changed.
LEMMA TotalPut ==
  ASSUME NEW n \in Nat, NEW f \in [0 .. n - 1 -> Int], NEW g \in [0 .. n - 1 -> Int],
         NEW s \in 0 .. n - 1, \A i \in 0 .. n - 1 : i # s => g[i] = f[i]
  PROVE  /\ Total(f, n) \in Int
         /\ Total(g, n) = Total(f, n) - f[s] + g[s]
  <1>1. PICK a : IsSum(a, f, n) /\ Total(f, n) = a[n]
    BY TotalIs
  <1>2. PICK b : IsSum(b, g, n) /\ Total(g, n) = b[n]
    BY TotalIs
  <1> DEFINE T == {i \in 0 .. n : b[i] = a[i] + IF s < i THEN g[s] - f[s] ELSE 0}
  <1>3. 0 \in T
    <2>1. a[0] = 0 /\ b[0] = 0 /\ ~(s < 0) /\ 0 \in 0 .. n
      BY <1>1, <1>2 DEF IsSum
    <2> QED BY <2>1
  <1>4. ASSUME NEW i \in 0 .. n - 1, i \in T PROVE i + 1 \in T
    <2>1. /\ a[i + 1] = a[i] + f[i] /\ b[i + 1] = b[i] + g[i]
          /\ i \in 0 .. n /\ i + 1 \in 0 .. n /\ a[i] \in Int /\ b[i] \in Int
          /\ f[i] \in Int /\ g[i] \in Int /\ f[s] \in Int /\ g[s] \in Int
      <3>1. i \in 0 .. n /\ i + 1 \in 0 .. n
        OBVIOUS
      <3>2. a[i + 1] = a[i] + f[i] /\ a[i] \in Int
        BY <1>1, <3>1 DEF IsSum
      <3>3. b[i + 1] = b[i] + g[i] /\ b[i] \in Int
        BY <1>2, <3>1 DEF IsSum
      <3> QED BY <3>1, <3>2, <3>3
    <2>2. b[i] = a[i] + IF s < i THEN g[s] - f[s] ELSE 0
      BY <1>4
    <2>3. CASE i = s
      BY <2>1, <2>2, <2>3
    <2>4. CASE i # s
      <3>1. g[i] = f[i] /\ (s < i <=> s < i + 1)
        BY <2>4
      <3> QED BY <2>1, <2>2, <3>1
    <2> QED BY <2>3, <2>4
  <1> HIDE DEF T
  <1>5. n \in T
    <2>1. \A i \in 0 .. n : i \in T
      BY <1>3, <1>4, Rounds
    <2> QED BY <2>1
  <1>6. b[n] = a[n] + (g[s] - f[s]) /\ a[n] \in Int /\ f[s] \in Int /\ g[s] \in Int
    <2>1. s < n /\ n \in 0 .. n
      OBVIOUS
    <2> QED BY <1>1, <1>5, <2>1 DEF T, IsSum
  <1> QED BY <1>1, <1>2, <1>6

\* The sum of equal terms.
LEMMA TotalConstant ==
  ASSUME NEW n \in Nat, NEW c \in Int, NEW f \in [0 .. n - 1 -> Int],
         \A i \in 0 .. n - 1 : f[i] = c
  PROVE  Total(f, n) = n * c
  <1>1. PICK a : IsSum(a, f, n) /\ Total(f, n) = a[n]
    BY TotalIs
  <1> DEFINE T == {i \in 0 .. n : a[i] = i * c}
  <1>2. 0 \in T
    BY <1>1 DEF IsSum
  <1>3. ASSUME NEW i \in 0 .. n - 1, i \in T PROVE i + 1 \in T
    <2>1. a[i + 1] = a[i] + c /\ i + 1 \in 0 .. n /\ a[i] = i * c
      BY <1>1, <1>3 DEF IsSum
    <2>2. (i + 1) * c = i * c + c
      OBVIOUS
    <2> QED BY <2>1, <2>2
  <1> HIDE DEF T
  <1>4. \A i \in 0 .. n : i \in T
    BY <1>2, <1>3, Rounds
  <1>5. n \in T
    BY <1>4
  <1> QED BY <1>1, <1>5 DEF T

(***************************************************************************)
(* The registers of coupons.                                               *)
(***************************************************************************)
\* v is what 2^k registers show of the coupons C.
IsRegs(v, C, k) ==
  /\ v \in [0 .. 2^k - 1 -> 0 .. ValueMax]
  /\ \A c \in C : getValue(c) <= v[SlotNo(c, k)]
  /\ \A i \in 0 .. 2^k - 1 : v[i] # 0 => \E c \in C : SlotNo(c, k) = i /\ getValue(c) = v[i]

Raised(v, s, w) == [i \in DOMAIN v |-> IF i = s /\ w > v[i] THEN w ELSE v[i]]

Nonzero(v) == {i \in DOMAIN v : v[i] # 0}

\* A set whose elements are all named by those of another has no more.
LEMMA NotMore ==
  ASSUME NEW A, NEW B, IsFiniteSet(B), NEW g, \A a \in A : \E b \in B : g[b] = a
  PROVE  IsFiniteSet(A) /\ Cardinality(A) <= Cardinality(B)
  <1> DEFINE f == [a \in A |-> CHOOSE b \in B : g[b] = a]
  <1>1. \A a \in A : f[a] \in B /\ g[f[a]] = a
    OBVIOUS
  <1>2. f \in [A -> B]
    OBVIOUS
  <1> HIDE DEF f
  <1>3. f \in Injection(A, B)
    <2>1. \A a, b \in A : f[a] = f[b] => a = b
      BY <1>1
    <2> QED BY <1>2, <2>1 DEF Injection, IsInjective
  <1> QED BY <1>3, FS_Injection

\* The slot and the value of a coupon are in range.
LEMMA CouponSlot ==
  ASSUME NEW c \in Coupon, NEW k \in 1 .. KeyBits
  PROVE  /\ SlotNo(c, k) \in 0 .. 2^k - 1 /\ getLow26(c) % 2^k = SlotNo(c, k)
         /\ getValue(c) \in 1 .. ValueMax /\ getValue(c) \in Nat
         /\ c # EMPTY /\ c \in Nat
  BY CouponIs, SlotIs, ArrayAssumption DEF SlotNo

\* No coupons, no registers.
LEMMA RegsEmpty ==
  ASSUME NEW k \in 1 .. KeyBits, NEW v \in [0 .. 2^k - 1 -> {0}]
  PROVE  IsRegs(v, {}, k)
  BY ArrayAssumption DEF IsRegs

\* A register that is raised is the larger of what it was and the value.
LEMMA RaisedIs ==
  ASSUME NEW k \in 1 .. KeyBits, NEW v \in [0 .. 2^k - 1 -> 0 .. ValueMax],
         NEW s \in 0 .. 2^k - 1, NEW w \in 0 .. ValueMax
  PROVE  /\ Raised(v, s, w) \in [0 .. 2^k - 1 -> 0 .. ValueMax]
         /\ \A i \in 0 .. 2^k - 1 : i # s => Raised(v, s, w)[i] = v[i]
         /\ Raised(v, s, w)[s] = IF w > v[s] THEN w ELSE v[s]
         /\ w <= v[s] => Raised(v, s, w) = v
  BY ArrayAssumption DEF Raised

\* One more coupon raises one register.
LEMMA RegsRaised ==
  ASSUME NEW k \in 1 .. KeyBits, NEW C \in SUBSET Coupon, NEW v, IsRegs(v, C, k),
         NEW c \in Coupon
  PROVE  IsRegs(Raised(v, SlotNo(c, k), getValue(c)), C \cup {c}, k)
  <1> DEFINE s == SlotNo(c, k)
             w == getValue(c)
             r == Raised(v, s, w)
  <1>1. s \in 0 .. 2^k - 1 /\ w \in 1 .. ValueMax /\ w \in 0 .. ValueMax
    BY CouponSlot, ArrayAssumption
  <1>2. /\ v \in [0 .. 2^k - 1 -> 0 .. ValueMax]
        /\ \A d \in C : getValue(d) <= v[SlotNo(d, k)]
        /\ \A i \in 0 .. 2^k - 1 : v[i] # 0 => \E d \in C : SlotNo(d, k) = i /\ getValue(d) = v[i]
    BY DEF IsRegs
  <1>3. \A d \in C : SlotNo(d, k) \in 0 .. 2^k - 1 /\ getValue(d) \in Nat
    BY CouponSlot
  <1> HIDE DEF s, w
  <1>4. /\ r \in [0 .. 2^k - 1 -> 0 .. ValueMax]
        /\ \A i \in 0 .. 2^k - 1 : i # s => r[i] = v[i]
        /\ r[s] = IF w > v[s] THEN w ELSE v[s]
    <2>1. v \in [0 .. 2^k - 1 -> 0 .. ValueMax]
      BY <1>2
    <2>2. s \in 0 .. 2^k - 1 /\ w \in 0 .. ValueMax
      BY <1>1
    <2>3. r \in [0 .. 2^k - 1 -> 0 .. ValueMax]
      BY <2>1, <2>2, RaisedIs
    <2>4. \A i \in 0 .. 2^k - 1 : i # s => r[i] = v[i]
      BY <2>1, <2>2, RaisedIs
    <2>5. r[s] = IF w > v[s] THEN w ELSE v[s]
      BY <2>1, <2>2, RaisedIs
    <2> QED BY <2>3, <2>4, <2>5
  <1> HIDE DEF r
  <1>5. v[s] \in Nat /\ r[s] \in Nat /\ r[s] >= v[s] /\ r[s] >= w /\ (r[s] = w \/ r[s] = v[s])
    BY <1>1, <1>2, <1>4, ArrayAssumption
  <1>6. ASSUME NEW d \in C \cup {c} PROVE getValue(d) <= r[SlotNo(d, k)]
    <2>1. CASE d = c
      BY <1>5, <2>1 DEF s, w
    <2>2. CASE d \in C
      <3>1. getValue(d) <= v[SlotNo(d, k)] /\ SlotNo(d, k) \in 0 .. 2^k - 1 /\ getValue(d) \in Nat
        BY <1>2, <1>3, <2>2
      <3>2. CASE SlotNo(d, k) = s
        BY <1>5, <3>1, <3>2
      <3>3. CASE SlotNo(d, k) # s
        BY <1>4, <3>1, <3>3
      <3> QED BY <3>2, <3>3
    <2> QED BY <2>1, <2>2
  <1>7. ASSUME NEW i \in 0 .. 2^k - 1, r[i] # 0
        PROVE  \E d \in C \cup {c} : SlotNo(d, k) = i /\ getValue(d) = r[i]
    <2>1. CASE i = s /\ r[i] = w
      BY <2>1 DEF s, w
    <2>2. CASE r[i] = v[i]
      BY <1>2, <1>7, <2>2
    <2> QED BY <1>4, <1>5, <2>1, <2>2
  <1>8. IsRegs(r, C \cup {c}, k)
    BY <1>4, <1>6, <1>7 DEF IsRegs
  <1> QED BY <1>8 DEF r, s, w

\* The registers that are not 0, as coupons.
RegisterCoupons(u) == {pair(j, u[j]) : j \in Nonzero(u)}

\* What the registers of D add to C is what D adds.
LEMMA RegsFolded ==
  ASSUME NEW k \in 1 .. KeyBits, NEW l \in 1 .. KeyBits, k <= l,
         NEW C \in SUBSET Coupon, NEW D \in SUBSET Coupon, NEW u, IsRegs(u, D, l),
         NEW v, NEW E, IsRegs(v, C \cup E, k),
         E = RegisterCoupons(u)
  PROVE  IsRegs(v, C \cup D, k)
  <1>1. /\ u \in [0 .. 2^l - 1 -> 0 .. ValueMax]
        /\ \A d \in D : getValue(d) <= u[SlotNo(d, l)]
        /\ \A i \in 0 .. 2^l - 1 : u[i] # 0 => \E d \in D : SlotNo(d, l) = i /\ getValue(d) = u[i]
    BY DEF IsRegs
  <1>2. /\ v \in [0 .. 2^k - 1 -> 0 .. ValueMax]
        /\ \A d \in C \cup E : getValue(d) <= v[SlotNo(d, k)]
        /\ \A i \in 0 .. 2^k - 1 :
             v[i] # 0 => \E d \in C \cup E : SlotNo(d, k) = i /\ getValue(d) = v[i]
    BY DEF IsRegs
  <1>3. \A d \in Coupon : /\ SlotNo(d, l) \in 0 .. 2^l - 1 /\ SlotNo(d, k) \in 0 .. 2^k - 1
                          /\ getValue(d) \in 1 .. ValueMax /\ getValue(d) \in Nat
    BY CouponSlot
  <1>4. ASSUME NEW d \in Coupon, NEW e \in Coupon, SlotNo(d, l) = SlotNo(e, l)
        PROVE  SlotNo(d, k) = SlotNo(e, k)
    <2>1. d \in Nat /\ e \in Nat /\ k \in Nat /\ l \in Nat
      BY CouponSlot
    <2>2. (d % 2^l) % 2^k = d % 2^k
      BY <2>1, ModMod
    <2>3. (e % 2^l) % 2^k = e % 2^k
      BY <2>1, ModMod
    <2> QED BY <1>4, <2>2, <2>3 DEF SlotNo
  <1>5. ASSUME NEW j \in 0 .. 2^l - 1, u[j] # 0
        PROVE  /\ pair(j, u[j]) \in Coupon
               /\ SlotNo(pair(j, u[j]), l) = j /\ getValue(pair(j, u[j])) = u[j]
    <2>1. u[j] \in 1 .. ValueMax
      BY <1>1, <1>5
    <2> QED BY <2>1, RegisterPair DEF SlotNo
  <1>6. ASSUME NEW d \in C \cup D PROVE getValue(d) <= v[SlotNo(d, k)]
    <2>1. CASE d \in C
      BY <1>2, <2>1
    <2>2. CASE d \in D
      <3> DEFINE j == SlotNo(d, l)
                 e == pair(j, u[j])
      <3>1. j \in 0 .. 2^l - 1 /\ getValue(d) \in 1 .. ValueMax /\ getValue(d) <= u[j]
        BY <1>1, <1>3, <2>2
      <3>2. u[j] \in 1 .. ValueMax /\ u[j] # 0
        BY <1>1, <3>1, ArrayAssumption
      <3>3. e \in Coupon /\ SlotNo(e, l) = j /\ getValue(e) = u[j]
        BY <1>5, <3>1, <3>2
      <3>4. e \in E
        BY <1>1, <3>1, <3>2 DEF Nonzero, RegisterCoupons
      <3>5. SlotNo(e, k) = SlotNo(d, k)
        BY <1>4, <2>2, <3>3
      <3> HIDE DEF e, j
      <3>6. getValue(e) <= v[SlotNo(e, k)] /\ v[SlotNo(e, k)] \in 0 .. ValueMax
        BY <1>2, <1>3, <3>3, <3>4
      <3>7. ValueMax \in Nat
        BY ArrayAssumption
      <3> QED BY <3>1, <3>2, <3>3, <3>5, <3>6, <3>7
    <2> QED BY <2>1, <2>2
  <1>7. ASSUME NEW i \in 0 .. 2^k - 1, v[i] # 0
        PROVE  \E d \in C \cup D : SlotNo(d, k) = i /\ getValue(d) = v[i]
    <2>1. PICK e \in C \cup E : SlotNo(e, k) = i /\ getValue(e) = v[i]
      BY <1>2, <1>7
    <2>2. CASE e \in C
      BY <2>1, <2>2
    <2>3. CASE e \in E
      <3>1. PICK j \in 0 .. 2^l - 1 : u[j] # 0 /\ e = pair(j, u[j])
        BY <1>1, <2>3 DEF Nonzero, RegisterCoupons
      <3>2. e \in Coupon /\ SlotNo(e, l) = j /\ getValue(e) = u[j]
        BY <1>5, <3>1
      <3>3. PICK d \in D : SlotNo(d, l) = j /\ getValue(d) = u[j]
        BY <1>1, <3>1
      <3>4. SlotNo(d, k) = SlotNo(e, k)
        BY <1>4, <3>2, <3>3
      <3> QED BY <2>1, <3>2, <3>3, <3>4
    <2> QED BY <2>2, <2>3
  <1> QED BY <1>2, <1>6, <1>7 DEF IsRegs

\* No more registers are set than there are coupons.
LEMMA RegsCount ==
  ASSUME NEW k \in 1 .. KeyBits, NEW C \in SUBSET Coupon, IsFiniteSet(C),
         NEW v, IsRegs(v, C, k)
  PROVE  Cardinality(Nonzero(v)) <= Cardinality(C)
  <1> DEFINE g == [c \in C |-> SlotNo(c, k)]
  <1>1. \A i \in Nonzero(v) : \E c \in C : g[c] = i
    BY DEF IsRegs, Nonzero
  <1> HIDE DEF g
  <1> QED BY <1>1, NotMore

\* Fewer registers do not show more.
LEMMA RegsFoldedCount ==
  ASSUME NEW k \in 1 .. KeyBits, NEW l \in 1 .. KeyBits, k <= l,
         NEW C \in SUBSET Coupon, NEW u, IsRegs(u, C, l), NEW v, IsRegs(v, C, k)
  PROVE  /\ Cardinality(Nonzero(v)) <= Cardinality(Nonzero(u))
         /\ Cardinality(Nonzero(v)) \in Nat
  <1> DEFINE g == [j \in 0 .. 2^l - 1 |-> j % 2^k]
  <1>1. IsFiniteSet(Nonzero(u))
    <2>1. IsFiniteSet(0 .. 2^l - 1)
      BY SlotsIn, FS_Interval
    <2>2. Nonzero(u) \subseteq 0 .. 2^l - 1
      BY DEF Nonzero, IsRegs
    <2> QED BY <2>1, <2>2, FS_Subset
  <1>2. ASSUME NEW i \in Nonzero(v) PROVE \E j \in Nonzero(u) : g[j] = i
    <2>1. i \in 0 .. 2^k - 1 /\ v[i] # 0
      BY <1>2 DEF Nonzero, IsRegs
    <2>2. PICK c \in C : SlotNo(c, k) = i /\ getValue(c) = v[i]
      BY <2>1 DEF IsRegs
    <2> DEFINE j == SlotNo(c, l)
    <2>3. c \in Nat /\ j \in 0 .. 2^l - 1 /\ getValue(c) \in 1 .. ValueMax /\ k \in Nat /\ l \in Nat
      BY CouponSlot
    <2>4. j % 2^k = i
      BY <2>2, <2>3, ModMod DEF SlotNo
    <2>5. getValue(c) <= u[j] /\ u \in [0 .. 2^l - 1 -> 0 .. ValueMax]
      BY DEF IsRegs
    <2> HIDE DEF j
    <2>6. u[j] # 0 /\ j \in DOMAIN u
      BY <2>3, <2>5
    <2>7. j \in Nonzero(u) /\ g[j] = i
      BY <2>3, <2>4, <2>6 DEF Nonzero
    <2> QED BY <2>7
  <1> HIDE DEF g
  <1>3. IsFiniteSet(Nonzero(v)) /\ Cardinality(Nonzero(v)) <= Cardinality(Nonzero(u))
    BY <1>1, <1>2, NotMore
  <1> QED BY <1>3, FS_CardinalityType

SlotMax(C, k, i) == Max({0} \cup {getValue(c) : c \in {d \in C : getLow26(d) % 2^k = i}})

\* A register is the largest value among the coupons of its slot.
LEMMA RegsMax ==
  ASSUME NEW k \in 1 .. KeyBits, NEW C \in SUBSET Coupon, NEW v, IsRegs(v, C, k),
         NEW i \in 0 .. 2^k - 1
  PROVE  v[i] = SlotMax(C, k, i)
  <1> DEFINE S == {0} \cup {getValue(c) : c \in {d \in C : getLow26(d) % 2^k = i}}
  <1>1. S = {0} \cup {getValue(c) : c \in {d \in C : SlotNo(d, k) = i}}
    BY CouponSlot
  <1>2. \A c \in C : getValue(c) \in Nat
    BY CouponSlot
  <1>3. v[i] \in S /\ v[i] \in Nat /\ (\A y \in S : v[i] >= y) /\ S \subseteq Nat
    <2>1. /\ v \in [0 .. 2^k - 1 -> 0 .. ValueMax]
          /\ \A c \in C : getValue(c) <= v[SlotNo(c, k)]
          /\ v[i] # 0 => \E c \in C : SlotNo(c, k) = i /\ getValue(c) = v[i]
      BY DEF IsRegs
    <2>2. v[i] \in Nat
      BY <2>1, ArrayAssumption
    <2>3. S \subseteq Nat
      BY <1>1, <1>2
    <2>4. v[i] \in S
      BY <1>1, <2>1
    <2>5. ASSUME NEW y \in S PROVE v[i] >= y
      <3>1. CASE y = 0
        BY <2>2, <3>1
      <3>2. CASE y # 0
        <4>1. PICK c \in C : SlotNo(c, k) = i /\ y = getValue(c)
          BY <1>1, <2>5, <3>2
        <4>2. getValue(c) <= v[i] /\ getValue(c) \in Nat
          BY <1>2, <2>1, <4>1
        <4> QED BY <2>2, <4>1, <4>2
      <3> QED BY <3>1, <3>2
    <2> QED BY <2>2, <2>3, <2>4, <2>5
  <1> HIDE DEF S
  <1>4. \A x \in S : (\A y \in S : x >= y) => x = v[i]
    BY <1>3
  <1>5. \E x \in S : \A y \in S : x >= y
    BY <1>3
  <1>6. Max(S) \in S /\ \A y \in S : Max(S) >= y
    BY <1>5 DEF Max
  <1> QED BY <1>4, <1>6 DEF S, SlotMax

(***************************************************************************)
(* Slots in bytes.                                                         *)
(***************************************************************************)
Byte == 0 .. 255

\* A slot of six bits, and the bytes after another value is put in it.
Get6(bytes, s) == (TwoBytes(bytes, s) \div 2^((6 * s) % 8)) % 64

Insert6(bytes, s, w) ==
  TwoBytes(bytes, s) + ((w % 64) - Get6(bytes, s)) * 2^((6 * s) % 8)

At6(s) == (6 * s) \div 8

Put6(bytes, s, w) ==
  [[bytes EXCEPT ![At6(s)] = Insert6(bytes, s, w) % 256]
          EXCEPT ![At6(s) + 1] = Insert6(bytes, s, w) \div 256]

\* Numerals for the powers that six bits are shifted by.
LEMMA SmallPowers == 2^0 = 1 /\ 2^1 = 2 /\ 2^2 = 4 /\ 2^3 = 8 /\ 2^4 = 16 /\ 2^5 = 32 /\ 2^6 = 64
  <1>1. 2^0 = 1
    OBVIOUS
  <1>2. 2^(0 + 1) = 2 * 2^0
    BY PowerIs
  <1>3. 2^(1 + 1) = 2 * 2^1
    BY PowerIs
  <1>4. 2^(2 + 1) = 2 * 2^2
    BY PowerIs
  <1>5. 2^(3 + 1) = 2 * 2^3
    BY PowerIs
  <1>6. 2^(4 + 1) = 2 * 2^4
    BY PowerIs
  <1>7. 2^(5 + 1) = 2 * 2^5
    BY PowerIs
  <1>8. 0 + 1 = 1 /\ 1 + 1 = 2 /\ 2 + 1 = 3 /\ 3 + 1 = 4 /\ 4 + 1 = 5 /\ 5 + 1 = 6
    OBVIOUS
  <1> QED BY <1>1, <1>2, <1>3, <1>4, <1>5, <1>6, <1>7, <1>8

\* What is in four bits of a byte when the other four are set.
LEMMA Nibbles ==
  ASSUME NEW b \in Byte, NEW w \in 0 .. 15
  PROVE  /\ b + (w - (b % 16)) * 1 \in Byte
         /\ (b + (w - (b % 16)) * 1) % 16 = w /\ (b + (w - (b % 16)) * 1) \div 16 = b \div 16
         /\ b + (w - (b \div 16)) * 16 \in Byte
         /\ (b + (w - (b \div 16)) * 16) \div 16 = w /\ (b + (w - (b \div 16)) * 16) % 16 = b % 16
         /\ b % 16 \in 0 .. 15 /\ b \div 16 \in 0 .. 15
  <1>1. PICK q \in 0 .. 15, r \in 0 .. 15 : b = 16 * q + r /\ b \div 16 = q /\ b % 16 = r
    BY DEF Byte
  <1>2. b + (w - r) * 1 = 16 * q + w /\ b + (w - q) * 16 = 16 * w + r
    BY <1>1
  <1>3. /\ 16 * q + w \in Byte /\ 16 * w + r \in Byte
        /\ (16 * q + w) % 16 = w /\ (16 * q + w) \div 16 = q
        /\ (16 * w + r) % 16 = r /\ (16 * w + r) \div 16 = w
    BY <1>1 DEF Byte
  <1> QED BY <1>1, <1>2, <1>3

\* Where six bits are, by their place among the four slots of three bytes.
LEMMA SixAt ==
  ASSUME NEW q \in Nat, NEW r \in 0 .. 3, NEW s, s = 4 * q + r
  PROVE  /\ r = 0 => At6(s) = 3 * q /\ 2^((6 * s) % 8) = 1
         /\ r = 1 => At6(s) = 3 * q /\ 2^((6 * s) % 8) = 64
         /\ r = 2 => At6(s) = 3 * q + 1 /\ 2^((6 * s) % 8) = 16
         /\ r = 3 => At6(s) = 3 * q + 2 /\ 2^((6 * s) % 8) = 4
  <1>1. r = 0 => (6 * s) \div 8 = 3 * q /\ (6 * s) % 8 = 0
    OBVIOUS
  <1>2. r = 1 => (6 * s) \div 8 = 3 * q /\ (6 * s) % 8 = 6
    OBVIOUS
  <1>3. r = 2 => (6 * s) \div 8 = 3 * q + 1 /\ (6 * s) % 8 = 4
    OBVIOUS
  <1>4. r = 3 => (6 * s) \div 8 = 3 * q + 2 /\ (6 * s) % 8 = 2
    OBVIOUS
  <1> QED BY <1>1, <1>2, <1>3, <1>4, SmallPowers DEF At6

\* x and y are the two bytes, p the place: the slot, and the bytes after w is put.
LEMMA SixBits ==
  ASSUME NEW x \in Byte, NEW y \in Byte, NEW w \in 0 .. 63
  PROVE  /\ (x + 256 * y) % 64 = x % 64
         /\ ((x + 256 * y) \div 64) % 64 = (x \div 64) + 4 * (y % 16)
         /\ ((x + 256 * y) \div 16) % 64 = (x \div 16) + 16 * (y % 4)
         /\ ((x + 256 * y) \div 4) % 64 = x \div 4
         /\ x + 256 * y + (w - (x % 64)) = 64 * (x \div 64) + w + 256 * y
         /\ x + 256 * y + (w - ((x \div 64) + 4 * (y % 16))) * 64
              = (x % 64) + 64 * (w % 4) + 256 * (16 * (y \div 16) + (w \div 4))
         /\ x + 256 * y + (w - ((x \div 16) + 16 * (y % 4))) * 16
              = (x % 16) + 16 * (w % 16) + 256 * (4 * (y \div 4) + (w \div 16))
         /\ x + 256 * y + (w - (x \div 4)) * 4 = (x % 4) + 4 * w + 256 * y
  <1>1. (x + 256 * y) % 64 = x % 64
    BY DEF Byte
  <1>2. ((x + 256 * y) \div 64) % 64 = (x \div 64) + 4 * (y % 16)
    <2>1. (x + 256 * y) \div 64 = (x \div 64) + 4 * y
      BY DEF Byte
    <2>2. PICK a \in 0 .. 3 : a = x \div 64
      BY DEF Byte
    <2>3. PICK b \in Nat, c \in 0 .. 15 : y = 16 * b + c /\ c = y % 16
      BY DEF Byte
    <2>4. a + 4 * y = 64 * b + (a + 4 * c) /\ a + 4 * c \in 0 .. 63
      BY <2>2, <2>3
    <2>5. (64 * b + (a + 4 * c)) % 64 = a + 4 * c
      BY <2>4
    <2> QED BY <2>1, <2>2, <2>3, <2>4, <2>5
  <1>3. ((x + 256 * y) \div 16) % 64 = (x \div 16) + 16 * (y % 4)
    <2>1. (x + 256 * y) \div 16 = (x \div 16) + 16 * y
      BY DEF Byte
    <2>2. PICK a \in 0 .. 15 : a = x \div 16
      BY DEF Byte
    <2>3. PICK b \in Nat, c \in 0 .. 3 : y = 4 * b + c /\ c = y % 4
      BY DEF Byte
    <2>4. a + 16 * y = 64 * b + (a + 16 * c) /\ a + 16 * c \in 0 .. 63
      BY <2>2, <2>3
    <2>5. (64 * b + (a + 16 * c)) % 64 = a + 16 * c
      BY <2>4
    <2> QED BY <2>1, <2>2, <2>3, <2>4, <2>5
  <1>4. ((x + 256 * y) \div 4) % 64 = x \div 4
    BY DEF Byte
  <1>5. x + 256 * y + (w - (x % 64)) = 64 * (x \div 64) + w + 256 * y
    BY DEF Byte
  <1>6. x + 256 * y + (w - ((x \div 64) + 4 * (y % 16))) * 64
              = (x % 64) + 64 * (w % 4) + 256 * (16 * (y \div 16) + (w \div 4))
    BY DEF Byte
  <1>7. x + 256 * y + (w - ((x \div 16) + 16 * (y % 4))) * 16
              = (x % 16) + 16 * (w % 16) + 256 * (4 * (y \div 4) + (w \div 16))
    BY DEF Byte
  <1>8. x + 256 * y + (w - (x \div 4)) * 4 = (x % 4) + 4 * w + 256 * y
    BY DEF Byte
  <1> QED BY <1>1, <1>2, <1>3, <1>4, <1>5, <1>6, <1>7, <1>8

\* The six bits of place r among the bytes x, y and z.
Six(r, x, y, z) ==
  CASE r = 0 -> x % 64
    [] r = 1 -> (x \div 64) + 4 * (y % 16)
    [] r = 2 -> (y \div 16) + 16 * (z % 4)
    [] r = 3 -> z \div 4

Bytes(n, bytes) == bytes \in [0 .. n - 1 -> Byte]

\* A slot of six bits lies in one of four places of three bytes.
LEMMA Get6Is ==
  ASSUME NEW q \in Nat, NEW r \in 0 .. 3, NEW s, s = 4 * q + r, NEW bytes,
         bytes[At6(s)] \in Byte, bytes[At6(s) + 1] \in Byte
  PROVE  Get6(bytes, s) = Six(r, bytes[3 * q], bytes[3 * q + 1], bytes[3 * q + 2])
  <1> DEFINE x == bytes[At6(s)]
             y == bytes[At6(s) + 1]
             p == 2^((6 * s) % 8)
  <1>1. Get6(bytes, s) = ((x + 256 * y) \div p) % 64
    BY DEF Get6, TwoBytes, At6
  <1>2. /\ r = 0 => At6(s) = 3 * q /\ p = 1
        /\ r = 1 => At6(s) = 3 * q /\ p = 64
        /\ r = 2 => At6(s) = 3 * q + 1 /\ p = 16
        /\ r = 3 => At6(s) = 3 * q + 2 /\ p = 4
    BY SixAt
  <1>3. x \in Byte /\ y \in Byte
    OBVIOUS
  <1> HIDE DEF p
  <1>4. /\ (x + 256 * y) % 64 = x % 64
        /\ ((x + 256 * y) \div 64) % 64 = (x \div 64) + 4 * (y % 16)
        /\ ((x + 256 * y) \div 16) % 64 = (x \div 16) + 16 * (y % 4)
        /\ ((x + 256 * y) \div 4) % 64 = x \div 4
    <2> HIDE DEF x, y
    <2>1. 0 \in 0 .. 63
      OBVIOUS
    <2> QED BY <1>3, <2>1, SixBits
  <1>5. CASE r = 0
    <2> HIDE DEF x, y
    <2>1. (x + 256 * y) \div 1 = x + 256 * y
      <3> DEFINE z == x + 256 * y
      <3>1. z \in Nat
        BY <1>3 DEF Byte
      <3> HIDE DEF z
      <3>2. z \div 1 = z
        BY <3>1
      <3> QED BY <3>2 DEF z
    <2>2. Get6(bytes, s) = x % 64
      BY <1>1, <1>2, <1>4, <1>5, <2>1
    <2>3. x = bytes[3 * q]
      BY <1>2, <1>5 DEF x
    <2> QED BY <1>5, <2>2, <2>3 DEF Six
  <1>6. CASE r = 1
    BY <1>1, <1>2, <1>4, <1>6 DEF Six
  <1>7. CASE r = 2
    <2>1. (3 * q + 1) + 1 = 3 * q + 2
      OBVIOUS
    <2> QED BY <1>1, <1>2, <1>4, <1>7, <2>1 DEF Six
  <1>8. CASE r = 3
    BY <1>1, <1>2, <1>4, <1>8 DEF Six
  <1> QED BY <1>5, <1>6, <1>7, <1>8

\* Two bytes as one number, and back.
LEMMA Split256 ==
  ASSUME NEW a \in Byte, NEW b \in Nat
  PROVE  (a + 256 * b) % 256 = a /\ (a + 256 * b) \div 256 = b
  BY DEF Byte

\* The bytes a and b that w makes of x and y, where it begins in the r-th of
\* the places a slot may have in three bytes.
Inserted(r, w, x, y, a, b) ==
  /\ r = 0 => a % 64 = w /\ a \div 64 = x \div 64 /\ b = y
  /\ r = 1 => a % 64 = x % 64 /\ a \div 64 = w % 4 /\ b % 16 = w \div 4 /\ b \div 16 = y \div 16
  /\ r = 2 => a % 16 = x % 16 /\ a \div 16 = w % 16 /\ b % 4 = w \div 16 /\ b \div 4 = y \div 4
  /\ r = 3 => a % 4 = x % 4 /\ a \div 4 = w /\ b = y

\* The two bytes that a put writes.
LEMMA Put6Bytes ==
  ASSUME NEW q \in Nat, NEW r \in 0 .. 3, NEW s, s = 4 * q + r, NEW w \in 0 .. 63,
         NEW bytes, NEW x \in Byte, NEW y \in Byte, bytes[At6(s)] = x, bytes[At6(s) + 1] = y
  PROVE  \E a, b \in Byte :
           /\ Insert6(bytes, s, w) % 256 = a /\ Insert6(bytes, s, w) \div 256 = b
           /\ Inserted(r, w, x, y, a, b)
  <1> DEFINE p == 2^((6 * s) % 8)
             g == Get6(bytes, s)
  <1>1. Insert6(bytes, s, w) = x + 256 * y + (w - g) * p
    <2>1. w % 64 = w
      OBVIOUS
    <2> QED BY <2>1 DEF Insert6, TwoBytes, At6
  <1>2. /\ r = 0 => At6(s) = 3 * q /\ p = 1
        /\ r = 1 => At6(s) = 3 * q /\ p = 64
        /\ r = 2 => At6(s) = 3 * q + 1 /\ p = 16
        /\ r = 3 => At6(s) = 3 * q + 2 /\ p = 4
    BY SixAt
  <1>3. g = Six(r, bytes[3 * q], bytes[3 * q + 1], bytes[3 * q + 2])
    BY Get6Is
  <1> HIDE DEF p, g
  <1>4. (3 * q + 1) + 1 = 3 * q + 2
    OBVIOUS
  <1>5. CASE r = 0
    <2>1. g = x % 64 /\ p = 1
      BY <1>2, <1>3, <1>5 DEF Six
    <2> DEFINE a == 64 * (x \div 64) + w
    <2>2. x + 256 * y + (w - g) * p = a + 256 * y
      BY <2>1, SixBits
    <2>3. a \in Byte /\ a % 64 = w /\ a \div 64 = x \div 64
      BY DEF Byte
    <2> HIDE DEF a
    <2>4. (a + 256 * y) % 256 = a /\ (a + 256 * y) \div 256 = y
      BY <2>3 DEF Byte
    <2> QED BY <1>1, <1>5, <2>2, <2>3, <2>4 DEF Inserted
  <1>6. CASE r = 1
    <2>1. g = (x \div 64) + 4 * (y % 16) /\ p = 64
      BY <1>2, <1>3, <1>6 DEF Six
    <2> DEFINE a == (x % 64) + 64 * (w % 4)
               b == 16 * (y \div 16) + (w \div 4)
    <2>2. x + 256 * y + (w - g) * p = a + 256 * b
      BY <2>1, SixBits
    <2>3. a \in Byte /\ a % 64 = x % 64 /\ a \div 64 = w % 4
      BY DEF Byte
    <2>4. b \in Byte /\ b % 16 = w \div 4 /\ b \div 16 = y \div 16
      BY DEF Byte
    <2> HIDE DEF a, b
    <2>5. (a + 256 * b) % 256 = a /\ (a + 256 * b) \div 256 = b
      BY <2>3, <2>4 DEF Byte
    <2> QED BY <1>1, <1>6, <2>2, <2>3, <2>4, <2>5 DEF Inserted
  <1>7. CASE r = 2
    <2>1. g = (x \div 16) + 16 * (y % 4) /\ p = 16
      BY <1>2, <1>3, <1>4, <1>7 DEF Six
    <2> DEFINE a == (x % 16) + 16 * (w % 16)
               b == 4 * (y \div 4) + (w \div 16)
    <2>2. x + 256 * y + (w - g) * p = a + 256 * b
      BY <2>1, SixBits
    <2>3. a \in Byte /\ a % 16 = x % 16 /\ a \div 16 = w % 16
      BY DEF Byte
    <2>4. b \in Byte /\ b % 4 = w \div 16 /\ b \div 4 = y \div 4
      BY DEF Byte
    <2> HIDE DEF a, b
    <2>5. (a + 256 * b) % 256 = a /\ (a + 256 * b) \div 256 = b
      BY <2>3, <2>4 DEF Byte
    <2> QED BY <1>1, <1>7, <2>2, <2>3, <2>4, <2>5 DEF Inserted
  <1>8. CASE r = 3
    <2>1. g = x \div 4 /\ p = 4
      BY <1>2, <1>3, <1>8 DEF Six
    <2> DEFINE a == (x % 4) + 4 * w
    <2>2. x + 256 * y + (w - g) * p = a + 256 * y
      BY <2>1, SixBits
    <2>3. a \in Byte /\ a % 4 = x % 4 /\ a \div 4 = w
      BY DEF Byte
    <2> HIDE DEF a
    <2>4. (a + 256 * y) % 256 = a /\ (a + 256 * y) \div 256 = y
      BY <2>3 DEF Byte
    <2> QED BY <1>1, <1>8, <2>2, <2>3, <2>4 DEF Inserted
  <1> QED BY <1>5, <1>6, <1>7, <1>8

\* The bytes of six bits a slot.
LEMMA Bytes6 ==
  ASSUME NEW k \in 1 .. KeyBits, NEW s \in 0 .. 2^k - 1, NEW n, n = (2^k * 3) \div 4 + 1
  PROVE  n \in Nat /\ At6(s) \in 0 .. n - 1 /\ At6(s) + 1 \in 0 .. n - 1
  <1>1. 2^k \in Nat /\ 2^k > 0 /\ s \in Nat
    BY SlotsIn
  <1>2. CASE k = 1
    <2>1. 2^k = 2 /\ n = 2
      BY <1>2, SmallPowers
    <2>2. At6(s) = 0
      BY <2>1 DEF At6
    <2> QED BY <2>1, <2>2
  <1>3. CASE k # 1
    <2> DEFINE m == 2^(k - 2)
    <2>1. k - 2 \in Nat /\ (k - 2) + 2 = k
      BY <1>3, TableAssumption
    <2>2. m \in Nat /\ 2^k = m * 4 /\ m > 0
      <3>1. 2^((k - 2) + 2) = 2^(k - 2) * 2^2
        BY <2>1, PowerAdd
      <3> QED BY <2>1, <3>1, PowerIs, SmallPowers
    <2> HIDE DEF m
    <2>3. n = 3 * m + 1
      BY <2>2
    <2>4. s \in 0 .. 4 * m - 1
      BY <2>2
    <2>5. (6 * s) \div 8 \in 0 .. 3 * m - 1
      BY <2>2, <2>4
    <2> QED BY <2>2, <2>3, <2>5 DEF At6
  <1> QED BY <1>2, <1>3

\* Four slots of six bits fill three bytes.
LEMMA Quad ==
  ASSUME NEW s \in Nat
  PROVE  \E q \in Nat, r \in 0 .. 3 : s = 4 * q + r
  <1>1. 4 \in Nat \ {0}
    OBVIOUS
  <1>2. \E q \in Nat, r \in 0 .. 4 - 1 : s \div 4 = q /\ s % 4 = r /\ s = 4 * q + r
    BY <1>1, DivMod
  <1>3. 4 - 1 = 3
    OBVIOUS
  <1> QED BY <1>2, <1>3

\* t has w in slot s and what bytes has in the others.
Holds6(t, n, bytes, s, w) ==
  /\ Bytes(n, t)
  /\ \A j \in Nat : At6(j) \in 0 .. n - 1 /\ At6(j) + 1 \in 0 .. n - 1 =>
       Get6(t, j) = IF j = s THEN w ELSE Get6(bytes, j)

\* Six bits are put into their slot, and into no other.
LEMMA Put6Is ==
  ASSUME NEW n \in Nat, NEW bytes, Bytes(n, bytes), NEW w \in 0 .. 63, NEW s \in Nat,
         At6(s) \in 0 .. n - 1, At6(s) + 1 \in 0 .. n - 1
  PROVE  Holds6(Put6(bytes, s, w), n, bytes, s, w)
  <1> DEFINE x == bytes[At6(s)]
             y == bytes[At6(s) + 1]
             t == Put6(bytes, s, w)
  <1>1. PICK q \in Nat, r \in 0 .. 3 : s = 4 * q + r
    BY Quad
  <1>2. x \in Byte /\ y \in Byte /\ \A i \in 0 .. n - 1 : bytes[i] \in Byte
    BY DEF Bytes
  <1>3. PICK a, b \in Byte :
           /\ Insert6(bytes, s, w) % 256 = a /\ Insert6(bytes, s, w) \div 256 = b
           /\ Inserted(r, w, x, y, a, b)
    <2>1. bytes[At6(s)] = x /\ bytes[At6(s) + 1] = y
      OBVIOUS
    <2> HIDE DEF x, y
    <2> QED BY <1>1, <1>2, <2>1, Put6Bytes
  <1>4. At6(s) \in Nat /\ At6(s) # At6(s) + 1
    OBVIOUS
  <1>5. t = [i \in 0 .. n - 1 |-> IF i = At6(s) THEN a ELSE IF i = At6(s) + 1 THEN b ELSE bytes[i]]
    <2> DEFINE e == At6(s)
               f == At6(s) + 1
    <2>1. t = [bytes EXCEPT ![e] = a, ![f] = b]
      BY <1>3 DEF Put6
    <2>2. e # f /\ e \in 0 .. n - 1 /\ f \in 0 .. n - 1 /\ DOMAIN bytes = 0 .. n - 1
      BY <1>4 DEF Bytes
    <2> HIDE DEF e, f, t
    <2>3. t = [i \in 0 .. n - 1 |-> IF i = e THEN a ELSE IF i = f THEN b ELSE bytes[i]]
      BY <2>1, <2>2
    <2> QED BY <2>3 DEF e, f
  <1> HIDE DEF t
  <1>6. Bytes(n, t)
    BY <1>2, <1>5 DEF Bytes
  <1>7. /\ t[At6(s)] = a /\ t[At6(s) + 1] = b
        /\ \A i \in 0 .. n - 1 : i # At6(s) /\ i # At6(s) + 1 => t[i] = bytes[i]
    BY <1>4, <1>5
  <1>8. /\ r = 0 => At6(s) = 3 * q /\ At6(s) + 1 = 3 * q + 1
        /\ r = 1 => At6(s) = 3 * q /\ At6(s) + 1 = 3 * q + 1
        /\ r = 2 => At6(s) = 3 * q + 1 /\ At6(s) + 1 = 3 * q + 2
        /\ r = 3 => At6(s) = 3 * q + 2 /\ At6(s) + 1 = 3 * q + 3
    BY <1>1, SixAt
  <1>9. \A i \in 0 .. n - 1 : i \notin 3 * q .. 3 * q + 2 => t[i] = bytes[i]
    <2> SUFFICES ASSUME NEW i \in 0 .. n - 1, i \notin 3 * q .. 3 * q + 2
                 PROVE  t[i] = bytes[i]
      OBVIOUS
    <2> DEFINE e == At6(s)
    <2>1. t[e + 1] = b /\ (i # e /\ i # e + 1 => t[i] = bytes[i])
      BY <1>7
    <2>2. /\ r \in {0, 1} => e = 3 * q
          /\ r = 2 => e = 3 * q + 1
          /\ r = 3 => e = 3 * q + 2
      BY <1>8
    <2> HIDE DEF e
    <2>3. i # e
      BY <2>2
    <2>4. CASE i # e + 1
      BY <2>1, <2>3, <2>4
    <2>5. CASE i = e + 1
      <3>1. r = 3
        BY <2>2, <2>5
      <3>2. b = bytes[e + 1]
        BY <1>3, <3>1 DEF Inserted, e
      <3> QED BY <2>1, <2>5, <3>2
    <2> QED BY <2>4, <2>5
  <1>10. ASSUME NEW j \in Nat, At6(j) \in 0 .. n - 1, At6(j) + 1 \in 0 .. n - 1
         PROVE  Get6(t, j) = IF j = s THEN w ELSE Get6(bytes, j)
    <2>1. PICK p \in Nat, l \in 0 .. 3 : j = 4 * p + l
      BY Quad
    <2>2. /\ l = 0 => At6(j) = 3 * p /\ At6(j) + 1 = 3 * p + 1
          /\ l = 1 => At6(j) = 3 * p /\ At6(j) + 1 = 3 * p + 1
          /\ l = 2 => At6(j) = 3 * p + 1 /\ At6(j) + 1 = 3 * p + 2
          /\ l = 3 => At6(j) = 3 * p + 2 /\ At6(j) + 1 = 3 * p + 3
      BY <2>1, SixAt
    <2>3. Get6(t, j) = Six(l, t[3 * p], t[3 * p + 1], t[3 * p + 2])
      <3>1. t[At6(j)] \in Byte /\ t[At6(j) + 1] \in Byte
        BY <1>6, <1>10 DEF Bytes
      <3> QED BY <2>1, <3>1, Get6Is
    <2>4. Get6(bytes, j) = Six(l, bytes[3 * p], bytes[3 * p + 1], bytes[3 * p + 2])
      <3>1. bytes[At6(j)] \in Byte /\ bytes[At6(j) + 1] \in Byte
        BY <1>2, <1>10
      <3> QED BY <2>1, <3>1, Get6Is
    <2>5. CASE p # q
      <3>1. 3 * p \notin 3 * q .. 3 * q + 2 /\ 3 * p + 1 \notin 3 * q .. 3 * q + 2 /\ 3 * p + 2 \notin 3 * q .. 3 * q + 2
        BY <2>5
      <3>2. j # s
        BY <1>1, <2>1, <2>5
      <3>3. CASE l = 0 \/ l = 1
        <4>1. 3 * p \in 0 .. n - 1 /\ 3 * p + 1 \in 0 .. n - 1
          BY <1>10, <2>2, <3>3
        <4>2. t[3 * p] = bytes[3 * p] /\ t[3 * p + 1] = bytes[3 * p + 1]
          BY <1>9, <3>1, <4>1
        <4> QED BY <2>3, <2>4, <3>2, <3>3, <4>2 DEF Six
      <3>4. CASE l = 2
        <4>1. 3 * p + 1 \in 0 .. n - 1 /\ 3 * p + 2 \in 0 .. n - 1
          BY <1>10, <2>2, <3>4
        <4>2. t[3 * p + 1] = bytes[3 * p + 1] /\ t[3 * p + 2] = bytes[3 * p + 2]
          BY <1>9, <3>1, <4>1
        <4> QED BY <2>3, <2>4, <3>2, <3>4, <4>2 DEF Six
      <3>5. CASE l = 3
        <4>1. 3 * p + 2 \in 0 .. n - 1
          BY <1>10, <2>2, <3>5
        <4>2. t[3 * p + 2] = bytes[3 * p + 2]
          BY <1>9, <3>1, <4>1
        <4> QED BY <2>3, <2>4, <3>2, <3>5, <4>2 DEF Six
      <3> QED BY <3>3, <3>4, <3>5
    <2>6. CASE p = q
      <3>1. j = s <=> l = r
        BY <1>1, <2>1, <2>6
      <3> DEFINE X == bytes[3 * q]
                 Y == bytes[3 * q + 1]
                 Z == bytes[3 * q + 2]
                 P == t[3 * q]
                 Q == t[3 * q + 1]
                 R == t[3 * q + 2]
      <3>2. Get6(t, j) = Six(l, P, Q, R) /\ Get6(bytes, j) = Six(l, X, Y, Z)
        BY <2>3, <2>4, <2>6
      <3>3. /\ 3 * q # 3 * q + 1 /\ 3 * q # 3 * q + 2 /\ 3 * q + 1 # 3 * q + 2
            /\ 3 * q # 3 * q + 3 /\ 3 * q + 1 # 3 * q + 3
        OBVIOUS
      <3>4. /\ l = 0 => 3 * q \in 0 .. n - 1 /\ 3 * q + 1 \in 0 .. n - 1
            /\ l = 1 => 3 * q \in 0 .. n - 1 /\ 3 * q + 1 \in 0 .. n - 1
            /\ l = 2 => 3 * q + 1 \in 0 .. n - 1 /\ 3 * q + 2 \in 0 .. n - 1
            /\ l = 3 => 3 * q + 2 \in 0 .. n - 1
        BY <1>10, <2>2, <2>6
      <3>5. CASE r = 0
        <4>1. P % 64 = w /\ P \div 64 = X \div 64 /\ Q = Y
          BY <1>3, <1>7, <1>8, <3>5 DEF Inserted
        <4>2. 3 * q + 2 \in 0 .. n - 1 => R = Z
          BY <1>7, <1>8, <3>3, <3>5
        <4> HIDE DEF P, Q, R, X, Y, Z
        <4> QED BY <3>1, <3>2, <3>4, <3>5, <4>1, <4>2 DEF Six
      <3>6. CASE r = 1
        <4>1. /\ P % 64 = X % 64 /\ P \div 64 = w % 4
              /\ Q % 16 = w \div 4 /\ Q \div 16 = Y \div 16
          BY <1>3, <1>7, <1>8, <3>6 DEF Inserted
        <4>2. 3 * q + 2 \in 0 .. n - 1 => R = Z
          BY <1>7, <1>8, <3>3, <3>6
        <4>3. (w % 4) + 4 * (w \div 4) = w
          OBVIOUS
        <4> HIDE DEF P, Q, R, X, Y, Z
        <4> QED BY <3>1, <3>2, <3>4, <3>6, <4>1, <4>2, <4>3 DEF Six
      <3>7. CASE r = 2
        <4>1. /\ Q % 16 = Y % 16 /\ Q \div 16 = w % 16
              /\ R % 4 = w \div 16 /\ R \div 4 = Z \div 4
          BY <1>3, <1>7, <1>8, <3>7 DEF Inserted
        <4>2. 3 * q \in 0 .. n - 1 => P = X
          BY <1>7, <1>8, <3>3, <3>7
        <4>3. (w % 16) + 16 * (w \div 16) = w
          OBVIOUS
        <4> HIDE DEF P, Q, R, X, Y, Z
        <4> QED BY <3>1, <3>2, <3>4, <3>7, <4>1, <4>2, <4>3 DEF Six
      <3>8. CASE r = 3
        <4>1. R % 4 = Z % 4 /\ R \div 4 = w
          BY <1>3, <1>7, <1>8, <3>8 DEF Inserted
        <4>2. /\ 3 * q \in 0 .. n - 1 => P = X
              /\ 3 * q + 1 \in 0 .. n - 1 => Q = Y
          BY <1>7, <1>8, <3>3, <3>8
        <4> HIDE DEF P, Q, R, X, Y, Z
        <4> QED BY <3>1, <3>2, <3>4, <3>8, <4>1, <4>2 DEF Six
      <3> QED BY <3>5, <3>6, <3>7, <3>8
    <2> QED BY <2>5, <2>6
  <1> QED BY <1>6, <1>10 DEF t, Holds6

TypeSet == {"HLL_4", "HLL_6", "HLL_8"}

\* A slot, and the bytes after a value is put in one.
SlotVal(type, bytes, s) ==
  CASE type = "HLL_4" -> IF s % 2 = 1 THEN bytes[s \div 2] \div 16 ELSE bytes[s \div 2] % 16
    [] type = "HLL_6" -> Get6(bytes, s)
    [] type = "HLL_8" -> bytes[s]

Put4(bytes, s, w) ==
  [bytes EXCEPT ![s \div 2] =
     bytes[s \div 2] + ((w % 16) - SlotVal("HLL_4", bytes, s)) * IF s % 2 = 1 THEN 16 ELSE 1]

PutVal(type, bytes, s, w) ==
  CASE type = "HLL_4" -> Put4(bytes, s, w)
    [] type = "HLL_6" -> Put6(bytes, s, w)
    [] type = "HLL_8" -> [bytes EXCEPT ![s] = w]

Top(type) == IF type = "HLL_4" THEN 15 ELSE 63

\* getSlot, by the type of the array.
LEMMA getSlotIs ==
  ASSUME NEW h, h.tgtHllType \in TypeSet, NEW s
  PROVE  getSlot(h, s) = SlotVal(h.tgtHllType, h.bytes, s)
  <1>1. CASE h.tgtHllType = "HLL_4"
    BY <1>1 DEF getSlot, SlotVal
  <1>2. CASE h.tgtHllType = "HLL_6"
    BY <1>2 DEF getSlot, SlotVal, Get6
  <1>3. CASE h.tgtHllType = "HLL_8"
    BY <1>3 DEF getSlot, SlotVal
  <1> QED BY <1>1, <1>2, <1>3 DEF TypeSet

\* putSlot, by the type of the array, as a change of its bytes.
LEMMA putSlotIs ==
  ASSUME NEW h, "bytes" \in DOMAIN h, h.tgtHllType \in TypeSet, NEW s, NEW w
  PROVE  putSlot(h, s, w) = [h EXCEPT !.bytes = PutVal(h.tgtHllType, h.bytes, s, w)]
  <1>1. CASE h.tgtHllType = "HLL_4"
    <2>1. getSlot(h, s) = SlotVal("HLL_4", h.bytes, s)
      BY <1>1, getSlotIs
    <2> QED BY <1>1, <2>1 DEF putSlot, PutVal, Put4
  <1>2. CASE h.tgtHllType = "HLL_6"
    <2>1. getSlot(h, s) = Get6(h.bytes, s)
      BY <1>2, getSlotIs DEF SlotVal
    <2> DEFINE insert == TwoBytes(h.bytes, s) + ((w % 64) - getSlot(h, s)) * 2^((6 * s) % 8)
               at == (6 * s) \div 8
    <2>2. insert = Insert6(h.bytes, s, w) /\ at = At6(s)
      BY <2>1 DEF Insert6, At6
    <2>3. putSlot(h, s, w) = [h EXCEPT !.bytes[at] = insert % 256,
                                       !.bytes[at + 1] = insert \div 256]
      BY <1>2 DEF putSlot
    <2> HIDE DEF insert, at
    <2>4. [h EXCEPT !.bytes[at] = insert % 256, !.bytes[at + 1] = insert \div 256]
            = [h EXCEPT !.bytes = [[h.bytes EXCEPT ![at] = insert % 256]
                                            EXCEPT ![at + 1] = insert \div 256]]
      <3>1. PICK x, y, n : x = insert % 256 /\ y = insert \div 256 /\ n = at + 1
        OBVIOUS
      <3>2. PICK one : one = [h.bytes EXCEPT ![at] = x]
        OBVIOUS
      <3>3. PICK g : g = [h EXCEPT !.bytes[at] = x]
        OBVIOUS
      <3>4. g = [h EXCEPT !.bytes = one] /\ g.bytes = one
        BY <3>2, <3>3
      <3>5. [g EXCEPT !.bytes[n] = y] = [h EXCEPT !.bytes = [one EXCEPT ![n] = y]]
        BY <3>4
      <3> QED BY <3>1, <3>2, <3>3, <3>5
    <2> QED BY <1>2, <2>2, <2>3, <2>4 DEF PutVal, Put6
  <1>3. CASE h.tgtHllType = "HLL_8"
    BY <1>3 DEF putSlot, PutVal
  <1> QED BY <1>1, <1>2, <1>3 DEF TypeSet

\* Two slots of four bits fill a byte.
LEMMA Half ==
  ASSUME NEW s \in Nat
  PROVE  \E q \in Nat, r \in 0 .. 1 : s = 2 * q + r /\ s \div 2 = q /\ s % 2 = r
  <1>1. 2 \in Nat \ {0} /\ 2 - 1 = 1
    OBVIOUS
  <1>2. \E q \in Nat, r \in 0 .. 2 - 1 : s \div 2 = q /\ s % 2 = r /\ s = 2 * q + r
    BY <1>1, DivMod
  <1> QED BY <1>1, <1>2

\* Four bits are put into their half of the byte.
LEMMA Put4Is ==
  ASSUME NEW k \in 1 .. KeyBits, NEW n, n = 2^(k - 1), NEW bytes, Bytes(n, bytes),
         NEW s \in 0 .. 2^k - 1, NEW w \in 0 .. 15
  PROVE  /\ Bytes(n, Put4(bytes, s, w))
         /\ \A j \in 0 .. 2^k - 1 :
              SlotVal("HLL_4", Put4(bytes, s, w), j)
                = IF j = s THEN w ELSE SlotVal("HLL_4", bytes, j)
  <1>1. n \in Nat /\ 2^k = 2 * n
    BY SlotsIn
  <1>2. PICK q \in Nat, r \in 0 .. 1 : s = 2 * q + r /\ s \div 2 = q /\ s % 2 = r
    BY <1>1, Half
  <1>3. q \in 0 .. n - 1
    BY <1>1, <1>2
  <1> DEFINE b == bytes[q]
             c == b + (w - SlotVal("HLL_4", bytes, s)) * IF r = 1 THEN 16 ELSE 1
             t == Put4(bytes, s, w)
  <1>4. b \in Byte
    BY <1>3 DEF Bytes
  <1>5. SlotVal("HLL_4", bytes, s) = IF r = 1 THEN b \div 16 ELSE b % 16
    BY <1>2 DEF SlotVal
  <1>6. /\ c \in Byte
        /\ r = 0 => c % 16 = w /\ c \div 16 = b \div 16
        /\ r = 1 => c \div 16 = w /\ c % 16 = b % 16
    <2> HIDE DEF b
    <2>1. CASE r = 0
      <3>1. c = b + (w - (b % 16)) * 1
        BY <1>5, <2>1
      <3> HIDE DEF c
      <3>2. /\ b + (w - (b % 16)) * 1 \in Byte
            /\ (b + (w - (b % 16)) * 1) % 16 = w
            /\ (b + (w - (b % 16)) * 1) \div 16 = b \div 16
        BY <1>4, Nibbles
      <3> QED BY <2>1, <3>1, <3>2
    <2>2. CASE r = 1
      <3>1. c = b + (w - (b \div 16)) * 16
        BY <1>5, <2>2
      <3> HIDE DEF c
      <3>2. /\ b + (w - (b \div 16)) * 16 \in Byte
            /\ (b + (w - (b \div 16)) * 16) \div 16 = w
            /\ (b + (w - (b \div 16)) * 16) % 16 = b % 16
        BY <1>4, Nibbles
      <3> QED BY <2>2, <3>1, <3>2
    <2> QED BY <2>1, <2>2
  <1>7. t = [i \in 0 .. n - 1 |-> IF i = q THEN c ELSE bytes[i]]
    <2>1. w % 16 = w
      OBVIOUS
    <2> QED BY <1>2, <1>3, <2>1 DEF Put4, Bytes
  <1> HIDE DEF c, t
  <1>8. Bytes(n, t)
    BY <1>6, <1>7 DEF Bytes
  <1>9. ASSUME NEW j \in 0 .. 2^k - 1
        PROVE  SlotVal("HLL_4", t, j) = IF j = s THEN w ELSE SlotVal("HLL_4", bytes, j)
    <2>1. PICK p \in Nat, l \in 0 .. 1 : j = 2 * p + l /\ j \div 2 = p /\ j % 2 = l
      BY <1>1, Half
    <2>2. p \in 0 .. n - 1
      BY <1>1, <2>1
    <2>3. SlotVal("HLL_4", t, j) = IF l = 1 THEN t[p] \div 16 ELSE t[p] % 16
      BY <2>1 DEF SlotVal
    <2>4. SlotVal("HLL_4", bytes, j) = IF l = 1 THEN bytes[p] \div 16 ELSE bytes[p] % 16
      BY <2>1 DEF SlotVal
    <2>5. CASE p # q
      <3>1. t[p] = bytes[p] /\ j # s
        BY <1>2, <1>7, <2>1, <2>2, <2>5
      <3> QED BY <2>3, <2>4, <3>1
    <2>6. CASE p = q
      <3>1. t[p] = c /\ bytes[p] = b /\ (j = s <=> l = r)
        BY <1>2, <1>7, <2>1, <2>2, <2>6
      <3> HIDE DEF b
      <3> QED BY <1>6, <2>3, <2>4, <3>1
    <2> QED BY <2>5, <2>6
  <1> QED BY <1>8, <1>9 DEF t

\* A value that fits is put into its slot, whatever the type.
LEMMA StoreIs ==
  ASSUME NEW k \in 1 .. KeyBits, NEW type \in TypeSet, NEW bytes,
         Bytes(hllArrBytes(type, k), bytes),
         NEW s \in 0 .. 2^k - 1, NEW w \in 0 .. Top(type)
  PROVE  /\ Bytes(hllArrBytes(type, k), PutVal(type, bytes, s, w))
         /\ \A j \in 0 .. 2^k - 1 :
              SlotVal(type, PutVal(type, bytes, s, w), j)
                = IF j = s THEN w ELSE SlotVal(type, bytes, j)
  <1> DEFINE n == hllArrBytes(type, k)
  <1>0. 2^k \in Nat
    BY SlotsIn
  <1>1. CASE type = "HLL_4"
    <2>1. n = 2^(k - 1) /\ w \in 0 .. 15
      BY <1>1 DEF hllArrBytes, Top
    <2>2. PutVal(type, bytes, s, w) = Put4(bytes, s, w)
      BY <1>1 DEF PutVal
    <2> HIDE DEF n
    <2>3. Bytes(n, bytes)
      BY DEF n
    <2>4. Bytes(n, Put4(bytes, s, w))
      BY <2>1, <2>3, Put4Is
    <2>5. \A j \in 0 .. 2^k - 1 :
              SlotVal("HLL_4", Put4(bytes, s, w), j)
                = IF j = s THEN w ELSE SlotVal("HLL_4", bytes, j)
      BY <2>1, <2>3, Put4Is
    <2> QED BY <1>1, <2>2, <2>4, <2>5 DEF n
  <1>2. CASE type = "HLL_6"
    <2>1. n = (2^k * 3) \div 4 + 1 /\ w \in 0 .. 63
      BY <1>2 DEF hllArrBytes, Top
    <2>2. PutVal(type, bytes, s, w) = Put6(bytes, s, w)
      BY <1>2 DEF PutVal
    <2> HIDE DEF n
    <2>3. Bytes(n, bytes)
      BY DEF n
    <2>4. \A j \in 0 .. 2^k - 1 : /\ n \in Nat /\ At6(j) \in 0 .. n - 1 /\ At6(j) + 1 \in 0 .. n - 1
                                  /\ j \in Nat
      BY <1>0, <2>1, Bytes6
    <2>5. /\ Bytes(n, Put6(bytes, s, w))
          /\ \A j \in Nat : At6(j) \in 0 .. n - 1 /\ At6(j) + 1 \in 0 .. n - 1 =>
               Get6(Put6(bytes, s, w), j) = IF j = s THEN w ELSE Get6(bytes, j)
      <3>1. n \in Nat /\ s \in Nat /\ At6(s) \in 0 .. n - 1 /\ At6(s) + 1 \in 0 .. n - 1
        BY <2>4
      <3>2. Holds6(Put6(bytes, s, w), n, bytes, s, w)
        BY <2>1, <2>3, <3>1, Put6Is
      <3> QED BY <3>2 DEF Holds6
    <2>6. ASSUME NEW j \in 0 .. 2^k - 1
          PROVE  SlotVal(type, Put6(bytes, s, w), j)
                   = IF j = s THEN w ELSE SlotVal(type, bytes, j)
      BY <1>2, <2>4, <2>5 DEF SlotVal
    <2> QED BY <2>2, <2>5, <2>6 DEF n
  <1>3. CASE type = "HLL_8"
    <2>1. n = 2^k /\ w \in Byte
      BY <1>3 DEF hllArrBytes, Top, Byte
    <2>2. PutVal(type, bytes, s, w) = [bytes EXCEPT ![s] = w]
      BY <1>3 DEF PutVal
    <2>3. bytes \in [0 .. 2^k - 1 -> Byte]
      BY <2>1 DEF Bytes
    <2>4. [bytes EXCEPT ![s] = w] \in [0 .. 2^k - 1 -> Byte]
      BY <2>1, <2>3
    <2>5. \A j \in 0 .. 2^k - 1 : [bytes EXCEPT ![s] = w][j] = IF j = s THEN w ELSE bytes[j]
      BY <2>3
    <2> QED BY <1>3, <2>1, <2>2, <2>4, <2>5 DEF SlotVal, Bytes
  <1> QED BY <1>1, <1>2, <1>3 DEF TypeSet

\* Bytes that are 0 stand for slots that are 0.
LEMMA ZeroBytes ==
  ASSUME NEW k \in 1 .. KeyBits, NEW type \in TypeSet, NEW bytes,
         bytes = [b \in 0 .. hllArrBytes(type, k) - 1 |-> 0]
  PROVE  /\ Bytes(hllArrBytes(type, k), bytes)
         /\ \A j \in 0 .. 2^k - 1 : SlotVal(type, bytes, j) = 0
  <1> DEFINE n == hllArrBytes(type, k)
  <1>0. 2^k \in Nat
    BY SlotsIn
  <1>1. Bytes(n, bytes)
    BY DEF Bytes, Byte
  <1>2. ASSUME NEW j \in 0 .. 2^k - 1 PROVE SlotVal(type, bytes, j) = 0
    <2>1. CASE type = "HLL_4"
      <3>1. n = 2^(k - 1) /\ 2^k = 2 * n /\ n \in Nat
        BY <2>1, SlotsIn DEF hllArrBytes
      <3>2. j \div 2 \in 0 .. n - 1
        <4> HIDE DEF n
        <4> QED BY <3>1
      <3>3. bytes[j \div 2] = 0
        BY <3>2
      <3> QED BY <2>1, <3>3 DEF SlotVal
    <2>2. CASE type = "HLL_6"
      <3>1. n = (2^k * 3) \div 4 + 1
        BY <2>2 DEF hllArrBytes
      <3>2. At6(j) \in 0 .. n - 1 /\ At6(j) + 1 \in 0 .. n - 1 /\ j \in Nat
        <4> HIDE DEF n
        <4> QED BY <1>0, <3>1, Bytes6
      <3>3. bytes[At6(j)] = 0 /\ bytes[At6(j) + 1] = 0
        BY <3>2
      <3>4. Get6(bytes, j) = (0 \div 2^((6 * j) % 8)) % 64
        <4>1. TwoBytes(bytes, j) = 0
          <5>1. bytes[(6 * j) \div 8] = 0 /\ bytes[(6 * j) \div 8 + 1] = 0
            BY <3>3 DEF At6
          <5> HIDE DEF n
          <5>2. 0 + 256 * 0 = 0
            OBVIOUS
          <5> QED BY <5>1, <5>2 DEF TwoBytes
        <4> QED BY <4>1 DEF Get6
      <3>5. 0 \div 2^((6 * j) % 8) = 0
        <4>1. (6 * j) % 8 \in Nat
          BY <3>2
        <4> DEFINE p == 2^((6 * j) % 8)
        <4>2. p \in Nat \ {0}
          BY <4>1, PowerIs
        <4> HIDE DEF p
        <4>3. 0 \div p = 0
          <5>1. 0 = p * 0 + 0 /\ 0 \in 0 .. p - 1 /\ 0 \in Nat
            BY <4>2
          <5> QED BY <4>2, <5>1, DivUnique
        <4> QED BY <4>3 DEF p
      <3> QED BY <2>2, <3>4, <3>5 DEF SlotVal
    <2>3. CASE type = "HLL_8"
      BY <2>3 DEF SlotVal, hllArrBytes
    <2> QED BY <2>1, <2>2, <2>3 DEF TypeSet
  <1> QED BY <1>1, <1>2

(***************************************************************************)
(* What an array is when it stands for the registers v.                    *)
(***************************************************************************)
HllFields ==
  {"mode", "lgConfigK", "tgtHllType", "startFullSize", "oooFlag", "hip", "kxq0", "kxq1",
   "curMin", "numAtCurMin", "bytes", "aux", "ok"}

RegsIn(v, k) == v \in [0 .. 2^k - 1 -> 0 .. ValueMax]

\* What the slot of a register at w has.
Raw(type, curMin, w) ==
  IF type # "HLL_4" THEN w ELSE IF w - curMin < AUX_TOKEN THEN w - curMin ELSE AUX_TOKEN

Tokens(type, k, curMin, v) ==
  {i \in 0 .. 2^k - 1 : type = "HLL_4" /\ v[i] - curMin >= AUX_TOKEN}

At(v, k, w) == {i \in 0 .. 2^k - 1 : v[i] = w}

MinOK(type, k, curMin, num, v) ==
  /\ curMin \in 0 .. ValueMax
  /\ num = Cardinality(At(v, k, curMin))
  /\ \A i \in 0 .. 2^k - 1 : v[i] >= curMin
  /\ type # "HLL_4" => curMin = 0

BytesHold(type, k, curMin, bytes, v) ==
  /\ Bytes(hllArrBytes(type, k), bytes)
  /\ \A i \in 0 .. 2^k - 1 : SlotVal(type, bytes, i) = Raw(type, curMin, v[i])

AuxHolds(type, k, curMin, aux, v) ==
  IF Tokens(type, k, curMin, v) = {} THEN aux = NoAux
  ELSE AuxOK(aux, k, v, Tokens(type, k, curMin, v))

Low == 0 .. KxQSplit - 1

High == KxQSplit .. ValueMax

Term(w, values) == IF w \in values THEN InvPow2(w) ELSE 0

SumOf(v, k, values) == Total([i \in 0 .. 2^k - 1 |-> Term(v[i], values)], 2^k)

SumsOK(kxq0, kxq1, k, v) == kxq0 = SumOf(v, k, Low) /\ kxq1 = SumOf(v, k, High)

Formed(h) ==
  /\ DOMAIN h = HllFields /\ h = [f \in DOMAIN h |-> h[f]]
  /\ h.mode = "HLL" /\ h.lgConfigK \in 1 .. KeyBits /\ h.tgtHllType \in TypeSet
  /\ h.startFullSize \in BOOLEAN /\ h.oooFlag \in BOOLEAN /\ h.hip \in Nat /\ h.ok = TRUE

HllRep(h, v) ==
  /\ Formed(h)
  /\ RegsIn(v, h.lgConfigK)
  /\ MinOK(h.tgtHllType, h.lgConfigK, h.curMin, h.numAtCurMin, v)
  /\ BytesHold(h.tgtHllType, h.lgConfigK, h.curMin, h.bytes, v)
  /\ AuxHolds(h.tgtHllType, h.lgConfigK, h.curMin, h.aux, v)
  /\ SumsOK(h.kxq0, h.kxq1, h.lgConfigK, v)

\* The credit of an array.
Credit(h, v) ==
  IF h.oooFlag THEN h.hip = 0 ELSE h.hip >= Cardinality(Nonzero(v))

\* Each value is on one side of the split.
LEMMA InvPow2Is ==
  ASSUME NEW w \in 0 .. ValueMax
  PROVE  InvPow2(w) \in Nat /\ Low \cap High = {} /\ (w \in Low \/ w \in High)
         /\ (w \in Low <=> w < KxQSplit)
  <1>1. ValueMax - w \in Nat /\ KxQSplit \in Nat
    BY ArrayAssumption
  <1> QED BY <1>1, PowerIs DEF InvPow2, Low, High

\* The sums after one register has gone up.
LEMMA SumPut ==
  ASSUME NEW k \in 1 .. KeyBits, NEW v, RegsIn(v, k), NEW s \in 0 .. 2^k - 1,
         NEW w \in 0 .. ValueMax, w > v[s], NEW values
  PROVE  /\ SumOf(v, k, values) \in Int
         /\ SumOf(Raised(v, s, w), k, values)
              = SumOf(v, k, values) - Term(v[s], values) + Term(w, values)
  <1> DEFINE n == 2^k
             r == Raised(v, s, w)
             f == [i \in 0 .. n - 1 |-> Term(v[i], values)]
             g == [i \in 0 .. n - 1 |-> Term(r[i], values)]
  <1>1. /\ r \in [0 .. n - 1 -> 0 .. ValueMax] /\ r[s] = w
        /\ \A i \in 0 .. n - 1 : i # s => r[i] = v[i]
    BY RaisedIs DEF RegsIn
  <1>2. \A x \in 0 .. ValueMax : Term(x, values) \in Int
    BY InvPow2Is DEF Term
  <1>3. n \in Nat
    BY SlotsIn
  <1> HIDE DEF n, r
  <1>4. f \in [0 .. n - 1 -> Int] /\ g \in [0 .. n - 1 -> Int]
    BY <1>1, <1>2 DEF RegsIn, n
  <1>5. \A i \in 0 .. n - 1 : i # s => g[i] = f[i]
    BY <1>1
  <1>6. s \in 0 .. n - 1 /\ f[s] = Term(v[s], values) /\ g[s] = Term(w, values)
    BY <1>1 DEF n
  <1>7. SumOf(v, k, values) = Total(f, n) /\ SumOf(r, k, values) = Total(g, n)
    BY DEF SumOf, n
  <1> HIDE DEF f, g
  <1>8. Total(f, n) \in Int /\ Total(g, n) = Total(f, n) - f[s] + g[s]
    BY <1>3, <1>4, <1>5, <1>6, TotalPut
  <1> QED BY <1>6, <1>7, <1>8 DEF r

\* The register a slot stands for, with its offset or its exception.
LEMMA get_valueIs ==
  ASSUME NEW h, NEW v, HllRep(h, v), NEW i \in 0 .. 2^h.lgConfigK - 1
  PROVE  /\ get_value(h, i) = v[i] /\ v[i] \in 0 .. ValueMax /\ v[i] \in Nat
         /\ getSlot(h, i) = Raw(h.tgtHllType, h.curMin, v[i])
         /\ h.curMin \in Nat /\ h.curMin <= v[i]
  <1> DEFINE type == h.tgtHllType
             k == h.lgConfigK
             curMin == h.curMin
  <1>1. k \in 1 .. KeyBits /\ type \in TypeSet
    BY DEF HllRep, Formed
  <1>2. v[i] \in 0 .. ValueMax /\ ValueMax \in Nat
    BY ArrayAssumption DEF HllRep, RegsIn
  <1>3. curMin \in Nat /\ v[i] >= curMin
    BY ArrayAssumption DEF HllRep, MinOK
  <1>4. getSlot(h, i) = Raw(type, curMin, v[i])
    BY <1>1, getSlotIs DEF HllRep, BytesHold
  <1>5. AuxHolds(type, k, curMin, h.aux, v)
    BY DEF HllRep
  <1> HIDE DEF k, curMin
  <1>6. CASE type = "HLL_4" /\ ~(v[i] - curMin < AUX_TOKEN)
    <2>1. i \in Tokens(type, k, curMin, v)
      BY <1>2, <1>3, <1>6 DEF Tokens, AUX_TOKEN, k
    <2>2. AuxOK(h.aux, k, v, Tokens(type, k, curMin, v))
      BY <1>5, <2>1 DEF AuxHolds
    <2>3. mustFindValueFor(h.aux, k, i) = v[i]
      BY <1>1, <2>1, <2>2, AuxFound
    <2>4. getSlot(h, i) = AUX_TOKEN
      BY <1>4, <1>6 DEF Raw
    <2> QED BY <1>2, <1>3, <1>4, <1>6, <2>3, <2>4 DEF get_value, k, curMin
  <1>7. CASE type = "HLL_4" /\ v[i] - curMin < AUX_TOKEN
    <2>1. getSlot(h, i) = v[i] - curMin
      BY <1>4, <1>7 DEF Raw
    <2>2. getSlot(h, i) # AUX_TOKEN /\ getSlot(h, i) + curMin = v[i]
      BY <1>2, <1>3, <1>7, <2>1 DEF AUX_TOKEN
    <2> QED BY <1>2, <1>3, <1>4, <1>7, <2>2 DEF get_value, curMin
  <1>8. CASE type # "HLL_4"
    <2>1. getSlot(h, i) = v[i]
      BY <1>4, <1>8 DEF Raw
    <2> QED BY <1>2, <1>3, <1>4, <1>8, <2>1 DEF get_value, curMin
  <1> QED BY <1>6, <1>7, <1>8

\* A new array stands for registers at 0.
LEMMA newHllIs ==
  ASSUME NEW k \in 1 .. KeyBits, NEW type \in TypeSet, NEW full \in BOOLEAN,
         NEW v \in [0 .. 2^k - 1 -> {0}]
  PROVE  /\ HllRep(newHll(k, type, full), v)
         /\ Credit(newHll(k, type, full), v)
         /\ newHll(k, type, full).lgConfigK = k /\ newHll(k, type, full).tgtHllType = type
         /\ newHll(k, type, full).startFullSize = full
         /\ newHll(k, type, full).curMin = 0 /\ newHll(k, type, full).numAtCurMin > 0
         /\ newHll(k, type, full).oooFlag = FALSE
  <1> DEFINE h == newHll(k, type, full)
             n == 2^k
  <1>1. n \in Nat /\ n > 0 /\ k \in Nat /\ ValueMax \in Nat /\ KxQSplit \in 1 .. ValueMax
    BY SlotsIn, ArrayAssumption
  <1>2. /\ h.mode = "HLL" /\ h.lgConfigK = k /\ h.tgtHllType = type /\ h.startFullSize = full
        /\ h.oooFlag = FALSE /\ h.hip = 0 /\ h.kxq0 = 2^(k + ValueMax) /\ h.kxq1 = 0
        /\ h.curMin = 0 /\ h.numAtCurMin = n
        /\ h.bytes = [i \in 0 .. hllArrBytes(type, k) - 1 |-> 0]
        /\ h.aux = NoAux /\ h.ok = TRUE
        /\ DOMAIN h = HllFields /\ h = [f \in DOMAIN h |-> h[f]]
    BY DEF newHll, HllFields
  <1> HIDE DEF h
  <1>3. Formed(h)
    <2>1. DOMAIN h = HllFields /\ h = [f \in DOMAIN h |-> h[f]]
      BY <1>2
    <2>2. h.mode = "HLL" /\ h.lgConfigK \in 1 .. KeyBits /\ h.tgtHllType \in TypeSet
      BY <1>2
    <2>3. /\ h.startFullSize \in BOOLEAN /\ h.oooFlag \in BOOLEAN
          /\ h.hip \in Nat /\ h.ok = TRUE
      <3>1. h.startFullSize \in BOOLEAN
        BY <1>2, Zenon
      <3>2. h.oooFlag \in BOOLEAN
        BY <1>2, Zenon
      <3>3. h.ok = TRUE
        BY <1>2, Zenon
      <3>4. h.hip \in Nat
        BY <1>2
      <3> QED BY <3>1, <3>2, <3>3, <3>4
    <2> QED BY <2>1, <2>2, <2>3 DEF Formed
  <1>4. RegsIn(v, k)
    BY <1>1 DEF RegsIn
  <1> HIDE DEF n
  <1>5. MinOK(type, k, 0, n, v)
    <2>1. At(v, k, 0) = 0 .. n - 1
      BY DEF At, n
    <2>2. Cardinality(0 .. n - 1) = n
      BY <1>1, FS_Interval
    <2>3. \A i \in 0 .. 2^k - 1 : v[i] >= 0
      OBVIOUS
    <2> QED BY <1>1, <2>1, <2>2, <2>3 DEF MinOK
  <1>6. BytesHold(type, k, 0, h.bytes, v)
    <2>1. \A i \in 0 .. 2^k - 1 : Raw(type, 0, v[i]) = 0
      BY DEF Raw, AUX_TOKEN
    <2>2. /\ Bytes(hllArrBytes(type, k), h.bytes)
          /\ \A i \in 0 .. 2^k - 1 : SlotVal(type, h.bytes, i) = 0
      BY <1>2, ZeroBytes
    <2> QED BY <2>1, <2>2 DEF BytesHold
  <1>7. AuxHolds(type, k, 0, NoAux, v)
    <2>1. Tokens(type, k, 0, v) = {}
      BY DEF Tokens, AUX_TOKEN
    <2> QED BY <2>1 DEF AuxHolds
  <1>8. SumOf(v, k, Low) = 2^(k + ValueMax)
    <2> DEFINE f == [i \in 0 .. 2^k - 1 |-> Term(v[i], Low)]
               c == InvPow2(0)
    <2>1. c \in Int /\ 0 \in Low /\ c = 2^ValueMax
      <3>1. 0 \in 0 .. ValueMax /\ ValueMax - 0 = ValueMax
        BY <1>1
      <3> QED BY <1>1, <3>1, InvPow2Is DEF Low, InvPow2
    <2>2. \A i \in 0 .. 2^k - 1 : f[i] = c
      BY <2>1 DEF Term
    <2>3. f \in [0 .. 2^k - 1 -> Int]
      BY <2>1, <2>2
    <2> HIDE DEF f, c
    <2>4. Total(f, 2^k) = 2^k * c
      BY <1>1, <2>1, <2>2, <2>3, TotalConstant DEF n
    <2>5. 2^(k + ValueMax) = 2^k * 2^ValueMax
      BY <1>1, PowerAdd
    <2> QED BY <2>1, <2>4, <2>5 DEF SumOf, f
  <1>9. SumOf(v, k, High) = 0
    <2> DEFINE f == [i \in 0 .. 2^k - 1 |-> Term(v[i], High)]
    <2>1. 0 \notin High
      BY <1>1 DEF High
    <2>2. \A i \in 0 .. 2^k - 1 : f[i] = 0
      BY <2>1 DEF Term
    <2>3. f \in [0 .. 2^k - 1 -> Int]
      BY <2>2
    <2> HIDE DEF f
    <2>4. Total(f, n) = n * 0
      BY <1>1, <2>2, <2>3, TotalConstant DEF n
    <2> QED BY <1>1, <2>4 DEF SumOf, f, n
  <1>10. HllRep(h, v)
    BY <1>2, <1>3, <1>4, <1>5, <1>6, <1>7, <1>8, <1>9 DEF HllRep, SumsOK
  <1>11. Credit(h, v)
    <2>1. Nonzero(v) = {}
      BY DEF Nonzero
    <2> QED BY <1>2, <2>1, FS_EmptySet DEF Credit
  <1> QED BY <1>1, <1>2, <1>10, <1>11 DEF h

(***************************************************************************)
(* One register goes up: what becomes of each part of the array.           *)
(***************************************************************************)
LEMMA MinRaised ==
  ASSUME NEW k \in 1 .. KeyBits, NEW type, NEW curMin, NEW num, NEW v, RegsIn(v, k),
         MinOK(type, k, curMin, num, v), NEW s \in 0 .. 2^k - 1,
         NEW w \in 0 .. ValueMax, w > v[s]
  PROVE  /\ num \in Nat
         /\ v[s] = curMin => num > 0 /\ MinOK(type, k, curMin, num - 1, Raised(v, s, w))
         /\ v[s] # curMin => MinOK(type, k, curMin, num, Raised(v, s, w))
  <1> DEFINE r == Raised(v, s, w)
  <1>1. /\ r \in [0 .. 2^k - 1 -> 0 .. ValueMax] /\ r[s] = w
        /\ \A i \in 0 .. 2^k - 1 : i # s => r[i] = v[i]
    BY RaisedIs DEF RegsIn
  <1> HIDE DEF r
  <1>2. v[s] \in Nat /\ curMin \in Nat /\ v[s] >= curMin /\ w > curMin
    <2>1. v[s] \in 0 .. ValueMax /\ curMin \in 0 .. ValueMax /\ v[s] >= curMin /\ ValueMax \in Nat
      BY ArrayAssumption DEF RegsIn, MinOK
    <2> QED BY <2>1
  <1>3. IsFiniteSet(At(v, k, curMin)) /\ num \in Nat /\ num = Cardinality(At(v, k, curMin))
    <2>1. IsFiniteSet(0 .. 2^k - 1)
      BY SlotsIn, FS_Interval
    <2>2. At(v, k, curMin) \in SUBSET (0 .. 2^k - 1)
      BY DEF At
    <2>3. IsFiniteSet(At(v, k, curMin))
      BY <2>1, <2>2, FS_Subset
    <2> QED BY <2>3, FS_CardinalityType DEF MinOK
  <1>4. At(r, k, curMin) = At(v, k, curMin) \ {s}
    BY <1>1, <1>2 DEF At
  <1>5. Cardinality(At(r, k, curMin)) = IF v[s] = curMin THEN num - 1 ELSE num
    <2>1. s \in At(v, k, curMin) <=> v[s] = curMin
      BY DEF At
    <2> QED BY <1>3, <1>4, <2>1, FS_RemoveElement
  <1>6. v[s] = curMin => num > 0
    <2>1. v[s] = curMin => s \in At(v, k, curMin)
      BY DEF At
    <2> QED BY <1>3, <2>1, FS_EmptySet
  <1>7. \A i \in 0 .. 2^k - 1 : r[i] >= curMin
    <2>1. \A i \in 0 .. 2^k - 1 : v[i] >= curMin
      BY DEF MinOK
    <2> QED BY <1>1, <1>2, <2>1
  <1>8. curMin \in 0 .. ValueMax /\ (type # "HLL_4" => curMin = 0)
    BY DEF MinOK
  <1> QED BY <1>3, <1>5, <1>6, <1>7, <1>8 DEF MinOK, r

\* What the slot of a register has fits in its bits.
LEMMA RawIs ==
  ASSUME NEW type \in TypeSet, NEW curMin \in 0 .. ValueMax, NEW w \in 0 .. ValueMax, w >= curMin
  PROVE  Raw(type, curMin, w) \in 0 .. Top(type)
  BY ArrayAssumption DEF Raw, Top, AUX_TOKEN, TypeSet

\* The bytes after a register goes up.
LEMMA BytesRaised ==
  ASSUME NEW k \in 1 .. KeyBits, NEW type \in TypeSet, NEW curMin \in 0 .. ValueMax,
         NEW bytes, NEW v, RegsIn(v, k), BytesHold(type, k, curMin, bytes, v),
         NEW s \in 0 .. 2^k - 1, NEW w \in 0 .. ValueMax, w > v[s], w >= curMin
  PROVE  /\ BytesHold(type, k, curMin, PutVal(type, bytes, s, Raw(type, curMin, w)), Raised(v, s, w))
         /\ Raw(type, curMin, w) = Raw(type, curMin, v[s]) =>
              BytesHold(type, k, curMin, bytes, Raised(v, s, w))
  <1> DEFINE r == Raised(v, s, w)
             t == PutVal(type, bytes, s, Raw(type, curMin, w))
  <1>1. /\ r \in [0 .. 2^k - 1 -> 0 .. ValueMax] /\ r[s] = w
        /\ \A i \in 0 .. 2^k - 1 : i # s => r[i] = v[i]
    BY RaisedIs DEF RegsIn
  <1> HIDE DEF r
  <1>2. /\ Bytes(hllArrBytes(type, k), bytes)
        /\ \A i \in 0 .. 2^k - 1 : SlotVal(type, bytes, i) = Raw(type, curMin, v[i])
    BY DEF BytesHold
  <1>3. Raw(type, curMin, w) \in 0 .. Top(type)
    BY RawIs
  <1>4. /\ Bytes(hllArrBytes(type, k), t)
        /\ \A j \in 0 .. 2^k - 1 :
              SlotVal(type, t, j) = IF j = s THEN Raw(type, curMin, w) ELSE SlotVal(type, bytes, j)
    BY <1>2, <1>3, StoreIs
  <1> HIDE DEF t
  <1>5. BytesHold(type, k, curMin, t, r)
    <2>1. ASSUME NEW j \in 0 .. 2^k - 1 PROVE SlotVal(type, t, j) = Raw(type, curMin, r[j])
      BY <1>1, <1>2, <1>4
    <2> QED BY <1>4, <2>1 DEF BytesHold
  <1>6. ASSUME Raw(type, curMin, w) = Raw(type, curMin, v[s])
        PROVE  BytesHold(type, k, curMin, bytes, r)
    <2>1. ASSUME NEW j \in 0 .. 2^k - 1 PROVE SlotVal(type, bytes, j) = Raw(type, curMin, r[j])
      <3>1. CASE j = s
        BY <1>1, <1>2, <1>6, <3>1
      <3>2. CASE j # s
        BY <1>1, <1>2, <3>2
      <3> QED BY <3>1, <3>2
    <2> QED BY <1>2, <2>1 DEF BytesHold
  <1> QED BY <1>5, <1>6 DEF r, t

\* The credit after a register goes up.
LEMMA CreditRaised ==
  ASSUME NEW k \in 1 .. KeyBits, NEW v, RegsIn(v, k),
         NEW s \in 0 .. 2^k - 1, NEW w \in 0 .. ValueMax, w > v[s]
  PROVE  /\ Cardinality(Nonzero(v)) \in Nat
         /\ Cardinality(Nonzero(Raised(v, s, w))) \in Nat
         /\ Cardinality(Nonzero(Raised(v, s, w))) <= Cardinality(Nonzero(v)) + 1
  <1> DEFINE r == Raised(v, s, w)
  <1>1. /\ r \in [0 .. 2^k - 1 -> 0 .. ValueMax] /\ r[s] = w
        /\ \A i \in 0 .. 2^k - 1 : i # s => r[i] = v[i]
    BY RaisedIs DEF RegsIn
  <1> HIDE DEF r
  <1>2. w # 0
    <2>1. v[s] \in 0 .. ValueMax
      BY DEF RegsIn
    <2> QED BY <2>1
  <1>3. Nonzero(r) = Nonzero(v) \cup {s}
    BY <1>1, <1>2 DEF Nonzero, RegsIn
  <1>4. IsFiniteSet(Nonzero(v))
    <2>1. IsFiniteSet(0 .. 2^k - 1)
      BY SlotsIn, FS_Interval
    <2>2. Nonzero(v) \in SUBSET (0 .. 2^k - 1)
      BY DEF Nonzero, RegsIn
    <2> QED BY <2>1, <2>2, FS_Subset
  <1>5. Cardinality(Nonzero(v)) \in Nat
    BY <1>4, FS_CardinalityType
  <1>6. Cardinality(Nonzero(r)) = IF s \in Nonzero(v) THEN Cardinality(Nonzero(v)) ELSE Cardinality(Nonzero(v)) + 1
    BY <1>3, <1>4, FS_AddElement
  <1> QED BY <1>5, <1>6 DEF r

\* The sums after a register goes up.
LEMMA SumsRaised ==
  ASSUME NEW k \in 1 .. KeyBits, NEW v, RegsIn(v, k), NEW kxq0, NEW kxq1,
         SumsOK(kxq0, kxq1, k, v),
         NEW s \in 0 .. 2^k - 1, NEW w \in 0 .. ValueMax, w > v[s]
  PROVE  SumsOK(kxq0 - Term(v[s], Low) + Term(w, Low),
                kxq1 - Term(v[s], High) + Term(w, High), k, Raised(v, s, w))
  <1>1. SumOf(Raised(v, s, w), k, Low) = SumOf(v, k, Low) - Term(v[s], Low) + Term(w, Low)
    BY SumPut
  <1>2. SumOf(Raised(v, s, w), k, High) = SumOf(v, k, High) - Term(v[s], High) + Term(w, High)
    BY SumPut
  <1> QED BY <1>1, <1>2 DEF SumsOK

IsRecord(h) == DOMAIN h = HllFields /\ h = [f \in DOMAIN h |-> h[f]]

\* g is h with the credit and the sums for a register that goes from old to w.
Scored(g, h, old, w) ==
  /\ IsRecord(g)
  /\ g.hip = (IF h.oooFlag THEN h.hip ELSE h.hip + 1)
  /\ g.kxq0 = h.kxq0 - Term(old, Low) + Term(w, Low)
  /\ g.kxq1 = h.kxq1 - Term(old, High) + Term(w, High)
  /\ \A f \in HllFields \ {"hip", "kxq0", "kxq1"} : g[f] = h[f]

\* hipAndKxQIncrementalUpdate changes the credit and the sums, and no other field.
LEMMA KxQIs ==
  ASSUME NEW h, IsRecord(h), NEW old \in 0 .. ValueMax, NEW w \in 0 .. ValueMax
  PROVE  Scored(hipAndKxQIncrementalUpdate(h, old, w), h, old, w)
  <1> DEFINE g == hipAndKxQIncrementalUpdate(h, old, w)
             Below(x) == IF x < KxQSplit THEN InvPow2(x) ELSE 0
             From(x) == IF x < KxQSplit THEN 0 ELSE InvPow2(x)
  <1>1. \A x \in 0 .. ValueMax : Below(x) = Term(x, Low) /\ From(x) = Term(x, High)
    <2> SUFFICES ASSUME NEW x \in 0 .. ValueMax
                 PROVE  Below(x) = Term(x, Low) /\ From(x) = Term(x, High)
      OBVIOUS
    <2>1. (x \in Low <=> x < KxQSplit) /\ (x \in High <=> ~(x < KxQSplit))
      BY InvPow2Is, ArrayAssumption DEF High
    <2> QED BY <2>1 DEF Term
  <1> DEFINE a == IF h.oooFlag THEN h.hip ELSE h.hip + 1
             b == h.kxq0 - Below(old) + Below(w)
             c == h.kxq1 - From(old) + From(w)
  <1>2. g = [h EXCEPT !.hip = a, !.kxq0 = b, !.kxq1 = c]
    BY DEF hipAndKxQIncrementalUpdate
  <1>3. b = h.kxq0 - Term(old, Low) + Term(w, Low) /\ c = h.kxq1 - Term(old, High) + Term(w, High)
    BY <1>1
  <1> HIDE DEF b, c, g
  <1>4. /\ g.hip = a /\ g.kxq0 = b /\ g.kxq1 = c
        /\ DOMAIN g = HllFields /\ g = [f \in DOMAIN g |-> g[f]]
        /\ \A f \in HllFields \ {"hip", "kxq0", "kxq1"} : g[f] = h[f]
    <2> HIDE DEF a
    <2>1. "hip" \in HllFields /\ "kxq0" \in HllFields /\ "kxq1" \in HllFields
      BY DEF HllFields
    <2>2. DOMAIN h = HllFields /\ h = [f \in DOMAIN h |-> h[f]]
      BY DEF IsRecord
    <2> QED BY <1>2, <2>1, <2>2
  <1>5. Scored(g, h, old, w)
    BY <1>3, <1>4 DEF Scored, IsRecord
  <1> QED BY <1>5 DEF g

\* A map depends on the registers of its slots alone.
LEMMA AuxSame ==
  ASSUME NEW k \in 1 .. KeyBits, NEW a, NEW v, NEW T, AuxOK(a, k, v, T),
         NEW w, \A i \in T : w[i] = v[i]
  PROVE  AuxOK(a, k, w, T)
  <1>1. Exceptions(w, T) = Exceptions(v, T)
    BY DEF Exceptions
  <1>2. \A i \in T : w[i] \in 1 .. ValueMax
    BY DEF AuxOK
  <1> QED BY <1>1, <1>2 DEF AuxOK

\* The map StoreHll4 adds to.
MapOf(aux, k) == IF aux = NoAux THEN NewAux(LgAuxArrInts[k]) ELSE aux

\* The map of exceptions after a register goes up: an exception is added,
\* replaced or not touched.
LEMMA AuxRaised ==
  ASSUME NEW k \in 1 .. KeyBits, NEW curMin \in 0 .. ValueMax, NEW aux, NEW v, RegsIn(v, k),
         AuxHolds("HLL_4", k, curMin, aux, v),
         NEW s \in 0 .. 2^k - 1, NEW w \in 0 .. ValueMax, w > v[s],
         \A i \in 0 .. 2^k - 1 : v[i] >= curMin
  PROVE  /\ w - curMin < AUX_TOKEN => AuxHolds("HLL_4", k, curMin, aux, Raised(v, s, w))
         /\ w - curMin >= AUX_TOKEN /\ v[s] - curMin >= AUX_TOKEN =>
              AuxHolds("HLL_4", k, curMin, mustReplace(aux, k, s, w), Raised(v, s, w))
         /\ w - curMin >= AUX_TOKEN /\ v[s] - curMin < AUX_TOKEN =>
              AuxHolds("HLL_4", k, curMin, mustAdd(MapOf(aux, k), k, s, w), Raised(v, s, w))
  <1> DEFINE r == Raised(v, s, w)
             T == Tokens("HLL_4", k, curMin, v)
             U == Tokens("HLL_4", k, curMin, r)
  <1>1. /\ r \in [0 .. 2^k - 1 -> 0 .. ValueMax] /\ r[s] = w
        /\ \A i \in 0 .. 2^k - 1 : i # s => r[i] = v[i]
    BY RaisedIs DEF RegsIn
  <1>2. /\ \A i \in 0 .. 2^k - 1 : v[i] \in Nat /\ r[i] \in Nat
        /\ w \in Nat /\ curMin \in Nat /\ w \in 1 .. ValueMax
    BY <1>1, ArrayAssumption DEF RegsIn
  <1> HIDE DEF r
  <1>3. T = {i \in 0 .. 2^k - 1 : v[i] - curMin >= AUX_TOKEN}
    BY DEF Tokens
  <1>4. U = {i \in 0 .. 2^k - 1 : r[i] - curMin >= AUX_TOKEN}
    BY DEF Tokens
  <1>5. AuxHolds("HLL_4", k, curMin, aux, v) <=> IF T = {} THEN aux = NoAux ELSE AuxOK(aux, k, v, T)
    BY DEF AuxHolds
  <1>6. \A a : AuxHolds("HLL_4", k, curMin, a, r) <=> IF U = {} THEN a = NoAux ELSE AuxOK(a, k, r, U)
    BY DEF AuxHolds
  <1> HIDE DEF T, U
  <1>7. ASSUME w - curMin < AUX_TOKEN PROVE AuxHolds("HLL_4", k, curMin, aux, r)
    <2>1. v[s] - curMin < AUX_TOKEN
      BY <1>2, <1>7 DEF AUX_TOKEN
    <2>2. U = T
      <3>1. ASSUME NEW i \in 0 .. 2^k - 1
            PROVE  (r[i] - curMin >= AUX_TOKEN) <=> (v[i] - curMin >= AUX_TOKEN)
        <4>1. CASE i = s
          BY <1>1, <1>2, <1>7, <2>1, <4>1 DEF AUX_TOKEN
        <4>2. CASE i # s
          BY <1>1, <4>2
        <4> QED BY <4>1, <4>2
      <3> QED BY <1>3, <1>4, <3>1
    <2>3. \A i \in T : r[i] = v[i]
      BY <1>1, <1>2, <1>3, <2>1 DEF AUX_TOKEN
    <2> QED BY <1>5, <1>6, <2>2, <2>3, AuxSame
  <1>8. ASSUME w - curMin >= AUX_TOKEN, v[s] - curMin >= AUX_TOKEN
        PROVE  AuxHolds("HLL_4", k, curMin, mustReplace(aux, k, s, w), r)
    <2>1. U = T /\ s \in T
      BY <1>1, <1>2, <1>3, <1>4, <1>8 DEF AUX_TOKEN
    <2>2. AuxOK(aux, k, v, T)
      BY <1>5, <2>1
    <2>3. \A i \in T : i # s => r[i] = v[i]
      BY <1>1, <1>3
    <2>4. AuxOK(mustReplace(aux, k, s, r[s]), k, r, T)
      BY <1>1, <1>2, <2>1, <2>2, <2>3, AuxReplaced
    <2> QED BY <1>1, <1>6, <2>1, <2>4
  <1>9. ASSUME w - curMin >= AUX_TOKEN, v[s] - curMin < AUX_TOKEN
        PROVE  AuxHolds("HLL_4", k, curMin, mustAdd(MapOf(aux, k), k, s, w), r)
    <2>1. s \notin T /\ U = T \cup {s}
      <3>1. s \notin T
        <4>1. ~(v[s] - curMin >= AUX_TOKEN)
          BY <1>2, <1>9 DEF AUX_TOKEN
        <4> QED BY <1>3, <4>1
      <3>2. s \in U
        BY <1>1, <1>4, <1>9
      <3>3. ASSUME NEW i \in 0 .. 2^k - 1, i # s PROVE i \in U <=> i \in T
        BY <1>1, <1>3, <1>4, <3>3
      <3>4. U \subseteq 0 .. 2^k - 1 /\ T \subseteq 0 .. 2^k - 1
        BY <1>3, <1>4
      <3> QED BY <3>1, <3>2, <3>3, <3>4
    <2>2. AuxOK(MapOf(aux, k), k, v, T)
      <3>1. CASE T = {}
        <4>1. LgAuxArrInts[k] \in Nat
          BY TableAssumption
        <4> QED BY <1>5, <3>1, <4>1, NewAuxIs DEF MapOf
      <3>2. CASE T # {}
        <4>1. AuxOK(aux, k, v, T)
          BY <1>5, <3>2
        <4>2. aux # NoAux
          BY <4>1, AuxFields
        <4> QED BY <4>1, <4>2 DEF MapOf
      <3> QED BY <3>1, <3>2
    <2>3. \A i \in T : r[i] = v[i]
      BY <1>1, <1>3, <2>1
    <2> DEFINE a == MapOf(aux, k)
    <2> HIDE DEF a
    <2>4. AuxOK(mustAdd(a, k, s, r[s]), k, r, T \cup {s})
      BY <1>1, <1>2, <2>1, <2>2, <2>3, AuxAdded DEF a
    <2>5. U # {}
      BY <2>1
    <2> QED BY <1>1, <1>6, <2>1, <2>4, <2>5 DEF a
  <1> QED BY <1>7, <1>8, <1>9 DEF r

\* x is h with the registers r, but for the count at curMin.
Kept == {"mode", "lgConfigK", "tgtHllType", "startFullSize", "oooFlag", "curMin",
         "numAtCurMin", "ok"}

Updated(x, h, r) ==
  /\ DOMAIN x = HllFields /\ x = [f \in DOMAIN x |-> x[f]]
  /\ \A f \in Kept : x[f] = h[f]
  /\ x.hip = (IF h.oooFlag THEN h.hip ELSE h.hip + 1)
  /\ BytesHold(h.tgtHllType, h.lgConfigK, h.curMin, x.bytes, r)
  /\ AuxHolds(h.tgtHllType, h.lgConfigK, h.curMin, x.aux, r)
  /\ SumsOK(x.kxq0, x.kxq1, h.lgConfigK, r)

\* What a record is when two of its fields are given.
LEMMA Fields ==
  ASSUME NEW g, DOMAIN g = HllFields, g = [f \in DOMAIN g |-> g[f]], NEW b, NEW a
  PROVE  /\ LET x == [g EXCEPT !.bytes = b]
            IN  /\ DOMAIN x = HllFields /\ x = [f \in DOMAIN x |-> x[f]] /\ x.bytes = b
                /\ \A f \in HllFields \ {"bytes"} : x[f] = g[f]
         /\ LET x == [g EXCEPT !.aux = a]
            IN  /\ DOMAIN x = HllFields /\ x = [f \in DOMAIN x |-> x[f]] /\ x.aux = a
                /\ \A f \in HllFields \ {"aux"} : x[f] = g[f]
         /\ LET x == [g EXCEPT !.numAtCurMin = a]
            IN  /\ DOMAIN x = HllFields /\ x = [f \in DOMAIN x |-> x[f]] /\ x.numAtCurMin = a
                /\ \A f \in HllFields \ {"numAtCurMin"} : x[f] = g[f]
  <1>1. "bytes" \in HllFields /\ "aux" \in HllFields /\ "numAtCurMin" \in HllFields
    BY DEF HllFields
  <1> QED BY <1>1

\* internalHll4Update, as a change of each part of the array.
LEMMA StoreHll4Is ==
  ASSUME NEW h, NEW v, HllRep(h, v), h.tgtHllType = "HLL_4",
         NEW s \in 0 .. 2^h.lgConfigK - 1, NEW w \in 0 .. ValueMax, w > v[s]
  PROVE  Updated(StoreHll4(hipAndKxQIncrementalUpdate(h, v[s], w), s, w), h, Raised(v, s, w))
  <1> DEFINE g == hipAndKxQIncrementalUpdate(h, v[s], w)
             k == h.lgConfigK
             curMin == h.curMin
             r == Raised(v, s, w)
             x == StoreHll4(g, s, w)
             raw == Raw("HLL_4", curMin, w)
  <1>1. /\ DOMAIN h = HllFields /\ h = [f \in DOMAIN h |-> h[f]]
        /\ k \in 1 .. KeyBits /\ curMin \in 0 .. ValueMax
        /\ v[s] \in 0 .. ValueMax /\ v[s] >= curMin /\ ValueMax \in Nat
        /\ (\A i \in 0 .. 2^k - 1 : v[i] >= curMin)
        /\ RegsIn(v, k) /\ BytesHold("HLL_4", k, curMin, h.bytes, v)
        /\ AuxHolds("HLL_4", k, curMin, h.aux, v)
        /\ SumsOK(h.kxq0, h.kxq1, k, v)
    <2>1. /\ DOMAIN h = HllFields /\ h = [f \in DOMAIN h |-> h[f]] /\ k \in 1 .. KeyBits
      BY DEF HllRep, Formed
    <2>2. curMin \in 0 .. ValueMax /\ \A i \in 0 .. 2^k - 1 : v[i] >= curMin
      BY DEF HllRep, MinOK
    <2>3. RegsIn(v, k) /\ v[s] \in 0 .. ValueMax
      BY DEF HllRep, RegsIn
    <2> QED BY <2>1, <2>2, <2>3, ArrayAssumption DEF HllRep
  <1>2. /\ DOMAIN g = HllFields /\ g = [f \in DOMAIN g |-> g[f]]
        /\ g.hip = (IF h.oooFlag THEN h.hip ELSE h.hip + 1)
        /\ g.kxq0 = h.kxq0 - Term(v[s], Low) + Term(w, Low)
        /\ g.kxq1 = h.kxq1 - Term(v[s], High) + Term(w, High)
        /\ \A f \in HllFields \ {"hip", "kxq0", "kxq1"} : g[f] = h[f]
    <2>1. Scored(g, h, v[s], w)
      BY <1>1, KxQIs DEF IsRecord
    <2> HIDE DEF g
    <2> QED BY <2>1 DEF Scored, IsRecord
  <1> HIDE DEF g, k, curMin
  <1>3. /\ g.lgConfigK = k /\ g.tgtHllType = "HLL_4" /\ g.curMin = curMin
        /\ g.bytes = h.bytes /\ g.aux = h.aux
    BY <1>2 DEF HllFields, k, curMin
  <1>4. SumsOK(g.kxq0, g.kxq1, k, r)
    BY <1>1, <1>2, SumsRaised DEF k
  <1>5. w \in Nat /\ v[s] \in Nat /\ curMin \in Nat /\ w >= curMin
    BY <1>1
  <1>6. /\ getSlot(g, s) = Raw("HLL_4", curMin, v[s])
    <2>1. SlotVal("HLL_4", h.bytes, s) = Raw("HLL_4", curMin, v[s])
      BY <1>1 DEF BytesHold, k
    <2>2. "HLL_4" \in TypeSet
      BY DEF TypeSet
    <2> QED BY <1>3, <2>1, <2>2, getSlotIs
  <1>7. /\ getSlot(g, s) = AUX_TOKEN <=> v[s] - curMin >= AUX_TOKEN
    BY <1>1, <1>5, <1>6 DEF Raw, AUX_TOKEN
  <1> DEFINE b == PutVal("HLL_4", h.bytes, s, raw)
             p == putSlot(g, s, raw)
  <1>8. p = [g EXCEPT !.bytes = b]
    <2>1. "bytes" \in DOMAIN g /\ "HLL_4" \in TypeSet
      BY <1>2 DEF HllFields, TypeSet
    <2> QED BY <1>3, <2>1, putSlotIs
  <1>9. /\ BytesHold("HLL_4", k, curMin, b, r)
        /\ raw = Raw("HLL_4", curMin, v[s]) => BytesHold("HLL_4", k, curMin, h.bytes, r)
    <2>1. "HLL_4" \in TypeSet
      BY DEF TypeSet
    <2>2. s \in 0 .. 2^k - 1
      BY DEF k
    <2> QED BY <1>1, <1>5, <2>1, <2>2, BytesRaised
  <1>10. /\ w - curMin < AUX_TOKEN => AuxHolds("HLL_4", k, curMin, h.aux, r)
         /\ w - curMin >= AUX_TOKEN /\ v[s] - curMin >= AUX_TOKEN =>
              AuxHolds("HLL_4", k, curMin, mustReplace(h.aux, k, s, w), r)
         /\ w - curMin >= AUX_TOKEN /\ v[s] - curMin < AUX_TOKEN =>
              AuxHolds("HLL_4", k, curMin, mustAdd(MapOf(h.aux, k), k, s, w), r)
    BY <1>1, AuxRaised DEF k
  <1> HIDE DEF b, p
  <1>11. /\ DOMAIN p = HllFields /\ p = [f \in DOMAIN p |-> p[f]] /\ p.bytes = b
         /\ \A f \in HllFields \ {"bytes"} : p[f] = g[f]
    BY <1>2, <1>8, Fields
  <1> SUFFICES /\ DOMAIN x = HllFields /\ x = [f \in DOMAIN x |-> x[f]]
               /\ \A f \in Kept \cup {"hip", "kxq0", "kxq1"} : x[f] = g[f]
               /\ BytesHold("HLL_4", k, curMin, x.bytes, r)
               /\ AuxHolds("HLL_4", k, curMin, x.aux, r)
    <2> HIDE DEF x, r
    <2>1. \A f \in Kept : f \in HllFields \ {"hip", "kxq0", "kxq1"}
      BY DEF Kept, HllFields
    <2>2. (\A f \in Kept : x[f] = h[f]) /\ x.hip = g.hip /\ x.kxq0 = g.kxq0 /\ x.kxq1 = g.kxq1
      BY <1>2, <2>1
    <2> QED BY <1>2, <1>4, <2>2 DEF Updated, k, curMin, x, r, g
  <1>12. Kept \cup {"hip", "kxq0", "kxq1"} \subseteq HllFields \ {"bytes", "aux"}
    BY DEF Kept, HllFields
  <1> HIDE DEF r
  <1>13. CASE w - curMin < AUX_TOKEN
    <2>1. getSlot(g, s) # AUX_TOKEN
      BY <1>1, <1>5, <1>7, <1>13 DEF AUX_TOKEN
    <2>2. raw = w - curMin
      BY <1>13 DEF Raw
    <2>3. x = p
      BY <1>3, <1>13, <2>1, <2>2 DEF StoreHll4, p
    <2>4. p.aux = h.aux
      BY <1>3, <1>11 DEF HllFields
    <2> HIDE DEF x
    <2> QED BY <1>9, <1>10, <1>11, <1>12, <1>13, <2>3, <2>4
  <1>14. CASE ~(w - curMin < AUX_TOKEN) /\ v[s] - curMin >= AUX_TOKEN
    <2>1. getSlot(g, s) = AUX_TOKEN
      BY <1>7, <1>14
    <2>2. raw = AUX_TOKEN /\ raw = Raw("HLL_4", curMin, v[s])
      BY <1>6, <1>14, <2>1 DEF Raw
    <2> DEFINE a == mustReplace(h.aux, k, s, w)
    <2>3. x = [g EXCEPT !.aux = a]
      BY <1>3, <1>14, <2>1 DEF StoreHll4
    <2>4. w - curMin >= AUX_TOKEN
      BY <1>5, <1>14 DEF AUX_TOKEN
    <2>5. AuxHolds("HLL_4", k, curMin, a, r)
      BY <1>10, <1>14, <2>4
    <2> HIDE DEF x, a
    <2>6. /\ DOMAIN x = HllFields /\ x = [f \in DOMAIN x |-> x[f]] /\ x.aux = a
          /\ \A f \in HllFields \ {"aux"} : x[f] = g[f]
      BY <1>2, <2>3, Fields
    <2>7. x.bytes = h.bytes
      BY <1>3, <2>6 DEF HllFields
    <2> QED BY <1>9, <1>12, <2>2, <2>5, <2>6, <2>7
  <1>15. CASE ~(w - curMin < AUX_TOKEN) /\ ~(v[s] - curMin >= AUX_TOKEN)
    <2>1. getSlot(g, s) # AUX_TOKEN
      BY <1>7, <1>15
    <2>2. raw = AUX_TOKEN
      BY <1>15 DEF Raw
    <2> DEFINE a == mustAdd(MapOf(h.aux, k), k, s, w)
    <2>3. x = [p EXCEPT !.aux = a]
      BY <1>3, <1>15, <2>1, <2>2 DEF StoreHll4, MapOf, p
    <2>4. w - curMin >= AUX_TOKEN /\ v[s] - curMin < AUX_TOKEN
      BY <1>5, <1>15 DEF AUX_TOKEN
    <2>5. AuxHolds("HLL_4", k, curMin, a, r)
      BY <1>10, <2>4
    <2> HIDE DEF x, a
    <2>6. /\ DOMAIN x = HllFields /\ x = [f \in DOMAIN x |-> x[f]] /\ x.aux = a
          /\ \A f \in HllFields \ {"aux"} : x[f] = p[f]
      BY <1>11, <2>3, Fields
    <2>7. x.bytes = b
      BY <1>11, <2>6 DEF HllFields
    <2> QED BY <1>9, <1>11, <1>12, <2>5, <2>6, <2>7
  <1> QED BY <1>13, <1>14, <1>15

\* x is made from h: they have these fields in common.
Kin(x, h) ==
  /\ x.mode = h.mode /\ x.lgConfigK = h.lgConfigK /\ x.tgtHllType = h.tgtHllType
  /\ x.startFullSize = h.startFullSize /\ x.oooFlag = h.oooFlag

Less(x) == [x EXCEPT !.numAtCurMin = @ - 1]

\* What holds of an array between calls.
HllOK(h, v) ==
  /\ HllRep(h, v)
  /\ Credit(h, v)
  /\ h.tgtHllType = "HLL_4" => h.numAtCurMin > 0

\* The fields of an array that stands for registers.
LEMMA HllParts ==
  ASSUME NEW h, NEW v, HllRep(h, v)
  PROVE  /\ IsRecord(h) /\ h.mode = "HLL" /\ h.ok = TRUE
         /\ h.lgConfigK \in 1 .. KeyBits /\ h.tgtHllType \in TypeSet
         /\ h.startFullSize \in BOOLEAN /\ h.oooFlag \in BOOLEAN /\ h.hip \in Nat
         /\ h.curMin \in 0 .. ValueMax /\ h.curMin \in Nat /\ h.numAtCurMin \in Nat
         /\ RegsIn(v, h.lgConfigK)
         /\ (h.tgtHllType # "HLL_4" => h.curMin = 0)
  <1> DEFINE k == h.lgConfigK
             A == At(v, k, h.curMin)
  <1>1. /\ IsRecord(h) /\ h.mode = "HLL" /\ h.ok = TRUE
        /\ k \in 1 .. KeyBits /\ h.tgtHllType \in TypeSet
        /\ h.startFullSize \in BOOLEAN /\ h.oooFlag \in BOOLEAN /\ h.hip \in Nat
    BY DEF HllRep, Formed, IsRecord
  <1>2. /\ h.curMin \in 0 .. ValueMax /\ h.numAtCurMin = Cardinality(A)
        /\ (h.tgtHllType # "HLL_4" => h.curMin = 0)
    BY DEF HllRep, MinOK
  <1>3. h.numAtCurMin \in Nat
    <2>1. IsFiniteSet(0 .. 2^k - 1)
      BY <1>1, SlotsIn, FS_Interval
    <2>2. A \in SUBSET (0 .. 2^k - 1)
      BY DEF At
    <2> HIDE DEF A
    <2> QED BY <1>2, <2>1, <2>2, FS_Subset, FS_CardinalityType
  <1> QED BY <1>1, <1>2, <1>3, ArrayAssumption DEF HllRep

\* The array with every part changed stands for the registers with one raised.
LEMMA UpdatedIs ==
  ASSUME NEW h, NEW v, HllRep(h, v), Credit(h, v),
         NEW s \in 0 .. 2^h.lgConfigK - 1, NEW w \in 0 .. ValueMax, w > v[s],
         NEW x, Updated(x, h, Raised(v, s, w))
  PROVE  /\ v[s] # h.curMin => HllRep(x, Raised(v, s, w)) /\ Credit(x, Raised(v, s, w))
         /\ v[s] = h.curMin => HllRep(Less(x), Raised(v, s, w)) /\ Credit(Less(x), Raised(v, s, w))
         /\ Kin(x, h) /\ Kin(Less(x), h)
         /\ x.numAtCurMin = h.numAtCurMin
  <1> DEFINE r == Raised(v, s, w)
             k == h.lgConfigK
             y == Less(x)
  <1>1. /\ IsRecord(h) /\ h.mode = "HLL" /\ h.ok = TRUE
        /\ k \in 1 .. KeyBits /\ h.tgtHllType \in TypeSet
        /\ h.startFullSize \in BOOLEAN /\ h.oooFlag \in BOOLEAN /\ h.hip \in Nat
        /\ RegsIn(v, k)
    BY HllParts
  <1>2. /\ DOMAIN x = HllFields /\ x = [f \in DOMAIN x |-> x[f]]
        /\ x.mode = h.mode /\ x.lgConfigK = h.lgConfigK /\ x.tgtHllType = h.tgtHllType
        /\ x.startFullSize = h.startFullSize /\ x.oooFlag = h.oooFlag
        /\ x.curMin = h.curMin /\ x.numAtCurMin = h.numAtCurMin /\ x.ok = h.ok
        /\ x.hip = (IF h.oooFlag THEN h.hip ELSE h.hip + 1)
        /\ BytesHold(h.tgtHllType, h.lgConfigK, h.curMin, x.bytes, r)
        /\ AuxHolds(h.tgtHllType, h.lgConfigK, h.curMin, x.aux, r)
        /\ SumsOK(x.kxq0, x.kxq1, h.lgConfigK, r)
    BY DEF Updated, Kept
  <1>3. /\ DOMAIN y = HllFields /\ y = [f \in DOMAIN y |-> y[f]]
        /\ y.numAtCurMin = x.numAtCurMin - 1
        /\ \A f \in HllFields \ {"numAtCurMin"} : y[f] = x[f]
    BY <1>2, Fields DEF Less
  <1> HIDE DEF y
  <1>4. /\ y.mode = h.mode /\ y.lgConfigK = h.lgConfigK /\ y.tgtHllType = h.tgtHllType
        /\ y.startFullSize = h.startFullSize /\ y.oooFlag = h.oooFlag
        /\ y.curMin = h.curMin /\ y.ok = h.ok
        /\ y.hip = x.hip /\ y.bytes = x.bytes /\ y.aux = x.aux
        /\ y.kxq0 = x.kxq0 /\ y.kxq1 = x.kxq1
    BY <1>2, <1>3 DEF HllFields
  <1>5. x.hip \in Nat
    BY <1>1, <1>2
  <1>6. Formed(x)
    BY <1>1, <1>2, <1>5 DEF Formed
  <1>7. Formed(y)
    BY <1>1, <1>3, <1>4, <1>5 DEF Formed
  <1>8. MinOK(h.tgtHllType, k, h.curMin, h.numAtCurMin, v)
    BY DEF HllRep
  <1>9. /\ v[s] = h.curMin => MinOK(h.tgtHllType, k, h.curMin, h.numAtCurMin - 1, r)
        /\ v[s] # h.curMin => MinOK(h.tgtHllType, k, h.curMin, h.numAtCurMin, r)
    <2> DEFINE type == h.tgtHllType
               curMin == h.curMin
               num == h.numAtCurMin
    <2>1. MinOK(type, k, curMin, num, v) /\ s \in 0 .. 2^k - 1
      BY <1>8
    <2> HIDE DEF type, k, curMin, num
    <2>2. /\ v[s] = curMin => MinOK(type, k, curMin, num - 1, r)
          /\ v[s] # curMin => MinOK(type, k, curMin, num, r)
      BY <1>1, <2>1, MinRaised
    <2> QED BY <2>2 DEF type, k, curMin, num
  <1>10. RegsIn(r, k)
    <2>1. RegsIn(v, k) /\ k \in 1 .. KeyBits /\ s \in 0 .. 2^k - 1
      BY <1>1
    <2> HIDE DEF k
    <2> QED BY <2>1, RaisedIs DEF RegsIn
  <1>11. /\ Cardinality(Nonzero(v)) \in Nat
         /\ Cardinality(Nonzero(r)) \in Nat
         /\ Cardinality(Nonzero(r)) <= Cardinality(Nonzero(v)) + 1
    BY <1>1, CreditRaised
  <1> HIDE DEF r
  <1>12. Credit(x, r) /\ Credit(y, r)
    BY <1>1, <1>2, <1>4, <1>11 DEF Credit
  <1>13. v[s] # h.curMin => HllRep(x, r)
    BY <1>2, <1>6, <1>9, <1>10 DEF HllRep
  <1>14. v[s] = h.curMin => HllRep(y, r)
    BY <1>2, <1>3, <1>4, <1>7, <1>9, <1>10 DEF HllRep
  <1>15. Kin(x, h) /\ Kin(y, h)
    BY <1>2, <1>4 DEF Kin
  <1> QED BY <1>2, <1>12, <1>13, <1>14, <1>15 DEF r, y

\* Six and eight bits.
LEMMA Put68Is ==
  ASSUME NEW h, NEW v, HllRep(h, v), h.tgtHllType # "HLL_4",
         NEW s \in 0 .. 2^h.lgConfigK - 1, NEW w \in 0 .. ValueMax, w > v[s]
  PROVE  Updated(hipAndKxQIncrementalUpdate(putSlot(h, s, w), v[s], w), h, Raised(v, s, w))
  <1> DEFINE k == h.lgConfigK
             type == h.tgtHllType
             r == Raised(v, s, w)
             b == PutVal(type, h.bytes, s, w)
             p == putSlot(h, s, w)
             x == hipAndKxQIncrementalUpdate(p, v[s], w)
  <1>1. /\ DOMAIN h = HllFields /\ h = [f \in DOMAIN h |-> h[f]]
        /\ k \in 1 .. KeyBits /\ type \in TypeSet /\ h.curMin = 0
        /\ RegsIn(v, k) /\ BytesHold(type, k, 0, h.bytes, v)
        /\ AuxHolds(type, k, 0, h.aux, v) /\ SumsOK(h.kxq0, h.kxq1, k, v)
    BY HllParts DEF IsRecord, HllRep
  <1>2. s \in 0 .. 2^k - 1 /\ v[s] \in 0 .. ValueMax /\ 0 \in 0 .. ValueMax /\ w >= 0
    <2>1. s \in 0 .. 2^k - 1
      OBVIOUS
    <2>2. v[s] \in 0 .. ValueMax
      <3> HIDE DEF k
      <3> QED BY <1>1, <2>1 DEF RegsIn
    <2>3. 0 \in 0 .. ValueMax /\ w >= 0
      BY ArrayAssumption
    <2> QED BY <2>1, <2>2, <2>3
  <1> HIDE DEF k
  <1>3. p = [h EXCEPT !.bytes = b]
    <2>1. "bytes" \in DOMAIN h
      BY <1>1 DEF HllFields
    <2> QED BY <1>1, <2>1, putSlotIs
  <1>4. Raw(type, 0, w) = w
    BY DEF Raw
  <1>5. BytesHold(type, k, 0, b, r)
    BY <1>1, <1>2, <1>4, BytesRaised
  <1>6. AuxHolds(type, k, 0, h.aux, r)
    <2>1. Tokens(type, k, 0, v) = {} /\ Tokens(type, k, 0, r) = {}
      BY DEF Tokens
    <2> QED BY <1>1, <2>1 DEF AuxHolds
  <1> HIDE DEF b, p
  <1>7. /\ DOMAIN p = HllFields /\ p = [f \in DOMAIN p |-> p[f]] /\ p.bytes = b
        /\ \A f \in HllFields \ {"bytes"} : p[f] = h[f]
    BY <1>1, <1>3, Fields
  <1>8. Scored(x, p, v[s], w)
    BY <1>2, <1>7, KxQIs DEF IsRecord
  <1>9. p.hip = h.hip /\ p.oooFlag = h.oooFlag /\ p.kxq0 = h.kxq0 /\ p.kxq1 = h.kxq1 /\ p.aux = h.aux
    BY <1>7 DEF HllFields
  <1> HIDE DEF x
  <1>10. /\ DOMAIN x = HllFields /\ x = [f \in DOMAIN x |-> x[f]]
         /\ x.hip = (IF h.oooFlag THEN h.hip ELSE h.hip + 1)
         /\ x.kxq0 = h.kxq0 - Term(v[s], Low) + Term(w, Low)
         /\ x.kxq1 = h.kxq1 - Term(v[s], High) + Term(w, High)
         /\ \A f \in HllFields \ {"hip", "kxq0", "kxq1"} : x[f] = p[f]
    BY <1>8, <1>9 DEF Scored, IsRecord
  <1>11. x.bytes = b /\ x.aux = h.aux
    BY <1>7, <1>9, <1>10 DEF HllFields
  <1>12. \A f \in Kept : x[f] = h[f]
    <2>1. Kept \subseteq HllFields \ {"bytes", "hip", "kxq0", "kxq1"}
      BY DEF Kept, HllFields
    <2> QED BY <1>7, <1>10, <2>1
  <1>13. SumsOK(x.kxq0, x.kxq1, k, r)
    BY <1>1, <1>2, <1>10, SumsRaised
  <1> HIDE DEF r
  <1> QED BY <1>1, <1>5, <1>6, <1>10, <1>11, <1>12, <1>13 DEF Updated, k, r, x, p

(***************************************************************************)
(* The offset of a four-bit array goes up.                                 *)
(***************************************************************************)
\* Two slots in a byte.
LEMMA TwoNibbles ==
  ASSUME NEW x \in 0 .. 15, NEW y \in 0 .. 15
  PROVE  x + 16 * y \in Byte /\ (x + 16 * y) % 16 = x /\ (x + 16 * y) \div 16 = y
  BY DEF Byte

Packed(t, bytes, lowered) ==
  t = [b \in DOMAIN bytes |-> lowered[2 * b] + 16 * lowered[2 * b + 1]]

\* Every slot is lowered in its half of its byte.
LEMMA ShiftBytes ==
  ASSUME NEW k \in 1 .. KeyBits, NEW bytes, Bytes(hllArrBytes("HLL_4", k), bytes),
         NEW lowered \in [0 .. 2^k - 1 -> 0 .. 15], NEW t, Packed(t, bytes, lowered)
  PROVE  /\ Bytes(hllArrBytes("HLL_4", k), t)
         /\ \A i \in 0 .. 2^k - 1 : SlotVal("HLL_4", t, i) = lowered[i]
  <1> DEFINE n == 2^(k - 1)
  <1>1. n \in Nat /\ 2^k = 2 * n /\ hllArrBytes("HLL_4", k) = n
    BY SlotsIn DEF hllArrBytes
  <1>2. DOMAIN bytes = 0 .. n - 1
    BY <1>1 DEF Bytes
  <1> HIDE DEF n
  <1>3. ASSUME NEW b \in 0 .. n - 1
        PROVE  /\ t[b] \in Byte /\ t[b] % 16 = lowered[2 * b] /\ t[b] \div 16 = lowered[2 * b + 1]
    <2>1. 2 * b \in 0 .. 2^k - 1 /\ 2 * b + 1 \in 0 .. 2^k - 1
      BY <1>1
    <2>2. lowered[2 * b] \in 0 .. 15 /\ lowered[2 * b + 1] \in 0 .. 15
      BY <2>1
    <2>3. t[b] = lowered[2 * b] + 16 * lowered[2 * b + 1]
      BY <1>2 DEF Packed
    <2> DEFINE x == lowered[2 * b]
               y == lowered[2 * b + 1]
    <2>4. x \in 0 .. 15 /\ y \in 0 .. 15 /\ t[b] = x + 16 * y
      BY <2>2, <2>3
    <2> HIDE DEF x, y
    <2>5. t[b] \in Byte /\ t[b] % 16 = x /\ t[b] \div 16 = y
      BY <2>4, TwoNibbles
    <2> QED BY <2>5 DEF x, y
  <1>4. Bytes(n, t)
    <2>1. DOMAIN t = 0 .. n - 1 /\ t = [b \in 0 .. n - 1 |-> t[b]]
      BY <1>2 DEF Packed
    <2> QED BY <1>3, <2>1 DEF Bytes
  <1>5. ASSUME NEW i \in 0 .. 2^k - 1 PROVE SlotVal("HLL_4", t, i) = lowered[i]
    <2>1. i \in Nat
      BY <1>1
    <2> DEFINE q == i \div 2
               r == i % 2
    <2>2. q \in Nat /\ r \in 0 .. 1 /\ i = 2 * q + r /\ i \div 2 = q /\ i % 2 = r
      <3>1. PICK a \in Nat, b \in 0 .. 1 : i = 2 * a + b /\ i \div 2 = a /\ i % 2 = b
        BY <2>1, Half
      <3> QED BY <3>1
    <2> HIDE DEF q, r
    <2>3. q \in 0 .. n - 1
      BY <1>1, <2>2
    <2>4. SlotVal("HLL_4", t, i) = IF r = 1 THEN t[q] \div 16 ELSE t[q] % 16
      BY <2>2 DEF SlotVal
    <2>5. t[q] % 16 = lowered[2 * q] /\ t[q] \div 16 = lowered[2 * q + 1]
      BY <1>3, <2>3
    <2>6. CASE r = 0
      <3>1. i = 2 * q /\ SlotVal("HLL_4", t, i) = t[q] % 16
        BY <2>2, <2>4, <2>6
      <3> QED BY <2>5, <3>1
    <2>7. CASE r = 1
      <3>1. i = 2 * q + 1 /\ SlotVal("HLL_4", t, i) = t[q] \div 16
        BY <2>2, <2>4, <2>7
      <3> QED BY <2>5, <3>1
    <2>8. r = 0 \/ r = 1
      BY <2>2
    <2> QED BY <2>6, <2>7, <2>8
  <1> QED BY <1>1, <1>4, <1>5

\* No register is at the offset: what the slots and the exceptions say.
LEMMA ShiftFacts ==
  ASSUME NEW h, NEW v, HllRep(h, v), h.tgtHllType = "HLL_4", h.numAtCurMin = 0,
         NEW k, k = h.lgConfigK, NEW c, c = h.curMin
  PROVE  /\ k \in 1 .. KeyBits /\ c \in Nat /\ c + 1 \in 0 .. ValueMax /\ RegsIn(v, k)
         /\ \A i \in 0 .. 2^k - 1 : /\ v[i] \in Nat /\ v[i] >= c + 1
                                    /\ v[i] \in 1 .. ValueMax
                                    /\ getSlot(h, i) = Raw("HLL_4", c, v[i])
                                    /\ getSlot(h, i) \in 1 .. 15
                                    /\ (getSlot(h, i) = 15 <=> i \in Tokens("HLL_4", k, c, v))
                                    /\ (getSlot(h, i) = 1 <=> v[i] = c + 1)
                                    /\ Raw("HLL_4", c + 1, v[i]) =
                                         (IF i \in Tokens("HLL_4", k, c + 1, v) THEN 15
                                          ELSE IF i \in Tokens("HLL_4", k, c, v) THEN 14
                                          ELSE getSlot(h, i) - 1)
         /\ Tokens("HLL_4", k, c + 1, v) \subseteq Tokens("HLL_4", k, c, v)
         /\ Tokens("HLL_4", k, c, v) \in SUBSET (0 .. 2^k - 1)
         /\ Entries(h.aux.entries) = Exceptions(v, Tokens("HLL_4", k, c, v))
         /\ Tokens("HLL_4", k, c, v) # {} =>
              h.aux # NoAux /\ AuxOK(h.aux, k, v, Tokens("HLL_4", k, c, v))
  <1> DEFINE T == Tokens("HLL_4", k, c, v)
             U == Tokens("HLL_4", k, c + 1, v)
  <1>1. k \in 1 .. KeyBits /\ c \in Nat /\ RegsIn(v, k) /\ c \in 0 .. ValueMax
    BY HllParts
  <1>2. 2^k \in Nat /\ 2^k > 0 /\ ValueMax \in Nat
    BY <1>1, SlotsIn, ArrayAssumption
  <1>3. At(v, k, c) = {}
    <2>1. Cardinality(At(v, k, c)) = 0
      BY DEF HllRep, MinOK
    <2>2. IsFiniteSet(0 .. 2^k - 1)
      BY <1>1, SlotsIn, FS_Interval
    <2>3. At(v, k, c) \in SUBSET (0 .. 2^k - 1)
      BY DEF At
    <2>4. IsFiniteSet(At(v, k, c))
      BY <2>2, <2>3, FS_Subset
    <2> QED BY <2>1, <2>4, FS_EmptySet
  <1>4. ASSUME NEW i \in 0 .. 2^k - 1
        PROVE  /\ v[i] \in Nat /\ v[i] >= c + 1 /\ v[i] \in 1 .. ValueMax
               /\ getSlot(h, i) = Raw("HLL_4", c, v[i])
    <2>1. /\ v[i] \in 0 .. ValueMax /\ v[i] \in Nat /\ c <= v[i]
          /\ getSlot(h, i) = Raw("HLL_4", c, v[i])
      BY get_valueIs
    <2>2. v[i] # c
      BY <1>3 DEF At
    <2> QED BY <1>1, <1>2, <2>1, <2>2
  <1>5. c + 1 \in 0 .. ValueMax
    <2>1. 0 \in 0 .. 2^k - 1
      BY <1>2
    <2>2. v[0] >= c + 1 /\ v[0] \in 1 .. ValueMax
      BY <1>4, <2>1
    <2> QED BY <1>1, <1>2, <2>2
  <1>6. ASSUME NEW i \in 0 .. 2^k - 1
        PROVE  /\ getSlot(h, i) \in 1 .. 15
               /\ (getSlot(h, i) = 15 <=> i \in T)
               /\ (getSlot(h, i) = 1 <=> v[i] = c + 1)
               /\ Raw("HLL_4", c + 1, v[i]) =
                    (IF i \in U THEN 15 ELSE IF i \in T THEN 14 ELSE getSlot(h, i) - 1)
    <2>1. v[i] \in Nat /\ v[i] >= c + 1
      BY <1>4
    <2>2. getSlot(h, i) = IF v[i] - c < 15 THEN v[i] - c ELSE 15
      BY <1>4 DEF Raw, AUX_TOKEN
    <2>3. Raw("HLL_4", c + 1, v[i]) = IF v[i] - (c + 1) < 15 THEN v[i] - (c + 1) ELSE 15
      BY DEF Raw, AUX_TOKEN
    <2>4. (i \in T <=> v[i] - c >= 15) /\ (i \in U <=> v[i] - (c + 1) >= 15)
      BY DEF Tokens, AUX_TOKEN
    <2> HIDE DEF T, U
    <2> QED BY <1>1, <2>1, <2>2, <2>3, <2>4
  <1>7. U \subseteq T /\ T \in SUBSET (0 .. 2^k - 1)
    BY <1>1, <1>4 DEF Tokens, AUX_TOKEN
  <1>8. IF T = {} THEN h.aux = NoAux ELSE AuxOK(h.aux, k, v, T)
    BY DEF HllRep, AuxHolds
  <1> HIDE DEF T
  <1>9. T # {} => h.aux # NoAux /\ AuxOK(h.aux, k, v, T)
    BY <1>1, <1>8, AuxFields
  <1>10. Entries(h.aux.entries) = Exceptions(v, T)
    <2>1. CASE T = {}
      <3>1. h.aux.entries = << >>
        BY <1>8, <2>1 DEF NoAux
      <3>2. Entries(<< >>) = {}
        BY DEF Entries
      <3> QED BY <2>1, <3>1, <3>2 DEF Exceptions
    <2>2. CASE T # {}
      BY <1>9, <2>2 DEF AuxOK
    <2> QED BY <2>1, <2>2
  <1> QED BY <1>1, <1>4, <1>5, <1>6, <1>7, <1>9, <1>10 DEF T

\* The offset goes up by one: the registers stay what they were, an exception
\* that now fits in four bits becomes a slot, and the map keeps the others.
LEMMA ShiftIs ==
  ASSUME NEW h, NEW v, HllRep(h, v), h.tgtHllType = "HLL_4", h.numAtCurMin = 0
  PROVE  /\ HllRep(shiftToBiggerCurMin(h), v)
         /\ Kin(shiftToBiggerCurMin(h), h)
         /\ shiftToBiggerCurMin(h).curMin = h.curMin + 1
         /\ shiftToBiggerCurMin(h).hip = h.hip
  <1> DEFINE k == h.lgConfigK
             c == h.curMin
             n == c + 1
             old == h.aux.entries
             SlotOf(entry) == getLow26(entry) % 2^k
             NewShiftedVal(entry) == getValue(entry) - n
             tokens == {i \in Slots(h) : getSlot(h, i) = AUX_TOKEN}
             fitting == {e \in Entries(old) : NewShiftedVal(e) < AUX_TOKEN}
             lowered == [i \in Slots(h) |->
                           IF i \in {SlotOf(e) : e \in fitting} THEN AUX_TOKEN - 1
                           ELSE IF i \in tokens THEN AUX_TOKEN
                           ELSE getSlot(h, i) - 1]
             t == [m \in DOMAIN old |-> IF old[m] \in fitting THEN EMPTY ELSE old[m]]
             newAux == IF Entries(old) = fitting THEN NoAux
                       ELSE AuxOf(LgAuxArrInts[k], k, t)
             ok == /\ h.ok
                   /\ \A i \in Slots(h) : getSlot(h, i) # 0
                   /\ tokens # {} => h.aux # NoAux
                   /\ \A e \in Entries(old) : SlotOf(e) \in tokens
                   /\ \A e \in fitting : NewShiftedVal(e) = AUX_TOKEN - 1
                   /\ newAux # NoAux =>
                        newAux.auxCount = Cardinality(tokens) - Cardinality(fitting)
             bytes == [b \in DOMAIN h.bytes |-> lowered[2 * b] + 16 * lowered[2 * b + 1]]
             num == Cardinality({i \in Slots(h) : getSlot(h, i) = 1})
             x == shiftToBiggerCurMin(h)
             T == Tokens("HLL_4", k, c, v)
             U == Tokens("HLL_4", k, n, v)
             S == 0 .. 2^k - 1
  <1>1. x = IF ~ok THEN [h EXCEPT !.ok = FALSE]
            ELSE [h EXCEPT !.bytes = bytes, !.aux = newAux, !.curMin = n, !.numAtCurMin = num]
    BY DEF shiftToBiggerCurMin
  <1> HIDE DEF x
  <1>2. /\ k \in 1 .. KeyBits /\ c \in Nat /\ n \in 0 .. ValueMax /\ RegsIn(v, k)
        /\ \A i \in S : /\ v[i] \in Nat /\ v[i] >= n /\ v[i] \in 1 .. ValueMax
                        /\ getSlot(h, i) \in 1 .. 15
                        /\ (getSlot(h, i) = 15 <=> i \in T)
                        /\ (getSlot(h, i) = 1 <=> v[i] = n)
                        /\ Raw("HLL_4", n, v[i]) =
                             (IF i \in U THEN 15 ELSE IF i \in T THEN 14 ELSE getSlot(h, i) - 1)
        /\ U \subseteq T /\ T \in SUBSET S
        /\ Entries(old) = Exceptions(v, T)
        /\ T # {} => h.aux # NoAux /\ AuxOK(h.aux, k, v, T)
    <2> HIDE DEF k, c, n, T, U
    <2> DEFINE F(i) == /\ v[i] \in Nat /\ v[i] >= n /\ v[i] \in 1 .. ValueMax
                       /\ getSlot(h, i) \in 1 .. 15
                       /\ (getSlot(h, i) = 15 <=> i \in T)
                       /\ (getSlot(h, i) = 1 <=> v[i] = n)
                       /\ Raw("HLL_4", n, v[i]) =
                            (IF i \in U THEN 15 ELSE IF i \in T THEN 14 ELSE getSlot(h, i) - 1)
    <2>1. k = h.lgConfigK /\ c = h.curMin
      BY DEF k, c
    <2>2. /\ k \in 1 .. KeyBits /\ c \in Nat /\ c + 1 \in 0 .. ValueMax /\ RegsIn(v, k)
          /\ \A i \in S : F(i)
          /\ U \subseteq T /\ T \in SUBSET S
          /\ Entries(h.aux.entries) = Exceptions(v, T)
          /\ T # {} => h.aux # NoAux /\ AuxOK(h.aux, k, v, T)
      BY <2>1, ShiftFacts DEF n, T, U
    <2> QED BY <2>2 DEF n
  <1>3. Slots(h) = S
    BY DEF Slots
  <1>4. tokens = T
    BY <1>2, <1>3 DEF AUX_TOKEN
  <1>5. \A i \in T : /\ pair(i, v[i]) \in Coupon /\ pair(i, v[i]) # EMPTY
                     /\ SlotOf(pair(i, v[i])) = i
                     /\ NewShiftedVal(pair(i, v[i])) = v[i] - n
    <2> SUFFICES ASSUME NEW i \in T
                 PROVE  /\ pair(i, v[i]) \in Coupon /\ pair(i, v[i]) # EMPTY
                        /\ SlotOf(pair(i, v[i])) = i
                        /\ NewShiftedVal(pair(i, v[i])) = v[i] - n
      OBVIOUS
    <2> HIDE DEF T, k, n
    <2>1. i \in S /\ v[i] \in 1 .. ValueMax
      BY <1>2
    <2>2. /\ pair(i, v[i]) \in Coupon /\ pair(i, v[i]) # EMPTY
          /\ getLow26(pair(i, v[i])) = i /\ getValue(pair(i, v[i])) = v[i] /\ i % 2^k = i
      BY <1>2, <2>1, RegisterPair
    <2> QED BY <2>2
  <1>6. \A i \in T : i \in U <=> ~(v[i] - n < AUX_TOKEN)
    BY <1>2 DEF Tokens, AUX_TOKEN
  <1>7. \A i \in T \ U : v[i] - n = AUX_TOKEN - 1
    BY <1>2 DEF Tokens, AUX_TOKEN
  <1> HIDE DEF T, U, k, c, n, old, SlotOf, NewShiftedVal, tokens
  <1>8. fitting = Exceptions(v, T \ U)
    <2>1. ASSUME NEW e \in fitting PROVE e \in Exceptions(v, T \ U)
      <3>1. e \in Exceptions(v, T) /\ NewShiftedVal(e) < AUX_TOKEN
        BY <1>2
      <3>2. PICK i \in T : e = pair(i, v[i])
        BY <3>1 DEF Exceptions
      <3>3. i \notin U
        BY <1>5, <1>6, <3>1, <3>2
      <3> QED BY <3>2, <3>3 DEF Exceptions
    <2>2. ASSUME NEW e \in Exceptions(v, T \ U) PROVE e \in fitting
      <3>1. PICK i \in T \ U : e = pair(i, v[i])
        BY DEF Exceptions
      <3>2. e \in Entries(old)
        BY <1>2, <3>1 DEF Exceptions
      <3>3. NewShiftedVal(e) < AUX_TOKEN
        BY <1>5, <1>6, <3>1
      <3> QED BY <3>2, <3>3
    <2> QED BY <2>1, <2>2
  <1>9. Entries(old) = fitting <=> U = {}
    <2>1. U = {} => T \ U = T
      OBVIOUS
    <2>2. ASSUME NEW i \in U PROVE pair(i, v[i]) \in Entries(old) /\ pair(i, v[i]) \notin fitting
      <3>1. i \in T
        BY <1>2
      <3>2. ~(NewShiftedVal(pair(i, v[i])) < AUX_TOKEN)
        BY <1>5, <1>6, <3>1
      <3> QED BY <1>2, <3>1, <3>2 DEF Exceptions
    <2> HIDE DEF fitting
    <2> QED BY <1>2, <1>8, <2>1, <2>2
  <1>10. {SlotOf(e) : e \in fitting} = T \ U
    <2> HIDE DEF fitting
    <2> QED BY <1>5, <1>8 DEF Exceptions
  <1>11. \A i \in S : lowered[i] = Raw("HLL_4", n, v[i])
    <2> SUFFICES ASSUME NEW i \in S PROVE lowered[i] = Raw("HLL_4", n, v[i])
      OBVIOUS
    <2>1. lowered[i] = IF i \in T \ U THEN AUX_TOKEN - 1
                       ELSE IF i \in T THEN AUX_TOKEN ELSE getSlot(h, i) - 1
      BY <1>3, <1>4, <1>10
    <2> HIDE DEF lowered
    <2> QED BY <1>2, <2>1 DEF AUX_TOKEN
  <1>12. lowered \in [S -> 0 .. 15]
    <2>1. \A i \in S : lowered[i] \in 0 .. 15
      <3> HIDE DEF lowered
      <3> QED BY <1>2, <1>11
    <2>2. lowered = [i \in S |-> lowered[i]]
      BY <1>3
    <2> HIDE DEF lowered
    <2> QED BY <2>1, <2>2
  <1>13. BytesHold("HLL_4", k, n, bytes, v)
    <2>1. Bytes(hllArrBytes("HLL_4", k), h.bytes)
      BY DEF HllRep, BytesHold, k
    <2> HIDE DEF lowered
    <2>3. Packed(bytes, h.bytes, lowered)
      BY DEF Packed
    <2> HIDE DEF bytes
    <2>2. /\ Bytes(hllArrBytes("HLL_4", k), bytes)
          /\ \A i \in S : SlotVal("HLL_4", bytes, i) = lowered[i]
      BY <1>2, <1>12, <2>1, <2>3, ShiftBytes
    <2> QED BY <1>11, <2>2 DEF BytesHold
  <1> HIDE DEF lowered, bytes
  <1>14. U # {} => AuxOK(newAux, k, v, U) /\ newAux # NoAux /\ newAux.auxCount = Cardinality(U)
    <2> SUFFICES ASSUME U # {}
                 PROVE  AuxOK(newAux, k, v, U) /\ newAux # NoAux /\ newAux.auxCount = Cardinality(U)
      OBVIOUS
    <2>1. AuxOK(h.aux, k, v, T) /\ U \subseteq T
      BY <1>2
    <2>2. newAux = AuxOf(LgAuxArrInts[k], k, t) /\ LgAuxArrInts[k] \in Nat
      <3> HIDE DEF fitting, t
      <3> QED BY <1>2, <1>9, TableAssumption
    <2>3. Entries(t) = Exceptions(v, U)
      <3>1. Entries(t) = Entries(old) \ fitting
        <4> HIDE DEF fitting
        <4> QED BY DEF Entries
      <3>2. \A i \in T : pair(i, v[i]) \in fitting <=> i \notin U
        BY <1>2, <1>5, <1>6 DEF Exceptions
      <3> HIDE DEF fitting, t
      <3> QED BY <1>2, <3>1, <3>2 DEF Exceptions
    <2>4. DOMAIN t = DOMAIN h.aux.entries
      BY DEF old
    <2>5. \A m \in DOMAIN t : t[m] # EMPTY => t[m] = h.aux.entries[m]
      <3> HIDE DEF fitting
      <3> QED BY DEF old
    <2> HIDE DEF t, newAux, fitting
    <2>6. AuxOK(newAux, k, v, U)
      <3> DEFINE a == h.aux
                 lg == LgAuxArrInts[k]
      <3>1. /\ k \in 1 .. KeyBits /\ AuxOK(a, k, v, T) /\ lg \in Nat
            /\ DOMAIN t = DOMAIN a.entries
            /\ \A m \in DOMAIN t : t[m] # EMPTY => t[m] = a.entries[m]
            /\ newAux = AuxOf(lg, k, t)
        BY <1>2, <2>1, <2>2, <2>4, <2>5
      <3> HIDE DEF a, lg
      <3> QED BY <2>1, <2>3, <3>1, AuxKept
    <2> QED BY <1>2, <2>6, AuxFields
  <1>15. U = {} => newAux = NoAux
    <2> HIDE DEF fitting, t
    <2> QED BY <1>9
  <1>16. AuxHolds("HLL_4", k, n, newAux, v)
    <2> HIDE DEF newAux
    <2> QED BY <1>14, <1>15 DEF AuxHolds, U
  <1>17. Cardinality(fitting) = Cardinality(T \ U) /\ Cardinality(U) = Cardinality(T) - Cardinality(T \ U)
    <2>1. \A i \in T \ U : v[i] \in 1 .. ValueMax
      BY <1>2
    <2>2. (T \ U) \in SUBSET S
      BY <1>2
    <2>3. IsFiniteSet(T \ U) /\ Cardinality(Exceptions(v, T \ U)) = Cardinality(T \ U)
      BY <1>2, <2>1, <2>2, ExceptionsAre
    <2>4. IsFiniteSet(T) /\ IsFiniteSet(U)
      <3>1. IsFiniteSet(S)
        BY <1>2, SlotsIn, FS_Interval
      <3>2. IsFiniteSet(T)
        BY <1>2, <3>1, FS_Subset
      <3>3. U \in SUBSET T
        BY <1>2
      <3> QED BY <3>2, <3>3, FS_Subset
    <2>5. Cardinality(T \ U) = Cardinality(T) - Cardinality(T \cap U) /\ T \cap U = U
      BY <1>2, <2>4, FS_Difference
    <2>6. Cardinality(T) \in Nat /\ Cardinality(U) \in Nat
      BY <2>4, FS_CardinalityType
    <2> HIDE DEF fitting
    <2> QED BY <1>8, <2>3, <2>5, <2>6
  <1>18. ok
    <2>1. h.ok
      BY HllParts
    <2>2. \A i \in Slots(h) : getSlot(h, i) # 0
      <3> HIDE DEF S
      <3>1. SUFFICES ASSUME NEW i \in S PROVE getSlot(h, i) # 0
        BY <1>3
      <3>2. getSlot(h, i) \in 1 .. 15
        BY <1>2
      <3> QED BY <3>2
    <2>3. tokens # {} => h.aux # NoAux
      BY <1>2, <1>4
    <2>4. \A e \in Entries(old) : SlotOf(e) \in tokens
      BY <1>2, <1>4, <1>5 DEF Exceptions
    <2>5. \A e \in fitting : NewShiftedVal(e) = AUX_TOKEN - 1
      <3> HIDE DEF fitting
      <3> QED BY <1>5, <1>7, <1>8 DEF Exceptions
    <2>6. newAux # NoAux => newAux.auxCount = Cardinality(tokens) - Cardinality(fitting)
      <3> HIDE DEF newAux, fitting
      <3> QED BY <1>4, <1>14, <1>15, <1>17
    <2> HIDE DEF newAux, fitting
    <2> QED BY <2>1, <2>2, <2>3, <2>4, <2>5, <2>6
  <1>19. num = Cardinality(At(v, k, n))
    <2>1. {i \in Slots(h) : getSlot(h, i) = 1} = At(v, k, n)
      BY <1>2, <1>3 DEF At
    <2> QED BY <2>1
  <1> HIDE DEF ok, newAux, num
  <1>20. x = [h EXCEPT !.bytes = bytes, !.aux = newAux, !.curMin = n, !.numAtCurMin = num]
    BY <1>1, <1>18
  <1>21. /\ DOMAIN h = HllFields /\ h = [f \in DOMAIN h |-> h[f]]
         /\ h.mode = "HLL" /\ h.lgConfigK \in 1 .. KeyBits /\ h.tgtHllType \in TypeSet
         /\ h.startFullSize \in BOOLEAN /\ h.oooFlag \in BOOLEAN /\ h.hip \in Nat /\ h.ok = TRUE
    BY HllParts DEF IsRecord
  <1>22. /\ DOMAIN x = HllFields /\ x = [f \in DOMAIN x |-> x[f]]
         /\ x.bytes = bytes /\ x.aux = newAux /\ x.curMin = n /\ x.numAtCurMin = num
         /\ \A f \in HllFields \ {"bytes", "aux", "curMin", "numAtCurMin"} : x[f] = h[f]
    <2>1. {"bytes", "aux", "curMin", "numAtCurMin"} \subseteq HllFields
      BY DEF HllFields
    <2> QED BY <1>20, <1>21, <2>1
  <1>23. /\ x.mode = h.mode /\ x.lgConfigK = h.lgConfigK /\ x.tgtHllType = h.tgtHllType
         /\ x.startFullSize = h.startFullSize /\ x.oooFlag = h.oooFlag /\ x.hip = h.hip
         /\ x.ok = h.ok /\ x.kxq0 = h.kxq0 /\ x.kxq1 = h.kxq1
    BY <1>22 DEF HllFields
  <1>24. Formed(x)
    BY <1>21, <1>22, <1>23 DEF Formed
  <1>25. MinOK("HLL_4", k, n, num, v)
    BY <1>2, <1>19 DEF MinOK
  <1>26. SumsOK(h.kxq0, h.kxq1, k, v)
    BY DEF HllRep, k
  <1>27. HllRep(x, v)
    BY <1>2, <1>13, <1>16, <1>22, <1>23, <1>24, <1>25, <1>26 DEF HllRep, k
  <1> QED BY <1>22, <1>23, <1>27 DEF Kin, x, n, c

(***************************************************************************)
(* An array takes a coupon.                                                *)
(***************************************************************************)
LEMMA RaiseLoop ==
  ASSUME NEW h, NEW t \in [0 .. ValueMax - 1 -> {1}]
  PROVE  \E f : IsLoop(f, 7, 0, 0, h, t, ValueMax) /\ f[ValueMax] = RaiseCurMin(h)
  <1> DEFINE Body(g) == [i \in 0 .. ValueMax |-> IF i = 0 THEN h ELSE RaiseOnce(g[i - 1])]
             after == CHOOSE g : g = Body(g)
  <1>1. ValueMax \in Nat
    BY ArrayAssumption
  <1>2. \A i \in 0 .. ValueMax : i # 0 => t[i - 1] # EMPTY
    <2>1. SUFFICES ASSUME NEW i \in 0 .. ValueMax, i # 0 PROVE t[i - 1] # EMPTY
      OBVIOUS
    <2>2. i - 1 \in 0 .. ValueMax - 1
      BY <1>1, <2>1
    <2> QED BY <2>2 DEF EMPTY
  <1>3. \A x, e : Round(7, 0, 0, x, e) = RaiseOnce(x)
    BY DEF Round
  <1>4. PICK g : IsLoop(g, 7, 0, 0, h, t, ValueMax)
    BY <1>1, LoopExists
  <1>5. g = Body(g)
    BY <1>2, <1>3, <1>4 DEF IsLoop
  <1>6. after = Body(after)
    <2> HIDE DEF Body
    <2> QED BY <1>5
  <1>7. RaiseCurMin(h) = after[ValueMax]
    BY DEF RaiseCurMin
  <1> HIDE DEF after
  <1>8. IsLoop(after, 7, 0, 0, h, t, ValueMax)
    BY <1>2, <1>3, <1>6 DEF IsLoop
  <1> QED BY <1>7, <1>8

\* The registers are the same, and one of them is at the offset in the end.
LEMMA RaiseCurMinIs ==
  ASSUME NEW h, NEW v, HllRep(h, v), h.tgtHllType = "HLL_4"
  PROVE  /\ HllRep(RaiseCurMin(h), v)
         /\ Kin(RaiseCurMin(h), h)
         /\ RaiseCurMin(h).hip = h.hip
         /\ RaiseCurMin(h).numAtCurMin > 0
  <1> DEFINE t == [i \in 0 .. ValueMax - 1 |-> 1]
             Good(x, i) == /\ HllRep(x, v) /\ Kin(x, h) /\ x.hip = h.hip
                           /\ (x.numAtCurMin # 0 \/ x.curMin >= i)
  <1>1. ValueMax \in Nat /\ ValueMax > 0
    BY ArrayAssumption
  <1>2. t \in [0 .. ValueMax - 1 -> {1}] /\ \A i \in 0 .. ValueMax - 1 : t[i] # EMPTY
    BY DEF EMPTY
  <1> HIDE DEF t
  <1>3. PICK f : IsLoop(f, 7, 0, 0, h, t, ValueMax) /\ f[ValueMax] = RaiseCurMin(h)
    BY <1>2, RaiseLoop
  <1>4. f[0] = h /\ \A i \in 0 .. ValueMax - 1 : f[i + 1] = RaiseOnce(f[i])
    <2>1. /\ f[0] = h
          /\ \A i \in 0 .. ValueMax - 1 : t[i] # EMPTY => f[i + 1] = Round(7, 0, 0, f[i], t[i])
      BY <1>1, <1>3, LoopRounds
    <2>2. \A x, e : Round(7, 0, 0, x, e) = RaiseOnce(x)
      BY DEF Round
    <2> QED BY <1>2, <2>1, <2>2
  <1> DEFINE T == {i \in 0 .. ValueMax : Good(f[i], i)}
  <1>5. 0 \in T
    <2>1. h.curMin \in Nat
      BY HllParts
    <2> QED BY <1>1, <1>4, <2>1 DEF Kin
  <1>6. ASSUME NEW i \in 0 .. ValueMax - 1, i \in T PROVE i + 1 \in T
    <2> DEFINE x == f[i]
               y == f[i + 1]
    <2>1. Good(x, i) /\ y = RaiseOnce(x) /\ i + 1 \in 0 .. ValueMax
      BY <1>1, <1>4, <1>6
    <2> HIDE DEF x, y
    <2>2. x.ok = TRUE /\ x.curMin \in Nat
      BY <2>1, HllParts
    <2>3. CASE x.numAtCurMin # 0
      <3>1. y = x
        BY <2>1, <2>3 DEF RaiseOnce
      <3> QED BY <2>1, <2>3, <3>1 DEF y
    <2>4. CASE x.numAtCurMin = 0
      <3>1. y = shiftToBiggerCurMin(x)
        BY <2>1, <2>2, <2>4 DEF RaiseOnce
      <3>2. x.tgtHllType = "HLL_4"
        BY <2>1 DEF Kin
      <3>3. HllRep(y, v) /\ Kin(y, x) /\ y.curMin = x.curMin + 1 /\ y.hip = x.hip
        BY <2>1, <2>4, <3>1, <3>2, ShiftIs
      <3>4. Kin(y, h) /\ y.hip = h.hip
        BY <2>1, <3>3 DEF Kin
      <3>5. y.curMin >= i + 1
        BY <2>1, <2>2, <2>4, <3>3
      <3> QED BY <2>1, <3>3, <3>4, <3>5 DEF y
    <2> QED BY <2>3, <2>4
  <1>7. Good(f[ValueMax], ValueMax)
    <2> HIDE DEF T
    <2>1. \A i \in 0 .. ValueMax : i \in T
      BY <1>1, <1>5, <1>6, Rounds
    <2>2. ValueMax \in T
      BY <1>1, <2>1
    <2> QED BY <2>2 DEF T
  <1> DEFINE x == RaiseCurMin(h)
  <1>8. Good(x, ValueMax)
    BY <1>3, <1>7
  <1> HIDE DEF x
  <1>9. x.numAtCurMin > 0
    <2>1. x.numAtCurMin \in Nat /\ x.curMin \in Nat
      BY <1>8, HllParts
    <2>2. ASSUME x.numAtCurMin = 0 PROVE FALSE
      <3>1. x.tgtHllType = "HLL_4"
        BY <1>8 DEF Kin
      <3>2. x.curMin + 1 \in 0 .. ValueMax
        BY <1>8, <2>2, <3>1, ShiftFacts
      <3> QED BY <1>1, <1>8, <2>1, <2>2, <3>2
    <2> QED BY <2>1, <2>2
  <1> QED BY <1>8, <1>9 DEF x

\* A coupon in an array of six or eight bits.
LEMMA Update68Is ==
  ASSUME NEW h, NEW v, HllOK(h, v), h.tgtHllType # "HLL_4",
         NEW s \in 0 .. 2^h.lgConfigK - 1, NEW w \in 1 .. ValueMax
  PROVE  /\ HllOK(internalHllUpdate(h, s, w), Raised(v, s, w))
         /\ Kin(internalHllUpdate(h, s, w), h)
  <1> DEFINE r == Raised(v, s, w)
             x == hipAndKxQIncrementalUpdate(putSlot(h, s, w), v[s], w)
             y == internalHllUpdate(h, s, w)
  <1>1. HllRep(h, v) /\ Credit(h, v)
    BY DEF HllOK
  <1>2. getSlot(h, s) = v[s] /\ v[s] \in Nat /\ h.curMin = 0
    <2>1. getSlot(h, s) = Raw(h.tgtHllType, h.curMin, v[s]) /\ v[s] \in Nat
      BY <1>1, get_valueIs
    <2>2. h.curMin = 0
      BY <1>1, HllParts
    <2> QED BY <2>1, <2>2 DEF Raw
  <1>3. w \in 0 .. ValueMax /\ w \in Nat
    OBVIOUS
  <1>4. y = IF w <= v[s] THEN h ELSE IF v[s] = 0 THEN Less(x) ELSE x
    BY <1>2 DEF internalHllUpdate, Less
  <1>5. CASE w <= v[s]
    <2>1. r = v
      <3> DEFINE k == h.lgConfigK
      <3>1. k \in 1 .. KeyBits /\ RegsIn(v, k) /\ s \in 0 .. 2^k - 1
        BY <1>1, HllParts
      <3> HIDE DEF k
      <3> QED BY <1>3, <1>5, <3>1, RaisedIs DEF RegsIn
    <2> QED BY <1>4, <1>5, <2>1 DEF Kin
  <1>6. CASE ~(w <= v[s])
    <2>1. w > v[s]
      BY <1>2, <1>3, <1>6
    <2>2. Updated(x, h, r)
      BY <1>1, <1>3, <2>1, Put68Is
    <2> HIDE DEF x, r
    <2>3. /\ v[s] # h.curMin => HllRep(x, r) /\ Credit(x, r)
          /\ v[s] = h.curMin => HllRep(Less(x), r) /\ Credit(Less(x), r)
          /\ Kin(x, h) /\ Kin(Less(x), h)
      BY <1>1, <1>3, <2>1, <2>2, UpdatedIs DEF r
    <2>4. HllRep(y, r) /\ Credit(y, r) /\ Kin(y, h)
      BY <1>2, <1>4, <1>6, <2>3
    <2> QED BY <2>4 DEF HllOK, Kin, r
  <1> QED BY <1>5, <1>6

\* A coupon in an array of four bits, whose offset goes up as far as it can.
LEMMA Update4Is ==
  ASSUME NEW h, NEW v, HllOK(h, v), h.tgtHllType = "HLL_4",
         NEW s \in 0 .. 2^h.lgConfigK - 1, NEW w \in 1 .. ValueMax
  PROVE  LET y == IF w <= h.curMin THEN h ELSE internalHll4Update(h, s, w)
         IN  HllOK(y, Raised(v, s, w)) /\ Kin(y, h)
  <1> DEFINE r == Raised(v, s, w)
             x == StoreHll4(hipAndKxQIncrementalUpdate(h, v[s], w), s, w)
             y == IF w <= h.curMin THEN h ELSE internalHll4Update(h, s, w)
             raw == getSlot(h, s)
  <1>1. HllRep(h, v) /\ Credit(h, v) /\ h.numAtCurMin > 0
    BY DEF HllOK
  <1>2. /\ get_value(h, s) = v[s] /\ v[s] \in Nat /\ h.curMin \in Nat /\ h.curMin <= v[s]
        /\ raw = Raw("HLL_4", h.curMin, v[s])
    BY <1>1, get_valueIs
  <1>3. w \in 0 .. ValueMax /\ w \in Nat
    OBVIOUS
  <1>4. raw \in Nat /\ raw + h.curMin <= v[s]
    BY <1>2 DEF Raw, AUX_TOKEN
  <1>5. y = IF w <= h.curMin \/ w <= raw + h.curMin \/ w <= v[s] THEN h
            ELSE IF v[s] # h.curMin THEN x ELSE RaiseCurMin(Less(x))
    BY <1>2 DEF internalHll4Update, Less
  <1> HIDE DEF y, raw
  <1>6. CASE w <= v[s]
    <2>1. r = v
      <3> DEFINE k == h.lgConfigK
      <3>1. k \in 1 .. KeyBits /\ RegsIn(v, k) /\ s \in 0 .. 2^k - 1
        BY <1>1, HllParts
      <3> HIDE DEF k
      <3> QED BY <1>3, <1>6, <3>1, RaisedIs DEF RegsIn
    <2>2. y = h
      BY <1>5, <1>6
    <2> QED BY <2>1, <2>2 DEF Kin, y
  <1>7. CASE ~(w <= v[s])
    <2>1. w > v[s] /\ ~(w <= h.curMin) /\ ~(w <= raw + h.curMin)
      BY <1>2, <1>3, <1>4, <1>7
    <2>2. Updated(x, h, r)
      BY <1>1, <1>3, <2>1, StoreHll4Is
    <2> HIDE DEF x, r
    <2>3. /\ v[s] # h.curMin => HllRep(x, r) /\ Credit(x, r)
          /\ v[s] = h.curMin => HllRep(Less(x), r) /\ Credit(Less(x), r)
          /\ Kin(x, h) /\ Kin(Less(x), h)
          /\ x.numAtCurMin = h.numAtCurMin
      BY <1>1, <1>3, <2>1, <2>2, UpdatedIs DEF r
    <2>4. CASE v[s] # h.curMin
      <3>1. y = x
        BY <1>5, <1>7, <2>1, <2>4
      <3> QED BY <1>1, <2>3, <2>4, <3>1 DEF HllOK, r, y
    <2>5. CASE v[s] = h.curMin
      <3> DEFINE z == Less(x)
                 q == RaiseCurMin(z)
      <3>1. y = q
        BY <1>5, <1>7, <2>1, <2>5
      <3>2. HllRep(z, r) /\ Credit(z, r) /\ Kin(z, h) /\ z.tgtHllType = "HLL_4"
        BY <2>3, <2>5 DEF Kin
      <3> HIDE DEF z
      <3>3. HllRep(q, r) /\ Kin(q, z) /\ q.hip = z.hip /\ q.numAtCurMin > 0
        BY <3>2, RaiseCurMinIs
      <3> HIDE DEF q
      <3>4. Credit(q, r) /\ Kin(q, h)
        BY <3>2, <3>3 DEF Credit, Kin
      <3> QED BY <3>1, <3>3, <3>4 DEF HllOK, r, y
    <2> QED BY <2>4, <2>5
  <1> QED BY <1>6, <1>7 DEF y

\* A coupon raises the register of its slot, in an array of any type.
LEMMA UpdateIs ==
  ASSUME NEW h, NEW v, HllOK(h, v), NEW c \in Coupon
  PROVE  /\ HllOK(internalCouponUpdate(h, c), Raised(v, SlotNo(c, h.lgConfigK), getValue(c)))
         /\ Kin(internalCouponUpdate(h, c), h)
  <1> DEFINE k == h.lgConfigK
             s == SlotNo(c, k)
             w == getValue(c)
             y == internalCouponUpdate(h, c)
  <1>1. k \in 1 .. KeyBits
    BY HllParts DEF HllOK
  <1>2. s \in 0 .. 2^k - 1 /\ getLow26(c) % 2^k = s /\ w \in 1 .. ValueMax
    <2> HIDE DEF k
    <2> QED BY <1>1, CouponSlot
  <1>3. y = IF h.tgtHllType # "HLL_4" THEN internalHllUpdate(h, s, w)
            ELSE IF w <= h.curMin THEN h ELSE internalHll4Update(h, s, w)
    BY <1>2 DEF internalCouponUpdate
  <1> HIDE DEF y, s, w
  <1>4. CASE h.tgtHllType # "HLL_4"
    BY <1>2, <1>3, <1>4, Update68Is DEF y, s, w
  <1>5. CASE h.tgtHllType = "HLL_4"
    BY <1>2, <1>3, <1>5, Update4Is DEF y, s, w
  <1> QED BY <1>4, <1>5

(***************************************************************************)
(* An array and the coupons it stands for.                                 *)
(***************************************************************************)
Shows(h, C) == \E v : HllOK(h, v) /\ IsRegs(v, C, h.lgConfigK)

\* An array that takes a coupon shows that coupon too,
LEMMA UpdateShows ==
  ASSUME NEW h, NEW C \in SUBSET Coupon, Shows(h, C), NEW c \in Coupon
  PROVE  Shows(internalCouponUpdate(h, c), C \cup {c}) /\ Kin(internalCouponUpdate(h, c), h)
  <1> DEFINE k == h.lgConfigK
             y == internalCouponUpdate(h, c)
  <1>1. PICK v : HllOK(h, v) /\ IsRegs(v, C, k)
    BY DEF Shows
  <1> DEFINE r == Raised(v, SlotNo(c, k), getValue(c))
  <1>2. HllOK(y, r) /\ Kin(y, h)
    BY <1>1, UpdateIs
  <1>3. IsRegs(r, C \cup {c}, k)
    <2>1. k \in 1 .. KeyBits /\ IsRegs(v, C, k)
      BY <1>1, HllParts DEF HllOK
    <2> HIDE DEF k
    <2> QED BY <2>1, RegsRaised
  <1>4. y.lgConfigK = k
    BY <1>2 DEF Kin
  <1> HIDE DEF r, y, k
  <1> QED BY <1>2, <1>3, <1>4 DEF Shows, y

LEMMA KinTrans ==
  ASSUME NEW x, NEW y, NEW z, Kin(x, y), Kin(y, z)
  PROVE  Kin(x, z)
  BY DEF Kin

\* and one that takes those of a table shows all of them.
LEMMA UpdateAllShows ==
  ASSUME NEW h, NEW C \in SUBSET Coupon, Shows(h, C), NEW t, NEW n \in Nat,
         DOMAIN t = 0 .. n - 1, Entries(t) \in SUBSET Coupon
  PROVE  Shows(UpdateAll(h, t), C \cup Entries(t)) /\ Kin(UpdateAll(h, t), h)
  <1>1. PICK f : IsLoop(f, 4, 0, 0, h, t, n) /\ f[n] = UpdateAll(h, t)
    BY UpdateLoop
  <1>2. /\ f[0] = h
        /\ \A i \in 0 .. n - 1 : /\ t[i] = EMPTY => f[i + 1] = f[i]
                                 /\ t[i] # EMPTY => f[i + 1] = internalCouponUpdate(f[i], t[i])
    <2>1. \A x, e : Round(4, 0, 0, x, e) = internalCouponUpdate(x, e)
      BY DEF Round
    <2>2. /\ f[0] = h
          /\ \A i \in 0 .. n - 1 : /\ t[i] = EMPTY => f[i + 1] = f[i]
                                   /\ t[i] # EMPTY => f[i + 1] = Round(4, 0, 0, f[i], t[i])
      BY <1>1, LoopRounds
    <2> QED BY <2>1, <2>2
  <1>3. /\ Before(t, 0) = {} /\ Before(t, n) = Entries(t)
        /\ \A i \in 0 .. n - 1 :
             Before(t, i + 1) = IF t[i] = EMPTY THEN Before(t, i) ELSE Before(t, i) \cup {t[i]}
        /\ \A i \in 0 .. n : Before(t, i) \subseteq Entries(t)
        /\ \A i \in 0 .. n - 1 : t[i] # EMPTY => t[i] \in Entries(t)
    BY BeforeIs
  <1> DEFINE T == {i \in 0 .. n : Shows(f[i], C \cup Before(t, i)) /\ Kin(f[i], h)}
  <1>4. 0 \in T
    <2>1. C \cup {} = C /\ 0 \in 0 .. n
      OBVIOUS
    <2> QED BY <1>2, <1>3, <2>1 DEF Kin
  <1>5. ASSUME NEW i \in 0 .. n - 1, i \in T PROVE i + 1 \in T
    <2> DEFINE x == f[i]
               y == f[i + 1]
               B == Before(t, i)
               e == t[i]
    <2>1. Shows(x, C \cup B) /\ Kin(x, h) /\ i \in 0 .. n /\ i + 1 \in 0 .. n
      BY <1>5
    <2>2. C \cup B \in SUBSET Coupon
      BY <1>3, <2>1
    <2>3. CASE e = EMPTY
      <3>1. y = x /\ Before(t, i + 1) = B
        BY <1>2, <1>3, <2>3
      <3> QED BY <2>1, <3>1
    <2>4. CASE e # EMPTY
      <3>1. y = internalCouponUpdate(x, e) /\ Before(t, i + 1) = B \cup {e} /\ e \in Coupon
        BY <1>2, <1>3, <2>4
      <3>2. (C \cup B) \cup {e} = C \cup Before(t, i + 1)
        BY <3>1
      <3> HIDE DEF x, y, B, e
      <3>3. Shows(y, (C \cup B) \cup {e}) /\ Kin(y, x)
        BY <2>1, <2>2, <3>1, UpdateShows
      <3>4. Kin(y, h)
        BY <2>1, <3>3, KinTrans
      <3>5. Shows(y, C \cup Before(t, i + 1))
        BY <3>2, <3>3
      <3> QED BY <2>1, <3>4, <3>5 DEF y
    <2> QED BY <2>3, <2>4
  <1>6. n \in T
    <2> HIDE DEF T
    <2>1. \A i \in 0 .. n : i \in T
      BY <1>4, <1>5, Rounds
    <2> QED BY <2>1
  <1> QED BY <1>1, <1>3, <1>6

\* The registers of another array are folded in.
LEMMA MergeShows ==
  ASSUME NEW h, NEW C \in SUBSET Coupon, Shows(h, C),
         NEW src, NEW D \in SUBSET Coupon, Shows(src, D), h.lgConfigK <= src.lgConfigK
  PROVE  Shows(mergeHll(h, src), C \cup D) /\ Kin(mergeHll(h, src), h)
  <1> DEFINE k == h.lgConfigK
             l == src.lgConfigK
             t == Registers(src)
             m == mergeHll(h, src)
  <1>1. PICK u : HllOK(src, u) /\ IsRegs(u, D, l)
    BY DEF Shows
  <1>2. l \in 1 .. KeyBits /\ RegsIn(u, l)
    BY <1>1, HllParts DEF HllOK
  <1>3. k \in 1 .. KeyBits
    BY HllParts DEF HllOK, Shows
  <1>4. 2^l \in Nat
    BY <1>2, SlotsIn
  <1> DEFINE E == RegisterCoupons(u)
  <1>5. DOMAIN t = 0 .. 2^l - 1
    BY DEF Registers, Slots
  <1>6. \A i \in 0 .. 2^l - 1 : t[i] = IF u[i] = 0 THEN EMPTY ELSE pair(i, u[i])
    <2>1. \A i \in 0 .. 2^l - 1 : get_value(src, i) = u[i]
      BY <1>1, get_valueIs DEF HllOK
    <2> QED BY <2>1 DEF Registers, Slots
  <1> HIDE DEF t, k, l
  <1>7. \A j \in Nonzero(u) : j \in 0 .. 2^l - 1 /\ pair(j, u[j]) \in Coupon /\ pair(j, u[j]) # EMPTY
    <2> SUFFICES ASSUME NEW j \in Nonzero(u)
                 PROVE  /\ j \in 0 .. 2^l - 1 /\ pair(j, u[j]) \in Coupon
                        /\ pair(j, u[j]) # EMPTY
      OBVIOUS
    <2>1. j \in 0 .. 2^l - 1 /\ u[j] # 0
      BY <1>2 DEF Nonzero, RegsIn
    <2>2. u[j] \in 0 .. ValueMax
      BY <1>2, <2>1 DEF RegsIn
    <2> DEFINE w == u[j]
    <2>3. w \in 1 .. ValueMax
      BY <2>1, <2>2, ArrayAssumption
    <2> HIDE DEF w
    <2>4. pair(j, w) \in Coupon /\ pair(j, w) # EMPTY
      BY <1>2, <2>1, <2>3, RegisterPair
    <2> QED BY <2>1, <2>4 DEF w
  <1>8. Entries(t) = E
    <2>1. ASSUME NEW e \in Entries(t) PROVE e \in E
      <3>1. PICK i \in 0 .. 2^l - 1 : e = t[i] /\ e # EMPTY
        BY <1>5 DEF Entries
      <3>2. u[i] # 0 /\ e = pair(i, u[i])
        BY <1>6, <3>1
      <3>3. i \in Nonzero(u)
        BY <1>2, <3>1, <3>2 DEF Nonzero, RegsIn
      <3> QED BY <3>2, <3>3 DEF RegisterCoupons
    <2>2. ASSUME NEW j \in Nonzero(u) PROVE pair(j, u[j]) \in Entries(t)
      <3>1. j \in 0 .. 2^l - 1 /\ u[j] # 0 /\ pair(j, u[j]) # EMPTY
        BY <1>7 DEF Nonzero
      <3>2. t[j] = pair(j, u[j])
        BY <1>6, <3>1
      <3> QED BY <1>5, <3>1, <3>2 DEF Entries
    <2> QED BY <2>1, <2>2 DEF RegisterCoupons
  <1>9. Entries(t) \in SUBSET Coupon
    BY <1>7, <1>8 DEF RegisterCoupons
  <1>10. m = UpdateAll(h, t)
    BY DEF mergeHll, UpdateAll, t
  <1> HIDE DEF m
  <1>11. Shows(m, C \cup Entries(t)) /\ Kin(m, h)
    BY <1>4, <1>5, <1>9, <1>10, UpdateAllShows
  <1>12. m.lgConfigK = k
    BY <1>11 DEF Kin, k
  <1>13. PICK v : HllOK(m, v) /\ IsRegs(v, C \cup E, k)
    BY <1>8, <1>11, <1>12 DEF Shows
  <1>14. k <= l /\ E = RegisterCoupons(u)
    BY DEF k, l
  <1> HIDE DEF E
  <1>15. IsRegs(v, C \cup D, k)
    BY <1>1, <1>2, <1>3, <1>13, <1>14, RegsFolded
  <1>16. Shows(m, C \cup D)
    BY <1>12, <1>13, <1>15 DEF Shows
  <1> QED BY <1>11, <1>16 DEF m

Recredited(h, hip, ooo) == [h EXCEPT !.hip = hip, !.oooFlag = ooo]

\* What an array that shows C must be credited with.
Worth(hip, ooo, C, k) ==
  /\ hip \in Nat /\ ooo \in BOOLEAN
  /\ IF ooo THEN hip = 0 ELSE \A v : IsRegs(v, C, k) => hip >= Cardinality(Nonzero(v))

\* An array may be given any credit its coupons are worth.
LEMMA RecreditedShows ==
  ASSUME NEW h, NEW C \in SUBSET Coupon, Shows(h, C), NEW hip, NEW ooo,
         Worth(hip, ooo, C, h.lgConfigK)
  PROVE  LET x == Recredited(h, hip, ooo)
         IN  /\ Shows(x, C)
             /\ x.lgConfigK = h.lgConfigK /\ x.tgtHllType = h.tgtHllType
             /\ x.startFullSize = h.startFullSize
             /\ x.hip = hip /\ x.oooFlag = ooo
  <1> DEFINE x == Recredited(h, hip, ooo)
             k == h.lgConfigK
  <1>1. PICK v : HllOK(h, v) /\ IsRegs(v, C, k)
    BY DEF Shows
  <1>2. HllRep(h, v) /\ IsRecord(h)
    BY <1>1, HllParts DEF HllOK
  <1>3. /\ DOMAIN x = HllFields /\ x = [f \in DOMAIN x |-> x[f]]
        /\ x.hip = hip /\ x.oooFlag = ooo
        /\ \A f \in HllFields \ {"hip", "oooFlag"} : x[f] = h[f]
    <2>1. "hip" \in HllFields /\ "oooFlag" \in HllFields
      BY DEF HllFields
    <2> QED BY <1>2, <2>1 DEF Recredited, IsRecord
  <1> HIDE DEF x
  <1>4. /\ x.mode = h.mode /\ x.lgConfigK = h.lgConfigK /\ x.tgtHllType = h.tgtHllType
        /\ x.startFullSize = h.startFullSize /\ x.kxq0 = h.kxq0 /\ x.kxq1 = h.kxq1
        /\ x.curMin = h.curMin /\ x.numAtCurMin = h.numAtCurMin /\ x.bytes = h.bytes
        /\ x.aux = h.aux /\ x.ok = h.ok
    BY <1>3 DEF HllFields
  <1>5. Formed(x)
    <2>1. /\ h.mode = "HLL" /\ h.lgConfigK \in 1 .. KeyBits /\ h.tgtHllType \in TypeSet
          /\ h.startFullSize \in BOOLEAN /\ h.ok = TRUE
      BY <1>2, HllParts
    <2>2. x.startFullSize \in BOOLEAN
      BY <1>4, <2>1, Zenon
    <2>3. x.oooFlag \in BOOLEAN
      BY <1>3, Zenon DEF Worth
    <2>4. x.hip \in Nat
      BY <1>3 DEF Worth
    <2> QED BY <1>3, <1>4, <2>1, <2>2, <2>3, <2>4 DEF Formed
  <1>6. HllRep(x, v)
    BY <1>2, <1>4, <1>5 DEF HllRep
  <1>7. Credit(x, v)
    BY <1>1, <1>3 DEF Worth, Credit
  <1>8. HllOK(x, v)
    BY <1>1, <1>4, <1>6, <1>7 DEF HllOK
  <1>9. Shows(x, C)
    BY <1>1, <1>4, <1>8 DEF Shows
  <1> QED BY <1>3, <1>4, <1>9 DEF x

\* What an array is credited with is enough for its coupons in fewer slots.
LEMMA ShownWorth ==
  ASSUME NEW h, NEW C \in SUBSET Coupon, Shows(h, C),
         NEW k \in 1 .. KeyBits, k <= h.lgConfigK
  PROVE  Worth(h.hip, h.oooFlag, C, k)
  <1> DEFINE l == h.lgConfigK
  <1>1. PICK u : HllOK(h, u) /\ IsRegs(u, C, l)
    BY DEF Shows
  <1>2. h.hip \in Nat /\ h.oooFlag \in BOOLEAN /\ l \in 1 .. KeyBits /\ Credit(h, u) /\ RegsIn(u, l)
    BY <1>1, HllParts DEF HllOK
  <1>3. k <= l
    OBVIOUS
  <1> HIDE DEF l
  <1>4. ASSUME NEW v, IsRegs(v, C, k)
        PROVE  /\ Cardinality(Nonzero(v)) <= Cardinality(Nonzero(u))
               /\ Cardinality(Nonzero(v)) \in Nat
    BY <1>1, <1>2, <1>3, <1>4, RegsFoldedCount
  <1>5. Cardinality(Nonzero(u)) \in Nat
    <2>1. IsFiniteSet(0 .. 2^l - 1)
      BY <1>2, SlotsIn, FS_Interval
    <2>2. Nonzero(u) \in SUBSET (0 .. 2^l - 1)
      BY <1>2 DEF Nonzero, RegsIn
    <2> QED BY <2>1, <2>2, FS_Subset, FS_CardinalityType
  <1>6. CASE h.oooFlag
    BY <1>2, <1>6 DEF Worth, Credit
  <1>7. CASE ~h.oooFlag
    <2>1. h.hip >= Cardinality(Nonzero(u))
      BY <1>2, <1>7 DEF Credit
    <2>2. ASSUME NEW v, IsRegs(v, C, k) PROVE h.hip >= Cardinality(Nonzero(v))
      BY <1>2, <1>4, <1>5, <2>1, <2>2
    <2> QED BY <1>2, <1>7, <2>2 DEF Worth
  <1> QED BY <1>6, <1>7

\* The fields of an array that shows C.
LEMMA ShowsParts ==
  ASSUME NEW h, NEW C, Shows(h, C)
  PROVE  /\ IsRecord(h) /\ h.mode = "HLL" /\ h.ok = TRUE
         /\ h.lgConfigK \in 1 .. KeyBits /\ h.tgtHllType \in TypeSet
         /\ h.startFullSize \in BOOLEAN /\ h.oooFlag \in BOOLEAN /\ h.hip \in Nat
  BY HllParts DEF Shows, HllOK

\* A new array shows nothing.
LEMMA NewShows ==
  ASSUME NEW k \in 1 .. KeyBits, NEW type \in TypeSet, NEW full \in BOOLEAN
  PROVE  /\ Shows(newHll(k, type, full), {})
         /\ newHll(k, type, full).lgConfigK = k /\ newHll(k, type, full).tgtHllType = type
         /\ newHll(k, type, full).startFullSize = full
         /\ newHll(k, type, full).oooFlag = FALSE
  <1> DEFINE h == newHll(k, type, full)
             v == [i \in 0 .. 2^k - 1 |-> 0]
  <1>1. v \in [0 .. 2^k - 1 -> {0}]
    OBVIOUS
  <1> HIDE DEF h, v
  <1>2. /\ HllRep(h, v) /\ Credit(h, v) /\ h.lgConfigK = k /\ h.tgtHllType = type
        /\ h.startFullSize = full /\ h.numAtCurMin > 0 /\ h.oooFlag = FALSE
    <2>1. HllRep(h, v) /\ Credit(h, v)
      BY <1>1, newHllIs, Zenon DEF h
    <2>2. h.lgConfigK = k /\ h.tgtHllType = type /\ h.startFullSize = full /\ h.oooFlag = FALSE
      BY DEF newHll, h
    <2>3. h.numAtCurMin > 0
      BY SlotsIn DEF newHll, h
    <2> QED BY <2>1, <2>2, <2>3
  <1>3. HllOK(h, v)
    BY <1>2 DEF HllOK
  <1>4. IsRegs(v, {}, k)
    BY <1>1, RegsEmpty
  <1> QED BY <1>2, <1>3, <1>4 DEF Shows, h

\* The credit alone, or the flag alone.
LEMMA RecreditedIs ==
  ASSUME NEW h, IsRecord(h), NEW hip, NEW ooo
  PROVE  /\ [h EXCEPT !.hip = hip] = Recredited(h, hip, h.oooFlag)
         /\ h.hip = 0 => [h EXCEPT !.oooFlag = ooo] = Recredited(h, 0, ooo)
         /\ [h EXCEPT !.oooFlag = ooo, !.hip = hip] = Recredited(h, hip, ooo)
  BY DEF IsRecord, Recredited, HllFields

\* An array made from the registers of another shows what that one shows.
LEMMA ConvertShows ==
  ASSUME NEW x, NEW C \in SUBSET Coupon, Shows(x, C), NEW type \in TypeSet
  PROVE  /\ Shows(convertTo(x, type), C)
         /\ convertTo(x, type).lgConfigK = x.lgConfigK
         /\ convertTo(x, type).tgtHllType = type
  <1> DEFINE k == x.lgConfigK
             a == newHll(k, type, x.startFullSize)
             b == Recredited(a, 0, x.oooFlag)
             m == mergeHll(b, x)
             y == Recredited(m, x.hip, x.oooFlag)
  <1>1. k \in 1 .. KeyBits /\ x.startFullSize \in BOOLEAN /\ x.oooFlag \in BOOLEAN
    BY ShowsParts
  <1>2. Worth(x.hip, x.oooFlag, C, k)
    <2>1. k <= x.lgConfigK
      BY <1>1
    <2> QED BY <1>1, <2>1, ShownWorth
  <1>3. a.hip = 0
    BY DEF newHll
  <1>4. Shows(a, {}) /\ a.lgConfigK = k /\ a.tgtHllType = type
    BY <1>1, NewShows
  <1>5. Worth(0, x.oooFlag, {}, k)
    <2>1. ASSUME NEW v, IsRegs(v, {}, k) PROVE 0 >= Cardinality(Nonzero(v))
      <3>1. Nonzero(v) = {}
        BY <2>1 DEF Nonzero, IsRegs
      <3> QED BY <3>1, FS_EmptySet
    <2> QED BY <1>1, <2>1 DEF Worth
  <1> HIDE DEF a, k
  <1>6. /\ Shows(b, {}) /\ b.lgConfigK = k /\ b.tgtHllType = type /\ b.oooFlag = x.oooFlag
    BY <1>4, <1>5, RecreditedShows
  <1>7. [a EXCEPT !.oooFlag = x.oooFlag] = b
    BY <1>3, <1>4, ShowsParts, RecreditedIs
  <1> HIDE DEF b
  <1>8. k <= x.lgConfigK /\ {} \cup C = C
    BY <1>1 DEF k
  <1>9. Shows(m, C) /\ Kin(m, b)
    <2>1. Shows(m, {} \cup C) /\ Kin(m, b)
      BY <1>6, <1>8, MergeShows
    <2> QED BY <1>8, <2>1
  <1> HIDE DEF m
  <1>10. m.lgConfigK = k /\ m.tgtHllType = type /\ m.oooFlag = x.oooFlag /\ IsRecord(m)
    BY <1>6, <1>9, ShowsParts DEF Kin
  <1>11. Shows(y, C) /\ y.lgConfigK = k /\ y.tgtHllType = type
    BY <1>2, <1>9, <1>10, RecreditedShows
  <1>12. [m EXCEPT !.hip = x.hip] = y
    BY <1>10, RecreditedIs
  <1> HIDE DEF y
  <1>13. convertTo(x, type) = y
    BY <1>7, <1>12 DEF convertTo, a, m, k
  <1> QED BY <1>11, <1>13 DEF k

\* copyAs, for an array.
LEMMA CopyShows ==
  ASSUME NEW x, NEW C \in SUBSET Coupon, Shows(x, C), NEW type \in TypeSet
  PROVE  /\ Shows(copyAs(x, type), C)
         /\ copyAs(x, type).lgConfigK = x.lgConfigK
         /\ copyAs(x, type).tgtHllType = type
  <1>1. x.mode = "HLL"
    BY ShowsParts
  <1>2. CASE x.tgtHllType = type
    BY <1>2 DEF copyAs
  <1>3. CASE x.tgtHllType # type
    BY <1>1, <1>3, ConvertShows DEF copyAs
  <1> QED BY <1>2, <1>3

\* copy_or_downsample: an array folded to fewer slots shows the same coupons.
LEMMA DownsampleShows ==
  ASSUME NEW x, NEW C \in SUBSET Coupon, Shows(x, C), NEW k \in 1 .. KeyBits
  PROVE  /\ Shows(copy_or_downsample(x, k), C)
         /\ copy_or_downsample(x, k).lgConfigK = (IF x.lgConfigK <= k THEN x.lgConfigK ELSE k)
         /\ copy_or_downsample(x, k).tgtHllType = "HLL_8"
  <1> DEFINE y == copy_or_downsample(x, k)
  <1>1. "HLL_8" \in TypeSet
    BY DEF TypeSet
  <1>2. CASE x.lgConfigK <= k
    <2>1. y = copyAs(x, "HLL_8")
      BY <1>2 DEF copy_or_downsample
    <2> HIDE DEF y
    <2> QED BY <1>1, <1>2, <2>1, CopyShows DEF y
  <1>3. CASE ~(x.lgConfigK <= k)
    <2> DEFINE a == newHll(k, "HLL_8", FALSE)
               m == mergeHll(a, x)
    <2>1. y = Recredited(m, x.hip, x.oooFlag)
      BY <1>3 DEF copy_or_downsample, Recredited
    <2>2. Shows(a, {}) /\ a.lgConfigK = k /\ a.tgtHllType = "HLL_8"
      BY <1>1, NewShows
    <2>3. k <= x.lgConfigK
      <3>1. x.lgConfigK \in 1 .. KeyBits /\ KeyBits \in Nat
        BY ShowsParts, TableAssumption
      <3> QED BY <1>3, <3>1
    <2> HIDE DEF a
    <2>4. Shows(m, {} \cup C) /\ Kin(m, a)
      BY <2>2, <2>3, MergeShows
    <2>5. {} \cup C = C
      OBVIOUS
    <2>6. Worth(x.hip, x.oooFlag, C, k)
      BY <2>3, ShownWorth
    <2> HIDE DEF m, y
    <2>7. m.lgConfigK = k /\ m.tgtHllType = "HLL_8" /\ Shows(m, C)
      BY <2>2, <2>4, <2>5 DEF Kin
    <2> QED BY <1>3, <2>1, <2>6, <2>7, RecreditedShows DEF y
  <1> QED BY <1>2, <1>3

\* An array is read back as it was saved, its exceptions in a new map.
LEMMA RestoreShows ==
  ASSUME NEW x, NEW C, Shows(x, C), NEW compact
  PROVE  Shows(RestoreHll(x, compact), C) /\ Kin(RestoreHll(x, compact), x)
  <1> DEFINE k == x.lgConfigK
             y == RestoreHll(x, compact)
             aux == IF x.aux.auxCount = 0 THEN NoAux ELSE RestoreAux(x.aux, k, compact)
  <1>1. PICK v : HllOK(x, v) /\ IsRegs(v, C, k)
    BY DEF Shows
  <1>2. HllRep(x, v) /\ Credit(x, v)
    BY <1>1 DEF HllOK
  <1>3. IsRecord(x) /\ k \in 1 .. KeyBits
    BY <1>2, HllParts
  <1>4. y = [x EXCEPT !.hip = IF x.oooFlag THEN 0 ELSE x.hip, !.aux = aux]
    BY DEF RestoreHll
  <1>5. (IF x.oooFlag THEN 0 ELSE x.hip) = x.hip
    BY <1>2 DEF Credit
  <1> HIDE DEF y, aux
  <1>6. /\ DOMAIN y = HllFields /\ y = [f \in DOMAIN y |-> y[f]] /\ y.aux = aux
        /\ \A f \in HllFields \ {"aux"} : y[f] = x[f]
    <2>1. "hip" \in HllFields /\ "aux" \in HllFields /\ "hip" # "aux"
      BY DEF HllFields
    <2> QED BY <1>3, <1>4, <1>5, <2>1 DEF IsRecord
  <1>7. AuxHolds(x.tgtHllType, k, x.curMin, aux, v)
    <2> DEFINE T == Tokens(x.tgtHllType, k, x.curMin, v)
               a == x.aux
    <2>1. IF T = {} THEN a = NoAux ELSE AuxOK(a, k, v, T)
      BY <1>2 DEF HllRep, AuxHolds
    <2>2. aux = IF a.auxCount = 0 THEN NoAux ELSE RestoreAux(a, k, compact)
      BY DEF aux
    <2> HIDE DEF T, a, k
    <2>3. CASE T = {}
      <3>1. a.auxCount = 0
        BY <2>1, <2>3 DEF NoAux
      <3> QED BY <2>2, <2>3, <3>1 DEF AuxHolds, T
    <2>4. CASE T # {}
      <3>1. AuxOK(a, k, v, T)
        BY <2>1, <2>4
      <3>2. a.auxCount = Cardinality(T) /\ IsFiniteSet(T)
        BY <1>3, <3>1, AuxFields
      <3>3. a.auxCount # 0
        BY <2>4, <3>2, FS_EmptySet
      <3>4. AuxOK(aux, k, v, T)
        BY <1>3, <2>2, <3>1, <3>3, AuxRestored
      <3> QED BY <2>4, <3>4 DEF AuxHolds, T
    <2> QED BY <2>3, <2>4
  <1>8. /\ y.mode = x.mode /\ y.lgConfigK = k /\ y.tgtHllType = x.tgtHllType
        /\ y.startFullSize = x.startFullSize /\ y.kxq0 = x.kxq0 /\ y.kxq1 = x.kxq1
        /\ y.curMin = x.curMin /\ y.numAtCurMin = x.numAtCurMin /\ y.bytes = x.bytes
        /\ y.ok = x.ok /\ y.hip = x.hip /\ y.oooFlag = x.oooFlag
    BY <1>6 DEF HllFields
  <1>9. Formed(y)
    BY <1>2, <1>6, <1>8 DEF HllRep, Formed
  <1>10. HllRep(y, v)
    BY <1>2, <1>6, <1>7, <1>8, <1>9 DEF HllRep
  <1>11. Credit(y, v)
    BY <1>2, <1>8 DEF Credit
  <1>12. HllOK(y, v)
    BY <1>1, <1>8, <1>10, <1>11 DEF HllOK
  <1> QED BY <1>1, <1>8, <1>12 DEF Shows, Kin, y

\* An array that isEmpty() shows nothing: merging it changes nothing.
LEMMA EmptyShows ==
  ASSUME NEW x, NEW C \in SUBSET Coupon, Shows(x, C), isEmpty(x)
  PROVE  C = {}
  <1> DEFINE k == x.lgConfigK
  <1>1. PICK v : HllOK(x, v) /\ IsRegs(v, C, k)
    BY DEF Shows
  <1>2. k \in 1 .. KeyBits /\ x.mode = "HLL"
    BY ShowsParts
  <1>3. x.curMin = 0 /\ x.numAtCurMin = 2^k
    BY <1>2 DEF isEmpty
  <1>4. Cardinality(At(v, k, 0)) = 2^k
    BY <1>1, <1>3 DEF HllOK, HllRep, MinOK
  <1> HIDE DEF k
  <1>5. At(v, k, 0) = 0 .. 2^k - 1
    <2>1. IsFiniteSet(0 .. 2^k - 1) /\ Cardinality(0 .. 2^k - 1) = 2^k
      BY <1>2, SlotsIn, FS_Interval
    <2>2. At(v, k, 0) \in SUBSET (0 .. 2^k - 1)
      BY DEF At
    <2> QED BY <1>4, <2>1, <2>2, FS_Subset
  <1>6. ASSUME NEW c \in C PROVE FALSE
    <2>1. SlotNo(c, k) \in 0 .. 2^k - 1 /\ getValue(c) \in 1 .. ValueMax
      BY <1>2, CouponSlot
    <2>2. v[SlotNo(c, k)] = 0
      BY <1>5, <2>1 DEF At
    <2>3. getValue(c) <= v[SlotNo(c, k)]
      BY <1>1 DEF IsRegs
    <2> QED BY <2>1, <2>2, <2>3
  <1> QED BY <1>6

(***************************************************************************)
(* Lists and sets of coupons.                                              *)
(***************************************************************************)
CouponFields ==
  {"mode", "lgConfigK", "tgtHllType", "startFullSize", "coupons", "couponCount", "aux", "ok"}

Small(x, mode) ==
  /\ DOMAIN x = CouponFields /\ x = [f \in DOMAIN x |-> x[f]]
  /\ x.mode = mode /\ x.lgConfigK \in 1 .. KeyBits /\ x.tgtHllType \in TypeSet
  /\ x.startFullSize = FALSE /\ x.aux = NoAux /\ x.ok = TRUE

\* A list is filled from the front.
FilledTo(t, m, n) ==
  /\ t \in [0 .. n - 1 -> Coupon \cup {EMPTY}]
  /\ \A i \in 0 .. n - 1 : t[i] # EMPTY <=> i < m

ListOK(x, C) ==
  /\ Small(x, "LIST") /\ IsFiniteSet(C) /\ Entries(x.coupons) = C
  /\ x.couponCount = Cardinality(C) /\ x.couponCount < 2^LgInitListSize
  /\ FilledTo(x.coupons, x.couponCount, 2^LgInitListSize)

SetIn(x, C, lg) ==
  /\ Small(x, "SET") /\ lg \in Nat
  /\ LgInitSetSize <= lg /\ lg <= x.lgConfigK - SetSlack
  /\ CouponTable(x.coupons, lg) /\ Entries(x.coupons) = C
  /\ x.couponCount = Cardinality(C)

SetOK(x, C) == \E lg \in Nat : SetIn(x, C, lg) /\ 4 * x.couponCount <= 3 * 2^lg

\* What holds of a sketch, whatever it has become, that was given C.
SketchOK(x, C) == ListOK(x, C) \/ SetOK(x, C) \/ Shows(x, C)

Same(y, x) == y.lgConfigK = x.lgConfigK /\ y.tgtHllType = x.tgtHllType

Refilled(x, t, n) == [x EXCEPT !.coupons = t, !.couponCount = n]

\* The fields of a list or a set with other coupons.
LEMMA RefilledIs ==
  ASSUME NEW x, NEW mode, Small(x, mode), NEW t, NEW n
  PROVE  /\ Small(Refilled(x, t, n), mode) /\ Same(Refilled(x, t, n), x)
         /\ Refilled(x, t, n).coupons = t /\ Refilled(x, t, n).couponCount = n
  <1> DEFINE y == Refilled(x, t, n)
  <1>1. DOMAIN x = CouponFields /\ x = [f \in DOMAIN x |-> x[f]]
    BY DEF Small
  <1>2. "coupons" \in CouponFields /\ "couponCount" \in CouponFields
    BY DEF CouponFields
  <1>3. /\ DOMAIN y = CouponFields /\ y = [f \in DOMAIN y |-> y[f]]
        /\ y.coupons = t /\ y.couponCount = n
        /\ \A f \in CouponFields \ {"coupons", "couponCount"} : y[f] = x[f]
    BY <1>1, <1>2 DEF Refilled
  <1> HIDE DEF y
  <1>4. /\ y.mode = x.mode /\ y.lgConfigK = x.lgConfigK /\ y.tgtHllType = x.tgtHllType
        /\ y.startFullSize = x.startFullSize /\ y.aux = x.aux /\ y.ok = x.ok
    BY <1>3 DEF CouponFields
  <1>5. Small(y, mode)
    BY <1>3, <1>4 DEF Small
  <1> QED BY <1>3, <1>4, <1>5 DEF Same, y

LEMMA FillIs ==
  ASSUME NEW x, NEW mode, Small(x, mode), NEW slot, NEW c
  PROVE  Fill(x, slot, c) = Refilled(x, [x.coupons EXCEPT ![slot] = c], x.couponCount + 1)
  BY DEF Fill, Refilled

\* The size of a set is the power of two it was made with.
LEMMA SetSizeIs ==
  ASSUME NEW x, NEW C, NEW lg, SetIn(x, C, lg)
  PROVE  /\ Size(x) = 2^lg /\ lg \in Nat /\ 2^lg \in Nat /\ 2^lg > 0
         /\ Min({l \in 0 .. Size(x) : 2^l = Size(x)}) = lg
  <1>1. lg \in Nat /\ CouponTable(x.coupons, lg)
    BY DEF SetIn
  <1>2. Size(x) = 2^lg /\ 2^lg \in Nat /\ 2^lg > 0
    BY <1>1, CouponTableIs DEF Size
  <1> DEFINE S == {l \in 0 .. Size(x) : 2^l = Size(x)}
  <1>3. S = {lg}
    <2>1. lg \in 0 .. 2^lg
      BY <1>1, <1>2, PowerBeyond
    <2>2. ASSUME NEW l \in 0 .. 2^lg, 2^l = 2^lg PROVE l = lg
      <3>1. l \in Nat
        BY <1>2
      <3>2. l < lg => 2^l < 2^lg
        BY <1>1, <3>1, PowerMonotone
      <3>3. lg < l => 2^lg < 2^l
        BY <1>1, <3>1, PowerMonotone
      <3> QED BY <1>1, <1>2, <2>2, <3>1, <3>2, <3>3
    <2> QED BY <1>2, <2>1, <2>2
  <1>4. Min({lg}) = lg
    BY <1>1 DEF Min
  <1> HIDE DEF S
  <1>5. Min(S) = lg
    BY <1>3, <1>4
  <1> QED BY <1>1, <1>2, <1>5 DEF S

\* A coupon goes into a set; the set grows unless it is at its maximum.
LEMMA SetInsertIs ==
  ASSUME NEW x, NEW C, NEW lg, SetIn(x, C, lg), 4 * x.couponCount <= 3 * 2^lg,
         NEW c \in Coupon
  PROVE  /\ c \in C => SetInsert(x, c) = x
         /\ c \notin C =>
              /\ SetInsert(x, c) # x /\ Same(SetInsert(x, c), x)
              /\ \E l \in Nat : /\ SetIn(SetInsert(x, c), C \cup {c}, l)
                                /\ \/ 4 * SetInsert(x, c).couponCount <= 3 * 2^l
                                   \/ l = x.lgConfigK - SetSlack
  <1> DEFINE t == x.coupons
             k == x.lgConfigK
             count == x.couponCount
             slot == FindCoupon(t, lg, c)
             u == CouponPut(t, lg, c)
             filled == Refilled(x, u, count + 1)
             grown == Refilled(x, Rehash(u, lg + 1), count + 1)
             y == SetInsert(x, c)
  <1>1. /\ Small(x, "SET") /\ lg \in Nat /\ CouponTable(t, lg) /\ Entries(t) = C
        /\ LgInitSetSize <= lg /\ lg <= k - SetSlack
        /\ count = Cardinality(C)
    BY DEF SetIn
  <1>2. k \in Nat /\ SetSlack \in Nat /\ LgInitSetSize \in Nat /\ LgInitSetSize > 0
    <2>1. k \in 1 .. KeyBits
      BY <1>1 DEF Small
    <2> QED BY <2>1, SlotsIn, SketchAssumption, TableAssumption
  <1>3. 2^lg \in Nat /\ 2^lg > 0 /\ Size(x) = 2^lg /\ Min({l \in 0 .. Size(x) : 2^l = Size(x)}) = lg
    BY SetSizeIs
  <1>4. IsFiniteSet(C) /\ count \in Nat /\ C \subseteq Coupon
    BY <1>1, CouponTableIs, FS_CardinalityType
  <1>5. Fill(x, slot, c) = filled
    BY <1>1, FillIs DEF CouponPut
  <1>6. /\ Small(filled, "SET") /\ Same(filled, x)
        /\ filled.coupons = u /\ filled.couponCount = count + 1
    <2> HIDE DEF u
    <2> QED BY <1>1, RefilledIs
  <1>7. /\ Small(grown, "SET") /\ Same(grown, x)
        /\ grown.coupons = Rehash(u, lg + 1) /\ grown.couponCount = count + 1
    <2> HIDE DEF u
    <2> QED BY <1>1, RefilledIs
  <1>8. [filled EXCEPT !.coupons = Rehash(filled.coupons, lg + 1)] = grown
    <2> HIDE DEF u
    <2> QED BY <1>6 DEF Refilled
  <1> HIDE DEF filled
  <1>9. y = IF slot = -1 THEN [x EXCEPT !.ok = FALSE]
            ELSE IF t[slot] = c THEN x
            ELSE IF Overfull(filled) /\ ~AtMaximum(filled) THEN grown ELSE filled
    <2>1. AtMaximum(filled) = AtMaximum(x)
      <3>1. DOMAIN u = DOMAIN t
        BY DEF CouponPut
      <3> HIDE DEF u
      <3> QED BY <1>6, <3>1 DEF AtMaximum, Size, Same
    <2> HIDE DEF u, slot, grown
    <2> QED BY <1>3, <1>5, <1>8, <2>1 DEF SetInsert, slot
  <1>10. /\ c \in C => slot \in 0 .. 2^lg - 1 /\ t[slot] = c
         /\ c \notin C /\ Cardinality(C) < 2^lg =>
              /\ slot \in 0 .. 2^lg - 1 /\ t[slot] = EMPTY
              /\ CouponTable(u, lg) /\ Entries(u) = C \cup {c}
    <2>1. lg \in Nat /\ CouponTable(t, lg) /\ Entries(t) = C
      BY <1>1
    <2> HIDE DEF t
    <2>2. /\ c \in Entries(t) => slot \in 0 .. 2^lg - 1 /\ t[slot] = c
          /\ c \notin Entries(t) /\ Cardinality(Entries(t)) < 2^lg =>
               /\ slot \in 0 .. 2^lg - 1 /\ t[slot] = EMPTY
               /\ CouponTable(u, lg) /\ Entries(u) = Entries(t) \cup {c}
      BY <2>1, FindCouponIs
    <2> HIDE DEF u, slot
    <2> QED BY <2>1, <2>2
  <1> HIDE DEF u, slot, y, t, grown
  <1>11. CASE c \in C
    <2>1. slot # -1 /\ t[slot] = c
      BY <1>3, <1>10, <1>11
    <2> QED BY <1>9, <1>11, <2>1 DEF y
  <1>12. CASE c \notin C
    <2>1. Cardinality(C) < 2^lg
      BY <1>1, <1>3, <1>4 DEF count
    <2>2. slot # -1 /\ t[slot] # c
      BY <1>3, <1>10, <1>12, <2>1, CouponIs
    <2>3. CouponTable(u, lg) /\ Entries(u) = C \cup {c}
      BY <1>10, <1>12, <2>1
    <2>4. Cardinality(C \cup {c}) = count + 1
      BY <1>1, <1>4, <1>12, FS_AddElement
    <2>5. 2^(lg + 1) = 2 * 2^lg /\ lg + 1 \in Nat
      BY <1>1, PowerIs
    <2>6. 4 * count <= 3 * 2^lg /\ 2^lg >= 2
      <3>1. 1 <= lg /\ 2^1 = 2
        <4>1. 2^(0 + 1) = 2 * 2^0 /\ 2^0 = 1
          BY PowerIs, SmallPowers
        <4> QED BY <1>1, <1>2, <4>1
      <3>2. 2^1 <= 2^lg
        BY <1>1, <3>1, PowerMonotone
      <3> QED BY <3>1, <3>2
    <2>7. SetIn(filled, C \cup {c}, lg)
      BY <1>1, <1>6, <2>3, <2>4 DEF SetIn, Same
    <2>8. Size(filled) = 2^lg
      BY <2>7, SetSizeIs
    <2>9. Overfull(filled) <=> 4 * (count + 1) > 3 * 2^lg
      BY <1>6, <2>8 DEF Overfull
    <2>10. CASE Overfull(filled) /\ ~AtMaximum(filled)
      <3>1. y = grown
        BY <1>9, <2>2, <2>10
      <3>2. lg # k - SetSlack
        BY <1>6, <2>8, <2>10 DEF AtMaximum, Same
      <3>3. lg + 1 <= k - SetSlack /\ LgInitSetSize <= lg + 1
        BY <1>1, <1>2, <3>2
      <3>4. Cardinality(Entries(u)) < 2^(lg + 1)
        BY <1>3, <1>4, <2>3, <2>4, <2>5, <2>6
      <3>5. CouponTable(Rehash(u, lg + 1), lg + 1) /\ Entries(Rehash(u, lg + 1)) = C \cup {c}
        BY <1>1, <2>3, <2>5, <3>4, RehashIs
      <3>6. SetIn(grown, C \cup {c}, lg + 1)
        BY <1>7, <2>4, <2>5, <3>3, <3>5 DEF SetIn, Same
      <3>7. 4 * grown.couponCount <= 3 * 2^(lg + 1)
        BY <1>3, <1>4, <1>7, <2>5, <2>6
      <3>8. grown # x
        BY <1>4, <1>7
      <3> HIDE DEF k
      <3> QED BY <1>7, <1>12, <2>5, <3>1, <3>6, <3>7, <3>8 DEF y
    <2>11. CASE ~(Overfull(filled) /\ ~AtMaximum(filled))
      <3>1. y = filled
        BY <1>9, <2>2, <2>11
      <3>2. filled # x
        BY <1>4, <1>6
      <3>3. 4 * filled.couponCount <= 3 * 2^lg \/ AtMaximum(filled)
        BY <1>3, <1>4, <1>6, <2>9, <2>11
      <3>4. AtMaximum(filled) => lg = k - SetSlack
        <4>1. SUFFICES ASSUME 2^lg = 2^(k - SetSlack) PROVE lg = k - SetSlack
          BY <1>6, <2>8 DEF AtMaximum, Same
        <4> DEFINE m == k - SetSlack
        <4>2. m \in Nat /\ lg <= m
          BY <1>1, <1>2
        <4>3. lg < m => 2^lg < 2^m
          <5> HIDE DEF m
          <5> QED BY <1>1, <4>2, PowerMonotone
        <4> QED BY <1>1, <1>3, <4>1, <4>2, <4>3
      <3> HIDE DEF k
      <3> QED BY <1>1, <1>6, <1>12, <2>7, <3>1, <3>2, <3>3, <3>4 DEF y, k
    <2> QED BY <2>10, <2>11
  <1> QED BY <1>11, <1>12

\* A list or a set becomes an array that shows its coupons, credited with
\* their number.
LEMMA PromoteIs ==
  ASSUME NEW x, NEW mode, Small(x, mode), NEW C \in SUBSET Coupon, IsFiniteSet(C),
         Entries(x.coupons) = C, x.couponCount = Cardinality(C),
         NEW n \in Nat, DOMAIN x.coupons = 0 .. n - 1
  PROVE  Shows(promoteListOrSetToHll(x), C) /\ Same(promoteListOrSetToHll(x), x)
  <1> DEFINE k == x.lgConfigK
             a == newHll(k, x.tgtHllType, FALSE)
             m == UpdateAll(a, x.coupons)
             y == Recredited(m, x.couponCount, FALSE)
  <1>1. k \in 1 .. KeyBits /\ x.tgtHllType \in TypeSet
    BY DEF Small
  <1>2. Shows(a, {}) /\ a.lgConfigK = k /\ a.tgtHllType = x.tgtHllType
    BY <1>1, NewShows
  <1> HIDE DEF a
  <1>3. Shows(m, {} \cup C) /\ Kin(m, a)
    BY <1>2, UpdateAllShows
  <1>4. {} \cup C = C
    OBVIOUS
  <1> HIDE DEF m
  <1>5. m.lgConfigK = k /\ m.tgtHllType = x.tgtHllType /\ Shows(m, C) /\ IsRecord(m)
    BY <1>2, <1>3, <1>4, ShowsParts DEF Kin
  <1>6. Worth(x.couponCount, FALSE, C, k)
    <2>1. x.couponCount \in Nat
      BY FS_CardinalityType
    <2>2. ASSUME NEW v, IsRegs(v, C, k) PROVE x.couponCount >= Cardinality(Nonzero(v))
      <3> HIDE DEF k
      <3>1. Cardinality(Nonzero(v)) <= Cardinality(C)
        BY <1>1, <2>2, RegsCount
      <3>2. Cardinality(Nonzero(v)) \in Nat
        <4>1. IsFiniteSet(0 .. 2^k - 1)
          BY <1>1, SlotsIn, FS_Interval
        <4>2. Nonzero(v) \in SUBSET (0 .. 2^k - 1)
          BY <2>2 DEF Nonzero, IsRegs
        <4> QED BY <4>1, <4>2, FS_Subset, FS_CardinalityType
      <3> QED BY <2>1, <3>1, <3>2
    <2> QED BY <2>1, <2>2 DEF Worth
  <1>7. Shows(y, C) /\ y.lgConfigK = k /\ y.tgtHllType = x.tgtHllType
    <2> DEFINE hip == x.couponCount
               off == FALSE
    <2>1. Worth(hip, off, C, m.lgConfigK)
      BY <1>5, <1>6
    <2> HIDE DEF hip, k, off
    <2>2. /\ Shows(Recredited(m, hip, off), C)
          /\ Recredited(m, hip, off).lgConfigK = m.lgConfigK
          /\ Recredited(m, hip, off).tgtHllType = m.tgtHllType
      BY <1>5, <2>1, RecreditedShows
    <2> QED BY <1>5, <2>2 DEF hip, off
  <1>8. [m EXCEPT !.hip = x.couponCount, !.oooFlag = FALSE] = y
    BY DEF Recredited
  <1> HIDE DEF y
  <1>9. promoteListOrSetToHll(x) = y
    BY <1>8 DEF promoteListOrSetToHll, m, a, UpdateAll
  <1> QED BY <1>7, <1>9 DEF Same

\* A set has finitely many coupons.
LEMMA SetFinite ==
  ASSUME NEW x, NEW C, NEW lg, SetIn(x, C, lg)
  PROVE  /\ IsFiniteSet(C) /\ C \in SUBSET Coupon /\ x.couponCount \in Nat
         /\ DOMAIN x.coupons = 0 .. 2^lg - 1 /\ 2^lg \in Nat /\ lg \in Nat
         /\ Size(x) = 2^lg
  <1>1. lg \in Nat /\ CouponTable(x.coupons, lg) /\ Entries(x.coupons) = C
    BY DEF SetIn
  <1>2. IsFiniteSet(C) /\ C \in SUBSET Coupon /\ DOMAIN x.coupons = 0 .. 2^lg - 1 /\ 2^lg \in Nat
    BY <1>1, CouponTableIs
  <1>3. x.couponCount \in Nat
    BY <1>2, FS_CardinalityType DEF SetIn
  <1> QED BY <1>1, <1>2, <1>3, SetSizeIs

\* A coupon in a set: the set takes it, grows, or becomes an array.
LEMMA SetUpdateIs ==
  ASSUME NEW x, NEW C, SetOK(x, C), NEW c \in Coupon
  PROVE  SketchOK(SetUpdate(x, c), C \cup {c}) /\ Same(SetUpdate(x, c), x)
  <1> DEFINE y == SetInsert(x, c)
             z == SetUpdate(x, c)
  <1>1. PICK lg \in Nat : SetIn(x, C, lg) /\ 4 * x.couponCount <= 3 * 2^lg
    BY DEF SetOK
  <1>2. z = IF y # x /\ Overfull(y) THEN promoteListOrSetToHll(y) ELSE y
    BY DEF SetUpdate
  <1>3. CASE c \in C
    <2>1. y = x
      BY <1>1, <1>3, SetInsertIs
    <2>2. z = x /\ C \cup {c} = C
      BY <1>2, <1>3, <2>1
    <2> QED BY <2>2 DEF SketchOK, Same
  <1>4. CASE c \notin C
    <2>1. /\ Same(y, x)
          /\ \E l \in Nat : SetIn(y, C \cup {c}, l)
      BY <1>1, <1>4, SetInsertIs
    <2>2. PICK l \in Nat : SetIn(y, C \cup {c}, l)
      BY <2>1
    <2> HIDE DEF y, z
    <2>3. /\ IsFiniteSet(C \cup {c}) /\ C \cup {c} \in SUBSET Coupon /\ y.couponCount \in Nat
          /\ DOMAIN y.coupons = 0 .. 2^l - 1 /\ 2^l \in Nat /\ Size(y) = 2^l
      BY <2>2, SetFinite
    <2>4. CASE Overfull(y) /\ y # x
      <3>1. /\ Small(y, "SET") /\ Entries(y.coupons) = C \cup {c}
            /\ y.couponCount = Cardinality(C \cup {c})
        BY <2>2 DEF SetIn
      <3>2. Shows(z, C \cup {c}) /\ Same(z, y)
        BY <1>2, <2>3, <2>4, <3>1, PromoteIs
      <3> QED BY <2>1, <3>2 DEF SketchOK, Same, z
    <2>5. CASE ~(Overfull(y) /\ y # x)
      <3>1. z = y
        BY <1>2, <2>5
      <3>2. y # x
        BY <1>1, <1>4, SetInsertIs DEF y
      <3>3. 4 * y.couponCount <= 3 * 2^l
        BY <2>3, <2>5, <3>2 DEF Overfull
      <3>4. SetOK(z, C \cup {c})
        BY <2>2, <3>1, <3>3 DEF SetOK
      <3> QED BY <2>1, <3>1, <3>4 DEF SketchOK, z
    <2> QED BY <2>4, <2>5
  <1> QED BY <1>3, <1>4

\* The coupons of a table go into a set that is large enough for them.
LEMMA InsertAllIs ==
  ASSUME NEW x, NEW C, SetOK(x, C), NEW t, NEW n \in Nat, DOMAIN t = 0 .. n - 1,
         Entries(t) \in SUBSET Coupon, IsFiniteSet(Entries(t)),
         4 * Cardinality(C \cup Entries(t)) <= 3 * 2^(x.lgConfigK - SetSlack)
  PROVE  SetOK(InsertAll(x, t), C \cup Entries(t)) /\ Same(InsertAll(x, t), x)
  <1>1. PICK f : IsLoop(f, 5, 0, 0, x, t, n) /\ f[n] = InsertAll(x, t)
    BY InsertLoop
  <1>2. /\ f[0] = x
        /\ \A i \in 0 .. n - 1 : /\ t[i] = EMPTY => f[i + 1] = f[i]
                                 /\ t[i] # EMPTY => f[i + 1] = SetInsert(f[i], t[i])
    <2>1. \A y, e : Round(5, 0, 0, y, e) = SetInsert(y, e)
      BY DEF Round
    <2>2. /\ f[0] = x
          /\ \A i \in 0 .. n - 1 : /\ t[i] = EMPTY => f[i + 1] = f[i]
                                   /\ t[i] # EMPTY => f[i + 1] = Round(5, 0, 0, f[i], t[i])
      BY <1>1, LoopRounds
    <2> QED BY <2>1, <2>2
  <1>3. /\ Before(t, 0) = {} /\ Before(t, n) = Entries(t)
        /\ \A i \in 0 .. n - 1 :
             Before(t, i + 1) = IF t[i] = EMPTY THEN Before(t, i) ELSE Before(t, i) \cup {t[i]}
        /\ \A i \in 0 .. n : Before(t, i) \subseteq Entries(t)
        /\ \A i \in 0 .. n - 1 : t[i] # EMPTY => t[i] \in Entries(t)
    BY BeforeIs
  <1> DEFINE most == 2^(x.lgConfigK - SetSlack)
             T == {i \in 0 .. n : SetOK(f[i], C \cup Before(t, i)) /\ Same(f[i], x)}
  <1>4. IsFiniteSet(C \cup Entries(t)) /\ Cardinality(C \cup Entries(t)) \in Nat
    <2>1. IsFiniteSet(C)
      BY SetFinite DEF SetOK
    <2> QED BY <2>1, FS_Union, FS_CardinalityType
  <1>5. 0 \in T
    <2>1. C \cup {} = C /\ 0 \in 0 .. n
      OBVIOUS
    <2> QED BY <1>2, <1>3, <2>1 DEF Same
  <1>6. ASSUME NEW i \in 0 .. n - 1, i \in T PROVE i + 1 \in T
    <2> DEFINE p == f[i]
               q == f[i + 1]
               B == Before(t, i)
               e == t[i]
               D == C \cup B
    <2>1. SetOK(p, D) /\ Same(p, x) /\ i \in 0 .. n /\ i + 1 \in 0 .. n
      BY <1>6
    <2>2. CASE e = EMPTY
      <3>1. q = p /\ Before(t, i + 1) = B
        BY <1>2, <1>3, <2>2
      <3> QED BY <2>1, <3>1
    <2>3. CASE e # EMPTY
      <3>1. q = SetInsert(p, e) /\ Before(t, i + 1) = B \cup {e} /\ e \in Coupon
        BY <1>2, <1>3, <2>3
      <3>2. D \cup {e} = C \cup Before(t, i + 1)
        BY <3>1
      <3>3. D \cup {e} \in SUBSET (C \cup Entries(t))
        BY <1>3, <2>3, <3>1
      <3>4. Cardinality(D \cup {e}) <= Cardinality(C \cup Entries(t))
        BY <1>4, <3>3, FS_Subset
      <3>5. IsFiniteSet(D \cup {e}) /\ Cardinality(D \cup {e}) \in Nat
        BY <1>4, <3>3, FS_Subset, FS_CardinalityType
      <3> HIDE DEF p, q, e, D
      <3>6. PICK lg \in Nat : SetIn(p, D, lg) /\ 4 * p.couponCount <= 3 * 2^lg
        BY <2>1 DEF SetOK
      <3>7. SetOK(q, D \cup {e}) /\ Same(q, p)
        <4>1. CASE e \in D
          <5>1. D \cup {e} = D
            BY <4>1
          <5>2. q = p
            BY <3>1, <3>6, <4>1, SetInsertIs
          <5> QED BY <2>1, <5>1, <5>2 DEF Same
        <4>2. CASE e \notin D
          <5>1. /\ Same(q, p)
                /\ \E l \in Nat : /\ SetIn(q, D \cup {e}, l)
                                  /\ 4 * q.couponCount <= 3 * 2^l \/ l = p.lgConfigK - SetSlack
            BY <3>1, <3>6, <4>2, SetInsertIs
          <5>2. PICK l \in Nat : /\ SetIn(q, D \cup {e}, l)
                                 /\ 4 * q.couponCount <= 3 * 2^l \/ l = p.lgConfigK - SetSlack
            BY <5>1
          <5>3. q.couponCount = Cardinality(D \cup {e})
            BY <5>2 DEF SetIn
          <5>4. l = p.lgConfigK - SetSlack => 2^l = most
            BY <2>1 DEF Same
          <5>5. 2^l \in Nat
            BY <5>2, PowerIs
          <5> HIDE DEF most
          <5>6. 4 * Cardinality(C \cup Entries(t)) <= 3 * most
            BY DEF most
          <5>7. 4 * q.couponCount <= 3 * 2^l
            BY <1>4, <3>4, <3>5, <5>2, <5>3, <5>4, <5>5, <5>6
          <5> QED BY <5>1, <5>2, <5>7 DEF SetOK
        <4> QED BY <4>1, <4>2
      <3>8. Same(q, x)
        BY <2>1, <3>7 DEF Same
      <3>9. SetOK(q, C \cup Before(t, i + 1))
        BY <3>2, <3>7
      <3> QED BY <2>1, <3>8, <3>9 DEF q
    <2> QED BY <2>2, <2>3
  <1>7. n \in T
    <2> HIDE DEF T
    <2>1. \A i \in 0 .. n : i \in T
      BY <1>5, <1>6, Rounds
    <2> QED BY <2>1
  <1> QED BY <1>1, <1>3, <1>7

\* A new set, in a sketch that is large enough for one.
LEMMA NewSetIs ==
  ASSUME NEW k \in 1 .. KeyBits, NEW type \in TypeSet, k >= MinSetLgK
  PROVE  /\ SetOK(newSet(k, type), {})
         /\ newSet(k, type).lgConfigK = k /\ newSet(k, type).tgtHllType = type
         /\ Small(newSet(k, type), "SET")
  <1> DEFINE x == newSet(k, type)
             lg == LgInitSetSize
  <1>1. lg \in Nat /\ SetSlack \in Nat /\ k \in Nat
    BY TableAssumption, SketchAssumption, SlotsIn
  <1>2. /\ DOMAIN x = CouponFields /\ x = [f \in DOMAIN x |-> x[f]]
        /\ x.mode = "SET" /\ x.lgConfigK = k /\ x.tgtHllType = type
        /\ x.startFullSize = FALSE /\ x.coupons = NewTable(lg) /\ x.couponCount = 0
        /\ x.aux = NoAux /\ x.ok = TRUE
    BY DEF newSet, Coupons, CouponFields
  <1> HIDE DEF x
  <1>3. Small(x, "SET")
    BY <1>2 DEF Small
  <1>4. CouponTable(NewTable(lg), lg) /\ Entries(NewTable(lg)) = {}
    BY <1>1, NewCouponTable
  <1>5. lg <= lg /\ lg <= k - SetSlack
    BY <1>1 DEF MinSetLgK
  <1>6. Cardinality({}) = 0 /\ 2^lg \in Nat
    BY <1>1, FS_EmptySet, PowerIs
  <1> HIDE DEF lg
  <1>7. SetIn(x, {}, lg)
    <2>1. CouponTable(x.coupons, lg) /\ Entries(x.coupons) = {}
      BY <1>2, <1>4
    <2>2. x.couponCount = Cardinality({})
      BY <1>2, <1>6
    <2>3. LgInitSetSize <= lg /\ lg <= x.lgConfigK - SetSlack
      BY <1>2, <1>5 DEF lg
    <2> QED BY <1>1, <1>3, <2>1, <2>2, <2>3 DEF SetIn
  <1>8. 4 * x.couponCount <= 3 * 2^lg
    BY <1>2, <1>6
  <1> QED BY <1>1, <1>2, <1>3, <1>7, <1>8 DEF SetOK, x

\* A new list.
LEMMA NewListIs ==
  ASSUME NEW k \in 1 .. KeyBits, NEW type \in TypeSet
  PROVE  /\ ListOK(newList(k, type), {})
         /\ newList(k, type).lgConfigK = k /\ newList(k, type).tgtHllType = type
  <1> DEFINE x == newList(k, type)
             n == 2^LgInitListSize
             t == NewTable(LgInitListSize)
  <1>1. /\ DOMAIN x = CouponFields /\ x = [f \in DOMAIN x |-> x[f]]
        /\ x.mode = "LIST" /\ x.lgConfigK = k /\ x.tgtHllType = type
        /\ x.startFullSize = FALSE /\ x.coupons = t /\ x.couponCount = 0
        /\ x.aux = NoAux /\ x.ok = TRUE
    BY DEF newList, Coupons, CouponFields
  <1>2. n \in Nat /\ n > 0
    BY SketchAssumption, PowerIs
  <1>3. t = [i \in 0 .. n - 1 |-> EMPTY]
    BY DEF NewTable
  <1> HIDE DEF x, t, n
  <1>4. Small(x, "LIST")
    BY <1>1 DEF Small
  <1>5. Entries(t) = {}
    BY <1>3 DEF Entries
  <1>6. FilledTo(t, 0, n)
    <2>1. \A i \in 0 .. n - 1 : t[i] = EMPTY /\ ~(i < 0)
      BY <1>3
    <2> QED BY <1>3, <2>1 DEF FilledTo
  <1>7. ListOK(x, {})
    BY <1>1, <1>2, <1>4, <1>5, <1>6, FS_EmptySet DEF ListOK, n
  <1> QED BY <1>1, <1>7 DEF x

\* A coupon goes to the end of a list; a full list becomes a set or an array.
LEMMA ListUpdateIs ==
  ASSUME NEW x, NEW C, ListOK(x, C), NEW c \in Coupon
  PROVE  SketchOK(ListUpdate(x, c), C \cup {c}) /\ Same(ListUpdate(x, c), x)
  <1> DEFINE t == x.coupons
             k == x.lgConfigK
             m == x.couponCount
             n == 2^LgInitListSize
             stops == {i \in DOMAIN t : t[i] \in {EMPTY, c}}
             j == Min(stops)
             u == [t EXCEPT ![m] = c]
             filled == Refilled(x, u, m + 1)
             y == ListUpdate(x, c)
             D == C \cup {c}
  <1>1. /\ Small(x, "LIST") /\ IsFiniteSet(C) /\ Entries(t) = C
        /\ m = Cardinality(C) /\ m < n
        /\ t \in [0 .. n - 1 -> Coupon \cup {EMPTY}]
        /\ \A i \in 0 .. n - 1 : t[i] # EMPTY <=> i < m
    BY DEF ListOK, FilledTo
  <1>2. n \in Nat /\ m \in Nat /\ k \in 1 .. KeyBits /\ c # EMPTY /\ x.tgtHllType \in TypeSet
    BY <1>1, SketchAssumption, PowerIs, FS_CardinalityType, CouponIs DEF Small
  <1>3. C \in SUBSET Coupon /\ D \in SUBSET Coupon
    BY <1>1 DEF Entries
  <1> HIDE DEF t, m, n, y, k
  <1>4. m \in 0 .. n - 1 /\ t[m] = EMPTY /\ DOMAIN t = 0 .. n - 1
    BY <1>1, <1>2
  <1>5. j \in stops /\ j <= m /\ j \in 0 .. n - 1
    <2>1. m \in stops /\ stops \in SUBSET Nat
      BY <1>2, <1>4
    <2> HIDE DEF stops
    <2>2. j \in stops /\ j <= m
      BY <2>1, MinExists
    <2> QED BY <1>4, <2>2 DEF stops
  <1>6. y = IF stops = {} THEN [x EXCEPT !.ok = FALSE]
            ELSE IF t[j] = c THEN x
            ELSE LET f == Fill(x, j, c)
                 IN  IF f.couponCount < Size(x) THEN f
                     ELSE IF k < MinSetLgK THEN promoteListOrSetToHll(f)
                     ELSE promoteListToSet(f)
    BY DEF ListUpdate, y, t, k
  <1>7. Size(x) = n
    <2>1. Cardinality(0 .. n - 1) = n
      BY <1>2, FS_Interval
    <2> QED BY <1>4, <2>1 DEF Size, t
  <1>8. CASE c \in C
    <2>1. PICK i \in 0 .. n - 1 : t[i] = c
      BY <1>1, <1>4, <1>8 DEF Entries
    <2>2. i < m /\ i \in stops /\ stops \in SUBSET Nat
      BY <1>1, <1>2, <1>4, <2>1
    <2>3. j <= i
      <3> HIDE DEF stops
      <3> QED BY <2>2, MinExists
    <2>4. t[j] # EMPTY
      BY <1>1, <1>2, <1>5, <2>2, <2>3
    <2>5. t[j] = c
      BY <1>5, <2>4
    <2>6. y = x /\ D = C
      BY <1>5, <1>6, <1>8, <2>5
    <2> QED BY <2>6 DEF SketchOK, Same, y
  <1>9. CASE c \notin C
    <2>1. t[j] # c
      BY <1>1, <1>2, <1>4, <1>5, <1>9 DEF Entries
    <2>2. t[j] = EMPTY
      BY <1>5, <2>1
    <2>3. j = m
      BY <1>1, <1>2, <1>5, <2>2
    <2>4. Fill(x, j, c) = filled
      BY <1>1, <2>3, FillIs DEF t, m
    <2>5. /\ Small(filled, "LIST") /\ Same(filled, x)
          /\ filled.coupons = u /\ filled.couponCount = m + 1
      <3> HIDE DEF u
      <3> QED BY <1>1, RefilledIs
    <2>6. y = IF m + 1 < n THEN filled
              ELSE IF k < MinSetLgK THEN promoteListOrSetToHll(filled)
              ELSE promoteListToSet(filled)
      <3> HIDE DEF filled, stops
      <3> QED BY <1>5, <1>6, <1>7, <2>1, <2>4, <2>5
    <2>7. Entries(u) = D
      <3>1. m \in DOMAIN t /\ t = [i \in DOMAIN t |-> t[i]] /\ t[m] = EMPTY
        BY <1>1, <1>4
      <3> HIDE DEF D, stops
      <3>2. Entries([t EXCEPT ![m] = c]) = Entries(t) \cup {c}
        BY <1>2, <3>1, EntriesPut
      <3> QED BY <1>1, <3>2 DEF D
    <2>8. FilledTo(u, m + 1, n)
      <3>1. u \in [0 .. n - 1 -> Coupon \cup {EMPTY}]
        BY <1>1
      <3>2. ASSUME NEW i \in 0 .. n - 1 PROVE u[i] # EMPTY <=> i < m + 1
        BY <1>1, <1>2, <1>4
      <3> QED BY <3>1, <3>2 DEF FilledTo
    <2>9. IsFiniteSet(D) /\ Cardinality(D) = m + 1
      BY <1>1, <1>9, FS_AddElement
    <2>10. DOMAIN u = 0 .. n - 1
      BY <1>4
    <2> HIDE DEF u, filled, D
    <2>11. CASE m + 1 < n
      <3>1. y = filled
        BY <2>6, <2>11
      <3>2. ListOK(filled, D)
        BY <2>5, <2>7, <2>8, <2>9, <2>11 DEF ListOK, n
      <3> QED BY <2>5, <3>1, <3>2 DEF SketchOK, y, D
    <2>12. CASE ~(m + 1 < n) /\ k < MinSetLgK
      <3>1. y = promoteListOrSetToHll(filled)
        BY <2>6, <2>12
      <3>2. Entries(filled.coupons) = D /\ filled.couponCount = Cardinality(D)
            /\ DOMAIN filled.coupons = 0 .. n - 1
        BY <2>5, <2>7, <2>9, <2>10
      <3>3. Shows(y, D) /\ Same(y, filled)
        BY <1>2, <1>3, <2>5, <2>9, <3>1, <3>2, PromoteIs
      <3> QED BY <2>5, <3>3 DEF SketchOK, Same, y, D
    <2>13. CASE ~(m + 1 < n) /\ ~(k < MinSetLgK)
      <3> DEFINE s == newSet(k, x.tgtHllType)
      <3>1. y = InsertAll(s, u)
        BY <2>5, <2>6, <2>13 DEF promoteListToSet, InsertAll, Same, k
      <3>2. k >= MinSetLgK /\ k \in Nat /\ SetSlack \in Nat /\ LgInitSetSize \in Nat
        BY <1>2, <2>13, SlotsIn, SketchAssumption, TableAssumption DEF MinSetLgK
      <3>3. SetOK(s, {}) /\ s.lgConfigK = k /\ s.tgtHllType = x.tgtHllType
        BY <1>2, <3>2, NewSetIs
      <3> HIDE DEF s
      <3>4. 4 * Cardinality({} \cup Entries(u)) <= 3 * 2^(s.lgConfigK - SetSlack)
        <4> DEFINE a == LgInitSetSize
                   b == k - SetSlack
        <4>1. a \in Nat /\ b \in Nat /\ a <= b
          BY <3>2 DEF MinSetLgK
        <4>2. 4 * n <= 3 * 2^a
          BY SketchAssumption DEF n
        <4> HIDE DEF a, b
        <4>3. 2^a <= 2^b /\ 2^a \in Nat /\ 2^b \in Nat
          BY <4>1, PowerMonotone, PowerIs
        <4>4. {} \cup Entries(u) = D
          BY <2>7
        <4>5. 4 * (m + 1) <= 3 * 2^b
          BY <1>1, <1>2, <4>2, <4>3
        <4> QED BY <2>9, <3>3, <4>4, <4>5 DEF b
      <3>5. Entries(u) \in SUBSET Coupon /\ IsFiniteSet(Entries(u)) /\ {} \cup Entries(u) = D
        BY <1>3, <2>7, <2>9
      <3>6. SetOK(y, {} \cup Entries(u)) /\ Same(y, s)
        BY <1>2, <2>10, <3>1, <3>3, <3>4, <3>5, InsertAllIs
      <3>7. Same(y, x)
        BY <3>3, <3>6 DEF Same, k
      <3>8. SetOK(y, D)
        BY <3>5, <3>6
      <3> QED BY <3>7, <3>8 DEF SketchOK, y, D
    <2> QED BY <2>11, <2>12, <2>13
  <1> QED BY <1>8, <1>9

(***************************************************************************)
(* The operations of a sketch.                                             *)
(***************************************************************************)
LEMMA SketchParts ==
  ASSUME NEW x, NEW C, SketchOK(x, C)
  PROVE  /\ x.lgConfigK \in 1 .. KeyBits /\ x.tgtHllType \in TypeSet
         /\ x.startFullSize \in BOOLEAN
         /\ x.mode \in {"LIST", "SET", "HLL"}
         /\ (x.mode = "LIST" <=> ListOK(x, C))
         /\ (x.mode = "SET" <=> SetOK(x, C))
         /\ (x.mode = "HLL" <=> Shows(x, C))
  <1>1. ListOK(x, C) => Small(x, "LIST")
    BY DEF ListOK
  <1>2. SetOK(x, C) => Small(x, "SET")
    BY DEF SetOK, SetIn
  <1>3. Shows(x, C) => x.mode = "HLL" /\ x.lgConfigK \in 1 .. KeyBits /\ x.tgtHllType \in TypeSet
    BY ShowsParts
  <1>4. \A mode : Small(x, mode) => /\ x.mode = mode /\ x.lgConfigK \in 1 .. KeyBits
                                    /\ x.tgtHllType \in TypeSet /\ x.startFullSize = FALSE
    BY DEF Small
  <1>5. x.startFullSize \in BOOLEAN
    <2>1. CASE Shows(x, C)
      BY <2>1, ShowsParts
    <2>2. CASE ~Shows(x, C)
      <3>1. x.startFullSize = FALSE
        BY <1>1, <1>2, <1>4, <2>2 DEF SketchOK
      <3> QED BY <3>1, Zenon
    <2> QED BY <2>1, <2>2
  <1> QED BY <1>1, <1>2, <1>3, <1>4, <1>5 DEF SketchOK

\* The coupons of a list or a set, as a table.
LEMMA SmallTable ==
  ASSUME NEW x, NEW C, SketchOK(x, C), x.mode # "HLL"
  PROVE  \E n \in Nat : /\ DOMAIN x.coupons = 0 .. n - 1 /\ Entries(x.coupons) = C
                        /\ x.coupons \in [0 .. n - 1 -> Coupon \cup {EMPTY}]
                        /\ C \in SUBSET Coupon /\ IsFiniteSet(C)
                        /\ x.couponCount = Cardinality(C)
                        /\ Small(x, x.mode)
  <1>1. CASE ListOK(x, C)
    <2> DEFINE n == 2^LgInitListSize
    <2>1. n \in Nat
      BY SketchAssumption, PowerIs
    <2>2. /\ Small(x, "LIST") /\ IsFiniteSet(C) /\ Entries(x.coupons) = C
          /\ x.couponCount = Cardinality(C)
          /\ x.coupons \in [0 .. n - 1 -> Coupon \cup {EMPTY}]
      BY <1>1 DEF ListOK, FilledTo
    <2> HIDE DEF n
    <2>3. C \in SUBSET Coupon /\ DOMAIN x.coupons = 0 .. n - 1
      BY <2>2 DEF Entries
    <2>4. x.mode = "LIST"
      BY <2>2 DEF Small
    <2> QED BY <2>1, <2>2, <2>3, <2>4
  <1>2. CASE SetOK(x, C)
    <2>1. PICK lg \in Nat : SetIn(x, C, lg)
      BY <1>2 DEF SetOK
    <2> DEFINE n == 2^lg
    <2>2. /\ Small(x, "SET") /\ CouponTable(x.coupons, lg) /\ Entries(x.coupons) = C
          /\ x.couponCount = Cardinality(C)
      BY <2>1 DEF SetIn
    <2>3. /\ IsFiniteSet(C) /\ C \in SUBSET Coupon /\ n \in Nat
          /\ DOMAIN x.coupons = 0 .. n - 1
          /\ x.coupons \in [0 .. n - 1 -> Coupon \cup {EMPTY}]
      BY <2>1, <2>2, SetFinite, CouponTableIs
    <2> HIDE DEF n
    <2>4. x.mode = "SET"
      BY <2>2 DEF Small
    <2> QED BY <2>2, <2>3, <2>4
  <1>3. ~Shows(x, C)
    BY ShowsParts
  <1> QED BY <1>1, <1>2, <1>3 DEF SketchOK

\* A sketch that takes a coupon shows it too, and keeps its size and type.
LEMMA CouponUpdateIs ==
  ASSUME NEW x, NEW C \in SUBSET Coupon, SketchOK(x, C), NEW c \in Coupon
  PROVE  SketchOK(couponUpdate(x, c), C \cup {c}) /\ Same(couponUpdate(x, c), x)
  <1>1. c # EMPTY
    BY CouponIs
  <1>2. CASE ListOK(x, C)
    <2>1. couponUpdate(x, c) = ListUpdate(x, c)
      BY <1>1, <1>2, SketchParts DEF couponUpdate
    <2> QED BY <1>2, <2>1, ListUpdateIs
  <1>3. CASE SetOK(x, C)
    <2>1. couponUpdate(x, c) = SetUpdate(x, c)
      BY <1>1, <1>3, SketchParts DEF couponUpdate
    <2> QED BY <1>3, <2>1, SetUpdateIs
  <1>4. CASE Shows(x, C)
    <2>1. couponUpdate(x, c) = internalCouponUpdate(x, c)
      BY <1>1, <1>4, SketchParts DEF couponUpdate
    <2>2. /\ Shows(internalCouponUpdate(x, c), C \cup {c})
          /\ Kin(internalCouponUpdate(x, c), x)
      BY <1>4, UpdateShows
    <2> QED BY <2>1, <2>2 DEF SketchOK, Same, Kin
  <1> QED BY <1>2, <1>3, <1>4 DEF SketchOK

\* So it does with every coupon of a table.
LEMMA CouponAllIs ==
  ASSUME NEW x, NEW C \in SUBSET Coupon, SketchOK(x, C), NEW t, NEW n \in Nat,
         DOMAIN t = 0 .. n - 1, Entries(t) \in SUBSET Coupon
  PROVE  SketchOK(CouponAll(x, t), C \cup Entries(t)) /\ Same(CouponAll(x, t), x)
  <1>1. PICK f : IsLoop(f, 6, 0, 0, x, t, n) /\ f[n] = CouponAll(x, t)
    BY CouponLoop
  <1>2. /\ f[0] = x
        /\ \A i \in 0 .. n - 1 : /\ t[i] = EMPTY => f[i + 1] = f[i]
                                 /\ t[i] # EMPTY => f[i + 1] = couponUpdate(f[i], t[i])
    <2>1. \A y, e : Round(6, 0, 0, y, e) = couponUpdate(y, e)
      BY DEF Round
    <2>2. /\ f[0] = x
          /\ \A i \in 0 .. n - 1 : /\ t[i] = EMPTY => f[i + 1] = f[i]
                                   /\ t[i] # EMPTY => f[i + 1] = Round(6, 0, 0, f[i], t[i])
      BY <1>1, LoopRounds
    <2> QED BY <2>1, <2>2
  <1>3. /\ Before(t, 0) = {} /\ Before(t, n) = Entries(t)
        /\ \A i \in 0 .. n - 1 :
             Before(t, i + 1) = IF t[i] = EMPTY THEN Before(t, i) ELSE Before(t, i) \cup {t[i]}
        /\ \A i \in 0 .. n : Before(t, i) \subseteq Entries(t)
        /\ \A i \in 0 .. n - 1 : t[i] # EMPTY => t[i] \in Entries(t)
    BY BeforeIs
  <1> DEFINE T == {i \in 0 .. n : SketchOK(f[i], C \cup Before(t, i)) /\ Same(f[i], x)}
  <1>4. 0 \in T
    <2>1. C \cup {} = C /\ 0 \in 0 .. n
      OBVIOUS
    <2> QED BY <1>2, <1>3, <2>1 DEF Same
  <1>5. ASSUME NEW i \in 0 .. n - 1, i \in T PROVE i + 1 \in T
    <2> DEFINE p == f[i]
               q == f[i + 1]
               B == Before(t, i)
               e == t[i]
               D == C \cup B
    <2>1. SketchOK(p, D) /\ Same(p, x) /\ i \in 0 .. n /\ i + 1 \in 0 .. n
      BY <1>5
    <2>2. D \in SUBSET Coupon
      BY <1>3, <2>1
    <2>3. CASE e = EMPTY
      <3>1. q = p /\ Before(t, i + 1) = B
        BY <1>2, <1>3, <2>3
      <3> QED BY <2>1, <3>1
    <2>4. CASE e # EMPTY
      <3>1. q = couponUpdate(p, e) /\ Before(t, i + 1) = B \cup {e} /\ e \in Coupon
        BY <1>2, <1>3, <2>4
      <3>2. D \cup {e} = C \cup Before(t, i + 1)
        BY <3>1
      <3> HIDE DEF p, q, e, D
      <3>3. SketchOK(q, D \cup {e}) /\ Same(q, p)
        BY <2>1, <2>2, <3>1, CouponUpdateIs
      <3>4. Same(q, x)
        BY <2>1, <3>3 DEF Same
      <3>5. SketchOK(q, C \cup Before(t, i + 1))
        BY <3>2, <3>3
      <3> QED BY <2>1, <3>4, <3>5 DEF q
    <2> QED BY <2>3, <2>4
  <1>6. n \in T
    <2> HIDE DEF T
    <2>1. \A i \in 0 .. n : i \in T
      BY <1>4, <1>5, Rounds
    <2> QED BY <2>1
  <1> QED BY <1>1, <1>3, <1>6

Retyped(x, type) == [x EXCEPT !.tgtHllType = type]

\* A list or a set of another target type.
LEMMA RetypedIs ==
  ASSUME NEW x, NEW mode, Small(x, mode), NEW type \in TypeSet
  PROVE  /\ Small(Retyped(x, type), mode) /\ Retyped(x, type).lgConfigK = x.lgConfigK
         /\ Retyped(x, type).tgtHllType = type
         /\ Retyped(x, type).coupons = x.coupons
         /\ Retyped(x, type).couponCount = x.couponCount
  <1> DEFINE y == Retyped(x, type)
  <1>1. DOMAIN x = CouponFields /\ x = [f \in DOMAIN x |-> x[f]] /\ "tgtHllType" \in CouponFields
    BY DEF Small, CouponFields
  <1>2. /\ DOMAIN y = CouponFields /\ y = [f \in DOMAIN y |-> y[f]] /\ y.tgtHllType = type
        /\ \A f \in CouponFields \ {"tgtHllType"} : y[f] = x[f]
    BY <1>1 DEF Retyped
  <1> HIDE DEF y
  <1>3. /\ y.mode = x.mode /\ y.lgConfigK = x.lgConfigK /\ y.coupons = x.coupons
        /\ y.startFullSize = x.startFullSize /\ y.aux = x.aux /\ y.ok = x.ok
        /\ y.couponCount = x.couponCount
    BY <1>2 DEF CouponFields
  <1>4. Small(y, mode)
    BY <1>2, <1>3 DEF Small
  <1> QED BY <1>2, <1>3, <1>4 DEF y

\* copyAs: a sketch converted to another type shows the same coupons.
LEMMA CopyIs ==
  ASSUME NEW x, NEW C \in SUBSET Coupon, SketchOK(x, C), NEW type \in TypeSet
  PROVE  /\ SketchOK(copyAs(x, type), C) /\ copyAs(x, type).lgConfigK = x.lgConfigK
         /\ copyAs(x, type).tgtHllType = type
  <1>1. CASE x.tgtHllType = type
    BY <1>1 DEF copyAs
  <1>2. CASE x.mode = "HLL"
    <2>1. Shows(x, C)
      BY <1>2, SketchParts
    <2> QED BY <2>1, CopyShows DEF SketchOK
  <1>3. CASE x.tgtHllType # type /\ x.mode # "HLL"
    <2> DEFINE y == Retyped(x, type)
    <2>1. copyAs(x, type) = y
      BY <1>3 DEF copyAs, Retyped
    <2>2. ASSUME NEW mode, Small(x, mode)
          PROVE  /\ Small(y, mode) /\ y.lgConfigK = x.lgConfigK
                 /\ y.tgtHllType = type /\ y.coupons = x.coupons /\ y.couponCount = x.couponCount
      BY <2>2, RetypedIs
    <2> HIDE DEF y
    <2>3. CASE ListOK(x, C)
      <3>1. Small(x, "LIST")
        BY <2>3 DEF ListOK
      <3>2. ListOK(y, C)
        BY <2>2, <2>3, <3>1 DEF ListOK
      <3> QED BY <2>1, <2>2, <3>1, <3>2 DEF SketchOK
    <2>4. CASE SetOK(x, C)
      <3>1. PICK lg \in Nat : SetIn(x, C, lg) /\ 4 * x.couponCount <= 3 * 2^lg
        BY <2>4 DEF SetOK
      <3>2. Small(x, "SET")
        BY <3>1 DEF SetIn
      <3>3. SetIn(y, C, lg)
        BY <2>2, <3>1, <3>2 DEF SetIn
      <3>4. SetOK(y, C)
        BY <2>2, <3>1, <3>2, <3>3 DEF SetOK
      <3> QED BY <2>1, <2>2, <3>2, <3>4 DEF SketchOK
    <2> QED BY <1>3, <2>3, <2>4, SketchParts DEF SketchOK
  <1> QED BY <1>1, <1>2, <1>3

\* A new sketch shows nothing.
LEMMA NewSketchIs ==
  ASSUME NEW k \in 1 .. KeyBits, NEW type \in TypeSet, NEW full \in BOOLEAN
  PROVE  /\ SketchOK(newSketch(k, type, full), {})
         /\ newSketch(k, type, full).lgConfigK = k /\ newSketch(k, type, full).tgtHllType = type
  <1>1. newSketch(k, type, full) = IF full THEN newHll(k, type, TRUE) ELSE newList(k, type)
    BY DEF newSketch
  <1>2. CASE full
    <2>1. newSketch(k, type, full) = newHll(k, type, full)
      BY <1>2 DEF newSketch
    <2>2. /\ Shows(newHll(k, type, full), {})
          /\ newHll(k, type, full).lgConfigK = k /\ newHll(k, type, full).tgtHllType = type
      <3>1. Shows(newHll(k, type, full), {})
        BY NewShows, Zenon
      <3>2. newHll(k, type, full).lgConfigK = k /\ newHll(k, type, full).tgtHllType = type
        BY NewShows, Zenon
      <3> QED BY <3>1, <3>2
    <2> QED BY <2>1, <2>2 DEF SketchOK
  <1>3. CASE ~full
    <2>1. newSketch(k, type, full) = newList(k, type)
      BY <1>1, <1>3
    <2> QED BY <2>1, NewListIs DEF SketchOK
  <1> QED BY <1>2, <1>3

\* Nor does one that is reset.
LEMMA ResetIs ==
  ASSUME NEW x, NEW C, SketchOK(x, C)
  PROVE  SketchOK(reset(x), {}) /\ Same(reset(x), x)
  <1> DEFINE k == x.lgConfigK
             type == x.tgtHllType
             full == x.startFullSize
  <1>1. k \in 1 .. KeyBits /\ type \in TypeSet /\ full \in BOOLEAN
    BY SketchParts
  <1>2. reset(x) = newSketch(k, type, full)
    BY DEF reset
  <1> HIDE DEF k, type, full
  <1>3. SketchOK(reset(x), {}) /\ reset(x).lgConfigK = k /\ reset(x).tgtHllType = type
    BY <1>1, <1>2, NewSketchIs
  <1> QED BY <1>3 DEF Same, k, type

\* A sketch that isEmpty() was given nothing.
LEMMA EmptyIs ==
  ASSUME NEW x, NEW C \in SUBSET Coupon, SketchOK(x, C), isEmpty(x)
  PROVE  C = {}
  <1>1. CASE x.mode = "HLL"
    <2>1. Shows(x, C)
      BY <1>1, SketchParts
    <2> QED BY <2>1, EmptyShows
  <1>2. CASE x.mode # "HLL"
    <2>1. x.couponCount = 0
      BY <1>2 DEF isEmpty
    <2>2. IsFiniteSet(C) /\ x.couponCount = Cardinality(C)
      BY <1>2, SmallTable
    <2> QED BY <2>1, <2>2, FS_EmptySet
  <1> QED BY <1>1, <1>2

\* Any image but an updatable byte array gives the sketch back.
LEMMA RestoreIs ==
  ASSUME NEW x, NEW C \in SUBSET Coupon, SketchOK(x, C), NEW compact, NEW stream,
         compact \/ stream
  PROVE  /\ SketchOK(Restore(x, compact, stream), C)
         /\ Same(Restore(x, compact, stream), x)
  <1> DEFINE k == x.lgConfigK
             type == x.tgtHllType
             t == x.coupons
             y == Restore(x, compact, stream)
             read == [i \in DOMAIN t |->
                        IF i < x.couponCount \/ (stream /\ ~compact) THEN t[i] ELSE EMPTY]
  <1>1. k \in 1 .. KeyBits /\ type \in TypeSet
    BY SketchParts
  <1>2. CASE ListOK(x, C)
    <2> DEFINE a == newList(k, type)
               n == 2^LgInitListSize
    <2>1. x.mode = "LIST"
      BY <1>2, SketchParts
    <2>2. y = Refilled(a, read, x.couponCount)
      BY <2>1 DEF Restore, RestoreCoupons, Refilled
    <2>3. ListOK(a, {}) /\ a.lgConfigK = k /\ a.tgtHllType = type
      BY <1>1, NewListIs
    <2>4. t \in [0 .. n - 1 -> Coupon \cup {EMPTY}] /\ \A i \in 0 .. n - 1 : t[i] # EMPTY <=> i < x.couponCount
      BY <1>2 DEF ListOK, FilledTo
    <2>5. read = t
      <3> HIDE DEF t, n
      <3>1. DOMAIN read = 0 .. n - 1 /\ DOMAIN t = 0 .. n - 1 /\ t = [i \in 0 .. n - 1 |-> t[i]]
        BY <2>4
      <3>2. ASSUME NEW i \in 0 .. n - 1 PROVE read[i] = t[i]
        BY <2>4, <3>1
      <3> QED BY <3>1, <3>2
    <2> HIDE DEF a, y, read
    <2>6. Small(a, "LIST")
      BY <2>3 DEF ListOK
    <2>7. /\ Small(y, "LIST") /\ Same(y, a) /\ y.coupons = t /\ y.couponCount = x.couponCount
      BY <2>2, <2>5, <2>6, RefilledIs
    <2>8. ListOK(y, C)
      BY <1>2, <2>7 DEF ListOK
    <2> QED BY <2>3, <2>7, <2>8 DEF SketchOK, Same, y
  <1>3. CASE SetOK(x, C)
    <2> DEFINE a == newSet(k, type)
    <2>1. x.mode = "SET"
      BY <1>3, SketchParts
    <2>2. y = IF compact THEN InsertAll(a, t) ELSE Refilled(a, read, x.couponCount)
      BY <2>1 DEF Restore, RestoreCoupons, Refilled, InsertAll
    <2>3. PICK lg \in Nat : SetIn(x, C, lg) /\ 4 * x.couponCount <= 3 * 2^lg
      BY <1>3 DEF SetOK
    <2>4. /\ LgInitSetSize <= lg /\ lg <= k - SetSlack /\ CouponTable(t, lg) /\ Entries(t) = C
          /\ x.couponCount = Cardinality(C)
      BY <2>3 DEF SetIn
    <2>5. /\ IsFiniteSet(C) /\ x.couponCount \in Nat /\ 2^lg \in Nat
          /\ DOMAIN t = 0 .. 2^lg - 1
          /\ t = [i \in 0 .. 2^lg - 1 |-> t[i]]
      BY <2>3, <2>4, SetFinite, CouponTableIs
    <2>6. k \in Nat /\ SetSlack \in Nat /\ LgInitSetSize \in Nat
      BY <1>1, SlotsIn, SketchAssumption, TableAssumption
    <2>7. k >= MinSetLgK
      BY <2>4, <2>6 DEF MinSetLgK
    <2>8. SetOK(a, {}) /\ a.lgConfigK = k /\ a.tgtHllType = type /\ Small(a, "SET")
      BY <1>1, <2>7, NewSetIs
    <2>9. ~compact => read = t
      BY <2>5
    <2> HIDE DEF a, y, read, k, type
    <2>10. CASE compact
      <3>1. {} \cup Entries(t) = C
        BY <2>4
      <3>2. 2^lg <= 2^(k - SetSlack) /\ 2^(k - SetSlack) \in Nat
        <4> DEFINE m == k - SetSlack
        <4>1. m \in Nat /\ lg <= m
          BY <2>4, <2>6
        <4> HIDE DEF m
        <4>2. 2^lg <= 2^m /\ 2^m \in Nat
          BY <4>1, PowerMonotone, PowerIs
        <4> QED BY <4>2 DEF m
      <3>3. 4 * Cardinality({} \cup Entries(t)) <= 3 * 2^(a.lgConfigK - SetSlack)
        BY <2>3, <2>4, <2>5, <2>8, <3>1, <3>2
      <3>4. y = InsertAll(a, t)
        BY <2>2, <2>10
      <3>5. Entries(t) \in SUBSET Coupon /\ IsFiniteSet(Entries(t))
        BY <2>4, <2>5
      <3> HIDE DEF t
      <3>6. SetOK(y, {} \cup Entries(t)) /\ Same(y, a)
        BY <2>5, <2>8, <3>3, <3>4, <3>5, InsertAllIs
      <3>7. SetOK(y, C)
        BY <3>1, <3>6
      <3> QED BY <2>8, <3>6, <3>7 DEF SketchOK, Same, y, k, type
    <2>11. CASE ~compact
      <3>1. y = Refilled(a, t, x.couponCount)
        BY <2>2, <2>9, <2>11
      <3>2. /\ Small(y, "SET") /\ Same(y, a) /\ y.coupons = t /\ y.couponCount = x.couponCount
        BY <2>8, <3>1, RefilledIs
      <3>3. SetIn(y, C, lg)
        BY <2>4, <2>8, <3>2 DEF SetIn, Same
      <3>4. SetOK(y, C)
        BY <2>3, <3>2, <3>3 DEF SetOK
      <3> QED BY <2>8, <3>2, <3>4 DEF SketchOK, Same, y, k, type
    <2> QED BY <2>10, <2>11
  <1>4. CASE Shows(x, C)
    <2>1. x.mode = "HLL"
      BY <1>4, SketchParts
    <2>2. y = RestoreHll(x, compact)
      BY <2>1 DEF Restore
    <2>3. Shows(RestoreHll(x, compact), C) /\ Kin(RestoreHll(x, compact), x)
      BY <1>4, RestoreShows
    <2> HIDE DEF y
    <2> QED BY <2>2, <2>3 DEF SketchOK, Same, Kin, y
  <1> QED BY <1>2, <1>3, <1>4 DEF SketchOK

(***************************************************************************)
(* The union.                                                              *)
(***************************************************************************)
Fits(x) == x.tgtHllType = "HLL_8" /\ x.lgConfigK <= LgMaxK

\* union_impl: the union of two sketches shows the coupons of both, and is a
\* sketch of eight bits with no more slots than the union may have.
LEMMA UnionIs ==
  ASSUME NEW dst, NEW C \in SUBSET Coupon, SketchOK(dst, C), Fits(dst),
         NEW src, NEW D \in SUBSET Coupon, SketchOK(src, D)
  PROVE  SketchOK(union_impl(dst, src), C \cup D) /\ Fits(union_impl(dst, src))
  <1> DEFINE y == union_impl(dst, src)
             a == copy_or_downsample(src, LgMaxK)
             t == src.coupons
             u == dst.coupons
  <1>1. /\ dst.lgConfigK \in 1 .. KeyBits /\ src.lgConfigK \in 1 .. KeyBits
        /\ LgMaxK \in 1 .. KeyBits /\ KeyBits \in Nat /\ "HLL_8" \in TypeSet
    BY SketchParts, UnionAssumption, TableAssumption DEF TypeSet
  <1>2. CASE src.mode # "HLL"
    <2>1. CASE isEmpty(dst) /\ src.lgConfigK = dst.lgConfigK
      <3>1. y = copyAs(src, "HLL_8")
        BY <1>2, <2>1 DEF union_impl
      <3>2. C = {}
        BY <2>1, EmptyIs
      <3>3. C \cup D = D
        BY <3>2
      <3>4. /\ SketchOK(copyAs(src, "HLL_8"), D) /\ copyAs(src, "HLL_8").lgConfigK = src.lgConfigK
            /\ copyAs(src, "HLL_8").tgtHllType = "HLL_8"
        BY <1>1, CopyIs
      <3> HIDE DEF y
      <3> QED BY <2>1, <3>1, <3>3, <3>4 DEF Fits, y
    <2>2. CASE ~(isEmpty(dst) /\ src.lgConfigK = dst.lgConfigK)
      <3>1. y = CouponAll(dst, t)
        BY <1>2, <2>2 DEF union_impl, CouponAll
      <3>2. PICK n \in Nat : DOMAIN t = 0 .. n - 1 /\ Entries(t) = D
        BY <1>2, SmallTable
      <3> HIDE DEF y, t
      <3>3. SketchOK(y, C \cup Entries(t)) /\ Same(y, dst)
        BY <3>1, <3>2, CouponAllIs
      <3>4. SketchOK(y, C \cup D)
        BY <3>2, <3>3
      <3> QED BY <3>3, <3>4 DEF Fits, Same, y
    <2> QED BY <2>1, <2>2
  <1>3. CASE src.mode = "HLL"
    <2>1. Shows(src, D)
      BY <1>3, SketchParts
    <2>2. Shows(a, D) /\ a.tgtHllType = "HLL_8" /\ a.lgConfigK <= LgMaxK
      <3>1. /\ Shows(a, D) /\ a.tgtHllType = "HLL_8"
            /\ a.lgConfigK = (IF src.lgConfigK <= LgMaxK THEN src.lgConfigK ELSE LgMaxK)
        BY <1>1, <2>1, DownsampleShows
      <3> HIDE DEF a
      <3> QED BY <1>1, <3>1
    <2>3. CASE isEmpty(dst)
      <3>1. y = a
        BY <1>3, <2>3 DEF union_impl
      <3>2. C \cup D = D
        BY <2>3, EmptyIs
      <3> HIDE DEF y, a
      <3> QED BY <2>2, <3>1, <3>2 DEF SketchOK, Fits, y
    <2>4. CASE ~isEmpty(dst) /\ dst.mode # "HLL"
      <3>1. y = UpdateAll(a, u)
        BY <1>3, <2>4 DEF union_impl, UpdateAll
      <3>2. PICK n \in Nat : DOMAIN u = 0 .. n - 1 /\ Entries(u) = C
        BY <2>4, SmallTable
      <3> HIDE DEF y, a, u
      <3>3. Shows(y, D \cup Entries(u)) /\ Kin(y, a)
        BY <2>2, <3>1, <3>2, UpdateAllShows
      <3>4. D \cup Entries(u) = C \cup D
        BY <3>2
      <3>5. Shows(y, C \cup D)
        BY <3>3, <3>4
      <3> QED BY <2>2, <3>3, <3>5 DEF SketchOK, Fits, Kin, y
    <2>5. CASE ~isEmpty(dst) /\ dst.mode = "HLL"
      <3> DEFINE b == IF src.lgConfigK < dst.lgConfigK
                      THEN copy_or_downsample(dst, src.lgConfigK) ELSE dst
                 m == mergeHll(b, src)
                 on == TRUE
      <3>1. y = Recredited(m, 0, on)
        BY <1>3, <2>5 DEF union_impl, Recredited
      <3>2. Shows(dst, C)
        BY <2>5, SketchParts
      <3>3. /\ Shows(b, C) /\ b.tgtHllType = "HLL_8" /\ b.lgConfigK <= LgMaxK
            /\ b.lgConfigK <= src.lgConfigK
        <4>1. CASE src.lgConfigK < dst.lgConfigK
          <5> DEFINE l == src.lgConfigK
          <5>1. l \in 1 .. KeyBits /\ b = copy_or_downsample(dst, l)
            BY <1>1, <4>1
          <5>2. ~(dst.lgConfigK <= l)
            BY <1>1, <4>1
          <5> HIDE DEF l, b
          <5>3. Shows(b, C) /\ b.tgtHllType = "HLL_8" /\ b.lgConfigK = l
            BY <3>2, <5>1, <5>2, DownsampleShows
          <5>4. b.lgConfigK <= LgMaxK
            BY <1>1, <4>1, <5>3 DEF Fits, l
          <5> QED BY <1>1, <5>3, <5>4 DEF l
        <4>2. CASE ~(src.lgConfigK < dst.lgConfigK)
          BY <1>1, <3>2, <4>2 DEF Fits
        <4> QED BY <4>1, <4>2
      <3> HIDE DEF b
      <3>4. Shows(m, C \cup D) /\ Kin(m, b)
        BY <2>1, <3>3, MergeShows
      <3>5. Worth(0, on, C \cup D, m.lgConfigK)
        BY DEF Worth
      <3> HIDE DEF m, on, y
      <3>6. /\ Shows(y, C \cup D) /\ y.lgConfigK = m.lgConfigK /\ y.tgtHllType = m.tgtHllType
        BY <3>1, <3>4, <3>5, RecreditedShows
      <3> QED BY <3>3, <3>4, <3>6 DEF SketchOK, Fits, Kin, y
    <2> QED BY <2>3, <2>4, <2>5
  <1> QED BY <1>2, <1>3

(***************************************************************************)
(* The inductive invariant.                                                *)
(***************************************************************************)
Inv ==
  /\ given \in [sketch : SUBSET Inputs, gadget : SUBSET Inputs]
  /\ SketchOK(sketch, given.sketch)
  /\ SketchOK(gadget, given.gadget)
  /\ Fits(gadget)

\* What the constants allow.
LEMMA Allowed ==
  /\ Inputs \in SUBSET Coupon
  /\ LgMaxK \in 1 .. KeyBits /\ \A k \in LgKs : k \in 1 .. KeyBits
  /\ \A type \in Types : type \in TypeSet
  /\ "HLL_8" \in TypeSet
  BY UnionAssumption DEF Coupon, TypeSet

\* What follows from the invariant for either sketch.
LEMMA GivenIs ==
  ASSUME Inv
  PROVE  /\ given.sketch \in SUBSET Inputs /\ given.gadget \in SUBSET Inputs
         /\ given.sketch \in SUBSET Coupon /\ given.gadget \in SUBSET Coupon
         /\ DOMAIN given = {"sketch", "gadget"}
         /\ given = [f \in {"sketch", "gadget"} |-> given[f]]
  BY Allowed DEF Inv

\* A step that says anew what one of the two was given.
LEMMA GivenPut ==
  ASSUME Inv, NEW C \in SUBSET Inputs
  PROVE  /\ LET g == [given EXCEPT !.sketch = C]
            IN  /\ g \in [sketch : SUBSET Inputs, gadget : SUBSET Inputs]
                /\ g.sketch = C /\ g.gadget = given.gadget
         /\ LET g == [given EXCEPT !.gadget = C]
            IN  /\ g \in [sketch : SUBSET Inputs, gadget : SUBSET Inputs]
                /\ g.gadget = C /\ g.sketch = given.sketch
  BY DEF Inv

\* The invariant holds of two new sketches.
LEMMA InitInv == Init => Inv
  <1> SUFFICES ASSUME Init PROVE Inv
    OBVIOUS
  <1>1. PICK k \in LgKs, type \in Types, full \in BOOLEAN : sketch = newSketch(k, type, full)
    BY DEF Init
  <1>2. k \in 1 .. KeyBits /\ type \in TypeSet
    BY Allowed
  <1>3. SketchOK(newSketch(k, type, full), {})
    BY <1>2, NewSketchIs, Zenon
  <1>4. gadget = newSketch(LgMaxK, "HLL_8", FALSE)
    BY DEF Init
  <1> DEFINE l == LgMaxK
             eight == "HLL_8"
             off == FALSE
  <1>5. l \in 1 .. KeyBits /\ eight \in TypeSet /\ off \in BOOLEAN
    BY Allowed
  <1> HIDE DEF l, eight, off
  <1>6. /\ SketchOK(newSketch(l, eight, off), {}) /\ newSketch(l, eight, off).lgConfigK = l
        /\ newSketch(l, eight, off).tgtHllType = eight
    BY <1>5, NewSketchIs, Zenon
  <1>7. gadget = newSketch(l, eight, off)
    BY <1>4 DEF l, eight, off
  <1>8. Fits(gadget)
    <2>1. l <= LgMaxK
      BY Allowed DEF l
    <2> QED BY <1>6, <1>7, <2>1 DEF Fits, eight
  <1>9. given = [sketch |-> {}, gadget |-> {}]
    BY DEF Init
  <1> QED BY <1>1, <1>3, <1>6, <1>7, <1>8, <1>9 DEF Inv

-----------------------------------------------------------------------------
\* The actions of the sketch.
LEMMA NewInv ==
  ASSUME Inv, NEW k \in LgKs, NEW type \in Types, NEW full \in BOOLEAN, New(k, type, full)
  PROVE  Inv'
  <1>1. k \in 1 .. KeyBits /\ type \in TypeSet
    BY Allowed
  <1>2. SketchOK(newSketch(k, type, full), {})
    BY <1>1, NewSketchIs, Zenon
  <1>3. sketch' = newSketch(k, type, full) /\ gadget' = gadget
    BY DEF New
  <1>4. given' = [given EXCEPT !.sketch = {}]
    BY DEF New
  <1>5. /\ given' \in [sketch : SUBSET Inputs, gadget : SUBSET Inputs]
        /\ given'.sketch = {} /\ given'.gadget = given.gadget
    <2>1. {} \in SUBSET Inputs
      OBVIOUS
    <2> QED BY <1>4, <2>1, GivenPut
  <1> QED BY <1>2, <1>3, <1>5 DEF Inv

LEMMA UpdateInv ==
  ASSUME Inv, NEW c \in Inputs, Update(c)
  PROVE  Inv'
  <1> DEFINE C == given.sketch
             D == C \cup {c}
  <1>1. c \in Coupon /\ C \in SUBSET Coupon /\ D \in SUBSET Inputs
    BY Allowed, GivenIs
  <1>2. SketchOK(sketch, C)
    BY DEF Inv
  <1>3. sketch' = couponUpdate(sketch, c) /\ gadget' = gadget /\ given' = [given EXCEPT !.sketch = D]
    BY DEF Update
  <1> HIDE DEF C
  <1>4. SketchOK(couponUpdate(sketch, c), D)
    BY <1>1, <1>2, CouponUpdateIs
  <1> HIDE DEF D
  <1>5. /\ given' \in [sketch : SUBSET Inputs, gadget : SUBSET Inputs]
        /\ given'.sketch = D /\ given'.gadget = given.gadget
    BY <1>1, <1>3, GivenPut
  <1> QED BY <1>3, <1>4, <1>5 DEF Inv

LEMMA ResetInv ==
  ASSUME Inv, Reset
  PROVE  Inv'
  <1>1. SketchOK(reset(sketch), {})
    BY ResetIs DEF Inv
  <1>2. sketch' = reset(sketch) /\ gadget' = gadget /\ given' = [given EXCEPT !.sketch = {}]
    BY DEF Reset
  <1>3. /\ given' \in [sketch : SUBSET Inputs, gadget : SUBSET Inputs]
        /\ given'.sketch = {} /\ given'.gadget = given.gadget
    <2>1. {} \in SUBSET Inputs
      OBVIOUS
    <2> QED BY <1>2, <2>1, GivenPut
  <1> QED BY <1>1, <1>2, <1>3 DEF Inv

LEMMA ConvertInv ==
  ASSUME Inv, NEW type \in Types, Convert(type)
  PROVE  Inv'
  <1>1. SketchOK(sketch, given.sketch) /\ given.sketch \in SUBSET Coupon /\ type \in TypeSet
    BY Allowed, GivenIs DEF Inv
  <1>2. SketchOK(copyAs(sketch, type), given.sketch)
    BY <1>1, CopyIs
  <1> QED BY <1>2 DEF Inv, Convert

\* A sketch that is saved compactly or to a stream is read back as it was.
LEMMA SaveInv ==
  ASSUME <<FALSE, FALSE>> \notin Images, Inv,
         NEW image \in Images, SaveAndRestore(image[1], image[2])
  PROVE  Inv'
  <1> DEFINE compact == image[1]
             stream == image[2]
  <1>1. compact \/ stream
    <2>1. image \in BOOLEAN \X BOOLEAN
      BY UnionAssumption
    <2>2. PICK a, b \in BOOLEAN : image = <<a, b>>
      BY <2>1
    <2>3. image[1] = a /\ image[2] = b
      BY <2>2
    <2>4. CASE a \/ b
      BY <2>3, <2>4
    <2>5. CASE ~(a \/ b)
      <3>1. a = FALSE /\ b = FALSE
        BY <2>5
      <3>2. <<FALSE, FALSE>> \in Images
        BY <2>2, <3>1, Zenon
      <3> QED BY <3>2
    <2> QED BY <2>4, <2>5
  <1>2. SketchOK(sketch, given.sketch) /\ given.sketch \in SUBSET Coupon
    BY GivenIs DEF Inv
  <1> DEFINE y == Restore(sketch, compact, stream)
  <1>3. sketch' = y /\ gadget' = gadget /\ given' = given
    BY DEF SaveAndRestore
  <1> HIDE DEF compact, stream
  <1>4. SketchOK(y, given.sketch)
    BY <1>1, <1>2, RestoreIs
  <1> HIDE DEF y
  <1> QED BY <1>3, <1>4 DEF Inv

-----------------------------------------------------------------------------
\* The actions of the union.
LEMMA UnionUpdateInv ==
  ASSUME Inv, NEW c \in Inputs, UnionUpdate(c)
  PROVE  Inv'
  <1> DEFINE C == given.gadget
             D == C \cup {c}
  <1>1. c \in Coupon /\ C \in SUBSET Coupon /\ D \in SUBSET Inputs
    BY Allowed, GivenIs
  <1>2. SketchOK(gadget, C) /\ Fits(gadget)
    BY DEF Inv
  <1>3. gadget' = couponUpdate(gadget, c) /\ sketch' = sketch /\ given' = [given EXCEPT !.gadget = D]
    BY DEF UnionUpdate
  <1> HIDE DEF C
  <1>4. SketchOK(couponUpdate(gadget, c), D) /\ Same(couponUpdate(gadget, c), gadget)
    BY <1>1, <1>2, CouponUpdateIs
  <1>5. Fits(couponUpdate(gadget, c))
    BY <1>2, <1>4 DEF Fits, Same
  <1> HIDE DEF D
  <1>6. /\ given' \in [sketch : SUBSET Inputs, gadget : SUBSET Inputs]
        /\ given'.gadget = D /\ given'.sketch = given.sketch
    BY <1>1, <1>3, GivenPut
  <1> QED BY <1>3, <1>4, <1>5, <1>6 DEF Inv

LEMMA MergeInv ==
  ASSUME Inv, Merge
  PROVE  Inv'
  <1> DEFINE C == given.gadget
             D == given.sketch
             E == C \cup D
             y == union_impl(gadget, sketch)
  <1>1. C \in SUBSET Coupon /\ D \in SUBSET Coupon /\ E \in SUBSET Inputs
    BY GivenIs
  <1>2. SketchOK(gadget, C) /\ Fits(gadget) /\ SketchOK(sketch, D)
    BY DEF Inv
  <1>3. gadget' = y /\ sketch' = sketch /\ given' = [given EXCEPT !.gadget = E]
    BY DEF Merge
  <1>4. SketchOK(y, E) /\ Fits(y)
    <2> HIDE DEF C, D
    <2> QED BY <1>1, <1>2, UnionIs
  <1> HIDE DEF E, y
  <1>5. /\ given' \in [sketch : SUBSET Inputs, gadget : SUBSET Inputs]
        /\ given'.gadget = E /\ given'.sketch = given.sketch
    BY <1>1, <1>3, GivenPut
  <1> QED BY <1>3, <1>4, <1>5 DEF Inv

\* The gadget and the sketch may change places: the invariant asks of the
\* gadget what the swap has to check.
LEMMA MergeMovedInv ==
  ASSUME Inv, MergeMoved
  PROVE  Inv'
  <1> DEFINE C == given.gadget
             D == given.sketch
             E == C \cup D
             swapped == /\ isEmpty(gadget)
                        /\ sketch.tgtHllType = "HLL_8"
                        /\ sketch.lgConfigK <= LgMaxK
                        /\ sketch.mode = "HLL" \/ sketch.lgConfigK = LgMaxK
  <1>1. C \in SUBSET Coupon /\ D \in SUBSET Coupon /\ E \in SUBSET Inputs /\ D \in SUBSET Inputs
    BY GivenIs
  <1>2. SketchOK(gadget, C) /\ Fits(gadget) /\ SketchOK(sketch, D)
    BY DEF Inv
  <1>3. /\ gadget' = union_impl(IF swapped THEN sketch ELSE gadget,
                                IF swapped THEN gadget ELSE sketch)
        /\ sketch' = IF swapped THEN gadget ELSE sketch
        /\ given' = [sketch |-> IF swapped THEN {} ELSE D, gadget |-> E]
    BY DEF MergeMoved
  <1>4. CASE swapped
    <2>1. Fits(sketch) /\ C = {} /\ D \cup C = E
      BY <1>1, <1>2, <1>4, EmptyIs DEF Fits
    <2>2. gadget' = union_impl(sketch, gadget) /\ sketch' = gadget /\ given' = [sketch |-> {}, gadget |-> E]
      BY <1>3, <1>4
    <2> DEFINE y == union_impl(sketch, gadget)
    <2> HIDE DEF C, D, swapped
    <2>3. SketchOK(y, D \cup C) /\ Fits(y)
      BY <1>1, <1>2, <2>1, UnionIs
    <2> HIDE DEF y
    <2>4. gadget' = y /\ SketchOK(y, E)
      BY <2>1, <2>2, <2>3 DEF y
    <2>5. SketchOK(gadget, {})
      BY <1>2, <2>1
    <2>6. given'.sketch = {} /\ given'.gadget = E
          /\ given' \in [sketch : SUBSET Inputs, gadget : SUBSET Inputs]
      BY <1>1, <2>2
    <2> HIDE DEF E
    <2> QED BY <2>2, <2>3, <2>4, <2>5, <2>6 DEF Inv
  <1>5. CASE ~swapped
    <2>1. gadget' = union_impl(gadget, sketch) /\ sketch' = sketch /\ given' = [sketch |-> D, gadget |-> E]
      BY <1>3, <1>5
    <2> DEFINE y == union_impl(gadget, sketch)
    <2> HIDE DEF C, D, swapped
    <2>2. SketchOK(y, E) /\ Fits(y)
      BY <1>1, <1>2, UnionIs
    <2> HIDE DEF y
    <2>3. gadget' = y
      BY <2>1 DEF y
    <2>4. given'.sketch = D /\ given'.gadget = E
          /\ given' \in [sketch : SUBSET Inputs, gadget : SUBSET Inputs]
      BY <1>1, <2>1
    <2> HIDE DEF E
    <2> QED BY <1>2, <2>1, <2>2, <2>3, <2>4 DEF Inv
  <1> QED BY <1>4, <1>5

LEMMA UnionResetInv ==
  ASSUME Inv, UnionReset
  PROVE  Inv'
  <1>1. SketchOK(reset(gadget), {}) /\ Same(reset(gadget), gadget)
    BY ResetIs DEF Inv
  <1>2. Fits(reset(gadget))
    BY <1>1 DEF Fits, Same, Inv
  <1>3. gadget' = reset(gadget) /\ sketch' = sketch /\ given' = [given EXCEPT !.gadget = {}]
    BY DEF UnionReset
  <1>4. /\ given' \in [sketch : SUBSET Inputs, gadget : SUBSET Inputs]
        /\ given'.gadget = {} /\ given'.sketch = given.sketch
    <2>1. {} \in SUBSET Inputs
      OBVIOUS
    <2> QED BY <1>3, <2>1, GivenPut
  <1> QED BY <1>1, <1>2, <1>3, <1>4 DEF Inv

LEMMA GetResultInv ==
  ASSUME Inv, NEW type \in Types, GetResult(type)
  PROVE  Inv'
  <1> DEFINE C == given.gadget
             y == copyAs(gadget, type)
  <1>1. SketchOK(gadget, C) /\ C \in SUBSET Coupon /\ C \in SUBSET Inputs /\ type \in TypeSet
    BY Allowed, GivenIs DEF Inv
  <1>2. sketch' = y /\ gadget' = gadget /\ given' = [given EXCEPT !.sketch = C]
    BY DEF GetResult
  <1>3. SketchOK(y, C)
    <2> HIDE DEF C
    <2> QED BY <1>1, CopyIs
  <1> HIDE DEF y
  <1>4. /\ given' \in [sketch : SUBSET Inputs, gadget : SUBSET Inputs]
        /\ given'.sketch = C /\ given'.gadget = C
    BY <1>1, <1>2, GivenPut
  <1> QED BY <1>2, <1>3, <1>4 DEF Inv

\* Every step keeps the invariant.
LEMMA NextInv ==
  ASSUME <<FALSE, FALSE>> \notin Images, Inv, [Next]_vars
  PROVE  Inv'
  <1>1. ASSUME NEW k \in LgKs, NEW type \in Types, NEW full \in BOOLEAN, New(k, type, full)
        PROVE  Inv'
    BY <1>1, NewInv
  <1>2. ASSUME NEW c \in Inputs, Update(c) \/ UnionUpdate(c) PROVE Inv'
    BY <1>2, UpdateInv, UnionUpdateInv
  <1>3. ASSUME NEW type \in Types, Convert(type) \/ GetResult(type) PROVE Inv'
    BY <1>3, ConvertInv, GetResultInv
  <1>4. ASSUME NEW image \in Images, SaveAndRestore(image[1], image[2]) PROVE Inv'
    BY <1>4, SaveInv
  <1>5. CASE Reset
    BY <1>5, ResetInv
  <1>6. CASE Merge
    BY <1>6, MergeInv
  <1>7. CASE MergeMoved
    BY <1>7, MergeMovedInv
  <1>8. CASE UnionReset
    BY <1>8, UnionResetInv
  <1>9. CASE UNCHANGED vars
    BY <1>9 DEF vars, Inv
  <1> QED BY <1>1, <1>2, <1>3, <1>4, <1>5, <1>6, <1>7, <1>8, <1>9 DEF Next

(***************************************************************************)
(* What the invariant says of the program.                                 *)
(***************************************************************************)
LEMMA PresentsIs ==
  ASSUME NEW x, NEW C \in SUBSET Coupon, SketchOK(x, C)
  PROVE  PresentsAll(x, C)
  <1>1. CASE x.mode # "HLL"
    <2>1. Entries(x.coupons) = C /\ x.couponCount = Cardinality(C)
      BY <1>1, SmallTable
    <2> QED BY <1>1, <2>1 DEF PresentsAll
  <1>2. CASE x.mode = "HLL"
    <2>1. Shows(x, C)
      BY <1>2, SketchParts
    <2> DEFINE k == x.lgConfigK
    <2>2. PICK v : HllOK(x, v) /\ IsRegs(v, C, k)
      BY <2>1 DEF Shows
    <2>3. k \in 1 .. KeyBits /\ HllRep(x, v)
      BY <2>2, HllParts DEF HllOK
    <2>4. ASSUME NEW i \in Slots(x)
          PROVE  get_value(x, i) =
                   Max({0} \cup {getValue(c) : c \in {d \in C : getLow26(d) % 2^x.lgConfigK = i}})
      <3>1. i \in 0 .. 2^k - 1
        BY DEF Slots
      <3>2. get_value(x, i) = v[i]
        BY <2>3, <3>1, get_valueIs
      <3> HIDE DEF k
      <3>3. v[i] = SlotMax(C, k, i)
        BY <2>2, <2>3, <3>1, RegsMax
      <3> QED BY <3>2, <3>3 DEF k, SlotMax
    <2> QED BY <1>2, <2>4 DEF PresentsAll
  <1> QED BY <1>1, <1>2

\* No error has been met.
LEMMA SketchSound ==
  ASSUME NEW x, NEW C, SketchOK(x, C)
  PROVE  x.ok = TRUE /\ x.aux.ok = TRUE
  <1>1. NoAux.ok = TRUE
    BY DEF NoAux
  <1>2. CASE ListOK(x, C) \/ SetOK(x, C)
    <2>1. \E mode : Small(x, mode)
      BY <1>2 DEF ListOK, SetOK, SetIn
    <2> QED BY <1>1, <2>1 DEF Small
  <1>3. CASE Shows(x, C)
    <2> DEFINE k == x.lgConfigK
               T(v) == Tokens(x.tgtHllType, k, x.curMin, v)
    <2>1. PICK v : HllRep(x, v)
      BY <1>3 DEF Shows, HllOK
    <2>2. x.ok = TRUE
      BY <2>1, HllParts
    <2>3. AuxHolds(x.tgtHllType, k, x.curMin, x.aux, v)
      BY <2>1 DEF HllRep
    <2>4. x.aux = NoAux \/ AuxOK(x.aux, k, v, T(v))
      BY <2>3 DEF AuxHolds
    <2>5. x.aux.ok = TRUE
      BY <1>1, <2>4 DEF AuxOK
    <2> QED BY <2>2, <2>5
  <1> QED BY <1>2, <1>3 DEF SketchOK

\* The summaries of an array are those of its registers.
LEMMA SummariesIs ==
  ASSUME NEW x, NEW v, HllOK(x, v)
  PROVE  /\ x.kxq0 = Summed(x, 0 .. KxQSplit - 1)
         /\ x.kxq1 = Summed(x, KxQSplit .. ValueMax)
         /\ x.numAtCurMin = Cardinality({i \in Slots(x) : get_value(x, i) = x.curMin})
         /\ x.tgtHllType = "HLL_4" =>
              /\ x.numAtCurMin > 0
              /\ x.aux.auxCount = Cardinality({i \in Slots(x) : getSlot(x, i) = AUX_TOKEN})
  <1> DEFINE k == x.lgConfigK
             type == x.tgtHllType
             curMin == x.curMin
             T == Tokens(type, k, curMin, v)
  <1>1. HllRep(x, v) /\ k \in 1 .. KeyBits
    BY HllParts DEF HllOK
  <1>2. \A i \in Slots(x) : /\ get_value(x, i) = v[i] /\ v[i] \in Nat
                            /\ getSlot(x, i) = Raw(type, curMin, v[i])
                            /\ curMin \in Nat /\ curMin <= v[i]
    BY <1>1, get_valueIs DEF Slots
  <1>3. ASSUME NEW values PROVE Summed(x, values) = SumOf(v, k, values)
    <2>1. [i \in Slots(x) |-> IF get_value(x, i) \in values THEN InvPow2(get_value(x, i)) ELSE 0]
            = [i \in 0 .. 2^k - 1 |-> Term(v[i], values)]
      BY <1>2 DEF Slots, Term
    <2> QED BY <2>1, Zenon DEF Summed, SumOf
  <1>4. x.kxq0 = SumOf(v, k, Low) /\ x.kxq1 = SumOf(v, k, High)
    BY <1>1 DEF HllRep, SumsOK
  <1>5. x.kxq0 = Summed(x, 0 .. KxQSplit - 1) /\ x.kxq1 = Summed(x, KxQSplit .. ValueMax)
    BY <1>3, <1>4, Zenon DEF Low, High
  <1>6. x.numAtCurMin = Cardinality(At(v, k, curMin))
    BY <1>1 DEF HllRep, MinOK
  <1>7. At(v, k, curMin) = {i \in Slots(x) : get_value(x, i) = curMin}
    BY <1>2 DEF At, Slots
  <1>8. x.numAtCurMin = Cardinality({i \in Slots(x) : get_value(x, i) = curMin})
    BY <1>6, <1>7
  <1>9. ASSUME type = "HLL_4"
        PROVE  /\ x.numAtCurMin > 0
               /\ x.aux.auxCount = Cardinality({i \in Slots(x) : getSlot(x, i) = AUX_TOKEN})
    <2>1. T = {i \in Slots(x) : getSlot(x, i) = AUX_TOKEN}
      <3>1. \A i \in Slots(x) : getSlot(x, i) = AUX_TOKEN <=> v[i] - curMin >= 15
        BY <1>2, <1>9 DEF Raw, AUX_TOKEN
      <3>2. T = {i \in Slots(x) : v[i] - curMin >= 15}
        BY <1>9 DEF Tokens, Slots, AUX_TOKEN
      <3> QED BY <3>1, <3>2
    <2>2. AuxHolds(type, k, curMin, x.aux, v)
      BY <1>1 DEF HllRep
    <2>3. CASE T = {}
      <3>1. x.aux = NoAux /\ NoAux.auxCount = 0
        BY <2>2, <2>3 DEF AuxHolds, NoAux
      <3> QED BY <1>9, <2>1, <2>3, <3>1, FS_EmptySet DEF HllOK
    <2>4. CASE T # {}
      <3>1. AuxOK(x.aux, k, v, T)
        BY <2>2, <2>4 DEF AuxHolds
      <3>2. x.aux.auxCount = Cardinality(T)
        BY <3>1 DEF AuxOK
      <3> QED BY <1>9, <2>1, <3>2 DEF HllOK
    <2> QED BY <2>3, <2>4
  <1> QED BY <1>5, <1>8, <1>9

\* The credit of an array, in terms of what it presents.
LEMMA CreditIs ==
  ASSUME NEW x, NEW v, HllOK(x, v)
  PROVE  IF x.oooFlag THEN x.hip = 0
         ELSE x.hip >= Cardinality({i \in Slots(x) : get_value(x, i) # 0})
  <1>1. HllRep(x, v) /\ Credit(x, v)
    BY DEF HllOK
  <1>2. \A i \in Slots(x) : get_value(x, i) = v[i]
    BY <1>1, get_valueIs DEF Slots
  <1>3. DOMAIN v = Slots(x)
    BY <1>1 DEF HllRep, RegsIn, Slots
  <1>4. Nonzero(v) = {i \in Slots(x) : get_value(x, i) # 0}
    BY <1>2, <1>3 DEF Nonzero
  <1> QED BY <1>1, <1>4 DEF Credit

\* Either sketch, once it has an array, stands for some registers.
LEMMA ArraysHold ==
  ASSUME Inv, NEW x \in {y \in {sketch, gadget} : y.mode = "HLL"}
  PROVE  \E v : HllOK(x, v)
  <1>1. x.mode = "HLL" /\ (SketchOK(x, given.sketch) \/ SketchOK(x, given.gadget))
    BY DEF Inv
  <1>2. \E C : Shows(x, C)
    BY <1>1, SketchParts
  <1> QED BY <1>2 DEF Shows

LEMMA InvPresents == Inv => Presents
  BY GivenIs, PresentsIs DEF Inv, Presents

LEMMA InvNeverThrows == Inv => NeverThrows
  BY SketchSound DEF Inv, NeverThrows, Fits

LEMMA InvSummaries == Inv => SummariesExact
  <1> SUFFICES ASSUME Inv, NEW x \in {y \in {sketch, gadget} : y.mode = "HLL"}
               PROVE  /\ x.kxq0 = Summed(x, 0 .. KxQSplit - 1)
                      /\ x.kxq1 = Summed(x, KxQSplit .. ValueMax)
                      /\ x.numAtCurMin = Cardinality({i \in Slots(x) : get_value(x, i) = x.curMin})
                      /\ x.tgtHllType = "HLL_4" =>
                           /\ x.numAtCurMin > 0
                           /\ x.aux.auxCount =
                                Cardinality({i \in Slots(x) : getSlot(x, i) = AUX_TOKEN})
    BY DEF SummariesExact
  <1>1. PICK v : HllOK(x, v)
    BY ArraysHold
  <1> QED BY <1>1, SummariesIs

LEMMA InvCredit == Inv => CreditSound
  <1> SUFFICES ASSUME Inv, NEW x \in {y \in {sketch, gadget} : y.mode = "HLL"}
               PROVE  IF x.oooFlag THEN x.hip = 0
                      ELSE x.hip >= Cardinality({i \in Slots(x) : get_value(x, i) # 0})
    BY DEF CreditSound
  <1>1. PICK v : HllOK(x, v)
    BY ArraysHold
  <1> QED BY <1>1, CreditIs

\* What either sketch was given is what it shows, whichever of list, set and
\* array it is, and every part of an array agrees with the registers it stands
\* for.
THEOREM Invariant ==
  ASSUME <<FALSE, FALSE>> \notin Images
  PROVE  Spec => []Inv
  <1>1. Inv /\ [Next]_vars => Inv'
    BY NextInv
  <1> QED BY <1>1, InitInv, PTL DEF Spec

\* Whatever is done to it, a sketch presents exactly the coupons it was given,
\* and a union those of its sketches.
THEOREM AlwaysPresents ==
  ASSUME <<FALSE, FALSE>> \notin Images
  PROVE  Spec => []Presents
  BY Invariant, InvPresents, PTL

\* No legal call meets one of the errors the classes throw, and the gadget is
\* always an array of eight bits, or becomes one, of a size the union allows.
THEOREM NeverErrs ==
  ASSUME <<FALSE, FALSE>> \notin Images
  PROVE  Spec => []NeverThrows
  BY Invariant, InvNeverThrows, PTL

\* The two sums, the count at the offset and the count of exceptions are those
\* of the registers.
THEOREM AlwaysSummarised ==
  ASSUME <<FALSE, FALSE>> \notin Images
  PROVE  Spec => []SummariesExact
  BY Invariant, InvSummaries, PTL

\* The credit of an array in order covers every register that is set; one that
\* is out of order has none.
THEOREM AlwaysCredited ==
  ASSUME <<FALSE, FALSE>> \notin Images
  PROVE  Spec => []CreditSound
  BY Invariant, InvCredit, PTL
=============================================================================
