----------------------------- MODULE HllTables -----------------------------
(***************************************************************************)
(* Coupons, and the two open-addressing tables that keep them in the HLL   *)
(* sketch of DataSketches: the coupon set of a small sketch (CouponHashSet)*)
(* and the exceptions of a four-bit array (AuxHashMap).                    *)
(***************************************************************************)
EXTENDS Integers, FiniteSetsExt

CONSTANTS
  KeyBits,        \* bits of a coupon's key (KEY_BITS_26)
  LgInitSetSize,  \* log2 of the first size of a coupon set (LG_INIT_SET_SIZE)
  LgAuxArrInts    \* LgAuxArrInts[lgK]: log2 of the first size of an AuxHashMap

ASSUME TableAssumption ==
  /\ KeyBits \in Nat
  /\ LgInitSetSize \in Nat \ {0}
  /\ LgAuxArrInts \in [1 .. KeyBits -> Nat]

\* A slot without a coupon: no coupon is 0, as its value is at least 1.
EMPTY == 0

pair(slotNo, value) == value * 2^KeyBits + (slotNo % 2^KeyBits)

getLow26(coupon) == coupon % 2^KeyBits

getValue(coupon) == coupon \div 2^KeyBits

-----------------------------------------------------------------------------
NewTable(lg) == [i \in 0 .. 2^lg - 1 |-> EMPTY]

Entries(table) == {table[i] : i \in DOMAIN table} \ {EMPTY}

\* The effect of a loop over the entries, in the order of their slots.
ForEach(Do(_, _), first, table) ==
  LET slots == Cardinality(DOMAIN table)
      after[n \in 0 .. slots] ==
        IF n = 0 THEN first
        ELSE IF table[n - 1] = EMPTY THEN after[n - 1]
        ELSE Do(after[n - 1], table[n - 1])
  IN  after[slots]

\* The slot reached after n strides; a stride is odd, so that a table of
\* 2^lg slots is gone through before the first slot comes again.
Probe(lg, key, n) ==
  LET quotient == key \div 2^lg
      stride == IF quotient % 2 = 1 THEN quotient ELSE quotient + 1
  IN  (key + n * stride) % 2^lg

\* The first slot that is empty or holds one of the entries sought; -1 where
\* find() throws because there is none.
Find(table, lg, key, sought) ==
  LET stops == {n \in 0 .. 2^lg - 1 :
                  table[Probe(lg, key, n)] \in sought \cup {EMPTY}}
  IN  IF stops = {} THEN -1 ELSE Probe(lg, key, Min(stops))

\* The log2 of the table that a count of entries needs, at least least.
computeLgArrInts(least, count) ==
  LET lg == Min({l \in 0 .. count : 2^l >= count})
  IN  Max({least, IF 4 * count > 3 * 2^lg THEN lg + 1 ELSE lg})

-----------------------------------------------------------------------------
\* An array of coupons, all of whose slots are compared in full.
FindCoupon(table, lg, coupon) ==
  Find(table, lg, getLow26(coupon), {coupon})

\* Mutant: a coupon goes to its first slot, whatever is there.
Rehash_without_probing(table, lg) ==
  ForEach(LAMBDA grown, coupon :
            [grown EXCEPT ![Probe(lg, getLow26(coupon), 0)] = coupon],
          NewTable(lg), table)

Rehash(table, lg) ==
  ForEach(LAMBDA grown, coupon :
            [grown EXCEPT ![FindCoupon(grown, lg, coupon)] = coupon],
          NewTable(lg), table)

-----------------------------------------------------------------------------
\* Stands for a null auxHashMap_.
NoAux == [lgAuxArrInts |-> -1, auxCount |-> 0, entries |-> <<>>, ok |-> TRUE]

\* ok turns FALSE where the class throws.
NewAux(lg) ==
  [lgAuxArrInts |-> lg, auxCount |-> 0, entries |-> NewTable(lg), ok |-> TRUE]

\* Only the slot number of an entry is compared.
FindSlot(table, lg, lgConfigK, slotNo) ==
  Find(table, lg, slotNo,
       {entry \in Entries(table) : entry % 2^lgConfigK = slotNo})

growAuxSpace(aux, lgConfigK) ==
  LET lg == aux.lgAuxArrInts + 1
  IN  [aux EXCEPT
         !.lgAuxArrInts = lg,
         !.entries =
           ForEach(LAMBDA grown, entry :
                     [grown EXCEPT ![FindSlot(grown, lg, lgConfigK,
                                              entry % 2^lgConfigK)] = entry],
                   NewTable(lg), @)]

AuxIndex(aux, lgConfigK, slotNo) ==
  FindSlot(aux.entries, aux.lgAuxArrInts, lgConfigK, slotNo)

mustAdd(aux, lgConfigK, slotNo, value) ==
  LET index == AuxIndex(aux, lgConfigK, slotNo)
      added == [aux EXCEPT !.entries[index] = pair(slotNo, value),
                           !.auxCount = @ + 1]
  IN  IF index = -1 \/ aux.entries[index] # EMPTY
        THEN [aux EXCEPT !.ok = FALSE]
      ELSE IF 4 * added.auxCount > 3 * 2^aux.lgAuxArrInts
        THEN growAuxSpace(added, lgConfigK)
      ELSE added

Holds(aux, lgConfigK, slotNo) ==
  /\ aux.lgAuxArrInts # -1
  /\ LET index == AuxIndex(aux, lgConfigK, slotNo)
     IN  index # -1 /\ aux.entries[index] # EMPTY

\* -1 where the class throws (or follows a null pointer).
mustFindValueFor(aux, lgConfigK, slotNo) ==
  IF Holds(aux, lgConfigK, slotNo)
  THEN getValue(aux.entries[AuxIndex(aux, lgConfigK, slotNo)])
  ELSE -1

mustReplace(aux, lgConfigK, slotNo, value) ==
  IF Holds(aux, lgConfigK, slotNo)
  THEN [aux EXCEPT !.entries[AuxIndex(aux, lgConfigK, slotNo)] =
                     pair(slotNo, value)]
  ELSE [aux EXCEPT !.ok = FALSE]

\* A new map with the exceptions in a table.
AuxOf(lg, lgConfigK, table) ==
  ForEach(LAMBDA map, entry :
            mustAdd(map, lgConfigK, getLow26(entry) % 2^lgConfigK, getValue(entry)),
          NewAux(lg), table)

\* AuxHashMap::deserialize, from the entries of an image; a compact one is
\* rebuilt in the size the count needs.
RestoreAux(aux, lgConfigK, compact) ==
  LET lg == IF compact
            THEN computeLgArrInts(LgAuxArrInts[lgConfigK], aux.auxCount)
            ELSE aux.lgAuxArrInts
      restored == AuxOf(lg, lgConfigK, aux.entries)
  IN  [restored EXCEPT !.ok = @ /\ restored.auxCount = aux.auxCount]
=============================================================================
