------------------------------ MODULE U32Table ------------------------------
(***************************************************************************)
(* The hash table of row-column pairs in a CPC sketch of DataSketches      *)
(* (u32_table): linear probing from the high bits of an item, deletion     *)
(* that puts the rest of the cluster back, and a size that goes up and     *)
(* down with the number of items.                                          *)
(***************************************************************************)
EXTENDS Integers, Sequences, SequencesExt, FiniteSetsExt

\* A slot without an item (UINT32_MAX).
NONE == -1

\* ok turns FALSE where the class throws, or looks for a free slot for ever.
NewTable(lgSize, numValidBits) ==
  [lgSize |-> lgSize, numValidBits |-> numValidBits, numItems |-> 0,
   slots |-> [i \in 0 .. 2^lgSize - 1 |-> NONE], ok |-> lgSize >= 2]

Next1(table, probe) == (probe + 1) % 2^table.lgSize

\* The items in the order of their slots.
Items(table) ==
  SelectSeq([i \in 1 .. 2^table.lgSize |-> table.slots[i - 1]],
            LAMBDA item : item # NONE)

\* The slot of an item, or the free one it would go to; -1 if there is none.
lookup(table, item) ==
  LET home == item \div 2^(table.numValidBits - table.lgSize)
      At(n) == (home + n) % 2^table.lgSize
      stops == {n \in 0 .. 2^table.lgSize - 1 : table.slots[At(n)] \in {item, NONE}}
  IN  IF home >= 2^table.lgSize \/ stops = {} THEN -1 ELSE At(Min(stops))

must_insert(table, item) ==
  LET index == lookup(table, item)
  IN  IF index = -1 \/ table.slots[index] = item
      THEN [table EXCEPT !.ok = FALSE]
      ELSE [table EXCEPT !.slots[index] = item]

rebuild(table, newLgSize) ==
  LET empty == NewTable(newLgSize, table.numValidBits)
      full == [empty EXCEPT !.numItems = table.numItems,
                            !.ok = @ /\ table.ok /\ 2^newLgSize > table.numItems]
  IN  FoldLeft(must_insert, full, Items(table))

-----------------------------------------------------------------------------
HasItem(table, item) ==
  LET index == lookup(table, item)
  IN  index # -1 /\ table.slots[index] = item

\* Whether an item was inserted is ~HasItem before the call.
maybe_insert(table, item) ==
  LET index == lookup(table, item)
      put == [table EXCEPT !.slots[index] = item, !.numItems = @ + 1]
  IN  IF index = -1 THEN [table EXCEPT !.ok = FALSE]
      ELSE IF table.slots[index] = item THEN table
      ELSE IF 4 * put.numItems > 3 * 2^table.lgSize
        THEN rebuild(put, table.lgSize + 1)
      ELSE put

\* The items after a freed slot, up to the next free one, are taken out and
\* put back one at a time, as some of them may belong before it.
RECURSIVE PutBack(_, _)
PutBack(table, probe) ==
  LET fetched == table.slots[probe]
  IN  IF fetched = NONE THEN table
      ELSE PutBack(must_insert([table EXCEPT !.slots[probe] = NONE], fetched),
                   Next1(table, probe))

\* Mutant: the slot is freed and the items after it are left where they are.
maybe_delete_leaving_gap(table, item) ==
  LET index == lookup(table, item)
  IN  IF index = -1 \/ table.slots[index] = NONE THEN table
      ELSE [table EXCEPT !.slots[index] = NONE, !.numItems = @ - 1]

ShrinkIfSparse(table) ==
  IF 4 * table.numItems < 2^table.lgSize /\ table.lgSize > 2
  THEN rebuild(table, table.lgSize - 1) ELSE table

\* Whether an item was deleted is HasItem before the call.
maybe_delete(table, item) ==
  LET index == lookup(table, item)
  IN  IF index = -1 THEN [table EXCEPT !.ok = FALSE]
      ELSE IF table.slots[index] = NONE THEN table
      ELSE ShrinkIfSparse(
             PutBack([table EXCEPT !.slots[index] = NONE, !.numItems = @ - 1],
                     Next1(table, index)))

clear(table) == [table EXCEPT !.slots = [i \in DOMAIN @ |-> NONE], !.numItems = 0]

make_from_pairs(pairs, numValidBits) ==
  LET n == Len(pairs)
      lgSize == Min({l \in 2 .. numValidBits + 1 : 4 * n <= 3 * 2^l})
  IN  FoldLeft(must_insert,
               [NewTable(lgSize, numValidBits) EXCEPT !.numItems = n], pairs)

\* The sort that follows unwrapping_get_items(): items in increasing order.
Sorted(items) ==
  SelectSeq([i \in 1 .. Max({0} \cup items) + 1 |-> i - 1], LAMBDA i : i \in items)
=============================================================================
