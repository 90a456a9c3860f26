----------------------------- MODULE HllSketch -----------------------------
(***************************************************************************)
(* One DataSketches HLL sketch (hll_sketch): a list of coupons, then a set *)
(* of coupons when there are enough slots for one to pay, then an array.   *)
(***************************************************************************)
EXTENDS HllArrays

CONSTANTS
  LgInitListSize,  \* log2 of the size of a coupon list (LG_INIT_LIST_SIZE)
  SetSlack         \* a set has at most 2^(lgConfigK - SetSlack) slots (3)

\* A full list fits in the first set without filling it.
ASSUME SketchAssumption ==
  /\ LgInitListSize \in Nat /\ SetSlack \in Nat
  /\ 4 * 2^LgInitListSize <= 3 * 2^LgInitSetSize

\* Sketches with fewer slots go from the list straight to the array (8).
MinSetLgK == LgInitSetSize + SetSlack

Coupons(mode, lgConfigK, tgtHllType, lg) ==
  [mode |-> mode, lgConfigK |-> lgConfigK, tgtHllType |-> tgtHllType,
   startFullSize |-> FALSE, coupons |-> NewTable(lg), couponCount |-> 0,
   aux |-> NoAux, ok |-> TRUE]

newList(lgConfigK, tgtHllType) ==
  Coupons("LIST", lgConfigK, tgtHllType, LgInitListSize)

newSet(lgConfigK, tgtHllType) ==
  [Coupons("SET", lgConfigK, tgtHllType, LgInitSetSize)
   EXCEPT !.ok = lgConfigK >= MinSetLgK]

\* hll_sketch(lg_config_k, tgt_type, start_full_size)
newSketch(lgConfigK, tgtHllType, startFullSize) ==
  IF startFullSize THEN newHll(lgConfigK, tgtHllType, TRUE)
                   ELSE newList(lgConfigK, tgtHllType)

isEmpty(x) == IF x.mode = "HLL" THEN x.curMin = 0 /\ x.numAtCurMin = 2^x.lgConfigK
                                ELSE x.couponCount = 0

reset(x) == newSketch(x.lgConfigK, x.tgtHllType, x.startFullSize)

-----------------------------------------------------------------------------
Size(x) == Cardinality(DOMAIN x.coupons)

Fill(x, slot, coupon) == [x EXCEPT !.coupons[slot] = coupon, !.couponCount = @ + 1]

\* The array is credited with what the coupons were known to be worth.
promoteListOrSetToHll(x) ==
  [ForEach(internalCouponUpdate, newHll(x.lgConfigK, x.tgtHllType, FALSE), x.coupons)
   EXCEPT !.hip = x.couponCount, !.oooFlag = FALSE]

AtMaximum(x) == Size(x) = 2^(x.lgConfigK - SetSlack)

Overfull(x) == 4 * x.couponCount > 3 * Size(x)

\* CouponHashSet::couponUpdate for callers that drop its result, and with it
\* the array a set at its maximum is promoted to.
SetInsert(x, coupon) ==
  LET lg == Min({l \in 0 .. Size(x) : 2^l = Size(x)})
      slot == FindCoupon(x.coupons, lg, coupon)
      filled == Fill(x, slot, coupon)
  IN  IF slot = -1 THEN [x EXCEPT !.ok = FALSE]
      ELSE IF x.coupons[slot] = coupon THEN x
      ELSE IF Overfull(filled) /\ ~AtMaximum(x)
        THEN [filled EXCEPT !.coupons = Rehash(filled.coupons, lg + 1)]
      ELSE filled

SetUpdate(x, coupon) ==
  LET inserted == SetInsert(x, coupon)
  IN  IF inserted # x /\ Overfull(inserted) THEN promoteListOrSetToHll(inserted)
                                            ELSE inserted

promoteListToSet(x) ==
  ForEach(SetInsert, newSet(x.lgConfigK, x.tgtHllType), x.coupons)

ListUpdate(x, coupon) ==
  LET stops == {i \in DOMAIN x.coupons : x.coupons[i] \in {EMPTY, coupon}}
      filled == Fill(x, Min(stops), coupon)
  IN  IF stops = {} THEN [x EXCEPT !.ok = FALSE]
      ELSE IF x.coupons[Min(stops)] = coupon THEN x
      ELSE IF filled.couponCount < Size(x) THEN filled
      ELSE IF x.lgConfigK < MinSetLgK THEN promoteListOrSetToHll(filled)
      ELSE promoteListToSet(filled)

couponUpdate(x, coupon) ==
  CASE coupon = EMPTY -> x
    [] coupon # EMPTY /\ x.mode = "LIST" -> ListUpdate(x, coupon)
    [] coupon # EMPTY /\ x.mode = "SET"  -> SetUpdate(x, coupon)
    [] coupon # EMPTY /\ x.mode = "HLL"  -> internalCouponUpdate(x, coupon)

-----------------------------------------------------------------------------
\* Mutant: the converted sketch is taken to be in order.
convertTo_in_order(x, tgtHllType) ==
  [mergeHll(newHll(x.lgConfigK, tgtHllType, x.startFullSize), x)
   EXCEPT !.hip = x.hip]

convertTo(x, tgtHllType) ==
  [mergeHll([newHll(x.lgConfigK, tgtHllType, x.startFullSize)
             EXCEPT !.oooFlag = x.oooFlag], x)
   EXCEPT !.hip = x.hip]

copyAs(x, tgtHllType) ==
  IF x.tgtHllType = tgtHllType THEN x
  ELSE IF x.mode = "HLL" THEN convertTo(x, tgtHllType)
  ELSE [x EXCEPT !.tgtHllType = tgtHllType]

-----------------------------------------------------------------------------
\* A sketch is saved as a compact or as an updatable image, in a byte array
\* or in a stream. Only the first couponCount slots of an updatable byte
\* array are read back, although a set's coupons may lie anywhere.
RestoreCoupons(x, new, compact, stream) ==
  IF compact /\ x.mode = "SET"
    THEN ForEach(SetInsert, new, x.coupons)
  ELSE [new EXCEPT
          !.couponCount = x.couponCount,
          !.coupons = [i \in DOMAIN x.coupons |->
                         IF i < x.couponCount \/ (stream /\ ~compact)
                         THEN x.coupons[i] ELSE EMPTY]]

\* A flag and every field of the array are in the image, but the credit of
\* an out-of-order sketch is not read back.
RestoreHll(x, compact) ==
  [x EXCEPT !.hip = IF x.oooFlag THEN 0 ELSE @,
            !.aux = IF x.aux.auxCount = 0 THEN NoAux
                    ELSE RestoreAux(@, x.lgConfigK, compact)]

Restore(x, compact, stream) ==
  CASE x.mode = "LIST" ->
         RestoreCoupons(x, newList(x.lgConfigK, x.tgtHllType), compact, stream)
    [] x.mode = "SET" ->
         RestoreCoupons(x, newSet(x.lgConfigK, x.tgtHllType), compact, stream)
    [] x.mode = "HLL" -> RestoreHll(x, compact)
=============================================================================
