------------------------------ MODULE HllUnion ------------------------------
(***************************************************************************)
(* A program with one hll_sketch and one hll_union of DataSketches: the    *)
(* sketch is updated, converted, saved and restored, and made anew in any  *)
(* size; the union takes coupons and sketches, folding them to the fewest  *)
(* slots it has met, and gives its result back as a sketch.                *)
(***************************************************************************)
EXTENDS HllSketch

CONSTANTS
  Inputs,      \* coupons that data hash to
  LgKs,        \* lg_config_k of the sketches the program makes
  LgMaxK,      \* lg_max_k of the union
  Types,       \* target types the program asks for
  Images,      \* pairs <<compact, stream>>: how it saves a sketch
  MaxGiven     \* bound on the coupons sketch and union hold together

ASSUME UnionAssumption ==
  /\ LgKs \subseteq 1 .. KeyBits /\ LgMaxK \in 1 .. KeyBits
  /\ Inputs \subseteq {pair(slotNo, value) : slotNo \in 0 .. 2^KeyBits - 1,
                                            value \in 1 .. ValueMax}
  /\ Types \subseteq {"HLL_4", "HLL_6", "HLL_8"}
  /\ Images \subseteq BOOLEAN \X BOOLEAN

VARIABLES
  sketch,   \* the hll_sketch
  gadget,   \* the sketch inside the hll_union
  given     \* given.sketch, given.gadget: coupons each has been given

vars == <<sketch, gadget, given>>

Init ==
  /\ \E lgK \in LgKs, type \in Types, full \in BOOLEAN :
       sketch = newSketch(lgK, type, full)
  /\ gadget = newSketch(LgMaxK, "HLL_8", FALSE)
  /\ given = [sketch |-> {}, gadget |-> {}]

-----------------------------------------------------------------------------
\* The source has an array: it is copied in eight bits, or folded.
copy_or_downsample(src, tgtLgK) ==
  IF src.lgConfigK <= tgtLgK THEN copyAs(src, "HLL_8")
  ELSE [mergeHll(newHll(tgtLgK, "HLL_8", FALSE), src)
        EXCEPT !.hip = src.hip, !.oooFlag = src.oooFlag]

union_impl(dst, src) ==
  IF src.mode # "HLL"
    THEN IF isEmpty(dst) /\ src.lgConfigK = dst.lgConfigK
         THEN copyAs(src, "HLL_8")
         ELSE ForEach(couponUpdate, dst, src.coupons)
  ELSE IF isEmpty(dst)
    THEN copy_or_downsample(src, LgMaxK)
  ELSE IF dst.mode # "HLL"
    THEN ForEach(internalCouponUpdate, copy_or_downsample(src, LgMaxK), dst.coupons)
  ELSE [mergeHll(IF src.lgConfigK < dst.lgConfigK
                 THEN copy_or_downsample(dst, src.lgConfigK) ELSE dst, src)
        EXCEPT !.oooFlag = TRUE, !.hip = 0]

-----------------------------------------------------------------------------
\* The program makes another sketch in the place of the one it has.
New(lgConfigK, tgtHllType, startFullSize) ==
  /\ sketch' = newSketch(lgConfigK, tgtHllType, startFullSize)
  /\ given' = [given EXCEPT !.sketch = {}]
  /\ UNCHANGED gadget

HasRoom == Cardinality(given.sketch) + Cardinality(given.gadget) < MaxGiven

Update(coupon) ==
  /\ HasRoom
  /\ sketch' = couponUpdate(sketch, coupon)
  /\ given' = [given EXCEPT !.sketch = @ \cup {coupon}]
  /\ UNCHANGED gadget

Reset ==
  /\ sketch' = reset(sketch)
  /\ given' = [given EXCEPT !.sketch = {}]
  /\ UNCHANGED gadget

\* sketch = hll_sketch(sketch, type)
Convert(type) ==
  /\ sketch' = copyAs(sketch, type)
  /\ UNCHANGED <<gadget, given>>

SaveAndRestore(compact, stream) ==
  /\ sketch' = Restore(sketch, compact, stream)
  /\ UNCHANGED <<gadget, given>>

-----------------------------------------------------------------------------
UnionUpdate(coupon) ==
  /\ HasRoom
  /\ gadget' = couponUpdate(gadget, coupon)
  /\ given' = [given EXCEPT !.gadget = @ \cup {coupon}]
  /\ UNCHANGED sketch

\* update(const hll_sketch&)
Merge ==
  /\ ~isEmpty(sketch)
  /\ gadget' = union_impl(gadget, sketch)
  /\ given' = [given EXCEPT !.gadget = @ \cup given.sketch]
  /\ UNCHANGED sketch

\* update(hll_sketch&&): an empty gadget and a sketch that can take its place
\* are swapped, and the old gadget is then merged into it.
MergeMoved ==
  LET swapped == /\ isEmpty(gadget)
                 /\ sketch.tgtHllType = "HLL_8"
                 /\ sketch.lgConfigK <= LgMaxK
                 /\ sketch.mode = "HLL" \/ sketch.lgConfigK = LgMaxK
  IN  /\ ~isEmpty(sketch)
      /\ gadget' = union_impl(IF swapped THEN sketch ELSE gadget,
                              IF swapped THEN gadget ELSE sketch)
      /\ sketch' = IF swapped THEN gadget ELSE sketch
      /\ given' = [sketch |-> IF swapped THEN {} ELSE given.sketch,
                   gadget |-> given.gadget \cup given.sketch]

UnionReset ==
  /\ gadget' = reset(gadget)
  /\ given' = [given EXCEPT !.gadget = {}]
  /\ UNCHANGED sketch

\* sketch = union.get_result(type)
GetResult(type) ==
  /\ sketch' = copyAs(gadget, type)
  /\ given' = [given EXCEPT !.sketch = given.gadget]
  /\ UNCHANGED gadget

Next ==
  \/ \E lgK \in LgKs, type \in Types, full \in BOOLEAN : New(lgK, type, full)
  \/ \E coupon \in Inputs : Update(coupon) \/ UnionUpdate(coupon)
  \/ \E type \in Types : Convert(type) \/ GetResult(type)
  \/ \E image \in Images : SaveAndRestore(image[1], image[2])
  \/ Reset \/ Merge \/ MergeMoved \/ UnionReset

Spec == Init /\ [][Next]_vars

-----------------------------------------------------------------------------
\* Coupons x presents, folded to its slots once it has an array.
PresentsAll(x, coupons) ==
  IF x.mode # "HLL"
  THEN /\ Entries(x.coupons) = coupons
       /\ x.couponCount = Cardinality(coupons)
  ELSE \A i \in Slots(x) :
         get_value(x, i) =
           Max({0} \cup {getValue(c) : c \in {d \in coupons :
                                   getLow26(d) % 2^x.lgConfigK = i}})

\* Whatever list, set or array a sketch has become, in four, six or eight
\* bits, converted, restored, folded to fewer slots or moved into a union, it
\* presents exactly the coupons it was given: a coupon set is not lost on the
\* way to a table of another size, an exception of a four-bit array not when
\* the offset goes up, and a union is what one sketch of all its coupons is.
Presents ==
  /\ PresentsAll(sketch, given.sketch)
  /\ PresentsAll(gadget, given.gadget)

\* No legal call meets one of the errors the classes throw: a full table, a
\* slot that has no exception or one too many, a slot of 0 as the offset goes
\* up, a set in a sketch too small for one. Nor one that would not be thrown:
\* the gadget, which is cast to an Hll8Array without a look at its type, is of
\* that type and has no more slots than the union was made for, whatever was
\* moved or merged into it.
NeverThrows ==
  /\ sketch.ok /\ sketch.aux.ok /\ gadget.ok /\ gadget.aux.ok
  /\ gadget.tgtHllType = "HLL_8" /\ gadget.lgConfigK <= LgMaxK

\* f[0] + ... + f[n - 1]
Total(f, n) ==
  LET sum[i \in 0 .. n] == IF i = 0 THEN 0 ELSE sum[i - 1] + f[i - 1]
  IN  sum[n]

Summed(x, values) ==
  Total([i \in Slots(x) |-> IF get_value(x, i) \in values THEN InvPow2(get_value(x, i))
                            ELSE 0], 2^x.lgConfigK)

\* The sums the estimators divide by, kept by subtracting and adding, are
\* those of the registers, split at KxQSplit; numAtCurMin counts the
\* registers at the offset, of which four bits always have one; and the map
\* of exceptions holds the slots with a token and no other.
SummariesExact ==
  \A x \in {y \in {sketch, gadget} : y.mode = "HLL"} :
    /\ x.kxq0 = Summed(x, 0 .. KxQSplit - 1)
    /\ x.kxq1 = Summed(x, KxQSplit .. ValueMax)
    /\ x.numAtCurMin = Cardinality({i \in Slots(x) : get_value(x, i) = x.curMin})
    /\ x.tgtHllType = "HLL_4" =>
         /\ x.numAtCurMin > 0
         /\ x.aux.auxCount =
              Cardinality({i \in Slots(x) : getSlot(x, i) = AUX_TOKEN})

\* An array in order is credited with at least one for each register that is
\* not 0, so its estimate is never below what it has surely seen; one that is
\* out of order, which is estimated from its registers alone, has no credit.
CreditSound ==
  \A x \in {y \in {sketch, gadget} : y.mode = "HLL"} :
    IF x.oooFlag THEN x.hip = 0 ELSE x.hip >= Cardinality({i \in Slots(x) : get_value(x, i) # 0})
=============================================================================
