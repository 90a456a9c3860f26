----------------------------- MODULE HllArrays -----------------------------
(***************************************************************************)
(* The register arrays of a DataSketches HLL sketch: four bits a slot with *)
(* an offset and exceptions (Hll4Array), six bits a slot packed across     *)
(* bytes (Hll6Array), a byte a slot (Hll8Array), and the summaries every   *)
(* array keeps for its estimators (HllArray).                              *)
(***************************************************************************)
EXTENDS HllTables

CONSTANTS
  ValueMax,  \* the largest value of a coupon (63)
  KxQSplit   \* values from here on are summed in kxq1_ (32)

ASSUME ArrayAssumption == ValueMax \in 1 .. 63 /\ KxQSplit \in 1 .. ValueMax

AUX_TOKEN == 15

hllArrBytes(tgtHllType, lgConfigK) ==
  CASE tgtHllType = "HLL_4" -> 2^(lgConfigK - 1)
    [] tgtHllType = "HLL_6" -> (2^lgConfigK * 3) \div 4 + 1
    [] tgtHllType = "HLL_8" -> 2^lgConfigK

\* Inverse powers of two are counted in units of 2^-ValueMax. hip counts the
\* register changes that hipAccum_ was credited with, each worth 1 or more.
newHll(lgConfigK, tgtHllType, startFullSize) ==
  [mode |-> "HLL", lgConfigK |-> lgConfigK, tgtHllType |-> tgtHllType,
   startFullSize |-> startFullSize, oooFlag |-> FALSE, hip |-> 0,
   kxq0 |-> 2^(lgConfigK + ValueMax), kxq1 |-> 0,
   curMin |-> 0, numAtCurMin |-> 2^lgConfigK,
   bytes |-> [i \in 0 .. hllArrBytes(tgtHllType, lgConfigK) - 1 |-> 0],
   aux |-> NoAux, ok |-> TRUE]

Slots(h) == 0 .. 2^h.lgConfigK - 1

-----------------------------------------------------------------------------
\* The two bytes that six bits from bit 6 * slotNo on lie in.
TwoBytes(bytes, slotNo) ==
  LET byteIdx == (6 * slotNo) \div 8
  IN  bytes[byteIdx] + 256 * bytes[byteIdx + 1]

getSlot(h, slotNo) ==
  CASE h.tgtHllType = "HLL_4" ->
         LET byte == h.bytes[slotNo \div 2]
         IN  IF slotNo % 2 = 1 THEN byte \div 16 ELSE byte % 16
    [] h.tgtHllType = "HLL_6" ->
         (TwoBytes(h.bytes, slotNo) \div 2^((6 * slotNo) % 8)) % 64
    [] h.tgtHllType = "HLL_8" -> h.bytes[slotNo]

putSlot(h, slotNo, value) ==
  CASE h.tgtHllType = "HLL_4" ->
         LET shift == IF slotNo % 2 = 1 THEN 16 ELSE 1
         IN  [h EXCEPT !.bytes[slotNo \div 2] =
                         @ + ((value % 16) - getSlot(h, slotNo)) * shift]
    [] h.tgtHllType = "HLL_6" ->
         LET byteIdx == (6 * slotNo) \div 8
             insert == TwoBytes(h.bytes, slotNo)
                         + ((value % 64) - getSlot(h, slotNo)) * 2^((6 * slotNo) % 8)
         IN  [h EXCEPT !.bytes[byteIdx] = insert % 256,
                       !.bytes[byteIdx + 1] = insert \div 256]
    [] h.tgtHllType = "HLL_8" -> [h EXCEPT !.bytes[slotNo] = value]

\* The register a slot stands for; -1 where its exception is missing.
get_value(h, slotNo) ==
  IF h.tgtHllType = "HLL_4" /\ getSlot(h, slotNo) = AUX_TOKEN
    THEN mustFindValueFor(h.aux, h.lgConfigK, slotNo)
  ELSE IF h.tgtHllType = "HLL_4"
    THEN getSlot(h, slotNo) + h.curMin
  ELSE getSlot(h, slotNo)

\* What an iterator over the array meets: the registers that are not 0.
Registers(h) ==
  [i \in Slots(h) |-> IF get_value(h, i) = 0 THEN EMPTY ELSE pair(i, get_value(h, i))]

InvPow2(v) == 2^(ValueMax - v)

\* Mutant: the new value alone says which sum is corrected.
hipAndKxQ_one_sum(h, oldValue, newValue) ==
  LET diff == InvPow2(newValue) - InvPow2(oldValue)
  IN  [h EXCEPT !.hip = IF h.oooFlag THEN @ ELSE @ + 1,
                !.kxq0 = IF newValue < KxQSplit THEN @ + diff ELSE @,
                !.kxq1 = IF newValue < KxQSplit THEN @ ELSE @ + diff]

hipAndKxQIncrementalUpdate(h, oldValue, newValue) ==
  LET Below(v) == IF v < KxQSplit THEN InvPow2(v) ELSE 0
      From(v) == IF v < KxQSplit THEN 0 ELSE InvPow2(v)
  IN  [h EXCEPT !.hip = IF h.oooFlag THEN @ ELSE @ + 1,
                !.kxq0 = @ - Below(oldValue) + Below(newValue),
                !.kxq1 = @ - From(oldValue) + From(newValue)]

-----------------------------------------------------------------------------
\* Every slot but the exceptions is lowered by one as curMin goes up by one;
\* an exception that fits in a slot now leaves the map, which is built anew.
shiftToBiggerCurMin(h) ==
  LET newCurMin == h.curMin + 1
      k == h.lgConfigK
      old == h.aux.entries
      SlotOf(entry) == getLow26(entry) % 2^k
      NewShiftedVal(entry) == getValue(entry) - newCurMin
      tokens == {i \in Slots(h) : getSlot(h, i) = AUX_TOKEN}
      fitting == {e \in Entries(old) : NewShiftedVal(e) < AUX_TOKEN}
      lowered == [i \in Slots(h) |->
                    IF i \in {SlotOf(e) : e \in fitting} THEN AUX_TOKEN - 1
                    ELSE IF i \in tokens THEN AUX_TOKEN
                    ELSE getSlot(h, i) - 1]
      newAux == IF Entries(old) = fitting THEN NoAux
                ELSE AuxOf(LgAuxArrInts[k], k,
                           [n \in DOMAIN old |-> IF old[n] \in fitting THEN EMPTY ELSE old[n]])
      ok == /\ h.ok
            /\ \A i \in Slots(h) : getSlot(h, i) # 0
            /\ tokens # {} => h.aux # NoAux
            /\ \A e \in Entries(old) : SlotOf(e) \in tokens
            /\ \A e \in fitting : NewShiftedVal(e) = AUX_TOKEN - 1
            /\ newAux # NoAux =>
                 newAux.auxCount = Cardinality(tokens) - Cardinality(fitting)
  IN  IF ~ok THEN [h EXCEPT !.ok = FALSE]
      ELSE [h EXCEPT !.bytes = [b \in DOMAIN @ |-> lowered[2 * b] + 16 * lowered[2 * b + 1]],
                     !.aux = newAux,
                     !.curMin = newCurMin,
                     !.numAtCurMin = Cardinality({i \in Slots(h) : getSlot(h, i) = 1})]

RaiseOnce(h) ==
  IF h.numAtCurMin # 0 \/ ~h.ok THEN h ELSE shiftToBiggerCurMin(h)

\* The loop that raises curMin while no register is at it. Registers are at
\* most ValueMax: it has no more rounds than that.
RaiseCurMin(h) ==
  LET after[n \in 0 .. ValueMax] == IF n = 0 THEN h ELSE RaiseOnce(after[n - 1])
  IN  after[ValueMax]

\* Mutant: an exception is added where there is one already.
StoreHll4_adding(h, slotNo, newVal) ==
  LET k == h.lgConfigK
      shifted == newVal - h.curMin
      map == IF h.aux = NoAux THEN NewAux(LgAuxArrInts[k]) ELSE h.aux
  IN  IF shifted < AUX_TOKEN THEN putSlot(h, slotNo, shifted)
      ELSE [putSlot(h, slotNo, AUX_TOKEN)
            EXCEPT !.aux = mustAdd(map, k, slotNo, newVal)]

\* The new value in a slot, or in the map under AUX_TOKEN; a slot whose
\* exception is replaced by a value that would fit is left as it is.
StoreHll4(h, slotNo, newVal) ==
  LET k == h.lgConfigK
      shifted == newVal - h.curMin
      map == IF h.aux = NoAux THEN NewAux(LgAuxArrInts[k]) ELSE h.aux
  IN  IF shifted < AUX_TOKEN
        THEN IF getSlot(h, slotNo) = AUX_TOKEN THEN h
             ELSE putSlot(h, slotNo, shifted)
      ELSE IF getSlot(h, slotNo) = AUX_TOKEN
        THEN [h EXCEPT !.aux = mustReplace(@, k, slotNo, newVal)]
      ELSE [putSlot(h, slotNo, AUX_TOKEN)
            EXCEPT !.aux = mustAdd(map, k, slotNo, newVal)]

internalHll4Update(h, slotNo, newVal) ==
  LET raw == getSlot(h, slotNo)
      old == get_value(h, slotNo)
      stored == StoreHll4(hipAndKxQIncrementalUpdate(h, old, newVal),
                          slotNo, newVal)
  IN  IF newVal <= raw + h.curMin THEN h
      ELSE IF old = -1 THEN [h EXCEPT !.ok = FALSE]
      ELSE IF newVal <= old THEN h
      ELSE IF old # h.curMin THEN stored
      ELSE RaiseCurMin([stored EXCEPT !.numAtCurMin = @ - 1])

\* In six and eight bits numAtCurMin counts the registers that are 0.
internalHllUpdate(h, slotNo, newVal) ==
  LET old == getSlot(h, slotNo)
      put == hipAndKxQIncrementalUpdate(putSlot(h, slotNo, newVal), old, newVal)
  IN  IF newVal <= old THEN h
      ELSE IF old = 0 THEN [put EXCEPT !.numAtCurMin = @ - 1]
      ELSE put

internalCouponUpdate(h, coupon) ==
  LET slotNo == getLow26(coupon) % 2^h.lgConfigK
      newVal == getValue(coupon)
  IN  IF h.tgtHllType # "HLL_4"
        THEN internalHllUpdate(h, slotNo, newVal)
      ELSE IF newVal <= h.curMin THEN h
      ELSE internalHll4Update(h, slotNo, newVal)

\* Also for a source with more slots: they are folded.
mergeHll(h, src) == ForEach(internalCouponUpdate, h, Registers(src))
=============================================================================
