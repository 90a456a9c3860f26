\* A sketch and a union of DataSketches, with thresholds in proportion.
CONSTANTS
  KeyBits = 3
  ValueMax = 18
  KxQSplit = 16
  LgInitListSize = 1
  LgInitSetSize = 2
  SetSlack = 0
  LgAuxArrInts <- AuxSizes
  Inputs <- SmallCoupons
  LgKs = {1, 3}
  LgMaxK = 2
  Types = {"HLL_4", "HLL_6", "HLL_8"}
  Images <- SafeImages
  MaxGiven = 6
SPECIFICATION Spec
INVARIANTS
  Presents
  NeverThrows
  SummariesExact
  CreditSound
