\* A sketch and a union of DataSketches, with flavors in proportion.
CONSTANTS
  LgCols = 3
  WindowBits = 2
  MinLgK = 1
  Limits <- SmallLimits
  WordBits = 8
  Peek = 5
  UnaryPeek = 3
  UnaryCodes <- SmallUnaryCodes
  WindowCodes <- SmallWindowCodes
  ColumnOrders <- SmallOrders
  LgPhases = 1
  MidPhases <- SmallMid
  Steady <- SmallSteady
  Counter = 1048576
  Hashes <- SmallHashes
  LgKs = {1, 2}
  UnionLgKs = {2}
  MaxGiven = 7
SPECIFICATION Spec
INVARIANTS
  Presents
  NeverThrows
  SkipsOnlyKnown
  MassExact
  BuffersHold
