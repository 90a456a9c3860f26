\* One sketch, four registers, every update history; merges are with itself.
CONSTANTS
  m = 4
  maxOffset = 1
  rLimit = 4
  Sketches = {"a"}
  Flags <- MeasuredFlags
  Rank <- DocumentedRank
SPECIFICATION Spec
INVARIANTS
  TypeOK
  SparseIffOutsideWindow
  LowerBoundSound
  BottomInvariant
  FullIsOptimal
  BottomAmortised
PROPERTIES
  RebaseForTheBetter
  
