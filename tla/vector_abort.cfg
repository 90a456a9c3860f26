\* The assertion of append(), with vectors that are copied.
CONSTANTS
  WORD_BITS = 4
  Vectors = {v, u}
  ElemSizes <- ThreeBits
  Elements <- SomeWords
  MaxSize = 2
SPECIFICATION Spec
INVARIANTS
  NeverAborts
SYMMETRY Interchangeable
CHECK_DEADLOCK FALSE
