\* Two vectors of three-bit elements in four-bit words, up to three elements.
CONSTANTS
  WORD_BITS = 4
  Vectors = {v, u}
  ElemSizes <- ThreeBits
  Elements <- SomeWords
  MaxSize = 3
SPECIFICATION Spec
INVARIANTS
  Owned
  InCapacity

  
SYMMETRY Interchangeable
CHECK_DEADLOCK FALSE
