\* The least sketch, with the limits and the data of the library.
CONSTANTS
  LgCols = 6
  WindowBits = 8
  MinLgK = 4
  Limits <- LibraryLimits
  WordBits = 32
  Peek = 12
  UnaryPeek = 8
  UnaryCodes <- LibraryUnaryCodes
  WindowCodes <- LibraryWindowCodes
  ColumnOrders <- LibraryOrders
  LgPhases = 4
  MidPhases <- LibraryMid
  Steady <- LibrarySteady
  Counter = 1073741824
  LgK = 4
  Slants = {0, 1}
SPECIFICATION Spec
INVARIANTS
  ExactInverses
  
CHECK_DEADLOCK FALSE
