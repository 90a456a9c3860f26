\* Every hash of eight bits.
CONSTANTS
  W = 8
  Multiplier = 159
  RegisterCounts <- SeveralCounts
SPECIFICATION Spec
INVARIANTS
  SpreadsHashes
CHECK_DEADLOCK FALSE
