\* The loops of compress(), rebase() and merge(), register by register: every
\* history of updates of one sketch of four registers, and every pair of
\* four-register sketches over three values, in three modes.
CONSTANTS
  m = 4
  maxOffset = 1
  rLimit = 5
  Flags <- EachCompress
  Rank <- SomeRanks
  Operands <- SomeOperands
  MergedFlags <- EachCompress
SPECIFICATION MergeSpec
INVARIANTS
  BelowBoundsNs
  RebaseHalfway
  MergesAsSketch
PROPERTIES
  CallsReturn
  ImplementsSketch
\* A program that merges stops when merge() has returned.
CHECK_DEADLOCK FALSE
