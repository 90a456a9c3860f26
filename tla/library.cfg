\* Sketches of two registers and four values, used together in four programs.
CONSTANTS
  m = 2
  maxOffset = 1
  rLimit = 4
  Sketches = {"s", "t"}
  Plains = {"p", "q"}
  Zstds = {"z", "y"}
  Flags <- AllFlags
  Rank <- AllRanks
  Programs <- FourPrograms
SPECIFICATION LibrarySpec
INVARIANTS
  BufferCoherent
  RoundTrip

  
