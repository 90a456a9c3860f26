----------------------------- MODULE MCCpcCodes -----------------------------
(***************************************************************************)
(* The limits and the data of the library, as CpcCompressor takes them.    *)
(***************************************************************************)
EXTENDS CpcCodes

LibraryLimits == [sparse |-> <<32, 3>>, hybrid |-> <<2, 1>>, pinned |-> 27, start |-> 19]

LibraryMid == <<<<4, 3>>, <<10, 11>>, <<100, 132>>, <<3, 5>>, <<1000, 1965>>, <<1000, 2275>>>>

LibrarySteady == <<1000, 2375>>

Bits(entry) == LowBits(Codeword(entry), Length(entry))

LibraryUnaryCodes ==
  [x \in 0 .. 64 |-> Bits(length_limited_unary_encoding_table65[x + 1])]

\* The byte of a window's row has a bit for each of its columns.
Byte(row) == MapThenSumSet(LAMBDA b : 2^b, row)

LibraryWindowCodes ==
  [phase \in 0 .. 21 |->
     [row \in SUBSET (0 .. 7) |->
        Bits(encoding_tables_for_high_entropy_byte[phase + 1][Byte(row) + 1])]]

LibraryOrders ==
  [phase \in 0 .. 15 |->
     [col \in 0 .. 55 |-> column_permutations_for_encoding[phase + 1][col + 1]]]
=============================================================================
