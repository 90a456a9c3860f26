--------------------------- MODULE MCPackedVector ---------------------------
(***************************************************************************)
(* Values of the constants for the runs of PackedVector.                   *)
(***************************************************************************)
EXTENDS PackedVector, TLC

\* Widths and words for words of four bits: elements of three bits cross the
\* boundaries between the words in different places.  Zeros and ones show every
\* bit that is not cleared or not set; the ones have a bit beyond the mask.
ThreeBits == {3}

SomeWords == {{}, {0, 1, 2, 3}}

Interchangeable == Permutations(Vectors)
=============================================================================
