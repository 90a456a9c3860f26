----------------------------- MODULE MCPackedMap -----------------------------
(***************************************************************************)
(* Values of the constants for the run of PackedMap.                       *)
(***************************************************************************)
EXTENDS PackedMap

\* Six of the eight keys of three bits, the first and the last among them.
SomeKeys == {0, 1, 2, 3, 5, 7}

\* One value that fits in two bits and one that does not.
SomeValues == {2, 5}
=============================================================================
