----------------------------- MODULE ZstdSketch -----------------------------
(***************************************************************************)
(* One HyperLogLogZstd object (src/hyperlogloglog/HyperLogLogZstd.hpp):    *)
(* registers kept as a compressed block of bytes, with a mutable buffer    *)
(* they are decompressed into, by const methods too.  Zstd is external: a  *)
(* block is the bytes it was made from, and decompressing gives them back. *)
(***************************************************************************)
EXTENDS FiniteSetsExt, Integers

CONSTANTS
  m,      \* number of registers
  rLimit  \* bits of a word: lowerBound before the registers are compared

Zeros == [j \in 0 .. m - 1 |-> 0]

Decompress(z) == [z EXCEPT !.Mtemp = z.Mcompressed]

\* Mutant of CompressZstd: lowerBound is the largest register.
CompressZstd_MaximumBound(z) ==
  [z EXCEPT !.Mcompressed = z.Mtemp,
            !.lowerBound  = Max({z.Mtemp[j] : j \in 0 .. m - 1})]

CompressZstd(z) ==
  [z EXCEPT !.Mcompressed = z.Mtemp,
            !.lowerBound  = Min({z.Mtemp[j] : j \in 0 .. m - 1} \cup {rLimit})]

NewZstd == CompressZstd([Mcompressed |-> Zeros, Mtemp |-> Zeros, lowerBound |-> 0])

\* addJr(j, r).
AddZstd(z, j, r) ==
  IF r < z.lowerBound THEN z
  ELSE IF r > Decompress(z).Mtemp[j]
       THEN CompressZstd([Decompress(z) EXCEPT !.Mtemp[j] = r])
       ELSE Decompress(z)

\* merge(that): the new object.  Both operands are decompressed, too.
MergeZstd(z, that) ==
  CompressZstd([NewZstd EXCEPT !.Mtemp =
    [j \in 0 .. m - 1 |->
       IF Decompress(z).Mtemp[j] < Decompress(that).Mtemp[j]
       THEN Decompress(that).Mtemp[j] ELSE Decompress(z).Mtemp[j]]])
=============================================================================
