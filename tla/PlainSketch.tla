---------------------------- MODULE PlainSketch ----------------------------
(***************************************************************************)
(* One HyperLogLog object (src/hyperlogloglog/HyperLogLog.hpp): a packed   *)
(* vector of registers.  Every operator is the effect of one method.       *)
(***************************************************************************)
EXTENDS Integers

CONSTANTS
  m,      \* number of registers
  rLimit  \* 1 << logW: one more than the largest value of a register

NewPlain == [j \in 0 .. m - 1 |-> 0]

\* set() masks the value to the logW bits of a register.
AddPlain(M, j, r) == IF r > M[j] THEN [M EXCEPT ![j] = r % rLimit] ELSE M

\* Mutant of MergePlain: registers the second operand has not set are skipped.
MergePlain_SecondOnly(M, that) ==
  [j \in 0 .. m - 1 |-> (IF that[j] > 0 THEN that[j] ELSE M[j]) % rLimit]

MergePlain(M, that) ==
  [j \in 0 .. m - 1 |-> (IF M[j] < that[j] THEN that[j] ELSE M[j]) % rLimit]
=============================================================================
