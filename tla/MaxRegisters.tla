---------------------------- MODULE MaxRegisters ----------------------------
(***************************************************************************)
(* What every sketch of the library promises, whatever its representation: *)
(* a register holds the largest rank ever given to it, and a merge is the  *)
(* register-wise maximum.  This is the oracle test.cpp computes by hand in *)
(* test_hyperloglog, and the relation between HyperLogLog and the          *)
(* compressed sketches that all of its tests require.                      *)
(***************************************************************************)
EXTENDS Integers

CONSTANTS
  Sketches,   \* names of the program's sketch variables
  Registers,  \* register addresses
  Rank        \* the values addJr may be given

VARIABLE reg  \* reg[s]: the registers of sketch s, once s holds a sketch

Held == DOMAIN reg

Maximum(a, b) == IF a < b THEN b ELSE a

Init == reg = [s \in {} |-> [j \in Registers |-> 0]]

Assign(s, f) == reg' = [t \in Held \cup {s} |-> IF t = s THEN f ELSE reg[t]]

Construct(s) == Assign(s, [j \in Registers |-> 0])

Add(s, j, r) ==
  /\ s \in Held
  /\ Assign(s, [i \in Registers |-> IF i = j THEN Maximum(reg[s][i], r)
                                              ELSE reg[s][i]])

MergeInto(s, t, u) ==
  /\ t \in Held
  /\ u \in Held
  /\ Assign(s, [j \in Registers |-> Maximum(reg[t][j], reg[u][j])])

Next ==
  \E s \in Sketches :
    \/ Construct(s)
    \/ \E j \in Registers, r \in Rank : Add(s, j, r)
    \/ \E t, u \in Sketches : MergeInto(s, t, u)

Spec == Init /\ [][Next]_reg
=============================================================================
