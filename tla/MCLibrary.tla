----------------------------- MODULE MCLibrary -----------------------------
(***************************************************************************)
(* Values of the constants for the run of Library.                         *)
(***************************************************************************)
EXTENDS Library

\* Every value of the five flag bits.
AllFlags == SUBSET Flag

\* Every value a register can hold.
AllRanks == 0 .. rLimit - 1

\* Two kinds of sketch, so that merges of equal and of different kinds are
\* tried.
TwoKinds == {{"WHEN_ALWAYS"}, {"BOTTOM"}}

\* A program that converts between a HyperLogLogLog and a HyperLogLog, with
\* every flags argument; one that merges two HyperLogLogLogs, one that merges
\* two HyperLogLogs and one that merges two HyperLogLogZstds.
FourPrograms ==
  {[names |-> {"s", "p"}, flags |-> AllFlags],
   [names |-> {"s", "t"}, flags |-> TwoKinds],
   [names |-> {"p", "q"}, flags |-> {}],
   [names |-> {"z", "y"}, flags |-> {}]}
=============================================================================
