-------------------------- MODULE MCHyperLogLogLog --------------------------
(***************************************************************************)
(* Values of the constants for the run of HyperLogLogLog.                 *)
(***************************************************************************)
EXTENDS HyperLogLogLog

\* The flags that measure.cpp can be told to use.
MeasuredFlags ==
  {{"WHEN_ALWAYS", "TYPE_FULL"}, {"WHEN_APPEND"}, {"TYPE_INCREASE"},
   {"WHEN_APPEND", "TYPE_INCREASE"}, {"BOTTOM"}}

\* What the comment at addJr allows.
DocumentedRank == 0 .. rLimit - 1
=============================================================================
