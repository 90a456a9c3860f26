---------------------------- MODULE MCMergeLoops ----------------------------
(***************************************************************************)
(* Values of the constants for the run of MergeLoops.                      *)
(***************************************************************************)
EXTENDS MergeLoops

\* One set of flags for each compress* function.
EachCompress == {{"WHEN_APPEND"}, {"TYPE_INCREASE"}, {"BOTTOM"}}

SomeRanks == {1, 2, 4}

\* Empty registers, and registers one, three and four apart: next to the base,
\* at its edge and beyond it.
SomeOperands == [Registers -> {0, 1, 3}]
=============================================================================
