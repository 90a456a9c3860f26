------------------------------- MODULE MCHash -------------------------------
(***************************************************************************)
(* Values of the constants for the run of Hash.                           *)
(***************************************************************************)
EXTENDS Hash

\* Powers of two and numbers between them.
SeveralCounts == 2 .. 17
=============================================================================
