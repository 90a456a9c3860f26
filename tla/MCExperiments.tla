---------------------------- MODULE MCExperiments ----------------------------
(***************************************************************************)
(* Two drivers with command lines that have no instance in common: one     *)
(* takes the queries and the other merges of an algorithm, or each an      *)
(* algorithm of its own.  All modes, algorithms and data types of the      *)
(* script and one number of registers on either side of ZetaSketch's       *)
(* minimum; two lengths and two repetitions stand for the 53 and the 10.   *)
(***************************************************************************)
EXTENDS Experiments

AllModes == <<"query", "merge">>
AllAlgorithms == <<"hyperloglog", "hyperloglogzstd", "hyperlogloglog", "hyperloglogloga",
                   "hyperlogloglogi", "hyperlogloglogai", "hyperlogloglogb", "hashonly",
                   "apache-hll4", "apache-hll6", "apache-hll8", "apache-cpc", "zetasketch">>
AllDatatypes == <<"uint64", "str", "jr">>
SomeMs == <<512, 1024>>
SomeNs == <<16, 23>>

Line(mode, algo, dt, m, n) == [mode |-> mode, algo |-> algo, dt |-> dt, m |-> m, n |-> n]

SplitByMode ==
    {<<Line("query", algo, None, 1024, 16),
       Line("merge", algo, IF algo \in Ours THEN "jr" ELSE "uint64", 1024, 16)>> :
       algo \in Range(AllAlgorithms)}
SplitByAlgorithm ==
    {[d \in Drivers |-> Line("merge", AllAlgorithms[k + d - 1], "str", None, 23)] :
       k \in 1..Len(AllAlgorithms) - 1}
SplitByLength == {[d \in Drivers |-> Line("query", "hashonly", None, 512, SomeNs[d])]}

TwoLines == SplitByMode \cup SplitByAlgorithm \cup SplitByLength

ASSUME LinesAssumption == NoOverlap
=============================================================================
