----------------------------- MODULE MCCpcUnion -----------------------------
(***************************************************************************)
(* Values of the constants for the run of CpcUnion: eight columns and a    *)
(* window of two.  A sketch of four rows is sparse up to four coupons,     *)
(* hybrid with five, pinned with six and sliding from seven; one of two    *)
(* rows is sparse up to two, pinned with three and sliding from four.  The *)
(* codes are as complete as those of the library but shorter.              *)
(***************************************************************************)
EXTENDS CpcUnion

SmallLimits == [sparse |-> <<4, 5>>, hybrid |-> <<2, 3>>, pinned |-> 14, start |-> 6]

\* Lengths 1, 3, 3, 4, 4 and four times 5, the lowest bit first.
SmallUnaryCodes ==
  [x \in 0 .. 8 |->
     CASE x = 0 -> <<0>>
       [] x = 1 -> <<1, 0, 0>>
       [] x = 2 -> <<1, 0, 1>>
       [] x = 3 -> <<1, 1, 0, 0>>
       [] x = 4 -> <<1, 1, 0, 1>>
       [] x > 4 -> <<1, 1, 1>> \o LowBits(x - 5, 2)]

\* Two phases of a steady sketch and two of one that is not yet.
SmallWindowCodes ==
  LET Codes(a, b, c, d) == (a :> <<0>> @@ b :> <<1, 0>> @@ c :> <<1, 1, 0>> @@ d :> <<1, 1, 1>>)
  IN  [phase \in 0 .. 3 |->
         CASE phase = 0 -> Codes({0, 1}, {0}, {1}, {})
           [] phase = 1 -> Codes({0}, {0, 1}, {}, {1})
           [] phase = 2 -> Codes({}, {0}, {1}, {0, 1})
           [] phase = 3 -> Codes({0}, {}, {1}, {0, 1})]

SmallOrders ==
  [phase \in 0 .. 1 |-> [col \in 0 .. 5 |->
     IF phase = 0 THEN (IF col = 1 THEN 5 ELSE IF col > 1 THEN col - 1 ELSE col)
                  ELSE (IF col = 2 THEN 5 ELSE IF col > 2 THEN col - 1 ELSE col)]]

SmallMid == <<<<3, 4>>, <<4, 5>>>>

SmallSteady == <<2, 3>>

SmallHashes == {<<0, 0>>, <<1, 0>>, <<2, 1>>, <<0, 2>>, <<3, 2>>, <<2, 3>>, <<1, 3>>}
=============================================================================
