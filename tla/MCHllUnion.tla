----------------------------- MODULE MCHllUnion -----------------------------
(***************************************************************************)
(* Values of the constants for the runs of HllUnion, whose thresholds keep *)
(* the proportions of the code: a list is full before the first set is, a  *)
(* set may grow once, and values cross the token and the split of kxq.     *)
(***************************************************************************)
EXTENDS HllUnion

AuxSizes == [lgK \in 1 .. 3 |-> 0]

\* With one or two bits of address 2 and 4 share a slot and 1 and 3 do not;
\* 16 - 1 fits in four bits only after the offset has gone up twice.
SmallCoupons == {pair(0, 1), pair(4, 16), pair(1, 16), pair(1, 2), pair(2, 17)}

AllImages == BOOLEAN \X BOOLEAN

\* Every image but the updatable byte array.
SafeImages == {<<TRUE, TRUE>>, <<TRUE, FALSE>>, <<FALSE, TRUE>>}
=============================================================================
