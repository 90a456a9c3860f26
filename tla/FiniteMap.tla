----------------------------- MODULE FiniteMap -----------------------------
(***************************************************************************)
(* What PackedMap promises, and what HyperLogLogLog relies on: a map from  *)
(* register addresses to values, with at most one value for each.          *)
(***************************************************************************)
CONSTANTS
  Keys,   \* the keys that are added
  Values  \* the values the map can hold

VARIABLE map

Init == map = [k \in {} |-> 0]

Add(key, value) ==
  map' = [k \in DOMAIN map \cup {key} |-> IF k = key THEN value ELSE map[k]]

Erase(key) == map' = [k \in DOMAIN map \ {key} |-> map[k]]

Next == \E key \in Keys : Erase(key) \/ \E value \in Values : Add(key, value)

Spec == Init /\ [][Next]_map
=============================================================================
