----------------------------- MODULE PackedMap -----------------------------
(***************************************************************************)
(* PackedMap (src/hyperlogloglog/PackedMap.hpp): the sparse map of a       *)
(* sketch, an array of packed key-value pairs sorted by key.  Every turn   *)
(* of the loops is a step: the binary search of find(), the insertion-sort *)
(* shift of add(), and the shift of eraseAt() in PackedVector::erase().    *)
(* The array itself is what PackedVector promises, a sequence; here it is  *)
(* a function on 0 .. size() - 1.                                          *)
(*                                                                         *)
(* While entries are shifted, one position holds a stale pair: hole.       *)
(***************************************************************************)
EXTENDS FiniteSetsExt, Integers

CONSTANTS
  keyLimit,    \* 1 << keySize: keyMask + 1
  valueLimit,  \* 1 << valueSize: valueMask + 1
  Keys,        \* the keys the program uses
  Values       \* the values it adds

\* Callers pass addresses of logM bits, which is the size of a key; a value
\* may be wider than the map keeps.
ASSUME MapAssumption ==
  /\ keyLimit \in Nat \ {0}
  /\ valueLimit \in Nat \ {0}
  /\ Keys \subseteq 0 .. keyLimit - 1
  /\ Values \subseteq Nat

VARIABLES
  arr,   \* the packed pairs
  pc,    \* the loop of the present call; "idle" between two calls
  op,    \* the method called, with its arguments
  l, r,  \* the bounds of the search
  hole   \* while shifting, the position whose pair is stale

vars == <<arr, pc, op, l, r, hole>>

NoCall == [name |-> "none", key |-> 0, value |-> 0]

size == Cardinality(DOMAIN arr)

packElement(key, value) ==
  (key % keyLimit) * valueLimit + (value % valueLimit)

at(i) == arr[i] % valueLimit

keyAt(i) == arr[i] \div valueLimit

Init ==
  /\ arr = [i \in {} |-> 0]
  /\ pc = "idle"
  /\ op = NoCall
  /\ l = 0
  /\ r = 0
  /\ hole = 0

-----------------------------------------------------------------------------
(***************************************************************************)
(* Calls and returns.  The locals are reset on return, so that they make   *)
(* no states of their own.                                                 *)
(***************************************************************************)
\* add, erase and find all begin with the search.
Call(name, key, value) ==
  /\ pc = "idle"
  /\ pc' = "search"
  /\ op' = [name |-> name, key |-> key, value |-> value]
  /\ l' = 0
  /\ r' = size - 1
  /\ UNCHANGED <<arr, hole>>

eraseAt(i) ==
  /\ pc = "idle"
  /\ i < size
  /\ pc' = "down"
  /\ op' = [NoCall EXCEPT !.name = "eraseAt"]
  /\ hole' = i
  /\ UNCHANGED <<arr, l, r>>

Return ==
  /\ pc' = "idle"
  /\ op' = NoCall
  /\ l' = 0
  /\ r' = 0
  /\ hole' = 0

-----------------------------------------------------------------------------
(***************************************************************************)
(* find(key).                                                              *)
(***************************************************************************)
mid == (l + r) \div 2

\* Mutants of Narrow: the wrong half is kept; the middle stays in the range.
Narrow_OtherHalf ==
  \/ keyAt(mid) < op.key /\ r' = mid - 1 /\ UNCHANGED l
  \/ keyAt(mid) > op.key /\ l' = mid + 1 /\ UNCHANGED r

Narrow_KeepsMiddle ==
  \/ keyAt(mid) < op.key /\ l' = mid + 1 /\ UNCHANGED r
  \/ keyAt(mid) > op.key /\ r' = mid /\ UNCHANGED l

Narrow ==
  \/ keyAt(mid) < op.key /\ l' = mid + 1 /\ UNCHANGED r
  \/ keyAt(mid) > op.key /\ r' = mid - 1 /\ UNCHANGED l

Search ==
  /\ pc = "search"
  /\ l <= r
  /\ Narrow
  /\ UNCHANGED <<arr, pc, op, hole>>

Hit == pc = "search" /\ l <= r /\ keyAt(mid) = op.key

Miss == pc = "search" /\ l > r

Found ==
  /\ Hit \/ Miss
  /\ op.name = "find" \/ (op.name = "erase" /\ Miss)
  /\ UNCHANGED arr
  /\ Return

-----------------------------------------------------------------------------
(***************************************************************************)
(* add(key, value) after the search: the value of a present key is         *)
(* replaced; a new pair is appended and the larger ones are shifted up.    *)
(***************************************************************************)
Replace ==
  /\ Hit
  /\ op.name = "add"
  /\ arr' = [arr EXCEPT ![mid] = packElement(op.key, op.value)]
  /\ Return

AppendPair ==
  /\ Miss
  /\ op.name = "add"
  /\ arr' = [i \in 0 .. size |-> IF i = size THEN packElement(op.key, op.value)
                                             ELSE arr[i]]
  /\ pc' = "up"
  /\ hole' = size
  /\ UNCHANGED <<op, l, r>>

\* Mutant of MustMoveUp: the first entry is never moved.
MustMoveUp_NotFirst == hole > 1 /\ keyAt(hole - 1) > op.key

MustMoveUp == hole > 0 /\ keyAt(hole - 1) > op.key

MoveUp ==
  /\ pc = "up"
  /\ MustMoveUp
  /\ arr' = [arr EXCEPT ![hole] = arr[hole - 1]]
  /\ hole' = hole - 1
  /\ UNCHANGED <<pc, op, l, r>>

Place ==
  /\ pc = "up"
  /\ ~MustMoveUp
  /\ arr' = [arr EXCEPT ![hole] = packElement(op.key, op.value)]
  /\ Return

-----------------------------------------------------------------------------
(***************************************************************************)
(* erase(key) after the search, and eraseAt(i): the later pairs are        *)
(* shifted down over the erased one.                                       *)
(***************************************************************************)
EraseFound ==
  /\ Hit
  /\ op.name = "erase"
  /\ pc' = "down"
  /\ hole' = mid
  /\ UNCHANGED <<arr, op, l, r>>

\* Mutant of MustMoveDown: the last pair is not moved.
MustMoveDown_NotLast == hole + 2 < size

MustMoveDown == hole + 1 < size

MoveDown ==
  /\ pc = "down"
  /\ MustMoveDown
  /\ arr' = [arr EXCEPT ![hole] = arr[hole + 1]]
  /\ hole' = hole + 1
  /\ UNCHANGED <<pc, op, l, r>>

Shrink ==
  /\ pc = "down"
  /\ ~MustMoveDown
  /\ arr' = [i \in 0 .. size - 2 |-> arr[i]]
  /\ Return

-----------------------------------------------------------------------------
Step ==
  \/ Search \/ Found
  \/ Replace \/ AppendPair \/ MoveUp \/ Place
  \/ EraseFound \/ MoveDown \/ Shrink

Next ==
  \/ Step
  \/ \E key \in Keys : \/ Call("find", key, 0)
                       \/ Call("erase", key, 0)
                       \/ \E value \in Values : Call("add", key, value)
  \/ \E i \in DOMAIN arr : eraseAt(i)

\* A call runs until it returns.
Spec == Init /\ [][Next]_vars /\ WF_vars(Step)

-----------------------------------------------------------------------------
\* A pair has the bits of a key and of a value, and the positions are in the
\* array.
TypeOK ==
  /\ arr \in [0 .. size - 1 -> 0 .. keyLimit * valueLimit - 1]
  /\ pc \in {"idle", "search", "up", "down"}
  /\ op.name \in {"none", "find", "erase", "eraseAt", "add"}
  /\ l \in 0 .. size /\ r \in -1 .. size
  /\ hole \in 0 .. size

\* The pairs the map has now: all but the one in the hole.
Live == DOMAIN arr \ (IF pc \in {"up", "down"} THEN {hole} ELSE {})

\* The live pairs are sorted by key, and no key has two, at every turn of the
\* shifting loops too: "The internal representation is a sorted array. There
\* can be no multiples of keys."
Sorted == \A i, k \in Live : i < k => keyAt(i) < keyAt(k)

\* The binary search never excludes the key it looks for, so a miss means that
\* the map does not have it, and add() never makes a second pair of a key.
SearchNarrows ==
  pc = "search" => \A i \in DOMAIN arr : keyAt(i) = op.key => i \in l .. r

\* Every call returns: the range of the search shrinks at each turn.
CallsReturn == pc # "idle" ~> pc = "idle"

(***************************************************************************)
(* The live pairs as a map.  add() changes it when the new pair is placed, *)
(* erase() and eraseAt() when the shift begins.                            *)
(***************************************************************************)
Contents ==
  [key \in {keyAt(i) : i \in Live} |-> at(CHOOSE i \in Live : keyAt(i) = key)]

Promise ==
  INSTANCE FiniteMap WITH map <- Contents, Values <- 0 .. valueLimit - 1

\* Every step of every loop leaves the map as it is, but for the one that takes
\* the effect of the call.
ImplementsMap == Promise!Spec
=============================================================================
