-------------------------- MODULE ElementSequences --------------------------
(***************************************************************************)
(* What PackedVector promises: every vector is a sequence of elements of a *)
(* fixed width, copies are independent, and an operation on one vector     *)
(* changes no other.  An element is the set of its bits that are one.      *)
(***************************************************************************)
EXTENDS SequencesExt, Integers

CONSTANTS
  Vectors,    \* names of the program's vectors
  ElemSizes,  \* the element widths it asks for
  Elements,   \* the elements it stores
  MaxSize     \* how many elements it keeps in a vector

VARIABLE seq  \* seq[v]: width and items of vector v, while v exists

Alive == DOMAIN seq

Fitted(e, width) == e \cap 0 .. width - 1

Default == [width |-> 0, items |-> <<>>]

Init == seq = [v \in {} |-> Default]

Assign(v, value) ==
  seq' = [w \in Alive \cup {v} |-> IF w = v THEN value ELSE seq[w]]

Construct(v, width) ==
  /\ v \notin Alive
  /\ \E n \in 0 .. MaxSize : Assign(v, [width |-> width, items |-> [i \in 1 .. n |-> {}]])

Destroy(v) == seq' = [w \in Alive \ {v} |-> seq[w]]

Copy(v, u) == u \in Alive /\ Assign(v, seq[u])

\* A vector moved from is left as the default one.
MoveNew(v, u) ==
  /\ u \in Alive
  /\ v \notin Alive
  /\ seq' = [w \in Alive \cup {v} |->
               CASE w = v -> seq[u] [] w = u -> Default [] OTHER -> seq[w]]

Exchange(v, u) ==
  /\ {v, u} \subseteq Alive
  /\ seq' = [seq EXCEPT ![v] = seq[u], ![u] = seq[v]]

Set(v, i, e) ==
  /\ v \in Alive
  /\ i \in DOMAIN seq[v].items
  /\ seq' = [seq EXCEPT ![v].items[i] = Fitted(e, seq[v].width)]

Insert(v, i, e) ==
  /\ v \in Alive
  /\ i \in 1 .. Len(seq[v].items) + 1
  /\ seq' = [seq EXCEPT ![v].items = InsertAt(@, i, Fitted(e, seq[v].width))]

Erase(v, i) ==
  /\ v \in Alive
  /\ i \in DOMAIN seq[v].items
  /\ seq' = [seq EXCEPT ![v].items = RemoveAt(@, i)]

Next ==
  \E v \in Vectors :
    \/ \E width \in ElemSizes \cup {0} : Construct(v, width)
    \/ Destroy(v)
    \/ \E u \in Vectors : Copy(v, u) \/ MoveNew(v, u) \/ Exchange(v, u)
    \/ \E i \in 1 .. MaxSize + 1, e \in Elements : Set(v, i, e) \/ Insert(v, i, e)
    \/ \E i \in 1 .. MaxSize : Erase(v, i)

Spec == Init /\ [][Next]_seq
=============================================================================
