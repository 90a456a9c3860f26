---------------------------- MODULE PackedVector ----------------------------
(***************************************************************************)
(* PackedVector (src/hyperlogloglog/PackedVector.hpp): elements of a fixed *)
(* number of bits packed into an array of words on the heap, where an      *)
(* element may cross a word boundary.  A program constructs, copies,       *)
(* moves, updates and destroys such vectors in any order.                  *)
(*                                                                         *)
(* A word is the set of the positions of its one bits, so |, & and ~ are   *)
(* union, intersection and complement, and the shifts drop what leaves the *)
(* word.  An array is a function on 0 .. capacity - 1.                     *)
(***************************************************************************)
EXTENDS FiniteSetsExt, Integers

CONSTANTS
  WORD_BITS,  \* bits of a word
  Vectors,    \* names of the program's vectors
  ElemSizes,  \* the element widths it passes to the constructor
  Elements,   \* the words it stores
  MaxSize     \* how many elements it keeps in a vector

Bits == 0 .. WORD_BITS - 1

\* The temporary vector of operator=.
Temp == "temp"

\* Shifting by the whole word is undefined, so an element is narrower.
ASSUME VectorAssumption ==
  /\ Temp \notin Vectors
  /\ WORD_BITS \in Nat \ {0}
  /\ ElemSizes \subseteq 1 .. WORD_BITS - 1
  /\ Elements \subseteq SUBSET Bits
  /\ MaxSize \in Nat

VARIABLES
  vec,     \* vec[v]: the fields of vector v, while v exists
  heap,    \* heap[a]: the array at address a, while it is allocated
  aborted  \* an assertion has failed

vars == <<vec, heap, aborted>>

NULL == 0

Alive == DOMAIN vec

-----------------------------------------------------------------------------
(***************************************************************************)
(* Words and the elements in an array of them.                             *)
(***************************************************************************)
ShiftLeft(w, n) == {b \in Bits : b - n \in w}

ShiftRight(w, n) == {b \in Bits : b + n \in w}

ElemMask(elemSize) == Bits \ ShiftLeft(Bits, elemSize)

GetIn(arr, v, i) ==
  LET w        == (i * v.elemSize) \div WORD_BITS
      firstBit == (i * v.elemSize) % WORD_BITS
      numBits  == WORD_BITS - firstBit
  IN  IF firstBit + v.elemSize <= WORD_BITS
      THEN ShiftRight(arr[w], firstBit) \cap v.elemMask
      ELSE ShiftRight(arr[w], firstBit)
             \cup (ShiftLeft(arr[w + 1], numBits) \cap v.elemMask)

\* Mutant of SetIn: the part in the second word is not cleared first.
SetIn_SecondWordKept(arr, v, i, elem) ==
  LET e        == elem \cap v.elemMask
      w        == (i * v.elemSize) \div WORD_BITS
      firstBit == (i * v.elemSize) % WORD_BITS
      numBits  == WORD_BITS - firstBit
      first    == [arr EXCEPT ![w] = (@ \ ShiftLeft(v.elemMask, firstBit))
                                       \cup ShiftLeft(e, firstBit)]
  IN  IF firstBit + v.elemSize <= WORD_BITS THEN first
      ELSE [first EXCEPT ![w + 1] = @ \cup ShiftRight(e, numBits)]

SetIn(arr, v, i, elem) ==
  LET e        == elem \cap v.elemMask
      w        == (i * v.elemSize) \div WORD_BITS
      firstBit == (i * v.elemSize) % WORD_BITS
      numBits  == WORD_BITS - firstBit
      first    == [arr EXCEPT ![w] = (@ \ ShiftLeft(v.elemMask, firstBit))
                                       \cup ShiftLeft(e, firstBit)]
  IN  IF firstBit + v.elemSize <= WORD_BITS THEN first
      ELSE [first EXCEPT ![w + 1] = (@ \ ShiftRight(v.elemMask, numBits))
                                      \cup ShiftRight(e, numBits)]

\* The array after the loop of insert has moved the elements from j on one
\* position up, and after that of erase has moved those up to j down.
MovedUp(arr, v, i, last) ==
  LET moved[j \in i .. last] ==
        IF j = last THEN arr
        ELSE SetIn(moved[j + 1], v, j + 1, GetIn(moved[j + 1], v, j))
  IN  moved[i]

MovedDown(arr, v, i, last) ==
  LET moved[j \in i .. last] ==
        IF j = i THEN arr
        ELSE SetIn(moved[j - 1], v, j - 1, GetIn(moved[j - 1], v, j))
  IN  moved[last]

-----------------------------------------------------------------------------
(***************************************************************************)
(* The memory of the program: p.vec and p.heap.  new takes the lowest free *)
(* address, so a freed array is reused at once.                            *)
(***************************************************************************)
Memory == [vec |-> vec, heap |-> heap]

Become(p) == vec' = p.vec /\ heap' = p.heap

Fresh(p) == Min((1 .. Cardinality(DOMAIN p.heap) + 1) \ DOMAIN p.heap)

With(f, x, y) == [z \in DOMAIN f \cup {x} |-> IF z = x THEN y ELSE f[z]]

Without(f, x) == [z \in DOMAIN f \ {x} |-> f[z]]

\* PackedVector().
DefaultVector ==
  [elemSize |-> 0, elemMask |-> {}, size |-> 0, arr |-> NULL, capacity |-> 0]

\* PackedVector(elemSize, initialSize).
Constructed(p, v, elemSize, n) ==
  LET capacity == (n * elemSize + WORD_BITS - 1) \div WORD_BITS
      arr      == IF capacity > 0 THEN Fresh(p) ELSE NULL
  IN  [vec  |-> With(p.vec, v, [elemSize |-> elemSize,
                                elemMask |-> ElemMask(elemSize),
                                size     |-> n,
                                arr      |-> arr,
                                capacity |-> capacity]),
       heap |-> IF capacity > 0
                THEN With(p.heap, arr, [k \in 0 .. capacity - 1 |-> {}])
                ELSE p.heap]

\* ~PackedVector(); delete[] of the null pointer does nothing.
Destroyed(p, v) ==
  [vec |-> Without(p.vec, v), heap |-> Without(p.heap, p.vec[v].arr)]

\* Mutant of CopyConstructed: the new vector shares the array.
CopyConstructed_Shallow(p, v, u) == [p EXCEPT !.vec = With(@, v, p.vec[u])]

\* PackedVector(const PackedVector&): an array is allocated whatever the
\* capacity, so that of a copied empty vector is an array of no words.
CopyConstructed(p, v, u) ==
  [vec  |-> With(p.vec, v, [p.vec[u] EXCEPT !.arr = Fresh(p)]),
   heap |-> With(p.heap, Fresh(p),
                 [k \in 0 .. p.vec[u].capacity - 1 |-> p.heap[p.vec[u].arr][k]])]

Swapped(p, v, u) == [p EXCEPT !.vec[v] = p.vec[u], !.vec[u] = p.vec[v]]

\* set(i, e), for i below the size.
Updated(p, v, i, e) ==
  [p EXCEPT !.heap[p.vec[v].arr] = SetIn(@, p.vec[v], i, e)]

\* append() asserts this of a vector with no capacity.
MayAppend(p, v) == p.vec[v].capacity = 0 => p.vec[v].arr = NULL

\* Mutant of Full: the size before the increment is compared.
Full_OldSize(v) == (v.size - 1) * v.elemSize > WORD_BITS * v.capacity

\* The elements counted by size no longer fit.
Full(v) == v.size * v.elemSize > WORD_BITS * v.capacity

\* One more word: a new array, the old one deleted.
Grown(p, v) ==
  LET new == With(IF p.vec[v].capacity = 0 THEN [k \in {} |-> {}]
                  ELSE p.heap[p.vec[v].arr], p.vec[v].capacity, {})
  IN  [vec  |-> [p.vec EXCEPT ![v].arr = Fresh(p), ![v].capacity = @ + 1],
       heap |-> With(Without(p.heap, p.vec[v].arr), Fresh(p), new)]

\* append(e).
Appended(p, v, e) ==
  LET counted == [p EXCEPT !.vec[v].size = @ + 1]
      roomy   == IF p.vec[v].capacity = 0 \/ Full(counted.vec[v])
                 THEN Grown(counted, v) ELSE counted
  IN  Updated(roomy, v, p.vec[v].size, e)

\* insert(i, e), for i up to the size.
Inserted(p, v, i, e) ==
  LET q    == Appended(p, v, {})
      u    == q.vec[v]
      last == u.size - 1
  IN  Updated([q EXCEPT !.heap[u.arr] = MovedUp(@, u, i, last)], v, i, e)

\* erase(i), for i below the size.
Erased(p, v, i) ==
  [p EXCEPT !.heap[p.vec[v].arr] = MovedDown(@, p.vec[v], i, p.vec[v].size - 1),
            !.vec[v].size = @ - 1]

-----------------------------------------------------------------------------
Init ==
  /\ vec = [v \in {} |-> DefaultVector]
  /\ heap = [a \in {} |-> {}]
  /\ aborted = FALSE

Construct(v, elemSize, n) ==
  /\ v \notin Alive
  /\ Become(Constructed(Memory, v, elemSize, n))

ConstructDefault(v) ==
  /\ v \notin Alive
  /\ Become([Memory EXCEPT !.vec = With(@, v, DefaultVector)])

Destroy(v) ==
  /\ v \in Alive
  /\ Become(Destroyed(Memory, v))

CopyConstruct(v, u) ==
  /\ v \notin Alive
  /\ u \in Alive
  /\ Become(CopyConstructed(Memory, v, u))

\* PackedVector(PackedVector&&): a default vector, swapped with u.
MoveConstruct(v, u) ==
  /\ v \notin Alive
  /\ u \in Alive
  /\ Become(Swapped([Memory EXCEPT !.vec = With(@, v, DefaultVector)], v, u))

\* operator=(const PackedVector&): a temporary copy, swapped and destroyed.
CopyAssign(v, u) ==
  /\ {v, u} \subseteq Alive
  /\ v # u
  /\ Become(Destroyed(Swapped(CopyConstructed(Memory, Temp, u), Temp, v), Temp))

\* operator=(PackedVector&&), and swap.
MoveAssign(v, u) ==
  /\ {v, u} \subseteq Alive
  /\ v # u
  /\ Become(Swapped(Memory, v, u))

Set(v, i, e) ==
  /\ v \in Alive
  /\ i < vec[v].size
  /\ Become(Updated(Memory, v, i, e))

Append(v, e) ==
  /\ v \in Alive
  /\ vec[v].size < MaxSize
  /\ MayAppend(Memory, v)
  /\ Become(Appended(Memory, v, e))

Insert(v, i, e) ==
  /\ v \in Alive
  /\ vec[v].size < MaxSize
  /\ MayAppend(Memory, v)
  /\ i <= vec[v].size
  /\ Become(Inserted(Memory, v, i, e))

Erase(v, i) ==
  /\ v \in Alive
  /\ i < vec[v].size
  /\ Become(Erased(Memory, v, i))

\* The assertion of append() fails: the program stops.
Abort(v) ==
  /\ v \in Alive
  /\ vec[v].size < MaxSize
  /\ ~MayAppend(Memory, v)
  /\ aborted' = TRUE
  /\ UNCHANGED <<vec, heap>>

Operate(v) ==
  \/ \E elemSize \in ElemSizes, n \in 0 .. MaxSize : Construct(v, elemSize, n)
  \/ ConstructDefault(v)
  \/ Destroy(v)
  \/ \E u \in Vectors : \/ CopyConstruct(v, u) \/ MoveConstruct(v, u)
                        \/ CopyAssign(v, u)    \/ MoveAssign(v, u)
  \/ \E e \in Elements : Append(v, e)
  \/ \E i \in 0 .. MaxSize, e \in Elements : Set(v, i, e) \/ Insert(v, i, e)
  \/ \E i \in 0 .. MaxSize : Erase(v, i)

Next ==
  /\ ~aborted
  /\ \E v \in Vectors : \/ Operate(v) /\ UNCHANGED aborted
                        \/ Abort(v)

Spec == Init /\ [][Next]_vars

-----------------------------------------------------------------------------
\* Every allocated array belongs to exactly one vector, and no vector has an
\* array that was deleted: whatever the order of copies, moves, swaps and
\* reallocations, nothing is deleted twice, used after it or leaked.
Owned ==
  /\ DOMAIN heap = {vec[v].arr : v \in Alive} \ {NULL}
  /\ \A v, u \in Alive : vec[v].arr = vec[u].arr => v = u \/ vec[v].arr = NULL

\* The array of a vector has the words that capacity counts, and room for all
\* its elements, so that no get() or set() below the size leaves it.
InCapacity ==
  \A v \in Alive :
    /\ vec[v].size * vec[v].elemSize <= WORD_BITS * vec[v].capacity
    /\ IF vec[v].arr = NULL THEN vec[v].capacity = 0
       ELSE DOMAIN heap[vec[v].arr] = 0 .. vec[v].capacity - 1

\* "assert(arr == nullptr)" in append(): a vector with no capacity has no
\* array.
NeverAborts == ~aborted

-----------------------------------------------------------------------------
(***************************************************************************)
(* The elements get() returns form the abstract sequences: writing one     *)
(* never changes a neighbour in the same words, bits left behind by        *)
(* erase() never show again, and a vector never changes with another.      *)
(***************************************************************************)
Items(v) ==
  [width |-> vec[v].elemSize,
   items |-> [i \in 1 .. vec[v].size |-> GetIn(heap[vec[v].arr], vec[v], i - 1)]]

Shown == INSTANCE ElementSequences WITH seq <- [v \in Alive |-> Items(v)]

\* Every operation has the effect on the sequences that its comment states.
ImplementsSequences == Shown!Spec
=============================================================================
