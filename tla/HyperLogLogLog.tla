--------------------------- MODULE HyperLogLogLog ---------------------------
(***************************************************************************)
(* A program that holds several HyperLogLogLog objects and calls their     *)
(* public operations in any order: construction with any flags, addJr, and *)
(* merge into a variable.  The object is single-threaded and every call    *)
(* runs to its end, so each call is one step.                              *)
(***************************************************************************)
EXTENDS Sketch

CONSTANT Sketches  \* names of the program's sketch variables

VARIABLE sketch  \* sketch[s]: the object in variable s, once it holds one

Held == DOMAIN sketch

Init == sketch = [s \in {} |-> NewSketch({})]

Assign(s, object) ==
  sketch' = [t \in Held \cup {s} |-> IF t = s THEN object ELSE sketch[t]]

\* s = HyperLogLogLog(m, mBits, flags).  Invalid flags throw before anything
\* is assigned.
Construct(s, flags) ==
  /\ ValidFlags(Normalised(flags))
  /\ Assign(s, NewSketch(Normalised(flags)))

Add(s, j, r) ==
  /\ s \in Held
  /\ Assign(s, AddJr(sketch[s], j, r))

\* s = t.merge(u).  Different flags throw before anything is assigned.
MergeInto(s, t, u) ==
  /\ t \in Held
  /\ u \in Held
  /\ sketch[t].flags = sketch[u].flags
  /\ Assign(s, Merge(sketch[t], sketch[u]))

Next ==
  \E s \in Sketches :
    \/ \E flags \in Flags : Construct(s, flags)
    \/ \E j \in Registers, r \in Rank : Add(s, j, r)
    \/ \E t, u \in Sketches : MergeInto(s, t, u)

Spec == Init /\ [][Next]_sketch

-----------------------------------------------------------------------------
\* The fields keep the ranges their widths in the code give them, the flags
\* are those the constructor accepts, and no register exceeds what S can hold,
\* so that a value in M can move to S.
TypeOK ==
  /\ Held \subseteq Sketches
  /\ sketch \in [Held -> SketchType]
  /\ \A s \in Held :
       /\ ValidFlags(sketch[s].flags)
       /\ Ranks(sketch[s]) \in [Registers -> Value]

\* S holds a register exactly when no offset from B reaches its value.  Over
\* all histories of stores, rebases up and down, and merges, nothing that
\* would fit in M lingers in S (find() would return the stale entry), and no
\* dense entry stands for a value that would have wrapped.
SparseIffOutsideWindow ==
  \A s \in Held : DOMAIN sketch[s].S = Sparse(sketch[s], sketch[s].B)

\* lowerBound, on which addJr returns at once, is never above a register: it
\* is only recomputed by compress(), so it lags behind, but never ahead.
LowerBoundSound ==
  \A s \in Held : \A j \in Registers : sketch[s].lowerBound <= Get(sketch[s], j)

\* "maintain the invariant that the base is always the bottom value" (the
\* comment at HYPERLOGLOGLOG_COMPRESS_BOTTOM), with the count of the registers
\* that hold it, kept by decrements between two compressions, exact: zero
\* would leave a base below every register.
BottomInvariant ==
  \A s \in Held : sketch[s].flags = {"BOTTOM"} =>
    LET low == {j \in Registers : Get(sketch[s], j) = sketch[s].B}
    IN  /\ sketch[s].B = sketch[s].lowerBound
        /\ \A j \in Registers : sketch[s].B <= Get(sketch[s], j)
        /\ sketch[s].minValueCount = Cardinality(low)
        /\ low # {}

\* With full compression after every update, the sparse map is as small as
\* any base allows (test.cpp requires bitSize() == minimumBits(...) of its
\* default sketches), although the search stops early and keeps the old base
\* on a tie.
FullIsOptimal ==
  \A s \in Held : {"WHEN_ALWAYS", "TYPE_FULL"} \subseteq sketch[s].flags =>
    Cardinality(DOMAIN sketch[s].S) = MinimumSparse(sketch[s])

\* BOTTOM compresses only when the last register at the base has left it, so
\* a compression is never in vain: apart from the one that ends a merge, each
\* raises the base, and there are no more rebases than the base has values.
BottomAmortised ==
  \A s \in Held : sketch[s].flags = {"BOTTOM"} =>
    /\ sketch[s].compressCount <= sketch[s].rebaseCount + 1
    /\ sketch[s].rebaseCount <= sketch[s].B

-----------------------------------------------------------------------------
\* A call of addJr on s.
IsAdd(s) == \E j \in Registers, r \in Rank : Add(s, j, r)

\* An addJr that moves the base of a FULL or INCREASE sketch leaves S no
\* larger than it was, even when the element itself was appended to S: the
\* "compression" never makes the sketch grow, so no run of them goes back and
\* forth between two bases.  Only TYPE_FULL ever lowers the base: "only allow
\* rebasing by increasing the base" (the comment at
\* HYPERLOGLOGLOG_COMPRESS_TYPE_INCREASE).
RebaseForTheBetter ==
  [][\A s \in Held :
       IsAdd(s) /\ sketch'[s].B # sketch[s].B =>
         /\ sketch[s].flags # {"BOTTOM"} =>
              Cardinality(DOMAIN sketch'[s].S) <= Cardinality(DOMAIN sketch[s].S)
         /\ "TYPE_FULL" \notin sketch[s].flags => sketch[s].B < sketch'[s].B]_sketch

-----------------------------------------------------------------------------
(***************************************************************************)
(* The registers a sketch presents are those of the abstract program: no   *)
(* choice of flags and no history of compressions shows through.           *)
(***************************************************************************)
Shown == [s \in Held |-> Ranks(sketch[s])]

Oracle == INSTANCE MaxRegisters WITH reg <- Shown

\* Every call acts on the registers as the plain HyperLogLog of the tests
\* does: addJr takes the larger value, merge the register-wise maximum.
ImplementsMaxRegisters == Oracle!Spec
=============================================================================
