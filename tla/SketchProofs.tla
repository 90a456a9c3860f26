---------------------------- MODULE SketchProofs ----------------------------
(***************************************************************************)
(* Theorems about the sketches, for any number of registers, any widths    *)
(* and any number of objects of each class.                                *)
(*                                                                         *)
(* MergeLoops first: the loops of compress(), rebase() and merge() compute *)
(* what Sketch says in one step.  The inductive invariant says of each     *)
(* loop how far it has come; the refinement of HyperLogLogLog rests on it. *)
(* Then HyperLogLogLog itself, and Library, which adds the other classes.  *)
(*                                                                         *)
(* They all assume that addJr is given ranks below rLimit, as the comment  *)
(* there requires: rLimit itself would be stored in S as 0.                *)
(***************************************************************************)
EXTENDS MergeLoops, Library, SketchLemmas

-----------------------------------------------------------------------------
(***************************************************************************)
(* The loops: MergeLoops.                                                  *)
(***************************************************************************)
\* Of a set of registers, those a loop has passed when it stands at register n.
Before(A, n) == {i \in A : i < n}

\* Where iterate() over an object stands when its next register is n.
Reached(S, n) == [j |-> n, i |-> Cardinality(Before(DOMAIN S, n))]

\* The values of the registers before n.
Values(o, n) == {Get(o, i) : i \in Before(Registers, n)}

LeastOf(x, T) == x \in T /\ \A y \in T : x <= y

\* The object once compress() has its lower bound.
Bounded(o) == [o EXCEPT !.lowerBound = Lowest(o)]

Counted(o) ==
  [o EXCEPT !.lowerBound = Lowest(o),
            !.minValueCount = Cardinality({i \in Registers : Get(o, i) = Lowest(o)})]

Locals == [potentialBase : Nat, nextPotentialBase : Nat, bestNs : Nat,
           bestPotentialBase : Nat, nBelowB : Nat, ns : Nat, newB : Nat]

-----------------------------------------------------------------------------
(***************************************************************************)
(* Where each loop of compress(), called on the object o, stands with      *)
(* register n next.                                                        *)
(***************************************************************************)
InFullLowest(o, n) ==
  /\ pc = "fullLowest" /\ "TYPE_FULL" \in o.flags
  /\ cursor = Reached(o.S, n)
  /\ sk = o
  /\ local = [NoLocals EXCEPT !.potentialBase = local.potentialBase,
                              !.bestNs = Cardinality(DOMAIN o.S),
                              !.bestPotentialBase = o.B]
  /\ LeastOf(local.potentialBase, Values(o, n) \cup {rLimit})

\* The registers counted in nBelowB while the base p is tried.
Passed(o, p, n) == {i \in Registers : Get(o, i) < p \/ (Get(o, i) = p /\ i < n)}

\* Of the present base and the values below p, b is the choice of
\* compressFull() and needs ns sparse entries.
BestBelow(o, p, ns, b) ==
  LET size(c) == Cardinality(Sparse(o, c))
      tried   == {c \in Values(o, m) : c < p}
  IN  /\ \A c \in tried : ns <= size(c)
      /\ \/ b = o.B /\ ns = Cardinality(DOMAIN o.S)
         \/ /\ b \in tried /\ ns = size(b)
            /\ ns < Cardinality(DOMAIN o.S)
            /\ \A c \in tried : size(c) = ns => b <= c

InFullTry(o, n) ==
  LET p == local.potentialBase
  IN  /\ pc = "fullTry" /\ "TYPE_FULL" \in o.flags
      /\ cursor = Reached(o.S, n)
      /\ sk = Bounded(o)
      /\ local \in Locals
      /\ p \in Values(o, m)
      /\ local.ns = Cardinality(Before(Sparse(o, p), n))
      /\ local.nBelowB = Cardinality(Passed(o, p, n))
      /\ LeastOf(local.nextPotentialBase, {v \in Values(o, n) : p < v} \cup {rLimit})
      /\ BestBelow(o, p, local.bestNs, local.bestPotentialBase)

InFullChosen(o) ==
  /\ pc = "fullChosen" /\ "TYPE_FULL" \in o.flags
  /\ sk = Bounded(o)
  /\ local.bestPotentialBase = BestBase(o)

InIncreaseNext(o, n) ==
  /\ pc = "increaseNext"
  /\ "TYPE_FULL" \notin o.flags /\ "TYPE_INCREASE" \in o.flags
  /\ cursor = Reached(o.S, n)
  /\ sk = [o EXCEPT !.lowerBound = sk.lowerBound]
  /\ LeastOf(sk.lowerBound, Values(o, n) \cup {rLimit})
  /\ local = [NoLocals EXCEPT !.potentialBase = local.potentialBase]
  /\ LeastOf(local.potentialBase, {v \in Values(o, n) : o.B < v} \cup {rLimit})

InIncreaseTry(o, n) ==
  /\ pc = "increaseTry"
  /\ "TYPE_FULL" \notin o.flags /\ "TYPE_INCREASE" \in o.flags
  /\ cursor = Reached(o.S, n)
  /\ sk = Bounded(o)
  /\ local = [NoLocals EXCEPT !.potentialBase = NextValue(o),
                              !.ns = Cardinality(Before(Sparse(o, NextValue(o)), n))]

InBottomLowest(o, n) ==
  /\ pc = "bottomLowest"
  /\ "TYPE_FULL" \notin o.flags /\ "TYPE_INCREASE" \notin o.flags
  /\ cursor = Reached(o.S, n)
  /\ sk = [o EXCEPT !.lowerBound = sk.lowerBound]
  /\ LeastOf(sk.lowerBound, Values(o, n) \cup {rLimit})
  /\ local = NoLocals

InBottomCount(o, n) ==
  /\ pc = "bottomCount"
  /\ "TYPE_FULL" \notin o.flags /\ "TYPE_INCREASE" \notin o.flags
  /\ cursor = Reached(o.S, n)
  /\ sk = [o EXCEPT !.lowerBound = Lowest(o),
                    !.minValueCount =
                      Cardinality(Before({i \in Registers : Get(o, i) = Lowest(o)}, n))]
  /\ local = NoLocals

\* rebase(b) of u with register n next: the registers before n have moved.
Halfway(u, b, n) ==
  [u EXCEPT
     !.M = [i \in Registers |->
              IF i < n /\ InWindow(Get(u, i), b)
              THEN (Get(u, i) - b) % (maxOffset + 1) ELSE u.M[i]],
     !.S = [i \in (DOMAIN u.S \ Before(DOMAIN u.S, n)) \cup Before(Sparse(u, b), n) |->
              Get(u, i) % rLimit]]

\* u is what the search has made of o, and Compress(o) is its rebase to newB.
InRebaseOf(o, u, n) ==
  /\ pc = "rebase"
  /\ cursor = [j |-> n, i |-> 0]
  /\ RepOK(u) /\ SameRanks(o, u)
  /\ local.newB \in Value
  /\ Compress(o) = [Rebase(u, local.newB) EXCEPT !.compressCount = @ + 1]
  /\ sk = Halfway(u, local.newB, n)

InRebase(o, n) == \E u \in {Bounded(o), Counted(o)} : InRebaseOf(o, u, n)

Running(o) ==
  \/ InFullChosen(o)
  \/ \E n \in 0 .. m :
       \/ InFullLowest(o, n)   \/ InFullTry(o, n)
       \/ InIncreaseNext(o, n) \/ InIncreaseTry(o, n)
       \/ InBottomLowest(o, n) \/ InBottomCount(o, n)
       \/ InRebase(o, n)

-----------------------------------------------------------------------------
\* The object that addJr(i, r) compresses, and the condition under which it does.
After(o, i, r) == IF Get(o, i) < r THEN Store(o, i, r) ELSE o

CallsCompress(o, i, r) ==
  ~(r <= o.lowerBound) /\ MustCompress(o, After(o, i, r), i, r)

\* compress() runs on o: at the end of an addJr of before, or of a merge.
CalledOn(o) ==
  \/ /\ result = <<>>
     /\ RepOK(before)
     /\ \E i \in Registers, r \in Rank : CallsCompress(before, i, r) /\ o = After(before, i, r)
  \/ /\ result = <<Compress(o)>>
     /\ before = o

\* merge() with the registers before n written.
Copied(n) ==
  [NewSketch(Normalised(this.flags)) EXCEPT
     !.B = JoinedBase(this, that),
     !.M = [i \in Registers |->
              IF ~(i < n) \/ i \in JoinedSparse(this, that) THEN 0
              ELSE (JoinedRank(this, that, i) - JoinedBase(this, that)) % (maxOffset + 1)],
     !.S = [i \in Before(JoinedSparse(this, that), n) |->
              JoinedRank(this, that, i) % rLimit]]

Merging ==
  /\ pc = "merge"
  /\ RepOK(this) /\ RepOK(that)
  /\ result = <<Merge(this, that)>>
  /\ j \in 0 .. m
  /\ i1 = Cardinality(Before(DOMAIN this.S, j))
  /\ i2 = Cardinality(Before(DOMAIN that.S, j))
  /\ sk = Copied(j)

\* The inductive invariant: which call runs, and how far it has come.
LoopInv ==
  \/ pc = "absent" /\ result = <<>>
  \/ pc = "idle" /\ RepOK(sk) /\ (result # <<>> => result = <<sk>>)
  \/ Merging
  \/ \E o : RepOK(o) /\ CalledOn(o) /\ Running(o)

-----------------------------------------------------------------------------
(***************************************************************************)
(* Counting a set of registers one register at a time.                     *)
(***************************************************************************)
LEMMA BeforeStep ==
  ASSUME NEW A \in SUBSET Registers, NEW n \in Registers
  PROVE  /\ Before(A, n + 1) = IF n \in A THEN Before(A, n) \cup {n} ELSE Before(A, n)
         /\ n \notin Before(A, n)
  <1>1. n \in Int /\ \A i \in A : i \in Int
    BY SketchAssumption DEF Registers
  <1>2. \A i \in A : i < n + 1 <=> i < n \/ i = n
    BY <1>1
  <1>3. n \notin Before(A, n)
    BY <1>1 DEF Before
  <1>4. CASE n \in A
    BY <1>2, <1>3, <1>4 DEF Before
  <1>5. CASE n \notin A
    BY <1>2, <1>3, <1>5 DEF Before
  <1> QED BY <1>3, <1>4, <1>5

LEMMA BeforeEnds ==
  ASSUME NEW A \in SUBSET Registers
  PROVE  Before(A, 0) = {} /\ Before(A, m) = A
  <1>1. \A i \in A : ~(i < 0) /\ i < m
    BY SketchAssumption DEF Registers
  <1> QED BY <1>1 DEF Before

LEMMA CountStep ==
  ASSUME NEW A \in SUBSET Registers, NEW n \in Registers
  PROVE  Cardinality(Before(A, n + 1)) =
           Cardinality(Before(A, n)) + IF n \in A THEN 1 ELSE 0
  <1>1. IsFiniteSet(Before(A, n)) /\ Cardinality(Before(A, n)) \in Nat
    <2>1. Before(A, n) \in SUBSET Registers
      BY DEF Before
    <2> QED BY <2>1, RegistersCounted
  <1>2. Cardinality(Before(A, n) \cup {n}) = Cardinality(Before(A, n)) + 1
    BY <1>1, BeforeStep, FS_AddElement
  <1>3. CASE n \in A
    BY <1>2, <1>3, BeforeStep
  <1>4. CASE n \notin A
    <2>1. Before(A, n + 1) = Before(A, n)
      BY <1>4, BeforeStep
    <2> QED BY <1>1, <1>4, <2>1
  <1> QED BY <1>3, <1>4

LEMMA CountEnds ==
  ASSUME NEW A \in SUBSET Registers
  PROVE  Cardinality(Before(A, 0)) = 0 /\ Cardinality(Before(A, m)) = Cardinality(A)
  BY BeforeEnds, FS_EmptySet

LEMMA LeastIsMin ==
  ASSUME NEW T \in SUBSET Nat, NEW x, LeastOf(x, T)
  PROVE  x = Min(T)
  <1>1. x \in T /\ \A y \in T : x <= y
    BY DEF LeastOf
  <1>2. Min(T) \in T /\ \A y \in T : Min(T) <= y
    BY <1>1, MinExists
  <1>3. x <= Min(T) /\ Min(T) <= x /\ x \in Nat /\ Min(T) \in Nat
    BY <1>1, <1>2
  <1> QED BY <1>3

LEMMA LeastStep ==
  ASSUME NEW T \in SUBSET Nat, NEW x, LeastOf(x, T), NEW y \in Nat
  PROVE  LeastOf(IF y < x THEN y ELSE x, T \cup {y})
  BY DEF LeastOf

LEMMA ValuesStep ==
  ASSUME NEW o, NEW n \in Registers
  PROVE  Values(o, n + 1) = Values(o, n) \cup {Get(o, n)}
  <1>1. Before(Registers, n + 1) = Before(Registers, n) \cup {n}
    BY BeforeStep
  <1> QED BY <1>1 DEF Values

LEMMA ValuesEnds ==
  ASSUME NEW o
  PROVE  Values(o, 0) = {} /\ Values(o, m) = {Get(o, i) : i \in Registers}
  BY BeforeEnds DEF Values

-----------------------------------------------------------------------------
(***************************************************************************)
(* iterate(): the cursor into the sorted map.                              *)
(***************************************************************************)
\* The entry with i smaller keys is the entry i: the sizes of the sets of
\* smaller keys are all different.
LEMMA KeyAtIs ==
  ASSUME NEW S, DOMAIN S \in SUBSET Registers, NEW k \in DOMAIN S
  PROVE  KeyAt(S, Cardinality(Before(DOMAIN S, k))) = k
  <1> DEFINE D    == DOMAIN S
             C(l) == Cardinality(Before(D, l))
  <1>1. \A l \in D : l \in Int /\ IsFiniteSet(Before(D, l)) /\ C(l) \in Nat
    <2>1. \A l \in D : Before(D, l) \in SUBSET Registers /\ l \in Int
      BY SketchAssumption DEF Before, Registers
    <2> QED BY <2>1, RegistersCounted
  <1>2. ASSUME NEW l1 \in D, NEW l2 \in D, l1 < l2
        PROVE  C(l1) < C(l2)
    <2>1. Before(D, l1) \cup {l1} \in SUBSET Before(D, l2) /\ l1 \notin Before(D, l1)
      <3>1. \A l \in D : l < l1 => l < l2
        BY <1>1, <1>2
      <3>2. ~(l1 < l1)
        BY <1>1
      <3> HIDE DEF D
      <3> QED BY <1>2, <3>1, <3>2 DEF Before
    <2>2. Cardinality(Before(D, l1) \cup {l1}) = C(l1) + 1
      BY <1>1, <2>1, FS_AddElement
    <2>3. Cardinality(Before(D, l1) \cup {l1}) <= C(l2)
      BY <1>1, <2>1, FS_Subset
    <2> QED BY <1>1, <2>2, <2>3
  <1>3. \A l \in D : C(l) = C(k) => l = k
    BY <1>1, <1>2
  <1>4. \A i : KeyAt(S, i) = CHOOSE l \in D : C(l) = i
    BY DEF KeyAt, Before
  <1> HIDE DEF C, D
  <1>5. k \in D
    BY DEF D
  <1>6. KeyAt(S, C(k)) = k
    BY <1>3, <1>4, <1>5
  <1> QED BY <1>6 DEF C, D

\* Between two entries the cursor is at the next key.
LEMMA CursorIs ==
  ASSUME NEW S, DOMAIN S \in SUBSET Registers, NEW n \in 0 .. m,
         NEW i, i = Cardinality(Before(DOMAIN S, n))
  PROVE  /\ i < Cardinality(DOMAIN S) <=> \E k \in DOMAIN S : n <= k
         /\ i < Cardinality(DOMAIN S) =>
              /\ KeyAt(S, i) \in DOMAIN S /\ n <= KeyAt(S, i)
              /\ \A k \in DOMAIN S : n <= k => KeyAt(S, i) <= k
  <1> DEFINE D == DOMAIN S
  <1>1. /\ \A k \in D : k \in Nat
        /\ Before(D, n) \in SUBSET D
        /\ IsFiniteSet(D) /\ Cardinality(D) \in Nat /\ i \in Nat
    <2>1. Before(D, n) \in SUBSET Registers /\ Before(D, n) \in SUBSET D
      BY DEF Before
    <2> QED BY <2>1, RegistersCounted, SketchAssumption DEF Registers
  <1>2. i <= Cardinality(D) /\ (i = Cardinality(D) => Before(D, n) = D)
    BY <1>1, FS_Subset
  <1>3. CASE \A k \in D : ~(n <= k)
    <2>1. Before(D, n) = D
      BY <1>1, <1>3, SketchAssumption DEF Before
    <2> QED BY <1>1, <1>3, <2>1
  <1>4. CASE \E k \in D : n <= k
    <2> DEFINE T == {k \in D : n <= k}
    <2>1. Before(D, n) # D
      BY <1>1, <1>4, SketchAssumption DEF Before
    <2>2. i < Cardinality(D)
      BY <1>1, <1>2, <2>1
    <2>3. T \in SUBSET Nat /\ T # {}
      BY <1>1, <1>4
    <2>4. Min(T) \in T /\ \A k \in T : Min(T) <= k
      <3> HIDE DEF T
      <3> QED BY <2>3, MinExists
    <2>5. PICK k : k = Min(T)
      OBVIOUS
    <2>6. k \in D /\ n <= k /\ \A l \in D : n <= l => k <= l
      BY <2>4, <2>5
    <2>7. Before(D, k) = Before(D, n)
      <3>1. \A l \in D : l < k <=> l < n
        BY <1>1, <2>6, SketchAssumption
      <3> QED BY <3>1 DEF Before
    <2>8. KeyAt(S, i) = k
      BY <2>6, <2>7, KeyAtIs
    <2> QED BY <1>4, <2>2, <2>6, <2>8
  <1> QED BY <1>3, <1>4

\* iterate() ends after the last register, and passes to the function every
\* register in turn with its value.
LEMMA IterateStep ==
  ASSUME NEW o, DOMAIN o.S \in SUBSET Registers, NEW n \in 0 .. m,
         cursor = Reached(o.S, n), sk.S = o.S, sk.M = o.M, sk.B = o.B
  PROVE  /\ More <=> n \in Registers
         /\ n \in Registers =>
              /\ Presented = Get(o, n)
              /\ Advance => cursor' = Reached(o.S, n + 1)
  <1> DEFINE i == Cardinality(Before(DOMAIN o.S, n))
  <1>1. cursor.j = n /\ cursor.i = i
    BY DEF Reached
  <1>2. /\ i < Cardinality(DOMAIN o.S) <=> \E k \in DOMAIN o.S : n <= k
        /\ i < Cardinality(DOMAIN o.S) =>
             /\ KeyAt(o.S, i) \in DOMAIN o.S /\ n <= KeyAt(o.S, i)
             /\ \A k \in DOMAIN o.S : n <= k => KeyAt(o.S, i) <= k
    BY CursorIs
  <1> HIDE DEF i
  <1>3. \A k \in DOMAIN o.S : k \in 0 .. m - 1
    BY DEF Registers
  <1>4. n \in Registers <=> n < m
    BY SketchAssumption DEF Registers
  <1>5. More <=> n \in Registers
    BY <1>1, <1>2, <1>3, <1>4, SketchAssumption DEF More
  <1>6. AtEntry <=> n \in DOMAIN o.S
    BY <1>1, <1>2, <1>3, SketchAssumption DEF AtEntry
  <1>7. AtEntry => KeyAt(o.S, i) = n
    BY <1>1, <1>2, <1>3, <1>6, SketchAssumption DEF AtEntry
  <1>8. Presented = Get(o, n)
    BY <1>1, <1>6, <1>7 DEF Presented, Get
  <1>9. ASSUME n \in Registers, Advance
        PROVE  cursor' = Reached(o.S, n + 1)
    <2>1. Cardinality(Before(DOMAIN o.S, n + 1)) = i + IF n \in DOMAIN o.S THEN 1 ELSE 0
      BY <1>9, CountStep DEF i
    <2>2. i \in Nat
      <3>1. Before(DOMAIN o.S, n) \in SUBSET Registers
        BY DEF Before
      <3> QED BY <3>1, RegistersCounted DEF i
    <2>3. cursor' = [j |-> n + 1, i |-> IF n \in DOMAIN o.S THEN i + 1 ELSE i]
      BY <1>1, <1>6, <1>9 DEF Advance
    <2> QED BY <2>1, <2>2, <2>3 DEF Reached
  <1> QED BY <1>5, <1>8, <1>9

\* Every loop starts before the first register.
LEMMA StartIs ==
  ASSUME NEW S, DOMAIN S \in SUBSET Registers
  PROVE  Start = Reached(S, 0)
  BY CountEnds DEF Start, Reached

-----------------------------------------------------------------------------
(***************************************************************************)
(* The search of compressFull().                                           *)
(***************************************************************************)
LEMMA SearchFields ==
  ASSUME NEW o, RepOK(o)
  PROVE  /\ o \in SketchType /\ DOMAIN o.S \in SUBSET Registers
         /\ o.B \in Nat /\ Cardinality(DOMAIN o.S) \in Nat
         /\ \A i \in Registers : Get(o, i) \in Nat /\ Get(o, i) < rLimit
         /\ \A n : Values(o, n) \in SUBSET Nat
         /\ \A v \in Values(o, m) : v \in Value
         /\ \A c : Cardinality(Sparse(o, c)) \in Nat
  <1>1. /\ o \in SketchType /\ o.B \in Value /\ DOMAIN o.S \in SUBSET Registers
        /\ \A i \in Registers : Get(o, i) \in Value
    BY SketchFields DEF RepOK
  <1>2. \A c : Cardinality(Sparse(o, c)) \in Nat
    BY SparseCounted
  <1>3. Cardinality(DOMAIN o.S) \in Nat
    BY <1>1, RegistersCounted
  <1>4. \A n : \A v \in Values(o, n) : v \in Value
    BY <1>1 DEF Values, Before
  <1> QED BY <1>1, <1>2, <1>3, <1>4, SketchAssumption DEF Value

LEMMA PassedStep ==
  ASSUME NEW o, RepOK(o), NEW p \in Nat, NEW n \in Registers
  PROVE  Cardinality(Passed(o, p, n + 1)) =
           Cardinality(Passed(o, p, n)) + IF Get(o, n) = p THEN 1 ELSE 0
  <1>1. \A i \in Registers : (i < n + 1 <=> i < n \/ i = n) /\ ~(n < n)
    BY SketchAssumption DEF Registers
  <1>2. \A i \in Registers : Get(o, i) = p => ~(Get(o, i) < p)
    OBVIOUS
  <1>3. CASE Get(o, n) = p
    <2>1. Passed(o, p, n + 1) = Passed(o, p, n) \cup {n} /\ n \notin Passed(o, p, n)
      BY <1>1, <1>2, <1>3 DEF Passed
    <2>2. IsFiniteSet(Passed(o, p, n))
      BY RegistersCounted DEF Passed
    <2>3. Cardinality(Passed(o, p, n) \cup {n}) = Cardinality(Passed(o, p, n)) + 1
      BY <2>1, <2>2, FS_AddElement
    <2> QED BY <1>3, <2>1, <2>3
  <1>4. CASE Get(o, n) # p
    <2>1. Passed(o, p, n + 1) = Passed(o, p, n)
      BY <1>1, <1>4 DEF Passed
    <2>2. Cardinality(Passed(o, p, n)) \in Nat
      BY RegistersCounted DEF Passed
    <2> QED BY <1>4, <2>1, <2>2
  <1> QED BY <1>3, <1>4

\* When all registers have been seen with the base p, those counted are the
\* registers below the next base q.
LEMMA PassedEnds ==
  ASSUME NEW o, RepOK(o), NEW p \in Nat, NEW q \in Nat,
         p < q, \A v \in Values(o, m) : p < v => q <= v
  PROVE  Passed(o, p, m) = Passed(o, q, 0)
  <1>1. \A i \in Registers : i < m /\ ~(i < 0) /\ Get(o, i) \in Nat
    BY SearchFields, SketchAssumption DEF Registers
  <1>2. \A i \in Registers : p < Get(o, i) => q <= Get(o, i)
    BY ValuesEnds
  <1>3. \A i \in Registers : Get(o, i) < q <=> Get(o, i) < p \/ Get(o, i) = p
    BY <1>1, <1>2
  <1> QED BY <1>1, <1>3 DEF Passed

\* "this is a lower bound on ns": a base above the one tried leaves every
\* register counted in nBelowB outside its window.
LEMMA PassedAreSparse ==
  ASSUME NEW o, RepOK(o), NEW p \in Nat, NEW n, NEW b \in Nat, p < b
  PROVE  Cardinality(Passed(o, p, n)) <= Cardinality(Sparse(o, b))
  <1>1. \A i \in Registers : Get(o, i) \in Nat
    BY SearchFields
  <1>2. \A i \in Registers : Get(o, i) < p \/ Get(o, i) = p => ~(b <= Get(o, i))
    BY <1>1
  <1>3. Passed(o, p, n) \in SUBSET Sparse(o, b)
    BY <1>2 DEF Passed, Sparse, InWindow
  <1>4. IsFiniteSet(Sparse(o, b))
    BY RegistersCounted DEF Sparse
  <1> QED BY <1>3, <1>4, FS_Subset

\* Before the first base is tried, the present one is the best.
LEMMA BestBelowStart ==
  ASSUME NEW o, NEW p, \A v \in Values(o, m) : ~(v < p)
  PROVE  BestBelow(o, p, Cardinality(DOMAIN o.S), o.B)
  BY DEF BestBelow

\* The end of the loop's body takes the base p into account; q is the next.
LEMMA BestBelowStep ==
  ASSUME NEW o, RepOK(o), NEW p \in Values(o, m), NEW q \in Nat,
         p < q, \A v \in Values(o, m) : p < v => q <= v,
         NEW ns \in Nat, NEW b \in Nat, BestBelow(o, p, ns, b),
         NEW size, size = Cardinality(Sparse(o, p))
  PROVE  BestBelow(o, q, IF size < ns THEN size ELSE ns, IF size < ns THEN p ELSE b)
  <1> DEFINE Size(c)  == Cardinality(Sparse(o, c))
             Below(t) == {c \in Values(o, m) : c < t}
  <1>1. /\ Values(o, m) \in SUBSET Nat /\ Cardinality(DOMAIN o.S) \in Nat
        /\ \A c : Size(c) \in Nat
    BY SearchFields
  <1>2. \A c \in Values(o, m) : c < q <=> c < p \/ c = p
    BY <1>1
  <1>3. Below(q) = Below(p) \cup {p}
    BY <1>2
  <1>4. /\ \A c \in Below(p) : ns <= Size(c)
        /\ \/ b = o.B /\ ns = Cardinality(DOMAIN o.S)
           \/ /\ b \in Below(p) /\ ns = Size(b) /\ ns < Cardinality(DOMAIN o.S)
              /\ \A c \in Below(p) : Size(c) = ns => b <= c
    BY DEF BestBelow
  <1>5. \A c \in Below(p) : c \in Nat /\ c < p
    BY <1>1
  <1>6. p \in Nat /\ size = Size(p)
    BY <1>1
  <1>7. \A t, k, a : BestBelow(o, t, k, a) <=>
          /\ \A c \in Below(t) : k <= Size(c)
          /\ \/ a = o.B /\ k = Cardinality(DOMAIN o.S)
             \/ /\ a \in Below(t) /\ k = Size(a) /\ k < Cardinality(DOMAIN o.S)
                /\ \A c \in Below(t) : Size(c) = k => a <= c
    BY DEF BestBelow
  <1> HIDE DEF Size, Below
  <1>8. CASE size < ns
    <2>1. \A c \in Below(p) : size < Size(c)
      BY <1>1, <1>4, <1>6, <1>8
    <2>2. size < Cardinality(DOMAIN o.S)
      BY <1>1, <1>4, <1>6, <1>8
    <2>3. \A c \in Below(q) : size <= Size(c) /\ (Size(c) = size => p <= c)
      BY <1>1, <1>3, <1>6, <2>1
    <2>4. p \in Below(q)
      BY <1>3
    <2>5. BestBelow(o, q, size, p)
      BY <1>6, <1>7, <2>2, <2>3, <2>4
    <2> QED BY <1>8, <2>5
  <1>9. CASE ~(size < ns)
    <2>1. \A c \in Below(q) : ns <= Size(c)
      BY <1>1, <1>3, <1>4, <1>6, <1>9
    <2>2. b \in Below(p) => \A c \in Below(p) \cup {p} : Size(c) = ns /\ c = p => b <= c
      BY <1>5, <1>6
    <2>3. \/ b = o.B /\ ns = Cardinality(DOMAIN o.S)
          \/ /\ b \in Below(q) /\ ns = Size(b) /\ ns < Cardinality(DOMAIN o.S)
             /\ \A c \in Below(q) : Size(c) = ns => b <= c
      BY <1>3, <1>4, <2>2
    <2>4. BestBelow(o, q, ns, b)
      BY <1>7, <2>1, <2>3
    <2> QED BY <1>9, <2>4
  <1> QED BY <1>8, <1>9

\* The search may stop when as many registers lie below the next base p as the
\* best base needs sparse entries: the choice is that of the whole search.
LEMMA SearchEnds ==
  ASSUME NEW o, RepOK(o), NEW p \in Nat, NEW ns \in Nat, NEW b \in Nat,
         BestBelow(o, p, ns, b),
         ns <= Cardinality(Passed(o, p, 0)) \/ rLimit <= p
  PROVE  b = BestBase(o)
  <1> DEFINE Size(c) == Cardinality(Sparse(o, c))
             tried   == {c \in Values(o, m) : c < p}
             C       == Candidates(o)
  <1>1. /\ Values(o, m) \in SUBSET Nat /\ Cardinality(DOMAIN o.S) \in Nat
        /\ \A c : Size(c) \in Nat
        /\ \A v \in Values(o, m) : v < rLimit
        /\ \A i \in Registers : Get(o, i) \in Nat
    <2>1. \A v \in Values(o, m) : v \in Value
      BY SearchFields
    <2> QED BY <2>1, SearchFields, SketchAssumption DEF Value
  <1>2. \A c \in Values(o, m) : ~(c < p) => ns <= Size(c)
    <2> SUFFICES ASSUME NEW c \in Values(o, m), ~(c < p)
                 PROVE  ns <= Size(c)
      OBVIOUS
    <2>1. ns <= Cardinality(Passed(o, p, 0))
      BY <1>1, SketchAssumption
    <2>2. Passed(o, p, 0) \in SUBSET Sparse(o, c)
      <3>1. \A i \in Registers : Get(o, i) < p \/ (Get(o, i) = p /\ i < 0) => ~(c <= Get(o, i))
        BY <1>1, SketchAssumption DEF Registers
      <3> QED BY <3>1 DEF Passed, Sparse, InWindow
    <2>3. IsFiniteSet(Sparse(o, c)) /\ Cardinality(Passed(o, p, 0)) \in Nat
      BY RegistersCounted DEF Sparse, Passed
    <2>4. Cardinality(Passed(o, p, 0)) <= Size(c)
      BY <2>2, <2>3, FS_Subset
    <2> QED BY <1>1, <2>1, <2>3, <2>4
  <1>3. /\ \A c \in tried : ns <= Size(c)
        /\ \/ b = o.B /\ ns = Cardinality(DOMAIN o.S)
           \/ /\ b \in tried /\ ns = Size(b) /\ ns < Cardinality(DOMAIN o.S)
              /\ \A c \in tried : Size(c) = ns => b <= c
    BY DEF BestBelow
  <1>4. \A c \in Values(o, m) : ns <= Size(c)
    BY <1>2, <1>3
  <1>5. C = {c \in Values(o, m) : Size(c) < Cardinality(DOMAIN o.S)}
    BY <1>1, ValuesEnds DEF Candidates
  <1>6. CASE b = o.B /\ ns = Cardinality(DOMAIN o.S)
    <2>1. C = {}
      BY <1>1, <1>4, <1>5, <1>6
    <2> QED BY <1>6, <2>1 DEF BestBase
  <1>7. CASE /\ b \in tried /\ ns = Size(b) /\ ns < Cardinality(DOMAIN o.S)
             /\ \A c \in tried : Size(c) = ns => b <= c
    <2> DEFINE T == {Size(c) : c \in C}
               U == {c \in C : Size(c) = FewestSparse(o)}
    <2>1. b \in C /\ b \in Nat /\ b < p
      BY <1>1, <1>5, <1>7
    <2>2. LeastOf(ns, T) /\ T \in SUBSET Nat
      BY <1>1, <1>4, <1>5, <1>7, <2>1 DEF LeastOf
    <2>3. FewestSparse(o) = ns
      <3>1. FewestSparse(o) = Min(T)
        BY DEF FewestSparse
      <3> HIDE DEF T
      <3> QED BY <2>2, <3>1, LeastIsMin
    <2>4. \A c \in C : Size(c) = ns => b <= c
      <3> SUFFICES ASSUME NEW c \in C, Size(c) = ns PROVE b <= c
        OBVIOUS
      <3>1. c \in Values(o, m) /\ c \in Nat
        BY <1>1, <1>5
      <3>2. CASE c < p
        BY <1>7, <3>1, <3>2
      <3>3. CASE ~(c < p)
        BY <2>1, <3>1, <3>3
      <3> QED BY <3>2, <3>3
    <2>5. LeastOf(b, U) /\ U \in SUBSET Nat
      BY <1>1, <1>5, <1>7, <2>1, <2>3, <2>4 DEF LeastOf
    <2>6. b = Min(U)
      <3> HIDE DEF U
      <3> QED BY <2>5, LeastIsMin
    <2>7. BestBase(o) = Min(U)
      BY <2>1 DEF BestBase
    <2> QED BY <2>6, <2>7
  <1> QED BY <1>3, <1>6, <1>7

-----------------------------------------------------------------------------
(***************************************************************************)
(* The loops of compress(), one turn at a time.                            *)
(***************************************************************************)
\* A turn of a loop of compress(o): on to the next turn, or to the return.
Goes(o) ==
  /\ before' = before
  /\ Running(o)' \/ (pc' = "idle" /\ sk' = Compress(o))

\* compress() has the effect that Sketch gives the call of rebase that the
\* search chose, if any.
Chooses(o, u, needed, b) ==
  /\ needed => b \in Value /\ Compress(o) = [Rebase(u, b) EXCEPT !.compressCount = @ + 1]
  /\ ~needed => Compress(o) = [u EXCEPT !.compressCount = @ + 1]

LEMMA BoundedIs ==
  ASSUME NEW o, RepOK(o)
  PROVE  /\ RepOK(Bounded(o)) /\ SameRanks(o, Bounded(o))
         /\ RepOK(Counted(o)) /\ SameRanks(o, Counted(o))
         /\ Bounded(o).S = o.S /\ Bounded(o).M = o.M /\ Bounded(o).B = o.B
         /\ Counted(o).S = o.S /\ Counted(o).M = o.M /\ Counted(o).B = o.B
         /\ Counted(o).lowerBound = Lowest(o)
  <1>1. RepOK(Bounded(o)) /\ SameRanks(o, Bounded(o))
    BY BoundedKeeps DEF Bounded
  <1>2. RepOK(Counted(o)) /\ SameRanks(o, Counted(o))
    BY CountedKeeps DEF Counted
  <1>3. o \in SketchType
    BY DEF RepOK
  <1>4. /\ Bounded(o).S = o.S /\ Bounded(o).M = o.M /\ Bounded(o).B = o.B
        /\ Counted(o).S = o.S /\ Counted(o).M = o.M /\ Counted(o).B = o.B
        /\ Counted(o).lowerBound = Lowest(o)
    BY <1>3 DEF Bounded, Counted, SketchType
  <1> QED BY <1>1, <1>2, <1>4

\* Before its first register, rebase() has changed nothing.
LEMMA HalfwayStart ==
  ASSUME NEW u, RepOK(u), NEW b
  PROVE  Halfway(u, b, 0) = u
  <1>1. /\ u \in SketchType /\ u.M \in [Registers -> 0 .. maxOffset]
        /\ u.S \in [DOMAIN u.S -> Value] /\ DOMAIN u.S \in SUBSET Registers
    BY SketchFields DEF RepOK
  <1>2. Before(DOMAIN u.S, 0) = {} /\ Before(Sparse(u, b), 0) = {}
    <2>1. Sparse(u, b) \in SUBSET Registers
      BY DEF Sparse
    <2> QED BY <1>1, <2>1, BeforeEnds
  <1>3. \A i \in DOMAIN u.S : Get(u, i) % rLimit = u.S[i]
    BY <1>1, MaskFits, SketchAssumption DEF Get, Value
  <1>4. PICK M1 : M1 = [i \in Registers |->
                          IF i < 0 /\ InWindow(Get(u, i), b)
                          THEN (Get(u, i) - b) % (maxOffset + 1) ELSE u.M[i]]
    OBVIOUS
  <1>5. PICK S1 : S1 = [i \in (DOMAIN u.S \ Before(DOMAIN u.S, 0))
                                \cup Before(Sparse(u, b), 0) |-> Get(u, i) % rLimit]
    OBVIOUS
  <1>6. M1 = u.M
    <2>1. \A i \in Registers : ~(i < 0)
      BY SketchAssumption DEF Registers
    <2> QED BY <1>1, <1>4, <2>1
  <1>7. S1 = u.S
    <2>1. S1 = [i \in DOMAIN u.S |-> Get(u, i) % rLimit]
      BY <1>2, <1>5
    <2>2. S1 = [i \in DOMAIN u.S |-> u.S[i]]
      BY <1>3, <2>1
    <2> QED BY <1>1, <2>2
  <1>8. Halfway(u, b, 0) = [u EXCEPT !.M = M1, !.S = S1]
    BY <1>4, <1>5 DEF Halfway
  <1> QED BY <1>1, <1>6, <1>7, <1>8 DEF SketchType

LEMMA RebaseOrReturns ==
  ASSUME NEW o, RepOK(o), NEW u \in {Bounded(o), Counted(o)}, sk = u,
         NEW needed \in BOOLEAN, NEW b, Chooses(o, u, needed, b), RebaseOrReturn(needed, b)
  PROVE  Goes(o)
  <1>1. RepOK(u) /\ SameRanks(o, u)
    BY BoundedIs
  <1>2. CASE needed
    <2>1. /\ pc' = "rebase" /\ cursor' = [j |-> 0, i |-> 0]
          /\ local' = [NoLocals EXCEPT !.newB = b] /\ sk' = u /\ before' = before
      BY <1>2 DEF RebaseOrReturn, Start
    <2>2. local'.newB = b
      BY <2>1 DEF NoLocals
    <2>3. sk' = Halfway(u, local'.newB, 0)
      BY <1>1, <2>1, HalfwayStart
    <2>4. InRebaseOf(o, u, 0)'
      BY <1>1, <1>2, <2>1, <2>2, <2>3 DEF InRebaseOf, Chooses
    <2>5. InRebase(o, 0)'
      BY <2>4 DEF InRebase
    <2>6. 0 \in 0 .. m
      BY SketchAssumption
    <2> QED BY <2>1, <2>5, <2>6 DEF Goes, Running
  <1>3. CASE ~needed
    BY <1>3 DEF RebaseOrReturn, Return, Chooses, Goes
  <1> QED BY <1>2, <1>3

LEMMA LowestIsLeast ==
  ASSUME NEW o, RepOK(o), NEW x, LeastOf(x, Values(o, m) \cup {rLimit})
  PROVE  x = Lowest(o)
  <1>1. Values(o, m) \cup {rLimit} \in SUBSET Nat
    BY SearchFields, SketchAssumption
  <1> QED BY <1>1, LeastIsMin, ValuesEnds DEF Lowest

\* The least of the values seen, once one more has been seen.
LEMMA LowestStep ==
  ASSUME NEW o, RepOK(o), NEW n \in Registers,
         NEW x, LeastOf(x, Values(o, n) \cup {rLimit})
  PROVE  LeastOf(IF Get(o, n) < x THEN Get(o, n) ELSE x, Values(o, n + 1) \cup {rLimit})
  <1> DEFINE T == Values(o, n) \cup {rLimit}
  <1>1. T \in SUBSET Nat /\ Get(o, n) \in Nat
    BY SearchFields, SketchAssumption
  <1>2. Values(o, n + 1) \cup {rLimit} = T \cup {Get(o, n)}
    BY ValuesStep
  <1> HIDE DEF T
  <1>3. LeastOf(x, T)
    BY DEF T
  <1> QED BY <1>1, <1>2, <1>3, LeastStep

\* The least of the values above p.
LEMMA NextStep ==
  ASSUME NEW o, RepOK(o), NEW n \in Registers, NEW p \in Nat,
         NEW x, LeastOf(x, {v \in Values(o, n) : p < v} \cup {rLimit})
  PROVE  LeastOf(IF p < Get(o, n) /\ Get(o, n) < x THEN Get(o, n) ELSE x,
                 {v \in Values(o, n + 1) : p < v} \cup {rLimit})
  <1> DEFINE T == {v \in Values(o, n) : p < v} \cup {rLimit}
             y == Get(o, n)
  <1>1. T \in SUBSET Nat /\ y \in Nat
    BY SearchFields, SketchAssumption
  <1>2. CASE p < y
    <2>1. {v \in Values(o, n + 1) : p < v} \cup {rLimit} = T \cup {y}
      BY <1>2, ValuesStep
    <2>2. LeastOf(IF y < x THEN y ELSE x, T \cup {y})
      <3> HIDE DEF T, y
      <3>1. LeastOf(x, T)
        BY DEF T
      <3> QED BY <1>1, <3>1, LeastStep
    <2> QED BY <1>2, <2>1, <2>2
  <1>3. CASE ~(p < y)
    <2>1. {v \in Values(o, n + 1) : p < v} \cup {rLimit} = T
      BY <1>3, ValuesStep
    <2> QED BY <1>3, <2>1
  <1> QED BY <1>2, <1>3

LEMMA FullChooses ==
  ASSUME NEW o, RepOK(o), "TYPE_FULL" \in o.flags
  PROVE  Chooses(o, Bounded(o), BestBase(o) # o.B, BestBase(o))
  <1>1. CompressFull(o) = IF BestBase(o) # o.B THEN Rebase(Bounded(o), BestBase(o))
                          ELSE Bounded(o)
    BY DEF CompressFull, Bounded
  <1>2. Compress(o) = [CompressFull(o) EXCEPT !.compressCount = @ + 1]
    BY DEF Compress
  <1> QED BY <1>1, <1>2, BestBaseIs DEF Chooses

LEMMA IncreaseChooses ==
  ASSUME NEW o, RepOK(o), "TYPE_FULL" \notin o.flags, "TYPE_INCREASE" \in o.flags
  PROVE  Chooses(o, Bounded(o),
                 Cardinality(Sparse(o, NextValue(o))) < Cardinality(DOMAIN o.S), NextValue(o))
  <1> DEFINE needed == Cardinality(Sparse(o, NextValue(o))) < Cardinality(DOMAIN o.S)
  <1>1. CompressIncrease(o) = IF needed THEN Rebase(Bounded(o), NextValue(o)) ELSE Bounded(o)
    BY DEF CompressIncrease, Bounded
  <1>2. Compress(o) = [CompressIncrease(o) EXCEPT !.compressCount = @ + 1]
    BY DEF Compress
  <1> QED BY <1>1, <1>2, NextValueIs DEF Chooses

LEMMA BottomChooses ==
  ASSUME NEW o, RepOK(o), "TYPE_FULL" \notin o.flags, "TYPE_INCREASE" \notin o.flags
  PROVE  Chooses(o, Counted(o), Lowest(o) > o.B, Lowest(o))
  <1>1. CompressBottom(o) = IF Lowest(o) > o.B THEN Rebase(Counted(o), Lowest(o))
                            ELSE Counted(o)
    BY DEF CompressBottom, Counted
  <1>2. Compress(o) = [CompressBottom(o) EXCEPT !.compressCount = @ + 1]
    BY DEF Compress
  <1> QED BY <1>1, <1>2, LowestIs DEF Chooses

\* Entering compress(): the loop that the flags select is before its first
\* register.
LEMMA Enters ==
  ASSUME NEW o, RepOK(o), Enter(o)
  PROVE  Running(o)'
  <1>1. /\ o \in SketchType /\ DOMAIN o.S \in SUBSET Registers
        /\ Cardinality(DOMAIN o.S) \in Nat
    BY SearchFields
  <1>2. cursor' = Reached(o.S, 0) /\ 0 \in 0 .. m
    BY <1>1, StartIs, SketchAssumption DEF Enter
  <1>3. /\ LeastOf(rLimit, Values(o, 0) \cup {rLimit})
        /\ \A p : LeastOf(rLimit, {v \in Values(o, 0) : p < v} \cup {rLimit})
    BY ValuesEnds, SketchAssumption DEF LeastOf
  <1>4. CASE "TYPE_FULL" \in o.flags
    <2>1. /\ pc' = "fullLowest" /\ sk' = o
          /\ local' = [NoLocals EXCEPT !.potentialBase = rLimit,
                                       !.bestNs = Cardinality(DOMAIN o.S),
                                       !.bestPotentialBase = o.B]
      BY <1>4 DEF Enter
    <2>2. local'.potentialBase = rLimit
      BY <2>1 DEF NoLocals
    <2>3. InFullLowest(o, 0)'
      BY <1>2, <1>3, <1>4, <2>1, <2>2 DEF InFullLowest
    <2> QED BY <1>2, <2>3 DEF Running
  <1>5. CASE "TYPE_FULL" \notin o.flags /\ "TYPE_INCREASE" \in o.flags
    <2>1. /\ pc' = "increaseNext" /\ sk' = [o EXCEPT !.lowerBound = rLimit]
          /\ local' = [NoLocals EXCEPT !.potentialBase = rLimit]
      BY <1>5 DEF Enter
    <2>2. local'.potentialBase = rLimit /\ sk'.lowerBound = rLimit
      BY <1>1, <2>1 DEF NoLocals, SketchType
    <2>3. InIncreaseNext(o, 0)'
      BY <1>2, <1>3, <1>5, <2>1, <2>2 DEF InIncreaseNext
    <2> QED BY <1>2, <2>3 DEF Running
  <1>6. CASE "TYPE_FULL" \notin o.flags /\ "TYPE_INCREASE" \notin o.flags
    <2>1. /\ pc' = "bottomLowest" /\ sk' = [o EXCEPT !.lowerBound = rLimit]
          /\ local' = NoLocals
      BY <1>6 DEF Enter
    <2>2. sk'.lowerBound = rLimit
      BY <1>1, <2>1 DEF SketchType
    <2>3. InBottomLowest(o, 0)'
      BY <1>2, <1>3, <1>6, <2>1, <2>2 DEF InBottomLowest
    <2> QED BY <1>2, <2>3 DEF Running
  <1> QED BY <1>4, <1>5, <1>6

-----------------------------------------------------------------------------
LEMMA FullLowestStep ==
  ASSUME NEW o, RepOK(o), NEW n \in 0 .. m, InFullLowest(o, n), FullLowest
  PROVE  Goes(o)
  <1>1. DOMAIN o.S \in SUBSET Registers /\ sk = o /\ cursor = Reached(o.S, n) /\ More /\ Advance
    BY SearchFields DEF InFullLowest, FullLowest
  <1>2. n \in Registers /\ Presented = Get(o, n) /\ cursor' = Reached(o.S, n + 1)
    BY <1>1, IterateStep
  <1>3. n + 1 \in 0 .. m
    BY <1>2, SketchAssumption DEF Registers
  <1>4. PICK x : x = IF Get(o, n) < local.potentialBase THEN Get(o, n)
                     ELSE local.potentialBase
    OBVIOUS
  <1>5. LeastOf(x, Values(o, n + 1) \cup {rLimit})
    BY <1>2, <1>4, LowestStep DEF InFullLowest
  <1>6. local' = [local EXCEPT !.potentialBase = x]
    BY <1>2, <1>4 DEF FullLowest
  <1>7. /\ local' = [NoLocals EXCEPT !.potentialBase = x,
                                     !.bestNs = Cardinality(DOMAIN o.S),
                                     !.bestPotentialBase = o.B]
        /\ local'.potentialBase = x
    BY <1>6 DEF InFullLowest, NoLocals
  <1>8. InFullLowest(o, n + 1)'
    BY <1>2, <1>5, <1>7 DEF InFullLowest, FullLowest
  <1> QED BY <1>3, <1>8 DEF Goes, Running, FullLowest

\* The lowest value is known: the search starts with it, unless S is empty.
LEMMA FullLowestDoneStep ==
  ASSUME NEW o, RepOK(o), NEW n \in 0 .. m, InFullLowest(o, n), FullLowestDone
  PROVE  Goes(o)
  <1> DEFINE p  == local.potentialBase
             ns == Cardinality(DOMAIN o.S)
  <1>1. /\ o \in SketchType /\ DOMAIN o.S \in SUBSET Registers
        /\ ns \in Nat /\ o.B \in Nat
        /\ sk = o /\ cursor = Reached(o.S, n) /\ ~More /\ "TYPE_FULL" \in o.flags
    BY SearchFields DEF InFullLowest, FullLowestDone
  <1>2. n = m
    <2>1. n \notin Registers
      BY <1>1, IterateStep
    <2> QED BY <2>1, SketchAssumption DEF Registers
  <1>3. p = Lowest(o)
    BY <1>2, LowestIsLeast DEF InFullLowest
  <1>4. /\ p \in Nat /\ p \in Values(o, m) /\ p < rLimit
        /\ \A v \in Values(o, m) : ~(v < p)
        /\ \A i \in Registers : ~(Get(o, i) < p)
    <2>1. /\ Lowest(o) \in Value
          /\ \A i \in Registers : Lowest(o) <= Get(o, i) /\ Get(o, i) \in Value
          /\ \E i \in Registers : Get(o, i) = Lowest(o)
      BY LowestIs DEF RepOK
    <2>2. p \in Nat /\ p < rLimit /\ \A i \in Registers : ~(Get(o, i) < p)
      BY <1>3, <2>1, SketchAssumption DEF Value
    <2>3. p \in Values(o, m) /\ \A v \in Values(o, m) : ~(v < p)
      BY <1>3, <2>1, <2>2, ValuesEnds
    <2> QED BY <2>2, <2>3
  <1>5. Passed(o, p, 0) = {} /\ Cardinality(Passed(o, p, 0)) = 0
    <2>1. \A i \in Registers : ~(i < 0)
      BY SketchAssumption DEF Registers
    <2>2. Passed(o, p, 0) = {}
      BY <1>4, <2>1 DEF Passed
    <2> QED BY <2>2, FS_EmptySet
  <1>6. BestBelow(o, p, ns, o.B)
    BY <1>4, BestBelowStart
  <1>7. /\ local = [NoLocals EXCEPT !.potentialBase = p, !.bestNs = ns,
                                    !.bestPotentialBase = o.B]
        /\ local.bestNs = ns /\ local.bestPotentialBase = o.B /\ local.nBelowB = 0
        /\ local \in Locals
    <2>1. local = [NoLocals EXCEPT !.potentialBase = p, !.bestNs = ns,
                                   !.bestPotentialBase = o.B]
      BY DEF InFullLowest
    <2>2. [NoLocals EXCEPT !.potentialBase = p, !.bestNs = ns,
                           !.bestPotentialBase = o.B] \in Locals
      <3> HIDE DEF p, ns
      <3> QED BY <1>1, <1>4 DEF NoLocals, Locals
    <2>3. local.bestNs = ns /\ local.bestPotentialBase = o.B /\ local.nBelowB = 0
      <3> HIDE DEF p, ns
      <3> QED BY <2>1 DEF NoLocals
    <2> QED BY <2>1, <2>2, <2>3
  <1>8. sk' = Bounded(o)
    BY <1>1, <1>3 DEF FullLowestDone, Bounded
  <1>9. CASE SearchOn(local)
    <2>1. /\ pc' = "fullTry" /\ cursor' = Reached(o.S, 0)
          /\ local' = [local EXCEPT !.nextPotentialBase = rLimit, !.ns = 0]
          /\ before' = before
      BY <1>1, <1>9, StartIs DEF FullLowestDone
    <2>2. /\ local' \in Locals
          /\ local'.potentialBase = p /\ local'.ns = 0 /\ local'.nBelowB = 0
          /\ local'.nextPotentialBase = rLimit
          /\ local'.bestNs = ns /\ local'.bestPotentialBase = o.B
      BY <1>7, <2>1, SketchAssumption DEF Locals
    <2>3. Cardinality(Before(Sparse(o, p), 0)) = 0
      BY CountEnds DEF Sparse
    <2>4. LeastOf(rLimit, {v \in Values(o, 0) : p < v} \cup {rLimit})
      BY ValuesEnds, SketchAssumption DEF LeastOf
    <2> HIDE DEF p, ns
    <2>5. InFullTry(o, 0)'
      BY <1>1, <1>4, <1>5, <1>6, <1>8, <2>1, <2>2, <2>3, <2>4 DEF InFullTry
    <2>6. 0 \in 0 .. m
      BY SketchAssumption
    <2> QED BY <2>1, <2>5, <2>6 DEF Goes, Running
  <1>10. CASE ~SearchOn(local)
    <2>1. pc' = "fullChosen" /\ local' = local /\ before' = before
      BY <1>10 DEF FullLowestDone
    <2>2. ns <= 0
      BY <1>1, <1>4, <1>7, <1>10 DEF SearchOn
    <2>3. o.B = BestBase(o)
      BY <1>1, <1>4, <1>5, <1>6, <2>2, SearchEnds
    <2>4. InFullChosen(o)'
      BY <1>1, <1>7, <1>8, <2>1, <2>3 DEF InFullChosen
    <2> QED BY <2>1, <2>4 DEF Goes, Running
  <1> QED BY <1>9, <1>10

LEMMA FullTryStep ==
  ASSUME NEW o, RepOK(o), NEW n \in 0 .. m, InFullTry(o, n), FullTry
  PROVE  Goes(o)
  <1> DEFINE p == local.potentialBase
             r == Get(o, n)
  <1>1. /\ DOMAIN o.S \in SUBSET Registers /\ sk = Bounded(o) /\ cursor = Reached(o.S, n)
        /\ More /\ Advance
        /\ Bounded(o).S = o.S /\ Bounded(o).M = o.M /\ Bounded(o).B = o.B
    BY SearchFields, BoundedIs DEF InFullTry, FullTry
  <1>2. n \in Registers /\ Presented = r /\ cursor' = Reached(o.S, n + 1)
    BY <1>1, IterateStep
  <1>3. n + 1 \in 0 .. m
    BY <1>2, SketchAssumption DEF Registers
  <1>4. p \in Nat /\ r \in Nat /\ local \in Locals
    BY <1>2, SearchFields DEF InFullTry, Locals
  <1>5. PICK x : x = IF p < r /\ r < local.nextPotentialBase THEN r
                     ELSE local.nextPotentialBase
    OBVIOUS
  <1>6. LeastOf(x, {v \in Values(o, n + 1) : p < v} \cup {rLimit})
    BY <1>2, <1>4, <1>5, NextStep DEF InFullTry
  <1>7. Cardinality(Before(Sparse(o, p), n + 1)) =
          Cardinality(Before(Sparse(o, p), n)) + IF InWindow(r, p) THEN 0 ELSE 1
    <2>1. Sparse(o, p) \in SUBSET Registers /\ (n \in Sparse(o, p) <=> ~InWindow(r, p))
      BY <1>2 DEF Sparse
    <2>2. Cardinality(Before(Sparse(o, p), n + 1)) =
            Cardinality(Before(Sparse(o, p), n)) + IF n \in Sparse(o, p) THEN 1 ELSE 0
      BY <1>2, <2>1, CountStep
    <2> QED BY <2>1, <2>2
  <1>8. Cardinality(Passed(o, p, n + 1)) =
          Cardinality(Passed(o, p, n)) + IF r = p THEN 1 ELSE 0
    BY <1>2, <1>4, PassedStep
  <1>9. PICK a : a = local.ns + IF InWindow(r, p) THEN 0 ELSE 1
    OBVIOUS
  <1>10. PICK c : c = local.nBelowB + IF r = p THEN 1 ELSE 0
    OBVIOUS
  <1>11. local' = [local EXCEPT !.ns = a, !.nBelowB = c, !.nextPotentialBase = x]
    BY <1>2, <1>5, <1>9, <1>10 DEF FullTry, TryRegister
  <1>12. x \in Nat /\ a \in Nat /\ c \in Nat
    <2>1. x \in Nat
      BY <1>4, <1>5 DEF Locals
    <2>2. local.ns \in Nat /\ local.nBelowB \in Nat
      BY <1>4 DEF Locals
    <2> QED BY <1>9, <1>10, <2>1, <2>2
  <1>13. /\ local' \in Locals
         /\ local'.potentialBase = p /\ local'.ns = a /\ local'.nBelowB = c
         /\ local'.nextPotentialBase = x
         /\ local'.bestNs = local.bestNs
         /\ local'.bestPotentialBase = local.bestPotentialBase
    BY <1>4, <1>11, <1>12 DEF Locals
  <1>14. /\ local.ns = Cardinality(Before(Sparse(o, p), n))
         /\ local.nBelowB = Cardinality(Passed(o, p, n))
    BY DEF InFullTry
  <1>15. /\ a = Cardinality(Before(Sparse(o, p), n + 1))
         /\ c = Cardinality(Passed(o, p, n + 1))
    BY <1>7, <1>8, <1>9, <1>10, <1>14
  <1>16. /\ pc' = "fullTry" /\ sk' = sk /\ before' = before
         /\ "TYPE_FULL" \in o.flags /\ p \in Values(o, m)
         /\ BestBelow(o, p, local.bestNs, local.bestPotentialBase)
    BY DEF FullTry, InFullTry
  <1> HIDE DEF p, r
  <1>17. InFullTry(o, n + 1)'
    BY <1>1, <1>2, <1>6, <1>13, <1>15, <1>16 DEF InFullTry
  <1> QED BY <1>3, <1>16, <1>17 DEF Goes, Running

\* Every register has been tried with the base p.
LEMMA FullTryDoneStep ==
  ASSUME NEW o, RepOK(o), NEW n \in 0 .. m, InFullTry(o, n), FullTryDone
  PROVE  Goes(o)
  <1> DEFINE p == local.potentialBase
             q == local.nextPotentialBase
             l == Tried(local)
  <1>1. /\ DOMAIN o.S \in SUBSET Registers /\ sk = Bounded(o) /\ cursor = Reached(o.S, n)
        /\ ~More /\ local \in Locals /\ "TYPE_FULL" \in o.flags
        /\ Bounded(o).S = o.S /\ Bounded(o).M = o.M /\ Bounded(o).B = o.B
    BY SearchFields, BoundedIs DEF InFullTry, FullTryDone
  <1>2. n = m
    <2>1. n \notin Registers
      BY <1>1, IterateStep
    <2> QED BY <2>1, SketchAssumption DEF Registers
  <1>3. /\ p \in Nat /\ q \in Nat /\ local.bestNs \in Nat /\ local.bestPotentialBase \in Nat
        /\ p \in Values(o, m) /\ p < rLimit
    <2>1. p \in Values(o, m) /\ p \in Value
      BY SearchFields DEF InFullTry
    <2> QED BY <1>1, <2>1, SketchAssumption DEF Locals, Value
  <1>4. local.ns = Cardinality(Sparse(o, p))
    BY <1>2, CountEnds DEF InFullTry, Sparse
  <1>5. p < q /\ (\A v \in Values(o, m) : p < v => q <= v) /\ (q = rLimit \/ q \in Values(o, m))
    BY <1>2, <1>3 DEF InFullTry, LeastOf
  <1>6. local.nBelowB = Cardinality(Passed(o, q, 0))
    BY <1>2, <1>3, <1>5, PassedEnds DEF InFullTry
  <1>7. PICK k : k = IF local.ns < local.bestNs THEN local.ns ELSE local.bestNs
    OBVIOUS
  <1>8. PICK b : b = IF local.ns < local.bestNs THEN p ELSE local.bestPotentialBase
    OBVIOUS
  <1>9. BestBelow(o, q, k, b)
    <2>1. BestBelow(o, p, local.bestNs, local.bestPotentialBase)
      BY DEF InFullTry
    <2> HIDE DEF p, q
    <2> QED BY <1>3, <1>4, <1>5, <1>7, <1>8, <2>1, BestBelowStep
  <1>10. l = [local EXCEPT !.bestNs = k, !.bestPotentialBase = b, !.potentialBase = q]
    BY <1>7, <1>8 DEF Tried
  <1>11. k \in Nat /\ b \in Nat
    BY <1>1, <1>3, <1>7, <1>8 DEF Locals
  <1>12. /\ l \in Locals /\ l.bestNs = k /\ l.bestPotentialBase = b /\ l.potentialBase = q
         /\ l.nBelowB = local.nBelowB
    <2> HIDE DEF p, q, l
    <2> QED BY <1>1, <1>3, <1>10, <1>11 DEF Locals
  <1>13. /\ sk' = sk /\ before' = before
         /\ SearchOn(l) => /\ cursor' = Start /\ pc' = pc
                           /\ local' = [l EXCEPT !.nextPotentialBase = rLimit, !.ns = 0]
         /\ ~SearchOn(l) => pc' = "fullChosen" /\ local' = l
    BY DEF FullTryDone
  <1>14. pc = "fullTry"
    BY DEF InFullTry
  <1> HIDE DEF p, q, l
  <1>15. CASE SearchOn(l)
    <2>1. q \in Values(o, m)
      BY <1>5, <1>12, <1>15, SketchAssumption DEF SearchOn
    <2>2. cursor' = Reached(o.S, 0)
      BY <1>1, <1>13, <1>15, StartIs
    <2>3. /\ local' \in Locals
          /\ local'.potentialBase = q /\ local'.ns = 0 /\ local'.nBelowB = local.nBelowB
          /\ local'.nextPotentialBase = rLimit
          /\ local'.bestNs = k /\ local'.bestPotentialBase = b
      <3>1. local' = [l EXCEPT !.nextPotentialBase = rLimit, !.ns = 0]
        BY <1>13, <1>15
      <3> QED BY <1>12, <3>1, SketchAssumption DEF Locals
    <2>4. Cardinality(Before(Sparse(o, q), 0)) = 0
      BY CountEnds DEF Sparse
    <2>5. LeastOf(rLimit, {v \in Values(o, 0) : q < v} \cup {rLimit})
      BY ValuesEnds, SketchAssumption DEF LeastOf
    <2>6. InFullTry(o, 0)'
      BY <1>1, <1>6, <1>9, <1>13, <1>14, <1>15, <2>1, <2>2, <2>3, <2>4, <2>5 DEF InFullTry
    <2>7. 0 \in 0 .. m
      BY SketchAssumption
    <2> QED BY <1>13, <2>6, <2>7 DEF Goes, Running
  <1>16. CASE ~SearchOn(l)
    <2>1. k <= Cardinality(Passed(o, q, 0)) \/ rLimit <= q
      <3>1. local.nBelowB \in Nat
        BY <1>1 DEF Locals
      <3> QED BY <1>3, <1>6, <1>11, <1>12, <1>16, <3>1, SketchAssumption DEF SearchOn
    <2>2. b = BestBase(o)
      BY <1>3, <1>9, <1>11, <2>1, SearchEnds
    <2>3. InFullChosen(o)'
      BY <1>1, <1>12, <1>13, <1>16, <2>2 DEF InFullChosen
    <2> QED BY <1>13, <2>3 DEF Goes, Running
  <1> QED BY <1>15, <1>16

LEMMA FullChosenStep ==
  ASSUME NEW o, RepOK(o), InFullChosen(o), FullChosen
  PROVE  Goes(o)
  <1>1. sk = Bounded(o) /\ Bounded(o).B = o.B
    BY BoundedIs DEF InFullChosen
  <1>2. RebaseOrReturn(BestBase(o) # o.B, BestBase(o))
    BY <1>1 DEF InFullChosen, FullChosen
  <1>3. Chooses(o, Bounded(o), BestBase(o) # o.B, BestBase(o))
    BY FullChooses DEF InFullChosen
  <1> QED BY <1>1, <1>2, <1>3, RebaseOrReturns

-----------------------------------------------------------------------------
LEMMA IncreaseNextStep ==
  ASSUME NEW o, RepOK(o), NEW n \in 0 .. m, InIncreaseNext(o, n), IncreaseNext
  PROVE  Goes(o)
  <1>1. /\ o \in SketchType /\ DOMAIN o.S \in SUBSET Registers /\ o.B \in Nat
        /\ cursor = Reached(o.S, n) /\ More /\ Advance
        /\ sk = [o EXCEPT !.lowerBound = sk.lowerBound]
    BY SearchFields DEF InIncreaseNext, IncreaseNext
  <1>2. sk.S = o.S /\ sk.M = o.M /\ sk.B = o.B
    BY <1>1 DEF SketchType
  <1>3. n \in Registers /\ Presented = Get(o, n) /\ cursor' = Reached(o.S, n + 1)
    BY <1>1, <1>2, IterateStep
  <1>4. n + 1 \in 0 .. m
    BY <1>3, SketchAssumption DEF Registers
  <1>5. PICK x : x = IF Get(o, n) < sk.lowerBound THEN Get(o, n) ELSE sk.lowerBound
    OBVIOUS
  <1>6. PICK y : y = IF o.B < Get(o, n) /\ Get(o, n) < local.potentialBase THEN Get(o, n)
                     ELSE local.potentialBase
    OBVIOUS
  <1>7. /\ LeastOf(x, Values(o, n + 1) \cup {rLimit})
        /\ LeastOf(y, {v \in Values(o, n + 1) : o.B < v} \cup {rLimit})
    <2>1. LeastOf(x, Values(o, n + 1) \cup {rLimit})
      <3>1. LeastOf(sk.lowerBound, Values(o, n) \cup {rLimit})
        BY DEF InIncreaseNext
      <3> QED BY <1>3, <1>5, <3>1, LowestStep
    <2>2. LeastOf(y, {v \in Values(o, n + 1) : o.B < v} \cup {rLimit})
      <3>1. LeastOf(local.potentialBase, {v \in Values(o, n) : o.B < v} \cup {rLimit})
        BY DEF InIncreaseNext
      <3> QED BY <1>1, <1>3, <1>6, <3>1, NextStep
    <2> QED BY <2>1, <2>2
  <1>8. sk' = [sk EXCEPT !.lowerBound = x] /\ local' = [local EXCEPT !.potentialBase = y]
    BY <1>2, <1>3, <1>5, <1>6 DEF IncreaseNext
  <1>9. sk' = [o EXCEPT !.lowerBound = x] /\ sk'.lowerBound = x
    <2>1. PICK w : sk = [o EXCEPT !.lowerBound = w]
      BY <1>1
    <2> QED BY <1>1, <1>8, <2>1 DEF SketchType
  <1>10. local' = [NoLocals EXCEPT !.potentialBase = y] /\ local'.potentialBase = y
    <2>1. PICK w : local = [NoLocals EXCEPT !.potentialBase = w]
      BY DEF InIncreaseNext
    <2> QED BY <1>8, <2>1 DEF NoLocals
  <1>11. InIncreaseNext(o, n + 1)'
    BY <1>3, <1>7, <1>9, <1>10 DEF InIncreaseNext, IncreaseNext
  <1> QED BY <1>4, <1>11 DEF Goes, Running, IncreaseNext

LEMMA NoCountYet ==
  ASSUME NEW b
  PROVE  [NoLocals EXCEPT !.potentialBase = b] = [NoLocals EXCEPT !.potentialBase = b, !.ns = 0]
  <1>1. NoLocals.ns = 0 /\ "ns" \in DOMAIN NoLocals
    BY DEF NoLocals
  <1>2. NoLocals = [f \in DOMAIN NoLocals |-> NoLocals[f]]
    BY DEF NoLocals
  <1> QED BY <1>1, <1>2

LEMMA IncreaseNextDoneStep ==
  ASSUME NEW o, RepOK(o), NEW n \in 0 .. m, InIncreaseNext(o, n), IncreaseNextDone
  PROVE  Goes(o)
  <1>1. /\ o \in SketchType /\ DOMAIN o.S \in SUBSET Registers /\ o.B \in Nat
        /\ cursor = Reached(o.S, n) /\ ~More
        /\ sk = [o EXCEPT !.lowerBound = sk.lowerBound]
    BY SearchFields DEF InIncreaseNext, IncreaseNextDone
  <1>2. sk.S = o.S /\ sk.M = o.M /\ sk.B = o.B
    BY <1>1 DEF SketchType
  <1>3. n = m
    <2>1. n \notin Registers
      BY <1>1, <1>2, IterateStep
    <2> QED BY <2>1, SketchAssumption DEF Registers
  <1>4. sk = Bounded(o)
    <2>1. sk.lowerBound = Lowest(o)
      BY <1>3, LowestIsLeast DEF InIncreaseNext
    <2> QED BY <1>1, <2>1 DEF Bounded
  <1>5. local.potentialBase = NextValue(o)
    <2> DEFINE T == {v \in Values(o, m) : o.B < v} \cup {rLimit}
    <2>1. T \in SUBSET Nat
      BY SearchFields, SketchAssumption
    <2>2. LeastOf(local.potentialBase, T)
      BY <1>3 DEF InIncreaseNext
    <2>3. NextValue(o) = Min(T)
      BY ValuesEnds DEF NextValue
    <2> HIDE DEF T
    <2> QED BY <2>1, <2>2, <2>3, LeastIsMin
  <1>6. Cardinality(Before(Sparse(o, NextValue(o)), 0)) = 0
    BY CountEnds DEF Sparse
  <1>7. local = [NoLocals EXCEPT !.potentialBase = NextValue(o), !.ns = 0]
    <2>1. local = [NoLocals EXCEPT !.potentialBase = NextValue(o)]
      BY <1>5 DEF InIncreaseNext
    <2> QED BY <2>1, NoCountYet
  <1>8. /\ pc' = "increaseTry" /\ cursor' = Reached(o.S, 0)
        /\ sk' = sk /\ local' = local /\ before' = before
    BY <1>1, StartIs DEF IncreaseNextDone
  <1>9. InIncreaseTry(o, 0)'
    BY <1>4, <1>6, <1>7, <1>8 DEF InIncreaseTry, InIncreaseNext
  <1>10. 0 \in 0 .. m
    BY SketchAssumption
  <1> QED BY <1>8, <1>9, <1>10 DEF Goes, Running

LEMMA IncreaseTryStep ==
  ASSUME NEW o, RepOK(o), NEW n \in 0 .. m, InIncreaseTry(o, n), IncreaseTry
  PROVE  Goes(o)
  <1> DEFINE p == NextValue(o)
  <1>1. /\ DOMAIN o.S \in SUBSET Registers /\ sk = Bounded(o) /\ cursor = Reached(o.S, n)
        /\ More /\ Advance
        /\ Bounded(o).S = o.S /\ Bounded(o).M = o.M /\ Bounded(o).B = o.B
    BY SearchFields, BoundedIs DEF InIncreaseTry, IncreaseTry
  <1>2. n \in Registers /\ Presented = Get(o, n) /\ cursor' = Reached(o.S, n + 1)
    BY <1>1, IterateStep
  <1>3. n + 1 \in 0 .. m
    BY <1>2, SketchAssumption DEF Registers
  <1>4. Cardinality(Before(Sparse(o, p), n + 1)) =
          Cardinality(Before(Sparse(o, p), n)) + IF InWindow(Get(o, n), p) THEN 0 ELSE 1
    <2>1. Sparse(o, p) \in SUBSET Registers /\ (n \in Sparse(o, p) <=> ~InWindow(Get(o, n), p))
      BY <1>2 DEF Sparse
    <2>2. Cardinality(Before(Sparse(o, p), n + 1)) =
            Cardinality(Before(Sparse(o, p), n)) + IF n \in Sparse(o, p) THEN 1 ELSE 0
      BY <1>2, <2>1, CountStep
    <2> QED BY <2>1, <2>2
  <1> HIDE DEF p
  <1>5. PICK c : c = Cardinality(Before(Sparse(o, p), n))
    OBVIOUS
  <1>6. local = [NoLocals EXCEPT !.potentialBase = p, !.ns = c]
    BY <1>5 DEF InIncreaseTry, p
  <1>7. local.potentialBase = p /\ local.ns = c
    BY <1>6 DEF NoLocals
  <1>8. local' = [local EXCEPT !.ns = c + IF InWindow(Get(o, n), p) THEN 0 ELSE 1]
    BY <1>2, <1>7 DEF IncreaseTry
  <1>9. local' = [NoLocals EXCEPT !.potentialBase = p,
                                  !.ns = c + IF InWindow(Get(o, n), p) THEN 0 ELSE 1]
    BY <1>6, <1>8 DEF NoLocals
  <1>10. local' = [NoLocals EXCEPT !.potentialBase = p,
                                   !.ns = Cardinality(Before(Sparse(o, p), n + 1))]
    BY <1>4, <1>5, <1>9
  <1>11. InIncreaseTry(o, n + 1)'
    BY <1>1, <1>2, <1>10 DEF InIncreaseTry, IncreaseTry, p
  <1> QED BY <1>3, <1>11 DEF Goes, Running, IncreaseTry

LEMMA IncreaseTryDoneStep ==
  ASSUME NEW o, RepOK(o), NEW n \in 0 .. m, InIncreaseTry(o, n), IncreaseTryDone
  PROVE  Goes(o)
  <1> DEFINE p == NextValue(o)
  <1>1. /\ DOMAIN o.S \in SUBSET Registers /\ sk = Bounded(o) /\ cursor = Reached(o.S, n)
        /\ ~More
        /\ Bounded(o).S = o.S /\ Bounded(o).M = o.M /\ Bounded(o).B = o.B
        /\ "TYPE_FULL" \notin o.flags /\ "TYPE_INCREASE" \in o.flags
    BY SearchFields, BoundedIs DEF InIncreaseTry, IncreaseTryDone
  <1>2. n = m
    <2>1. n \notin Registers
      BY <1>1, IterateStep
    <2> QED BY <2>1, SketchAssumption DEF Registers
  <1>3. local.potentialBase = p /\ local.ns = Cardinality(Before(Sparse(o, p), n))
    BY DEF InIncreaseTry, NoLocals
  <1>4. local.ns = Cardinality(Sparse(o, p))
    BY <1>2, <1>3, CountEnds DEF Sparse
  <1>5. RebaseOrReturn(Cardinality(Sparse(o, p)) < Cardinality(DOMAIN o.S), p)
    BY <1>1, <1>3, <1>4 DEF IncreaseTryDone
  <1>6. Chooses(o, Bounded(o), Cardinality(Sparse(o, p)) < Cardinality(DOMAIN o.S), p)
    BY <1>1, IncreaseChooses
  <1> DEFINE needed == Cardinality(Sparse(o, p)) < Cardinality(DOMAIN o.S)
  <1>7. needed \in BOOLEAN
    OBVIOUS
  <1>8. RebaseOrReturn(needed, p) /\ Chooses(o, Bounded(o), needed, p)
    BY <1>5, <1>6
  <1> HIDE DEF needed
  <1> QED BY <1>1, <1>7, <1>8, RebaseOrReturns

-----------------------------------------------------------------------------
LEMMA BottomLowestStep ==
  ASSUME NEW o, RepOK(o), NEW n \in 0 .. m, InBottomLowest(o, n), BottomLowest
  PROVE  Goes(o)
  <1>1. /\ o \in SketchType /\ DOMAIN o.S \in SUBSET Registers
        /\ cursor = Reached(o.S, n) /\ More /\ Advance
        /\ sk = [o EXCEPT !.lowerBound = sk.lowerBound]
    BY SearchFields DEF InBottomLowest, BottomLowest
  <1>2. sk.S = o.S /\ sk.M = o.M /\ sk.B = o.B
    BY <1>1 DEF SketchType
  <1>3. n \in Registers /\ Presented = Get(o, n) /\ cursor' = Reached(o.S, n + 1)
    BY <1>1, <1>2, IterateStep
  <1>4. n + 1 \in 0 .. m
    BY <1>3, SketchAssumption DEF Registers
  <1>5. PICK x : x = IF Get(o, n) < sk.lowerBound THEN Get(o, n) ELSE sk.lowerBound
    OBVIOUS
  <1>6. LeastOf(x, Values(o, n + 1) \cup {rLimit})
    BY <1>3, <1>5, LowestStep DEF InBottomLowest
  <1>7. sk' = [o EXCEPT !.lowerBound = x] /\ sk'.lowerBound = x
    <2>1. PICK w : sk = [o EXCEPT !.lowerBound = w]
      BY <1>1
    <2>2. sk' = [sk EXCEPT !.lowerBound = x]
      BY <1>3, <1>5 DEF BottomLowest
    <2> QED BY <1>1, <2>1, <2>2 DEF SketchType
  <1>8. InBottomLowest(o, n + 1)'
    BY <1>3, <1>6, <1>7 DEF InBottomLowest, BottomLowest
  <1> QED BY <1>4, <1>8 DEF Goes, Running, BottomLowest

LEMMA BottomLowestDoneStep ==
  ASSUME NEW o, RepOK(o), NEW n \in 0 .. m, InBottomLowest(o, n), BottomLowestDone
  PROVE  Goes(o)
  <1> DEFINE low == {i \in Registers : Get(o, i) = Lowest(o)}
  <1>1. /\ o \in SketchType /\ DOMAIN o.S \in SUBSET Registers
        /\ cursor = Reached(o.S, n) /\ ~More
        /\ sk = [o EXCEPT !.lowerBound = sk.lowerBound]
    BY SearchFields DEF InBottomLowest, BottomLowestDone
  <1>2. sk.S = o.S /\ sk.M = o.M /\ sk.B = o.B
    BY <1>1 DEF SketchType
  <1>3. n = m
    <2>1. n \notin Registers
      BY <1>1, <1>2, IterateStep
    <2> QED BY <2>1, SketchAssumption DEF Registers
  <1>4. sk.lowerBound = Lowest(o)
    BY <1>3, LowestIsLeast DEF InBottomLowest
  <1>5. Cardinality(Before(low, 0)) = 0
    BY CountEnds
  <1> HIDE DEF low
  <1>6. sk' = [o EXCEPT !.lowerBound = Lowest(o),
                        !.minValueCount = Cardinality(Before(low, 0))]
    <2>1. sk = [o EXCEPT !.lowerBound = Lowest(o)]
      BY <1>1, <1>4
    <2>2. sk' = [sk EXCEPT !.minValueCount = 0]
      BY DEF BottomLowestDone
    <2> QED BY <1>1, <1>5, <2>1, <2>2 DEF SketchType
  <1>7. /\ pc' = "bottomCount" /\ cursor' = Reached(o.S, 0)
        /\ local' = local /\ before' = before
    BY <1>1, StartIs DEF BottomLowestDone
  <1>8. InBottomCount(o, 0)'
    BY <1>6, <1>7 DEF InBottomCount, InBottomLowest, low
  <1>9. 0 \in 0 .. m
    BY SketchAssumption
  <1> QED BY <1>7, <1>8, <1>9 DEF Goes, Running

LEMMA BottomCountStep ==
  ASSUME NEW o, RepOK(o), NEW n \in 0 .. m, InBottomCount(o, n), BottomCount
  PROVE  Goes(o)
  <1> DEFINE low == {i \in Registers : Get(o, i) = Lowest(o)}
  <1>1. PICK c : c = Cardinality(Before(low, n))
    OBVIOUS
  <1>2. /\ o \in SketchType /\ DOMAIN o.S \in SUBSET Registers
        /\ cursor = Reached(o.S, n) /\ More /\ Advance
        /\ sk = [o EXCEPT !.lowerBound = Lowest(o), !.minValueCount = c]
    BY <1>1, SearchFields DEF InBottomCount, BottomCount
  <1>3. /\ sk.S = o.S /\ sk.M = o.M /\ sk.B = o.B
        /\ sk.lowerBound = Lowest(o) /\ sk.minValueCount = c
    BY <1>2 DEF SketchType
  <1>4. n \in Registers /\ Presented = Get(o, n) /\ cursor' = Reached(o.S, n + 1)
    BY <1>2, <1>3, IterateStep
  <1>5. n + 1 \in 0 .. m
    BY <1>4, SketchAssumption DEF Registers
  <1>6. Cardinality(Before(low, n + 1)) = c + IF Get(o, n) = Lowest(o) THEN 1 ELSE 0
    <2>1. low \in SUBSET Registers /\ (n \in low <=> Get(o, n) = Lowest(o))
      BY <1>4
    <2> HIDE DEF low
    <2>2. Cardinality(Before(low, n + 1)) = Cardinality(Before(low, n)) + IF n \in low THEN 1 ELSE 0
      BY <1>4, <2>1, CountStep
    <2> QED BY <1>1, <2>1, <2>2
  <1> HIDE DEF low
  <1>7. PICK d : d = Cardinality(Before(low, n + 1))
    OBVIOUS
  <1>8. sk' = [sk EXCEPT !.minValueCount = d]
    BY <1>3, <1>4, <1>6, <1>7 DEF BottomCount
  <1>9. sk' = [o EXCEPT !.lowerBound = Lowest(o), !.minValueCount = d]
    BY <1>2, <1>8 DEF SketchType
  <1>10. InBottomCount(o, n + 1)'
    BY <1>4, <1>7, <1>9 DEF InBottomCount, BottomCount, low
  <1> QED BY <1>5, <1>10 DEF Goes, Running, BottomCount

LEMMA BottomCountDoneStep ==
  ASSUME NEW o, RepOK(o), NEW n \in 0 .. m, InBottomCount(o, n), BottomCountDone
  PROVE  Goes(o)
  <1> DEFINE low == {i \in Registers : Get(o, i) = Lowest(o)}
  <1>1. PICK c : c = Cardinality(Before(low, n))
    OBVIOUS
  <1>2. /\ o \in SketchType /\ DOMAIN o.S \in SUBSET Registers
        /\ cursor = Reached(o.S, n) /\ ~More
        /\ sk = [o EXCEPT !.lowerBound = Lowest(o), !.minValueCount = c]
        /\ "TYPE_FULL" \notin o.flags /\ "TYPE_INCREASE" \notin o.flags
    BY <1>1, SearchFields DEF InBottomCount, BottomCountDone
  <1>3. /\ sk.S = o.S /\ sk.M = o.M /\ sk.B = o.B /\ sk.lowerBound = Lowest(o)
    BY <1>2 DEF SketchType
  <1>4. n = m
    <2>1. n \notin Registers
      BY <1>2, <1>3, IterateStep
    <2> QED BY <2>1, SketchAssumption DEF Registers
  <1>5. c = Cardinality(low)
    BY <1>1, <1>4, CountEnds
  <1>6. sk = Counted(o)
    BY <1>2, <1>5 DEF Counted
  <1>7. RebaseOrReturn(Lowest(o) > o.B, Lowest(o))
    BY <1>3 DEF BottomCountDone
  <1>8. Chooses(o, Counted(o), Lowest(o) > o.B, Lowest(o))
    BY <1>2, BottomChooses
  <1> DEFINE needed == Lowest(o) > o.B
  <1>9. needed \in BOOLEAN
    OBVIOUS
  <1>10. RebaseOrReturn(needed, Lowest(o)) /\ Chooses(o, Counted(o), needed, Lowest(o))
    BY <1>7, <1>8
  <1> HIDE DEF needed
  <1> QED BY <1>6, <1>9, <1>10, RebaseOrReturns

-----------------------------------------------------------------------------
(***************************************************************************)
(* rebase(), one register at a time.                                       *)
(***************************************************************************)
\* A register that rebase() has not reached is read with its old value.
LEMMA HalfwayGet ==
  ASSUME NEW u, RepOK(u), NEW b, NEW n \in Registers
  PROVE  Get(Halfway(u, b, n), n) = Get(u, n)
  <1>1. /\ u \in SketchType /\ DOMAIN u.S \in SUBSET Registers
        /\ u.S \in [DOMAIN u.S -> Value]
    BY SketchFields DEF RepOK
  <1>2. /\ Halfway(u, b, n).B = u.B
        /\ Halfway(u, b, n).M = [i \in Registers |->
              IF i < n /\ InWindow(Get(u, i), b)
              THEN (Get(u, i) - b) % (maxOffset + 1) ELSE u.M[i]]
        /\ Halfway(u, b, n).S = [i \in (DOMAIN u.S \ Before(DOMAIN u.S, n))
                                          \cup Before(Sparse(u, b), n) |-> Get(u, i) % rLimit]
    BY <1>1 DEF Halfway, SketchType
  <1>3. ~(n < n)
    BY SketchAssumption DEF Registers
  <1>4. n \in DOMAIN Halfway(u, b, n).S <=> n \in DOMAIN u.S
    BY <1>2, <1>3 DEF Before
  <1>5. CASE n \in DOMAIN u.S
    <2>1. Halfway(u, b, n).S[n] = Get(u, n) % rLimit
      BY <1>2, <1>4, <1>5
    <2>2. Get(u, n) = u.S[n] /\ u.S[n] \in Value
      BY <1>1, <1>5 DEF Get
    <2>3. Get(u, n) % rLimit = Get(u, n)
      BY <2>2, MaskFits, SketchAssumption DEF Value
    <2> QED BY <1>4, <1>5, <2>1, <2>3 DEF Get
  <1>6. CASE n \notin DOMAIN u.S
    BY <1>2, <1>3, <1>4, <1>6 DEF Get
  <1> QED BY <1>5, <1>6

LEMMA HalfwayStep ==
  ASSUME NEW u, RepOK(u), NEW b \in Value, NEW n \in Registers, sk = Halfway(u, b, n)
  PROVE  RebaseRegister(n, b) = Halfway(u, b, n + 1)
  <1> DEFINE MAt(k) == [i \in Registers |->
                          IF i < k /\ InWindow(Get(u, i), b)
                          THEN (Get(u, i) - b) % (maxOffset + 1) ELSE u.M[i]]
             DAt(k) == (DOMAIN u.S \ Before(DOMAIN u.S, k)) \cup Before(Sparse(u, b), k)
             SAt(k) == [i \in DAt(k) |-> Get(u, i) % rLimit]
             r      == Get(u, n)
  <1>1. u \in SketchType /\ DOMAIN u.S \in SUBSET Registers
    BY SketchFields DEF RepOK
  <1>2. \A k : Halfway(u, b, k) = [u EXCEPT !.M = MAt(k), !.S = SAt(k)]
    BY DEF Halfway
  <1>3. \A i \in Registers : (i < n + 1 <=> i < n \/ i = n) /\ ~(n < n)
    BY SketchAssumption DEF Registers
  <1>4. \A i \in Registers : i \in DAt(n) <=>
          (i \in DOMAIN u.S /\ ~(i < n)) \/ (~InWindow(Get(u, i), b) /\ i < n)
    BY DEF Before, Sparse
  <1>5. \A i \in Registers : i \in DAt(n + 1) <=>
          (i \in DOMAIN u.S /\ ~(i < n + 1)) \/ (~InWindow(Get(u, i), b) /\ i < n + 1)
    BY DEF Before, Sparse
  <1>6. DAt(n) \in SUBSET Registers /\ DAt(n + 1) \in SUBSET Registers
    BY <1>1 DEF Before, Sparse
  <1>7. Get(sk, n) = r
    BY HalfwayGet
  <1>8. PICK M1, S1 : M1 = MAt(n) /\ S1 = SAt(n) /\ sk = [u EXCEPT !.M = M1, !.S = S1]
    BY <1>2
  <1>9. sk.M = M1 /\ sk.S = S1 /\ DOMAIN S1 = DAt(n) /\ DOMAIN M1 = Registers
    BY <1>1, <1>8 DEF SketchType
  <1>10. CASE InWindow(r, b)
    <2>1. Put(M1, n, r - b) = MAt(n + 1)
      BY <1>3, <1>8, <1>10 DEF Put
    <2>2. DAt(n + 1) = DAt(n) \ {n}
      BY <1>3, <1>4, <1>5, <1>6, <1>10
    <2>3. EraseSparse(S1, n) = SAt(n + 1)
      <3>1. EraseSparse(S1, n) = [i \in DAt(n) \ {n} |-> S1[i]]
        BY <1>9 DEF EraseSparse
      <3>2. \A i \in DAt(n) : S1[i] = Get(u, i) % rLimit
        BY <1>8
      <3> HIDE DEF DAt
      <3> QED BY <2>2, <3>1, <3>2
    <2>4. RebaseRegister(n, b) = [sk EXCEPT !.M = Put(M1, n, r - b), !.S = EraseSparse(S1, n)]
      BY <1>7, <1>9, <1>10 DEF RebaseRegister
    <2>5. PICK M2, S2 : M2 = MAt(n + 1) /\ S2 = SAt(n + 1)
      OBVIOUS
    <2>6. RebaseRegister(n, b) = [sk EXCEPT !.M = M2, !.S = S2]
      BY <2>1, <2>3, <2>4, <2>5
    <2>7. RebaseRegister(n, b) = [u EXCEPT !.M = M2, !.S = S2]
      BY <1>1, <1>8, <2>6 DEF SketchType
    <2> QED BY <1>2, <2>5, <2>7
  <1>11. CASE ~InWindow(r, b)
    <2>1. M1 = MAt(n + 1)
      BY <1>3, <1>8, <1>11
    <2>2. DAt(n + 1) = DAt(n) \cup {n}
      BY <1>3, <1>4, <1>5, <1>6, <1>11
    <2>3. AddSparse(S1, n, r) = SAt(n + 1)
      <3>1. AddSparse(S1, n, r) = [i \in DAt(n) \cup {n} |-> IF i = n THEN r % rLimit ELSE S1[i]]
        BY <1>9 DEF AddSparse
      <3>2. \A i \in DAt(n) : S1[i] = Get(u, i) % rLimit
        BY <1>8
      <3> HIDE DEF DAt
      <3> QED BY <2>2, <3>1, <3>2
    <2>4. RebaseRegister(n, b) = [sk EXCEPT !.S = AddSparse(S1, n, r)]
      BY <1>7, <1>9, <1>11 DEF RebaseRegister
    <2>5. PICK S2 : S2 = SAt(n + 1)
      OBVIOUS
    <2>6. RebaseRegister(n, b) = [sk EXCEPT !.S = S2]
      BY <2>3, <2>4, <2>5
    <2>7. RebaseRegister(n, b) = [u EXCEPT !.M = M1, !.S = S2]
      BY <1>1, <1>8, <2>6 DEF SketchType
    <2> QED BY <1>2, <2>1, <2>5, <2>7
  <1> QED BY <1>10, <1>11

LEMMA RebaseOneStep ==
  ASSUME NEW o, RepOK(o), NEW n \in 0 .. m, InRebase(o, n), RebaseOne
  PROVE  Goes(o)
  <1>1. PICK u \in {Bounded(o), Counted(o)} : InRebaseOf(o, u, n)
    BY DEF InRebase
  <1>2. /\ RepOK(u) /\ local.newB \in Value /\ sk = Halfway(u, local.newB, n)
        /\ cursor = [j |-> n, i |-> 0] /\ n < m
    BY <1>1 DEF InRebaseOf, RebaseOne
  <1>3. n \in Registers /\ n + 1 \in 0 .. m
    BY <1>2, SketchAssumption DEF Registers
  <1>4. sk' = Halfway(u, local.newB, n + 1)
    BY <1>2, <1>3, HalfwayStep DEF RebaseOne
  <1>5. cursor' = [j |-> n + 1, i |-> 0]
    BY <1>2 DEF RebaseOne
  <1>6. InRebaseOf(o, u, n + 1)'
    BY <1>1, <1>4, <1>5 DEF InRebaseOf, RebaseOne
  <1>7. InRebase(o, n + 1)'
    BY <1>6 DEF InRebase
  <1> QED BY <1>3, <1>7 DEF Goes, Running, RebaseOne

\* After the last register all of them have their value with the new base.
LEMMA HalfwayEnds ==
  ASSUME NEW u, RepOK(u), NEW b
  PROVE  [Halfway(u, b, m) EXCEPT !.B = b, !.rebaseCount = @ + 1] = Rebase(u, b)
  <1> DEFINE M1 == [i \in Registers |->
                      IF InWindow(Get(u, i), b)
                      THEN (Get(u, i) - b) % (maxOffset + 1) ELSE u.M[i]]
             S1 == [i \in Sparse(u, b) |-> Get(u, i) % rLimit]
  <1>1. u \in SketchType /\ DOMAIN u.S \in SUBSET Registers
    BY SketchFields DEF RepOK
  <1>2. (DOMAIN u.S \ Before(DOMAIN u.S, m)) \cup Before(Sparse(u, b), m) = Sparse(u, b)
    <2>1. Before(Sparse(u, b), m) = Sparse(u, b)
      BY BeforeEnds DEF Sparse
    <2>2. Before(DOMAIN u.S, m) = DOMAIN u.S
      BY <1>1, BeforeEnds
    <2> QED BY <2>1, <2>2
  <1>3. \A i \in Registers : i < m
    BY SketchAssumption DEF Registers
  <1>4. PICK M2 : M2 = M1
    OBVIOUS
  <1>5. PICK S2 : S2 = S1
    OBVIOUS
  <1>6. Halfway(u, b, m) = [u EXCEPT !.M = M2, !.S = S2]
    <2>1. [i \in Registers |-> IF i < m /\ InWindow(Get(u, i), b)
                               THEN (Get(u, i) - b) % (maxOffset + 1) ELSE u.M[i]] = M2
      BY <1>3, <1>4
    <2> QED BY <1>2, <1>5, <2>1 DEF Halfway
  <1>7. Rebase(u, b) = [u EXCEPT !.M = M2, !.S = S2, !.B = b, !.rebaseCount = @ + 1]
    BY <1>4, <1>5 DEF Rebase
  <1> QED BY <1>1, <1>6, <1>7 DEF SketchType

LEMMA RebaseDoneStep ==
  ASSUME NEW o, RepOK(o), NEW n \in 0 .. m, InRebase(o, n), RebaseDone
  PROVE  Goes(o)
  <1>1. PICK u \in {Bounded(o), Counted(o)} : InRebaseOf(o, u, n)
    BY DEF InRebase
  <1>2. /\ RepOK(u) /\ sk = Halfway(u, local.newB, n)
        /\ cursor = [j |-> n, i |-> 0] /\ n = m
        /\ Compress(o) = [Rebase(u, local.newB) EXCEPT !.compressCount = @ + 1]
    BY <1>1 DEF InRebaseOf, RebaseDone
  <1>3. [sk EXCEPT !.B = local.newB, !.rebaseCount = @ + 1] = Rebase(u, local.newB)
    BY <1>2, HalfwayEnds
  <1> QED BY <1>2, <1>3 DEF RebaseDone, Return, Goes

\* A running compress() takes one turn of the loop that it is in.
LEMMA LoopGoes ==
  ASSUME NEW o, RepOK(o), Running(o), Loop
  PROVE  Goes(o)
  <1>1. CASE InFullChosen(o)
    <2>1. FullChosen
      BY <1>1 DEF InFullChosen, Loop, FullLowest, FullLowestDone, FullTry, FullTryDone,
         IncreaseNext, IncreaseNextDone, IncreaseTry, IncreaseTryDone, BottomLowest,
         BottomLowestDone, BottomCount, BottomCountDone, RebaseOne, RebaseDone
    <2> QED BY <1>1, <2>1, FullChosenStep
  <1>2. ASSUME NEW n \in 0 .. m, InFullLowest(o, n)
        PROVE  Goes(o)
    <2>1. FullLowest \/ FullLowestDone
      BY <1>2 DEF InFullLowest, Loop, FullChosen, FullTry, FullTryDone,
         IncreaseNext, IncreaseNextDone, IncreaseTry, IncreaseTryDone, BottomLowest,
         BottomLowestDone, BottomCount, BottomCountDone, RebaseOne, RebaseDone
    <2> QED BY <1>2, <2>1, FullLowestStep, FullLowestDoneStep
  <1>3. ASSUME NEW n \in 0 .. m, InFullTry(o, n)
        PROVE  Goes(o)
    <2>1. FullTry \/ FullTryDone
      BY <1>3 DEF InFullTry, Loop, FullLowest, FullLowestDone, FullChosen,
         IncreaseNext, IncreaseNextDone, IncreaseTry, IncreaseTryDone, BottomLowest,
         BottomLowestDone, BottomCount, BottomCountDone, RebaseOne, RebaseDone
    <2> QED BY <1>3, <2>1, FullTryStep, FullTryDoneStep
  <1>4. ASSUME NEW n \in 0 .. m, InIncreaseNext(o, n)
        PROVE  Goes(o)
    <2>1. IncreaseNext \/ IncreaseNextDone
      BY <1>4 DEF InIncreaseNext, Loop, FullLowest, FullLowestDone, FullChosen, FullTry,
         FullTryDone, IncreaseTry, IncreaseTryDone, BottomLowest,
         BottomLowestDone, BottomCount, BottomCountDone, RebaseOne, RebaseDone
    <2> QED BY <1>4, <2>1, IncreaseNextStep, IncreaseNextDoneStep
  <1>5. ASSUME NEW n \in 0 .. m, InIncreaseTry(o, n)
        PROVE  Goes(o)
    <2>1. IncreaseTry \/ IncreaseTryDone
      BY <1>5 DEF InIncreaseTry, Loop, FullLowest, FullLowestDone, FullChosen, FullTry,
         FullTryDone, IncreaseNext, IncreaseNextDone, BottomLowest,
         BottomLowestDone, BottomCount, BottomCountDone, RebaseOne, RebaseDone
    <2> QED BY <1>5, <2>1, IncreaseTryStep, IncreaseTryDoneStep
  <1>6. ASSUME NEW n \in 0 .. m, InBottomLowest(o, n)
        PROVE  Goes(o)
    <2>1. BottomLowest \/ BottomLowestDone
      BY <1>6 DEF InBottomLowest, Loop, FullLowest, FullLowestDone, FullChosen, FullTry,
         FullTryDone, IncreaseNext, IncreaseNextDone, IncreaseTry, IncreaseTryDone,
         BottomCount, BottomCountDone, RebaseOne, RebaseDone
    <2> QED BY <1>6, <2>1, BottomLowestStep, BottomLowestDoneStep
  <1>7. ASSUME NEW n \in 0 .. m, InBottomCount(o, n)
        PROVE  Goes(o)
    <2>1. BottomCount \/ BottomCountDone
      BY <1>7 DEF InBottomCount, Loop, FullLowest, FullLowestDone, FullChosen, FullTry,
         FullTryDone, IncreaseNext, IncreaseNextDone, IncreaseTry, IncreaseTryDone,
         BottomLowest, BottomLowestDone, RebaseOne, RebaseDone
    <2> QED BY <1>7, <2>1, BottomCountStep, BottomCountDoneStep
  <1>8. ASSUME NEW n \in 0 .. m, InRebase(o, n)
        PROVE  Goes(o)
    <2>1. RebaseOne \/ RebaseDone
      BY <1>8 DEF InRebase, InRebaseOf, Loop, FullLowest, FullLowestDone, FullChosen, FullTry,
         FullTryDone, IncreaseNext, IncreaseNextDone, IncreaseTry, IncreaseTryDone,
         BottomLowest, BottomLowestDone, BottomCount, BottomCountDone
    <2> QED BY <1>8, <2>1, RebaseOneStep, RebaseDoneStep
  <1> QED BY <1>1, <1>2, <1>3, <1>4, <1>5, <1>6, <1>7, <1>8 DEF Running

-----------------------------------------------------------------------------
\* compress() starts with the first loop of the function that the flags select.
LEMMA EnterRuns ==
  ASSUME NEW o, RepOK(o), Enter(o)
  PROVE  Running(o)'
  <1>1. /\ o \in SketchType /\ DOMAIN o.S \in SUBSET Registers
    BY SearchFields
  <1>2. cursor' = Reached(o.S, 0) /\ 0 \in 0 .. m
    BY <1>1, StartIs, SketchAssumption DEF Enter
  <1>3. Values(o, 0) = {} /\ rLimit \in Nat
    BY ValuesEnds, SketchAssumption
  <1>4. /\ LeastOf(rLimit, Values(o, 0) \cup {rLimit})
        /\ LeastOf(rLimit, {v \in Values(o, 0) : o.B < v} \cup {rLimit})
    BY <1>3 DEF LeastOf
  <1>5. CASE "TYPE_FULL" \in o.flags
    <2>1. /\ pc' = "fullLowest" /\ sk' = o
          /\ local' = [NoLocals EXCEPT !.potentialBase = rLimit,
                                       !.bestNs = Cardinality(DOMAIN o.S),
                                       !.bestPotentialBase = o.B]
      BY <1>5 DEF Enter
    <2>2. local'.potentialBase = rLimit
      BY <2>1 DEF NoLocals
    <2>3. InFullLowest(o, 0)'
      BY <1>2, <1>4, <1>5, <2>1, <2>2 DEF InFullLowest
    <2> QED BY <1>2, <2>3 DEF Running
  <1>6. CASE "TYPE_FULL" \notin o.flags /\ "TYPE_INCREASE" \in o.flags
    <2>1. /\ pc' = "increaseNext" /\ sk' = [o EXCEPT !.lowerBound = rLimit]
          /\ local' = [NoLocals EXCEPT !.potentialBase = rLimit]
      BY <1>6 DEF Enter
    <2>2. local'.potentialBase = rLimit /\ sk'.lowerBound = rLimit
      BY <1>1, <2>1 DEF NoLocals, SketchType
    <2>3. InIncreaseNext(o, 0)'
      BY <1>2, <1>4, <1>6, <2>1, <2>2 DEF InIncreaseNext
    <2> QED BY <1>2, <2>3 DEF Running
  <1>7. CASE "TYPE_FULL" \notin o.flags /\ "TYPE_INCREASE" \notin o.flags
    <2>1. /\ pc' = "bottomLowest" /\ sk' = [o EXCEPT !.lowerBound = rLimit]
          /\ local' = NoLocals
      BY <1>7 DEF Enter
    <2>2. sk'.lowerBound = rLimit
      BY <1>1, <2>1 DEF SketchType
    <2>3. InBottomLowest(o, 0)'
      BY <1>2, <1>4, <1>7, <2>1, <2>2 DEF InBottomLowest
    <2> QED BY <1>2, <2>3 DEF Running
  <1> QED BY <1>5, <1>6, <1>7

-----------------------------------------------------------------------------
(***************************************************************************)
(* The loops of merge(), one turn at a time.                               *)
(***************************************************************************)
\* Which of the four loops runs: register j is an entry of a map exactly when
\* the cursor into that map points at it.
LEMMA NextKeyIs ==
  ASSUME Merging
  PROVE  /\ j < NextKey <=> j \in Registers /\ j \notin DOMAIN this.S \cup DOMAIN that.S
         /\ j >= NextKey /\ (Left1 \/ Left2) =>
              /\ NextKey = j /\ j \in Registers
              /\ At1(j) <=> j \in DOMAIN this.S
              /\ At2(j) <=> j \in DOMAIN that.S
  <1> DEFINE D1 == DOMAIN this.S
             D2 == DOMAIN that.S
             K1 == IF Left1 THEN {KeyAt(this.S, i1)} ELSE {}
             K2 == IF Left2 THEN {KeyAt(that.S, i2)} ELSE {}
             K  == K1 \cup K2 \cup {m}
  <1>1. /\ D1 \in SUBSET Registers /\ D2 \in SUBSET Registers /\ j \in 0 .. m
        /\ i1 = Cardinality(Before(D1, j)) /\ i2 = Cardinality(Before(D2, j))
    BY SearchFields DEF Merging
  <1>2. /\ Left1 <=> \E k \in D1 : j <= k
        /\ Left1 => /\ KeyAt(this.S, i1) \in D1 /\ j <= KeyAt(this.S, i1)
                    /\ \A k \in D1 : j <= k => KeyAt(this.S, i1) <= k
    BY <1>1, CursorIs DEF Left1
  <1>3. /\ Left2 <=> \E k \in D2 : j <= k
        /\ Left2 => /\ KeyAt(that.S, i2) \in D2 /\ j <= KeyAt(that.S, i2)
                    /\ \A k \in D2 : j <= k => KeyAt(that.S, i2) <= k
    BY <1>1, CursorIs DEF Left2
  <1>4. /\ j \in Nat /\ j <= m /\ m \in Nat /\ (j \in Registers <=> j < m)
        /\ \A i \in Registers : i \in Nat /\ i < m
    BY <1>1, SketchAssumption DEF Registers
  <1> HIDE DEF D1, D2
  <1>5. K \in SUBSET Nat /\ \A k \in K : j <= k
    BY <1>1, <1>2, <1>3, <1>4
  <1>6. NextKey \in K /\ \A k \in K : NextKey <= k
    <2>1. NextKey = Min(K)
      BY DEF NextKey
    <2>2. K # {}
      OBVIOUS
    <2> HIDE DEF K
    <2> QED BY <1>5, <2>1, <2>2, MinExists
  <1>7. NextKey \in Nat /\ j <= NextKey /\ NextKey <= m
    BY <1>5, <1>6
  <1>8. ASSUME j \in D1
        PROVE  Left1 /\ KeyAt(this.S, i1) = j
    <2>1. Left1
      BY <1>4, <1>8, <1>2
    <2>2. PICK key : key = KeyAt(this.S, i1)
      OBVIOUS
    <2>3. key \in D1 /\ j <= key /\ \A k \in D1 : j <= k => key <= k
      BY <1>2, <2>1, <2>2
    <2>4. key \in Nat /\ j \in Nat /\ j <= j
      BY <1>1, <1>4, <2>3
    <2>5. key <= j
      BY <1>8, <2>3, <2>4
    <2> QED BY <2>1, <2>2, <2>3, <2>4, <2>5
  <1>9. ASSUME j \in D2
        PROVE  Left2 /\ KeyAt(that.S, i2) = j
    <2>1. Left2
      BY <1>4, <1>9, <1>3
    <2>2. PICK key : key = KeyAt(that.S, i2)
      OBVIOUS
    <2>3. key \in D2 /\ j <= key /\ \A k \in D2 : j <= k => key <= k
      BY <1>3, <2>1, <2>2
    <2>4. key \in Nat /\ j \in Nat /\ j <= j
      BY <1>1, <1>4, <2>3
    <2>5. key <= j
      BY <1>9, <2>3, <2>4
    <2> QED BY <2>1, <2>2, <2>3, <2>4, <2>5
  <1>10. /\ At1(j) <=> j \in D1
         /\ At2(j) <=> j \in D2
    BY <1>2, <1>3, <1>8, <1>9 DEF At1, At2
  <1>11. NextKey = j => j = m \/ j \in D1 \/ j \in D2
    BY <1>2, <1>3, <1>6
  <1>12. j \in D1 \cup D2 => ~(j < NextKey)
    BY <1>4, <1>6, <1>7, <1>8, <1>9
  <1>13. j < NextKey <=> j \in Registers /\ j \notin D1 \cup D2
    BY <1>4, <1>7, <1>11, <1>12
  <1>14. ASSUME j >= NextKey, Left1 \/ Left2
         PROVE  NextKey = j /\ j \in Registers
    <2>1. NextKey = j
      BY <1>4, <1>7, <1>14
    <2>2. PICK k \in K1 \cup K2 : k \in D1 \cup D2
      BY <1>2, <1>3, <1>14
    <2>3. k \in Registers /\ NextKey <= k
      BY <1>1, <1>6, <2>2
    <2>4. j < m
      BY <1>4, <2>1, <2>3
    <2> QED BY <1>4, <2>1, <2>4
  <1> QED BY <1>10, <1>13, <1>14 DEF D1, D2

\* The object that merge() has written, field by field.
LEMMA CopiedFields ==
  ASSUME NEW n
  PROVE  /\ Copied(n).B = JoinedBase(this, that)
         /\ Copied(n).M = [i \in Registers |->
              IF ~(i < n) \/ i \in JoinedSparse(this, that) THEN 0
              ELSE (JoinedRank(this, that, i) - JoinedBase(this, that)) % (maxOffset + 1)]
         /\ Copied(n).S = [i \in Before(JoinedSparse(this, that), n) |->
              JoinedRank(this, that, i) % rLimit]
  BY DEF Copied, NewSketch

\* A register that merge() stores in M or in S, as the window says.
LEMMA CopiedStep ==
  ASSUME JoinedSparse(this, that) \in SUBSET Registers,
         NEW n \in Registers, NEW r, r = JoinedRank(this, that, n)
  PROVE  /\ n \notin JoinedSparse(this, that) =>
              Copied(n + 1) = [Copied(n) EXCEPT
                                 !.M = Put(@, n, r - JoinedBase(this, that))]
         /\ n \in JoinedSparse(this, that) =>
              Copied(n + 1) = [Copied(n) EXCEPT !.S = AddSparse(@, n, r)]
  <1> DEFINE J      == JoinedSparse(this, that)
             B      == JoinedBase(this, that)
             R(i)   == JoinedRank(this, that, i)
             MAt(k) == [i \in Registers |->
                          IF ~(i < k) \/ i \in J THEN 0 ELSE (R(i) - B) % (maxOffset + 1)]
             SAt(k) == [i \in Before(J, k) |-> R(i) % rLimit]
             new    == NewSketch(Normalised(this.flags))
  <1>1. \A k : Copied(k) = [new EXCEPT !.B = B, !.M = MAt(k), !.S = SAt(k)]
    BY DEF Copied
  <1>2. \A i \in Registers : (i < n + 1 <=> i < n \/ i = n) /\ ~(n < n)
    BY SketchAssumption DEF Registers
  <1>3. PICK M1, S1 : M1 = MAt(n) /\ S1 = SAt(n)
    OBVIOUS
  <1>4. PICK M2, S2 : M2 = MAt(n + 1) /\ S2 = SAt(n + 1)
    OBVIOUS
  <1>5. /\ Copied(n) = [new EXCEPT !.B = B, !.M = M1, !.S = S1]
        /\ Copied(n + 1) = [new EXCEPT !.B = B, !.M = M2, !.S = S2]
    BY <1>1, <1>3, <1>4
  <1>6. Copied(n).M = M1 /\ Copied(n).S = S1
    BY <1>5 DEF NewSketch
  <1>7. Before(J, n + 1) = IF n \in J THEN Before(J, n) \cup {n} ELSE Before(J, n)
    <2>1. \A i \in J : i < n + 1 <=> i < n \/ i = n
      BY SketchAssumption DEF Registers
    <2>2. ~(n < n)
      BY <1>2
    <2> HIDE DEF J
    <2> QED BY <2>1, <2>2 DEF Before
  <1>8. ASSUME n \notin J
        PROVE  M2 = Put(M1, n, r - B) /\ S2 = S1
    BY <1>2, <1>3, <1>4, <1>7, <1>8 DEF Put
  <1>9. ASSUME n \in J
        PROVE  M2 = M1 /\ S2 = AddSparse(S1, n, r)
    BY <1>2, <1>3, <1>4, <1>7, <1>9 DEF AddSparse
  <1>10. /\ [Copied(n) EXCEPT !.M = M2] = [new EXCEPT !.B = B, !.M = M2, !.S = S1]
         /\ [Copied(n) EXCEPT !.S = S2] = [new EXCEPT !.B = B, !.M = M1, !.S = S2]
    <2> HIDE DEF B
    <2> QED BY <1>5 DEF NewSketch
  <1>11. n \notin J => Copied(n + 1) = [Copied(n) EXCEPT !.M = Put(@, n, r - B)]
    BY <1>5, <1>6, <1>8, <1>10
  <1>12. n \in J => Copied(n + 1) = [Copied(n) EXCEPT !.S = AddSparse(@, n, r)]
    BY <1>5, <1>6, <1>9, <1>10
  <1> QED BY <1>11, <1>12

\* What the loops of merge() rely on while they run.
LEMMA MergingIs ==
  ASSUME Merging
  PROVE  /\ RepOK(this) /\ RepOK(that) /\ j \in 0 .. m
         /\ DOMAIN this.S \in SUBSET Registers /\ DOMAIN that.S \in SUBSET Registers
         /\ JoinedSparse(this, that) \in SUBSET (DOMAIN this.S \cup DOMAIN that.S)
         /\ JoinedSparse(this, that) \in SUBSET Registers
         /\ sk = Copied(j) /\ sk.B = JoinedBase(this, that)
         /\ j \in Registers => j + 1 \in 0 .. m
  <1>1. /\ RepOK(this) /\ RepOK(that) /\ j \in 0 .. m /\ sk = Copied(j)
        /\ DOMAIN this.S \in SUBSET Registers /\ DOMAIN that.S \in SUBSET Registers
    BY SearchFields DEF Merging
  <1>2. JoinedSparse(this, that) \in SUBSET (DOMAIN this.S \cup DOMAIN that.S)
    BY DEF JoinedSparse
  <1>3. sk.B = JoinedBase(this, that)
    BY <1>1, CopiedFields
  <1>4. j \in Registers => j + 1 \in 0 .. m
    BY SketchAssumption DEF Registers
  <1> QED BY <1>1, <1>2, <1>3, <1>4

\* merge() goes on with the next register.
LEMMA MergingGoes ==
  ASSUME Merging, j \in Registers, j' = j + 1, sk' = Copied(j + 1),
         i1' = IF j \in DOMAIN this.S THEN i1 + 1 ELSE i1,
         i2' = IF j \in DOMAIN that.S THEN i2 + 1 ELSE i2,
         UNCHANGED <<pc, this, that, result>>
  PROVE  Merging'
  <1>1. /\ DOMAIN this.S \in SUBSET Registers /\ DOMAIN that.S \in SUBSET Registers
        /\ j + 1 \in 0 .. m
    BY MergingIs
  <1>2. /\ i1 = Cardinality(Before(DOMAIN this.S, j)) /\ i1 \in Nat
        /\ i2 = Cardinality(Before(DOMAIN that.S, j)) /\ i2 \in Nat
    <2>1. Before(DOMAIN this.S, j) \in SUBSET Registers /\ Before(DOMAIN that.S, j) \in SUBSET Registers
      BY <1>1 DEF Before
    <2> QED BY <2>1, RegistersCounted DEF Merging
  <1>3. /\ i1' = Cardinality(Before(DOMAIN this.S, j + 1))
        /\ i2' = Cardinality(Before(DOMAIN that.S, j + 1))
    BY <1>1, <1>2, CountStep
  <1>4. sk' = Copied(j)'
    BY DEF Copied
  <1> QED BY <1>1, <1>3, <1>4 DEF Merging

LEMMA CopyDenseStep ==
  ASSUME Merging, CopyDense
  PROVE  Merging'
  <1>1. j \in Registers /\ j \notin DOMAIN this.S /\ j \notin DOMAIN that.S
    BY NextKeyIs DEF CopyDense
  <1>2. j \notin JoinedSparse(this, that) /\ JoinedSparse(this, that) \in SUBSET Registers
    BY <1>1, MergingIs
  <1>3. JoinedRank(this, that, j) = Larger(this.M[j] + this.B, that.M[j] + that.B)
    BY <1>1 DEF JoinedRank, Get
  <1>4. sk' = [sk EXCEPT !.M = Put(@, j, JoinedRank(this, that, j) - JoinedBase(this, that))]
    BY <1>3, MergingIs DEF CopyDense, H
  <1>5. sk' = Copied(j + 1)
    BY <1>1, <1>2, <1>4, CopiedStep, MergingIs
  <1> QED BY <1>1, <1>5, MergingGoes DEF CopyDense

LEMMA CopyEntryStep ==
  ASSUME Merging, CopyEntry
  PROVE  Merging'
  <1>1. /\ NextKey = j /\ j \in Registers
        /\ At1(j) <=> j \in DOMAIN this.S
        /\ At2(j) <=> j \in DOMAIN that.S
        /\ j \in DOMAIN this.S \cup DOMAIN that.S
    <2>1. j >= NextKey /\ (Left1 \/ Left2)
      BY DEF CopyEntry
    <2>2. /\ NextKey = j /\ j \in Registers
          /\ At1(j) <=> j \in DOMAIN this.S
          /\ At2(j) <=> j \in DOMAIN that.S
      BY <2>1, NextKeyIs
    <2>3. ~(j < NextKey)
      BY <2>2, SketchAssumption DEF Registers
    <2> QED BY <2>2, <2>3, NextKeyIs
  <1>2. PICK r : r = JoinedRank(this, that, j)
    OBVIOUS
  <1>3. /\ r = Larger(IF At1(j) THEN this.S[j] ELSE this.M[j] + this.B,
                      IF At2(j) THEN that.S[j] ELSE that.M[j] + that.B)
    BY <1>1, <1>2 DEF JoinedRank, Get
  <1>4. /\ sk' = PutRank(r)
        /\ i1' = IF At1(j) THEN i1 + 1 ELSE i1
        /\ i2' = IF At2(j) THEN i2 + 1 ELSE i2
    BY <1>1, <1>3 DEF CopyEntry
  <1>5. InWindow(r, sk.B) <=> j \notin JoinedSparse(this, that)
    BY <1>1, <1>2, MergingIs DEF JoinedSparse
  <1>6. sk' = Copied(j + 1)
    <2>1. CASE InWindow(r, sk.B)
      BY <1>1, <1>2, <1>4, <1>5, <2>1, CopiedStep, MergingIs DEF PutRank, H
    <2>2. CASE ~InWindow(r, sk.B)
      BY <1>1, <1>2, <1>4, <1>5, <2>2, CopiedStep, MergingIs DEF PutRank, H
    <2> QED BY <2>1, <2>2
  <1> QED BY <1>1, <1>4, <1>6, MergingGoes DEF CopyEntry

\* compress() of the finished object.
LEMMA FinishStep ==
  ASSUME Merging, Finish
  PROVE  \E o : RepOK(o) /\ CalledOn(o)' /\ Running(o)'
  <1>1. j = m
    BY MergingIs, SketchAssumption DEF Finish
  <1>2. Copied(m) = Joined(this, that)
    <2>1. \A i \in Registers : i < m
      BY SketchAssumption DEF Registers
    <2>2. Before(JoinedSparse(this, that), m) = JoinedSparse(this, that)
      BY MergingIs, BeforeEnds
    <2>3. [i \in Registers |->
             IF ~(i < m) \/ i \in JoinedSparse(this, that) THEN 0
             ELSE (JoinedRank(this, that, i) - JoinedBase(this, that)) % (maxOffset + 1)]
          = [i \in Registers |->
             IF i \in JoinedSparse(this, that) THEN 0
             ELSE (JoinedRank(this, that, i) - JoinedBase(this, that)) % (maxOffset + 1)]
      BY <2>1
    <2> QED BY <2>2, <2>3 DEF Copied, Joined
  <1>3. sk = Joined(this, that) /\ RepOK(sk)
    BY <1>1, <1>2, MergingIs, JoinedIs
  <1>4. PICK o : o = sk
    OBVIOUS
  <1>5. RepOK(o) /\ Enter(o)
    BY <1>3, <1>4 DEF Finish, H
  <1>6. Running(o)'
    BY <1>5, EnterRuns
  <1>7. result' = <<Compress(o)>> /\ before' = o
    BY <1>3, <1>4 DEF Merging, Merge, Finish, H
  <1>8. CalledOn(o)'
    BY <1>7 DEF CalledOn
  <1> QED BY <1>5, <1>6, <1>8

-----------------------------------------------------------------------------
(***************************************************************************)
(* The calls.                                                              *)
(***************************************************************************)
\* The inputs that the program gives the objects.
InputsFit ==
  /\ Flags \subseteq SUBSET Flag
  /\ Rank \subseteq Value
  /\ Operands \subseteq [Registers -> Value]
  /\ \A flags \in MergedFlags :
       Normalised(flags) \in SUBSET Flag /\ ValidFlags(Normalised(flags))

LEMMA NormalisedType ==
  ASSUME NEW flags \in SUBSET Flag
  PROVE  Normalised(flags) \in SUBSET Flag
  BY DEF Normalised, WithType, WithWhen, Flag

LEMMA AfterIs ==
  ASSUME NEW o, RepOK(o), NEW i \in Registers, NEW r \in Value
  PROVE  /\ RepOK(After(o, i, r))
         /\ AddJr(o, i, r) = IF CallsCompress(o, i, r) THEN Compress(After(o, i, r))
                             ELSE IF r <= o.lowerBound THEN o ELSE After(o, i, r)
  <1>1. RepOK(After(o, i, r))
    BY StoreSets DEF After
  <1>2. AddJr(o, i, r) = IF r <= o.lowerBound THEN o
                         ELSE IF MustCompress(o, After(o, i, r), i, r)
                         THEN Compress(After(o, i, r)) ELSE After(o, i, r)
    BY DEF AddJr, After
  <1>3. AddJr(o, i, r) = IF CallsCompress(o, i, r) THEN Compress(After(o, i, r))
                         ELSE IF r <= o.lowerBound THEN o ELSE After(o, i, r)
    BY <1>2 DEF CallsCompress
  <1> QED BY <1>1, <1>3

\* A call of addJr that does not compress is one step; one that does enters
\* the loops.
LEMMA AddStep ==
  ASSUME InputsFit, pc = "idle", RepOK(sk), result = <<>>,
         NEW i \in Registers, NEW r \in Rank, CallAddJr(i, r), UNCHANGED operands
  PROVE  /\ before' = sk
         /\ \/ pc' = "idle" /\ sk' = AddJr(sk, i, r) /\ RepOK(sk)'
            \/ \E o : RepOK(o) /\ CalledOn(o)' /\ Running(o)'
  <1>1. r \in Value /\ r \in Nat /\ sk.lowerBound \in Nat
    BY SketchFields, SketchAssumption DEF InputsFit, RepOK, Value
  <1>2. before' = sk /\ result' = <<>>
    BY DEF CallAddJr, operands
  <1>3. PICK o : o = After(sk, i, r)
    OBVIOUS
  <1>4. RepOK(o) /\ RepOK(AddJr(sk, i, r))
    BY <1>1, <1>3, AfterIs, AddJrSets
  <1>5. CallsCompress(sk, i, r) <=> r > sk.lowerBound /\ MustCompress(sk, o, i, r)
    BY <1>1, <1>3 DEF CallsCompress
  <1>6. CASE CallsCompress(sk, i, r)
    <2>1. Enter(o)
      BY <1>3, <1>5, <1>6 DEF CallAddJr, After
    <2>2. Running(o)'
      BY <1>4, <2>1, EnterRuns
    <2>3. PICK b : b = sk
      OBVIOUS
    <2>4. before' = b /\ RepOK(b) /\ CallsCompress(b, i, r) /\ o = After(b, i, r)
      BY <1>2, <1>3, <1>6, <2>3
    <2>5. CalledOn(o)'
      BY <1>2, <2>4 DEF CalledOn
    <2> QED BY <1>2, <1>4, <2>2, <2>5
  <1>7. CASE ~CallsCompress(sk, i, r)
    <2>1. pc' = "idle" /\ sk' = IF r <= sk.lowerBound THEN sk ELSE After(sk, i, r)
      BY <1>3, <1>5, <1>7 DEF CallAddJr, After
    <2>2. sk' = AddJr(sk, i, r)
      BY <1>1, <1>7, <2>1, AfterIs
    <2> QED BY <1>2, <1>4, <2>1, <2>2
  <1> QED BY <1>6, <1>7

\* The object of a call of addJr that compresses is that of the call.
LEMMA CalledOnIs ==
  ASSUME InputsFit, NEW o, RepOK(o), CalledOn(o)
  PROVE  \/ /\ result = <<>> /\ RepOK(before)
            /\ \E i \in Registers, r \in Rank : AddJr(before, i, r) = Compress(o)
         \/ result = <<Compress(o)>> /\ before = o
  <1>1. CASE result = <<Compress(o)>> /\ before = o
    BY <1>1
  <1>2. CASE /\ result = <<>> /\ RepOK(before)
             /\ \E i \in Registers, r \in Rank : CallsCompress(before, i, r) /\ o = After(before, i, r)
    <2>1. PICK i \in Registers, r \in Rank : CallsCompress(before, i, r) /\ o = After(before, i, r)
      BY <1>2
    <2>2. r \in Value
      BY DEF InputsFit
    <2>3. AddJr(before, i, r) = Compress(o)
      BY <1>2, <2>1, <2>2, AfterIs
    <2> QED BY <1>2, <2>3
  <1> QED BY <1>1, <1>2 DEF CalledOn

-----------------------------------------------------------------------------
LEMMA InitLoopInv ==
  ASSUME InputsFit, MergeInit
  PROVE  LoopInv
  <1>1. CASE ObjectInit /\ NoMerge /\ result = <<>>
    BY <1>1 DEF ObjectInit, LoopInv
  <1>2. ASSUME NEW flags \in MergedFlags, NEW f \in Operands, NEW g \in Operands,
               this = FromRegisters(f, flags), that = FromRegisters(g, flags),
               sk = [NewSketch(Normalised(this.flags)) EXCEPT !.B = Larger(this.B, that.B)],
               pc = "merge", j = 0, i1 = 0, i2 = 0, result = <<Merge(this, that)>>
        PROVE  LoopInv
    <2>1. RepOK(this) /\ RepOK(that)
      BY <1>2, FromRegistersIs DEF InputsFit, Fed
    <2>2. /\ DOMAIN this.S \in SUBSET Registers /\ DOMAIN that.S \in SUBSET Registers
          /\ JoinedSparse(this, that) \in SUBSET Registers
      BY <2>1, SearchFields DEF JoinedSparse
    <2>3. i1 = Cardinality(Before(DOMAIN this.S, j)) /\ i2 = Cardinality(Before(DOMAIN that.S, j))
      BY <1>2, <2>2, CountEnds
    <2>4. sk = Copied(j)
      <3> DEFINE new == NewSketch(Normalised(this.flags))
                 B   == JoinedBase(this, that)
      <3>1. PICK M1 : M1 = [i \in Registers |->
              IF ~(i < 0) \/ i \in JoinedSparse(this, that) THEN 0
              ELSE (JoinedRank(this, that, i) - JoinedBase(this, that)) % (maxOffset + 1)]
        OBVIOUS
      <3>2. PICK S1 : S1 = [i \in Before(JoinedSparse(this, that), 0) |->
              JoinedRank(this, that, i) % rLimit]
        OBVIOUS
      <3>3. M1 = new.M
        <4>1. \A i \in Registers : ~(i < 0)
          BY SketchAssumption DEF Registers
        <4> QED BY <3>1, <4>1 DEF NewSketch
      <3>4. S1 = new.S
        <4>1. Before(JoinedSparse(this, that), 0) = {}
          BY <2>2, BeforeEnds
        <4> QED BY <3>2, <4>1 DEF NewSketch
      <3>5. Copied(j) = [new EXCEPT !.B = B, !.M = M1, !.S = S1]
        BY <1>2, <3>1, <3>2 DEF Copied
      <3>6. sk = [new EXCEPT !.B = B]
        BY <1>2 DEF JoinedBase
      <3> HIDE DEF B
      <3> QED BY <3>3, <3>4, <3>5, <3>6 DEF NewSketch
    <2>5. j \in 0 .. m
      BY <1>2, SketchAssumption
    <2> QED BY <1>2, <2>1, <2>3, <2>4, <2>5 DEF LoopInv, Merging
  <1> QED BY <1>1, <1>2 DEF MergeInit

LEMMA RunningIs ==
  ASSUME NEW o, Running(o)
  PROVE  pc \notin {"absent", "idle", "merge"}
  BY DEF Running, InFullLowest, InFullTry, InFullChosen, InIncreaseNext, InIncreaseTry,
         InBottomLowest, InBottomCount, InRebase, InRebaseOf

\* A step of compress() leaves the call as it is, and ends with its effect.
LEMMA LoopKeeps ==
  ASSUME InputsFit, NEW o, RepOK(o), CalledOn(o), Running(o), Loop, UNCHANGED operands
  PROVE  /\ LoopInv' /\ before' = before
         /\ Running(o)' \/ (pc' = "idle" /\ sk' = Compress(o))
  <1>1. Goes(o) /\ result' = result
    BY LoopGoes DEF operands
  <1>2. CalledOn(o)'
    BY <1>1 DEF Goes, CalledOn
  <1>3. CASE Running(o)'
    BY <1>1, <1>2, <1>3 DEF LoopInv, Goes
  <1>4. CASE pc' = "idle" /\ sk' = Compress(o)
    <2>1. RepOK(sk')
      BY <1>4, CompressKeeps
    <2>2. result # <<>> => result = <<Compress(o)>>
      BY DEF CalledOn
    <2>3. (pc = "idle" /\ RepOK(sk) /\ (result # <<>> => result = <<sk>>))'
      BY <1>1, <1>4, <2>1, <2>2
    <2> QED BY <1>1, <1>4, <2>3 DEF LoopInv, Goes
  <1> QED BY <1>1, <1>3, <1>4 DEF Goes

\* What a step does to the object of the program: the call that runs, if one
\* does, has its effect when it returns.
Effect ==
  \/ result # <<>> /\ result' # <<>>
  \/ /\ result = <<>> /\ result' = <<>>
     /\ \/ /\ pc = "absent" /\ pc' = "idle"
           /\ \E flags \in Flags : /\ ValidFlags(Normalised(flags))
                                   /\ sk' = NewSketch(Normalised(flags))
        \/ pc = "idle" /\ pc' \notin {"absent", "idle"} /\ before' = sk
        \/ /\ pc = "idle" /\ pc' = "idle"
           /\ \E i \in Registers, r \in Rank : sk' = AddJr(sk, i, r)
        \/ pc \notin {"absent", "idle"} /\ pc' \notin {"absent", "idle"} /\ before' = before
        \/ /\ pc \notin {"absent", "idle"} /\ pc' = "idle"
           /\ \E i \in Registers, r \in Rank : sk' = AddJr(before, i, r)

LEMMA NextLoopInv ==
  ASSUME InputsFit, LoopInv, MergeNext
  PROVE  LoopInv' /\ Effect
  <1>1. ASSUME Loop, UNCHANGED operands
        PROVE  LoopInv' /\ Effect
    <2>1. pc \notin {"absent", "idle", "merge"}
      BY <1>1 DEF Loop, FullLowest, FullLowestDone, FullTry, FullTryDone, FullChosen,
         IncreaseNext, IncreaseNextDone, IncreaseTry, IncreaseTryDone, BottomLowest,
         BottomLowestDone, BottomCount, BottomCountDone, RebaseOne, RebaseDone
    <2>2. PICK o : RepOK(o) /\ CalledOn(o) /\ Running(o)
      BY <2>1 DEF LoopInv, Merging
    <2>3. /\ LoopInv' /\ before' = before
          /\ Running(o)' \/ (pc' = "idle" /\ sk' = Compress(o))
      BY <1>1, <2>2, LoopKeeps
    <2>4. \/ /\ result = <<>>
             /\ \E i \in Registers, r \in Rank : AddJr(before, i, r) = Compress(o)
          \/ result = <<Compress(o)>>
      BY <2>2, CalledOnIs
    <2>5. result' = result
      BY <1>1 DEF operands
    <2>6. <<Compress(o)>> # <<>>
      OBVIOUS
    <2>7. CASE Running(o)'
      <3>1. pc' \notin {"absent", "idle", "merge"}
        BY <2>7 DEF Running, InFullLowest, InFullTry, InFullChosen, InIncreaseNext,
           InIncreaseTry, InBottomLowest, InBottomCount, InRebase, InRebaseOf
      <3> QED BY <2>1, <2>3, <2>4, <2>5, <2>6, <3>1 DEF Effect
    <2>8. CASE pc' = "idle" /\ sk' = Compress(o)
      BY <2>1, <2>3, <2>4, <2>5, <2>6, <2>8 DEF Effect
    <2> QED BY <2>3, <2>7, <2>8
  <1>2. ASSUME pc = "merge"
        PROVE  Merging /\ result # <<>>
    <2>1. Merging
      BY <1>2, RunningIs DEF LoopInv
    <2> QED BY <2>1 DEF Merging
  <1>3. CASE CopyDense
    <2>1. Merging /\ result # <<>> /\ Merging'
      BY <1>2, <1>3, CopyDenseStep DEF CopyDense
    <2> QED BY <1>3, <2>1 DEF LoopInv, Effect, CopyDense
  <1>4. CASE CopyEntry
    <2>1. Merging /\ result # <<>> /\ Merging'
      BY <1>2, <1>4, CopyEntryStep DEF CopyEntry
    <2> QED BY <1>4, <2>1 DEF LoopInv, Effect, CopyEntry
  <1>5. CASE Finish
    <2>1. Merging /\ result # <<>>
      BY <1>2, <1>5 DEF Finish
    <2>2. \E o : RepOK(o) /\ CalledOn(o)' /\ Running(o)'
      BY <1>5, <2>1, FinishStep
    <2> QED BY <1>5, <2>1, <2>2 DEF LoopInv, Effect, Finish
  <1>6. ASSUME result = <<>>, UNCHANGED operands, NEW flags \in Flags, CallConstructor(flags)
        PROVE  LoopInv' /\ Effect
    <2>1. /\ Normalised(flags) \in SUBSET Flag /\ ValidFlags(Normalised(flags))
          /\ pc = "absent" /\ pc' = "idle" /\ sk' = NewSketch(Normalised(flags))
          /\ result' = <<>>
      BY <1>6, NormalisedType DEF InputsFit, CallConstructor, operands
    <2>2. RepOK(sk')
      BY <2>1, NewSketchIs
    <2>3. LoopInv'
      BY <2>1, <2>2 DEF LoopInv
    <2> QED BY <1>6, <2>1, <2>3 DEF Effect
  <1>7. ASSUME result = <<>>, UNCHANGED operands, NEW i \in Registers, NEW r \in Rank, CallAddJr(i, r)
        PROVE  LoopInv' /\ Effect
    <2>1. pc = "idle" /\ RepOK(sk) /\ result' = <<>>
      BY <1>7, RunningIs DEF LoopInv, Merging, CallAddJr, operands
    <2>2. /\ before' = sk
          /\ \/ pc' = "idle" /\ sk' = AddJr(sk, i, r) /\ RepOK(sk)'
             \/ \E o : RepOK(o) /\ CalledOn(o)' /\ Running(o)'
      BY <1>7, <2>1, AddStep
    <2>3. CASE pc' = "idle" /\ sk' = AddJr(sk, i, r) /\ RepOK(sk)'
      BY <1>7, <2>1, <2>3 DEF LoopInv, Effect
    <2>4. CASE \E o : RepOK(o) /\ CalledOn(o)' /\ Running(o)'
      <3>1. PICK o : RepOK(o) /\ CalledOn(o)' /\ Running(o)'
        BY <2>4
      <3>2. pc' \notin {"absent", "idle", "merge"}
        BY <3>1 DEF Running, InFullLowest, InFullTry, InFullChosen, InIncreaseNext,
           InIncreaseTry, InBottomLowest, InBottomCount, InRebase, InRebaseOf
      <3> QED BY <1>7, <2>1, <2>2, <3>1, <3>2 DEF LoopInv, Effect
    <2> QED BY <2>2, <2>3, <2>4
  <1> QED BY <1>1, <1>3, <1>4, <1>5, <1>6, <1>7 DEF MergeNext, MergeLoop, ObjectNext

LEMMA StutterLoopInv ==
  ASSUME LoopInv, UNCHANGED mergeVars
  PROVE  LoopInv'
  <1>1. /\ UNCHANGED <<sk, before, pc, cursor, local>>
        /\ UNCHANGED <<this, that, j, i1, i2, result>>
    BY DEF mergeVars, vars, operands
  <1>2. \A o : CalledOn(o)' <=> CalledOn(o)
    BY <1>1 DEF CalledOn
  <1>3. \A o : InFullChosen(o)' <=> InFullChosen(o)
    BY <1>1 DEF InFullChosen
  <1>4. \A o, n : /\ InFullLowest(o, n)' <=> InFullLowest(o, n)
                  /\ InFullTry(o, n)' <=> InFullTry(o, n)
    BY <1>1 DEF InFullLowest, InFullTry
  <1>5. \A o, n : /\ InIncreaseNext(o, n)' <=> InIncreaseNext(o, n)
                  /\ InIncreaseTry(o, n)' <=> InIncreaseTry(o, n)
    BY <1>1 DEF InIncreaseNext, InIncreaseTry
  <1>6. \A o, n : /\ InBottomLowest(o, n)' <=> InBottomLowest(o, n)
                  /\ InBottomCount(o, n)' <=> InBottomCount(o, n)
    BY <1>1 DEF InBottomLowest, InBottomCount
  <1>7. \A o, n : InRebase(o, n)' <=> InRebase(o, n)
    BY <1>1 DEF InRebase, InRebaseOf
  <1>8. \A o : Running(o)' <=> Running(o)
    BY <1>3, <1>4, <1>5, <1>6, <1>7 DEF Running
  <1>9. Merging' <=> Merging
    BY <1>1 DEF Merging, Copied
  <1> QED BY <1>1, <1>2, <1>8, <1>9 DEF LoopInv

\* The inductive invariant holds throughout.
THEOREM LoopsReached ==
  ASSUME InputsFit
  PROVE  MergeSpec => []LoopInv
  <1>1. MergeInit => LoopInv
    BY InitLoopInv
  <1>2. LoopInv /\ [MergeNext]_mergeVars => LoopInv'
    BY NextLoopInv, StutterLoopInv
  <1> QED BY <1>1, <1>2, PTL DEF MergeSpec

\* Which object the loop works on, when the loops of compress() run.
LEMMA CallRuns ==
  ASSUME LoopInv, pc \notin {"absent", "idle", "merge"}
  PROVE  \E o : RepOK(o) /\ CalledOn(o) /\ Running(o)
  BY DEF LoopInv, Merging

\* The comment at nBelowB, "this is a lower bound on ns", holds of every base
\* that the search of compressFull() has not tried yet, so that leaving the
\* search early misses no better one.
THEOREM EarlyExitSound ==
  ASSUME InputsFit
  PROVE  MergeSpec => []BelowBoundsNs
  <1>1. LoopInv => BelowBoundsNs
    <2> SUFFICES ASSUME LoopInv, pc = "fullTry", NEW b \in local.potentialBase + 1 .. rLimit
                 PROVE  local.nBelowB <= Cardinality(Sparse(sk, b))
      BY DEF BelowBoundsNs
    <2>1. PICK o : RepOK(o) /\ CalledOn(o) /\ Running(o)
      BY CallRuns
    <2>2. PICK n \in 0 .. m : InFullTry(o, n)
      BY <2>1 DEF Running, InFullLowest, InFullChosen, InIncreaseNext, InIncreaseTry,
         InBottomLowest, InBottomCount, InRebase, InRebaseOf
    <2>3. /\ sk = Bounded(o) /\ local.potentialBase \in Nat
          /\ local.nBelowB = Cardinality(Passed(o, local.potentialBase, n))
      BY <2>1, <2>2, SearchFields DEF InFullTry
    <2>4. Sparse(sk, b) = Sparse(o, b)
      BY <2>1, <2>3, BoundedIs, SameSparse
    <2>5. b \in Nat /\ local.potentialBase < b
      BY <2>3, SketchAssumption
    <2> QED BY <2>1, <2>3, <2>4, <2>5, PassedAreSparse
  <1> QED BY <1>1, LoopsReached, PTL

\* The value of a register half way through rebase().
LEMMA HalfwayNow ==
  ASSUME NEW u, RepOK(u), NEW b \in Value, NEW n \in 0 .. m, NEW i \in Registers,
         NEW t, t = Halfway(u, b, n)
  PROVE  (IF i \in DOMAIN t.S THEN t.S[i] ELSE t.M[i] + IF i < n THEN b ELSE t.B) = Get(u, i)
  <1>1. /\ u \in SketchType /\ DOMAIN u.S \in SUBSET Registers
        /\ Get(u, i) \in Value
    BY SketchFields DEF RepOK
  <1>2. /\ t.B = u.B
        /\ t.M[i] = IF i < n /\ InWindow(Get(u, i), b)
                    THEN (Get(u, i) - b) % (maxOffset + 1) ELSE u.M[i]
        /\ t.S = [k \in (DOMAIN u.S \ Before(DOMAIN u.S, n))
                           \cup Before(Sparse(u, b), n) |-> Get(u, k) % rLimit]
    BY <1>1 DEF Halfway, SketchType
  <1>3. i \in DOMAIN t.S <=>
          (i \in DOMAIN u.S /\ ~(i < n)) \/ (~InWindow(Get(u, i), b) /\ i < n)
    BY <1>2 DEF Before, Sparse
  <1>4. CASE i \in DOMAIN t.S
    <2>1. t.S[i] = Get(u, i) % rLimit
      BY <1>2, <1>4
    <2>2. Get(u, i) % rLimit = Get(u, i)
      BY <1>1, MaskFits, SketchAssumption DEF Value
    <2> QED BY <1>4, <2>1, <2>2
  <1>5. CASE i \notin DOMAIN t.S /\ i < n
    <2>1. InWindow(Get(u, i), b) /\ t.M[i] = (Get(u, i) - b) % (maxOffset + 1)
      BY <1>2, <1>3, <1>5
    <2>2. Get(u, i) - b \in 0 .. maxOffset /\ Get(u, i) \in Nat /\ b \in Nat
      BY <1>1, <2>1, SketchAssumption DEF InWindow, Value
    <2>3. (Get(u, i) - b) % (maxOffset + 1) = Get(u, i) - b
      BY <2>2, MaskFits, SketchAssumption
    <2> QED BY <1>5, <2>1, <2>2, <2>3
  <1>6. CASE i \notin DOMAIN t.S /\ ~(i < n)
    BY <1>2, <1>3, <1>6 DEF Get
  <1> QED BY <1>4, <1>5, <1>6

\* rebase() may be looked at after any register: those it has moved are read
\* with the new base, the others with the old one, and no value is lost.
THEOREM RebaseKeepsValues ==
  ASSUME InputsFit
  PROVE  MergeSpec => []RebaseHalfway
  <1>1. LoopInv => RebaseHalfway
    <2> DEFINE now(k) == IF k \in DOMAIN sk.S THEN sk.S[k]
                         ELSE sk.M[k] + IF k < cursor.j THEN local.newB ELSE sk.B
               changed == {k \in Registers : now(k) # Get(before, k)}
    <2> SUFFICES ASSUME LoopInv, pc = "rebase"
                 PROVE  /\ Cardinality(changed) <= 1
                        /\ \A k \in changed : now(k) > Get(before, k)
      BY DEF RebaseHalfway
    <2>1. PICK o : RepOK(o) /\ CalledOn(o) /\ Running(o)
      BY CallRuns
    <2>2. PICK n \in 0 .. m : InRebase(o, n)
      BY <2>1 DEF Running, InFullLowest, InFullTry, InFullChosen, InIncreaseNext,
         InIncreaseTry, InBottomLowest, InBottomCount
    <2>3. PICK u : InRebaseOf(o, u, n)
      BY <2>2 DEF InRebase
    <2>4. /\ RepOK(u) /\ SameRanks(o, u) /\ local.newB \in Value
          /\ sk = Halfway(u, local.newB, n) /\ cursor.j = n
      BY <2>3 DEF InRebaseOf
    <2>5. \A k \in Registers : now(k) = Get(o, k)
      BY <2>4, HalfwayNow DEF SameRanks
    <2> HIDE DEF now
    <2>6. CASE before = o
      <3>1. changed = {}
        BY <2>5, <2>6
      <3> QED BY <3>1, FS_EmptySet
    <2>7. ASSUME RepOK(before), NEW i \in Registers, NEW r \in Rank,
                 o = After(before, i, r)
          PROVE  /\ Cardinality(changed) <= 1
                 /\ \A k \in changed : now(k) > Get(before, k)
      <3>1. r \in Value /\ r \in Nat
        BY SketchAssumption DEF InputsFit, Value
      <3>2. CASE Get(before, i) < r
        <4>1. \A k \in Registers : Get(o, k) = IF k = i THEN r ELSE Get(before, k)
          BY <2>7, <3>1, <3>2, StoreSets DEF After
        <4>2. changed \in SUBSET {i}
          BY <2>5, <4>1
        <4>3. Cardinality(changed) <= Cardinality({i}) /\ Cardinality({i}) = 1
          <5> HIDE DEF changed
          <5> QED BY <4>2, FS_Singleton, FS_Subset
        <4>4. \A k \in changed : now(k) > Get(before, k)
          <5>1. Get(before, i) \in Nat
            BY <2>7, SearchFields
          <5> QED BY <2>5, <3>1, <3>2, <4>1, <4>2, <5>1
        <4> QED BY <4>3, <4>4
      <3>3. CASE ~(Get(before, i) < r)
        <4>1. changed = {}
          BY <2>5, <2>7, <3>3 DEF After
        <4> QED BY <4>1, FS_EmptySet
      <3> QED BY <3>2, <3>3
    <2> QED BY <2>1, <2>6, <2>7 DEF CalledOn
  <1> QED BY <1>1, LoopsReached, PTL

\* The loops of merge(), and of compress() after them, return the object that
\* Sketch says merge() returns.
THEOREM MergeComputed ==
  ASSUME InputsFit
  PROVE  MergeSpec => []MergesAsSketch
  <1>1. LoopInv => MergesAsSketch
    BY RunningIs DEF LoopInv, Merging, MergesAsSketch
  <1> QED BY <1>1, LoopsReached, PTL
-----------------------------------------------------------------------------
(***************************************************************************)
(* HyperLogLogLog, as the loops are to implement it, has its own copy of   *)
(* the operators of Sketch: they are the same.                             *)
(***************************************************************************)
LEMMA SameContainers ==
  /\ Atomic!Registers = Registers
  /\ \A T : Atomic!Min(T) = Min(T) /\ Atomic!Cardinality(T) = Cardinality(T)
  /\ \A M, i, e : Atomic!Put(M, i, e) = Put(M, i, e)
  /\ \A S, i, r : Atomic!AddSparse(S, i, r) = AddSparse(S, i, r)
  /\ \A S, i : Atomic!EraseSparse(S, i) = EraseSparse(S, i)
  /\ \A r, b : Atomic!InWindow(r, b) = InWindow(r, b)
  /\ \A t, i : Atomic!Get(t, i) = Get(t, i)
  <1>1. Atomic!Registers = Registers
    BY DEF Atomic!Registers, Registers
  <1>2. \A T : Atomic!Min(T) = Min(T) /\ Atomic!Cardinality(T) = Cardinality(T)
    BY DEF Atomic!Min, Min, Atomic!Cardinality, Cardinality
  <1>3. \A M, i, e : Atomic!Put(M, i, e) = Put(M, i, e)
    BY DEF Atomic!Put, Put
  <1>4. \A S, i, r : Atomic!AddSparse(S, i, r) = AddSparse(S, i, r)
    BY DEF Atomic!AddSparse, AddSparse
  <1>5. \A S, i : Atomic!EraseSparse(S, i) = EraseSparse(S, i)
    BY DEF Atomic!EraseSparse, EraseSparse
  <1>6. \A r, b : Atomic!InWindow(r, b) = InWindow(r, b)
    BY DEF Atomic!InWindow, InWindow
  <1>7. \A t, i : Atomic!Get(t, i) = Get(t, i)
    BY DEF Atomic!Get, Get
  <1> QED BY <1>1, <1>2, <1>3, <1>4, <1>5, <1>6, <1>7

LEMMA SameSearch ==
  /\ \A t, b : Atomic!Sparse(t, b) = Sparse(t, b)
  /\ \A t, b : Atomic!Rebase(t, b) = Rebase(t, b)
  /\ \A t : Atomic!Lowest(t) = Lowest(t)
  /\ \A t : Atomic!NextValue(t) = NextValue(t)
  /\ \A t : Atomic!BestBase(t) = BestBase(t)
  <1>1. \A t, b : Atomic!Sparse(t, b) = Sparse(t, b)
    BY SameContainers DEF Atomic!Sparse, Sparse
  <1>2. \A t, b : Atomic!Rebase(t, b) = Rebase(t, b)
    BY SameContainers, <1>1 DEF Atomic!Rebase, Rebase
  <1>3. \A t : Atomic!Lowest(t) = Lowest(t)
    BY SameContainers DEF Atomic!Lowest, Lowest
  <1>4. \A t : Atomic!NextValue(t) = NextValue(t)
    BY SameContainers DEF Atomic!NextValue, NextValue
  <1>5. \A t : Atomic!Candidates(t) = Candidates(t)
    BY SameContainers, <1>1 DEF Atomic!Candidates, Candidates
  <1>6. \A t : Atomic!FewestSparse(t) = FewestSparse(t)
    BY SameContainers, <1>1, <1>5 DEF Atomic!FewestSparse, FewestSparse
  <1>7. \A t : Atomic!BestBase(t) = BestBase(t)
    BY SameContainers, <1>1, <1>5, <1>6 DEF Atomic!BestBase, BestBase
  <1> QED BY <1>1, <1>2, <1>3, <1>4, <1>7

LEMMA SameCompress ==
  \A t : Atomic!Compress(t) = Compress(t)
  <1>1. \A t : Atomic!CompressFull(t) = CompressFull(t)
    BY SameSearch DEF Atomic!CompressFull, CompressFull
  <1>2. \A t : Atomic!CompressIncrease(t) = CompressIncrease(t)
    BY SameSearch, SameContainers DEF Atomic!CompressIncrease, CompressIncrease
  <1>3. \A t : Atomic!CompressBottom(t) = CompressBottom(t)
    BY SameSearch, SameContainers DEF Atomic!CompressBottom, CompressBottom
  <1> QED BY <1>1, <1>2, <1>3 DEF Atomic!Compress, Compress

LEMMA SameCalls ==
  /\ \A t, i, r : Atomic!AddJr(t, i, r) = AddJr(t, i, r)
  /\ \A flags : Atomic!NewSketch(flags) = NewSketch(flags)
  /\ \A flags : Atomic!Normalised(flags) = Normalised(flags)
  /\ \A flags : Atomic!ValidFlags(flags) <=> ValidFlags(flags)
  <1>1. \A t, i, r : Atomic!Store(t, i, r) = Store(t, i, r)
    <2> TAKE t, i, r
    <2>2. PICK u : u = IF InWindow(r, t.B)
                       THEN [t EXCEPT !.S = EraseSparse(@, i), !.M = Put(@, i, r - t.B)]
                       ELSE [t EXCEPT !.S = AddSparse(@, i, r)]
      OBVIOUS
    <2>3. u = IF Atomic!InWindow(r, t.B)
              THEN [t EXCEPT !.S = Atomic!EraseSparse(@, i), !.M = Atomic!Put(@, i, r - t.B)]
              ELSE [t EXCEPT !.S = Atomic!AddSparse(@, i, r)]
      BY <2>2, SameContainers
    <2>4. Store(t, i, r) = [u EXCEPT !.minValueCount = IF Get(t, i) = t.lowerBound THEN @ - 1 ELSE @]
      BY <2>2 DEF Store
    <2>5. Atomic!Store(t, i, r) =
            [u EXCEPT !.minValueCount = IF Atomic!Get(t, i) = t.lowerBound THEN @ - 1 ELSE @]
      BY <2>3 DEF Atomic!Store
    <2> QED BY <2>4, <2>5, SameContainers
  <1>2. \A t, u, i, r : Atomic!MustCompress(t, u, i, r) = MustCompress(t, u, i, r)
    BY SameContainers DEF Atomic!MustCompress, MustCompress
  <1>3. \A t, i, r : Atomic!AddJr(t, i, r) = AddJr(t, i, r)
    BY SameContainers, SameCompress, <1>1, <1>2 DEF Atomic!AddJr, AddJr
  <1>4. \A flags : Atomic!NewSketch(flags) = NewSketch(flags)
    BY SameContainers DEF Atomic!NewSketch, NewSketch
  <1>5. \A flags : Atomic!Normalised(flags) = Normalised(flags)
    BY DEF Atomic!Normalised, Normalised, Atomic!WithType, WithType, Atomic!WithWhen, WithWhen
  <1>6. \A flags : Atomic!ValidFlags(flags) <=> ValidFlags(flags)
    BY DEF Atomic!ValidFlags, ValidFlags
  <1> QED BY <1>3, <1>4, <1>5, <1>6

\* The object that the program sees: while a call runs, that before the call.
CallsShown ==
  [s \in IF pc = "absent" \/ result # <<>> THEN {} ELSE {"a"} |->
     IF pc = "idle" THEN sk ELSE before]

LEMMA InitAtomic ==
  ASSUME MergeInit
  PROVE  Atomic!Init
  <1>1. pc = "absent" \/ result = <<Merge(this, that)>>
    BY DEF MergeInit, ObjectInit
  <1>2. pc = "absent" \/ result # <<>>
    BY <1>1
  <1> QED BY <1>2 DEF Atomic!Init

LEMMA AddIsAtomic ==
  ASSUME NEW t, NEW i \in Registers, NEW r \in Rank,
         CallsShown = [s \in {"a"} |-> t], CallsShown' = [s \in {"a"} |-> AddJr(t, i, r)]
  PROVE  Atomic!Next
  <1>1. Atomic!Add("a", i, r)
    <2>1. DOMAIN CallsShown = {"a"} /\ CallsShown["a"] = t
      OBVIOUS
    <2>2. CallsShown' = [s \in DOMAIN CallsShown \cup {"a"} |->
                      IF s = "a" THEN Atomic!AddJr(CallsShown["a"], i, r) ELSE CallsShown[s]]
      BY <2>1, SameCalls
    <2> QED BY <2>1, <2>2 DEF Atomic!Add, Atomic!Assign, Atomic!Held, CallsShown
  <1> QED BY <1>1, SameContainers DEF Atomic!Next

LEMMA NextAtomic ==
  ASSUME InputsFit, LoopInv, MergeNext
  PROVE  Atomic!Next \/ UNCHANGED CallsShown
  <1>1. Effect
    BY NextLoopInv
  <1>2. CASE result # <<>> /\ result' # <<>>
    BY <1>2 DEF CallsShown
  <1>3. CASE /\ result = <<>> /\ result' = <<>> /\ pc = "absent" /\ pc' = "idle"
             /\ \E flags \in Flags : /\ ValidFlags(Normalised(flags))
                                     /\ sk' = NewSketch(Normalised(flags))
    <2>1. PICK flags \in Flags : /\ ValidFlags(Normalised(flags))
                                 /\ sk' = NewSketch(Normalised(flags))
      BY <1>3
    <2>2. DOMAIN CallsShown = {} /\ CallsShown' = [s \in {"a"} |-> NewSketch(Normalised(flags))]
      BY <1>3, <2>1 DEF CallsShown
    <2>3. CallsShown' = [s \in DOMAIN CallsShown \cup {"a"} |->
                      IF s = "a" THEN Atomic!NewSketch(Atomic!Normalised(flags)) ELSE CallsShown[s]]
      BY <2>2, SameCalls
    <2>4. Atomic!Construct("a", flags)
      BY <2>1, <2>3, SameCalls DEF Atomic!Construct, Atomic!Assign, Atomic!Held, CallsShown
    <2> QED BY <2>4 DEF Atomic!Next
  <1>4. CASE /\ result = <<>> /\ result' = <<>>
             /\ pc = "idle" /\ pc' \notin {"absent", "idle"} /\ before' = sk
    BY <1>4 DEF CallsShown
  <1>5. CASE /\ result = <<>> /\ result' = <<>> /\ pc = "idle" /\ pc' = "idle"
             /\ \E i \in Registers, r \in Rank : sk' = AddJr(sk, i, r)
    <2>1. PICK i \in Registers, r \in Rank : sk' = AddJr(sk, i, r)
      BY <1>5
    <2>2. PICK t : t = sk
      OBVIOUS
    <2>3. CallsShown = [s \in {"a"} |-> t] /\ CallsShown' = [s \in {"a"} |-> AddJr(t, i, r)]
      BY <1>5, <2>1, <2>2 DEF CallsShown
    <2> QED BY <2>3, AddIsAtomic
  <1>6. CASE /\ result = <<>> /\ result' = <<>>
             /\ pc \notin {"absent", "idle"} /\ pc' \notin {"absent", "idle"} /\ before' = before
    BY <1>6 DEF CallsShown
  <1>7. CASE /\ result = <<>> /\ result' = <<>> /\ pc \notin {"absent", "idle"} /\ pc' = "idle"
             /\ \E i \in Registers, r \in Rank : sk' = AddJr(before, i, r)
    <2>1. PICK i \in Registers, r \in Rank : sk' = AddJr(before, i, r)
      BY <1>7
    <2>2. PICK t : t = before
      OBVIOUS
    <2>3. CallsShown = [s \in {"a"} |-> t] /\ CallsShown' = [s \in {"a"} |-> AddJr(t, i, r)]
      BY <1>7, <2>1, <2>2 DEF CallsShown
    <2> QED BY <2>3, AddIsAtomic
  <1> QED BY <1>1, <1>2, <1>3, <1>4, <1>5, <1>6, <1>7 DEF Effect

\* Every call of addJr, with the search for a base, its early exit and the
\* rebase that moves the registers one at a time, has the effect that Sketch
\* gives it in one step, for any number of registers and any widths.
THEOREM LoopsRefine ==
  ASSUME InputsFit
  PROVE  MergeSpec => ImplementsSketch
  <1>1. MergeInit => Atomic!Init
    BY InitAtomic
  <1>2. LoopInv /\ [MergeNext]_mergeVars => Atomic!Next \/ UNCHANGED CallsShown
    <2>1. CASE MergeNext
      BY <2>1, NextAtomic
    <2>2. CASE UNCHANGED mergeVars
      BY <2>2 DEF mergeVars, vars, operands, CallsShown
    <2> QED BY <2>1, <2>2
  <1>3. LoopInv /\ [MergeNext]_mergeVars => [Atomic!Next]_CallsShown
    BY <1>2
  <1> QED BY <1>1, <1>3, LoopsReached, PTL DEF MergeSpec, ImplementsSketch, Atomic!Spec, CallsShown

-----------------------------------------------------------------------------
(***************************************************************************)
(* HyperLogLogLog.                                                         *)
(***************************************************************************)
\* The inductive invariant: every object held is well represented.
Inv ==
  /\ Held \subseteq Sketches
  /\ sketch = [s \in Held |-> sketch[s]]
  /\ \A s \in Held : RepOK(sketch[s])

\* The conjuncts of Inv are the properties the runs check.
LEMMA InvImplies ==
  ASSUME Inv
  PROVE  TypeOK /\ SparseIffOutsideWindow /\ LowerBoundSound
  <1>1. \A s \in Held : /\ sketch[s] \in SketchType
                        /\ ValidFlags(sketch[s].flags)
                        /\ Ranks(sketch[s]) \in [Registers -> Value]
    BY DEF Inv, RepOK, Ranks
  <1>2. sketch \in [Held -> SketchType]
    BY <1>1 DEF Inv
  <1>3. TypeOK
    BY <1>1, <1>2 DEF Inv, TypeOK
  <1>4. SparseIffOutsideWindow /\ LowerBoundSound
    BY DEF Inv, RepOK, SparseIffOutsideWindow, LowerBoundSound
  <1> QED BY <1>3, <1>4

LEMMA AssignKeepsInv ==
  ASSUME Inv, NEW s \in Sketches, NEW object, RepOK(object), Assign(s, object)
  PROVE  Inv'
  <1>1. /\ Held' = Held \cup {s}
        /\ \A t \in Held \cup {s} : sketch'[t] = IF t = s THEN object ELSE sketch[t]
    BY DEF Assign, Held
  <1>2. sketch' = [t \in Held' |-> sketch'[t]]
    BY DEF Assign, Held
  <1>3. \A t \in Held' : RepOK(sketch'[t])
    BY <1>1 DEF Inv
  <1>4. Held' \subseteq Sketches
    BY <1>1 DEF Inv
  <1> QED BY <1>2, <1>3, <1>4 DEF Inv

LEMMA NewObject ==
  ASSUME NEW flags \in Flags, ValidFlags(Normalised(flags))
  PROVE  /\ RepOK(NewSketch(Normalised(flags)))
         /\ \A n \in Registers : Get(NewSketch(Normalised(flags)), n) = 0
  <1>1. Normalised(flags) \in SUBSET Flag
    BY ProgramAssumption DEF Normalised, WithType, WithWhen, Flag
  <1> QED BY <1>1, NewSketchIs

LEMMA InitInv == Init => Inv
  BY DEF Init, Inv, Held

LEMMA NextInv ==
  ASSUME Rank \subseteq Value, Inv, [Next]_sketch
  PROVE  Inv'
  <1>1. ASSUME NEW s \in Sketches, NEW flags \in Flags, Construct(s, flags)
        PROVE  Inv'
    BY <1>1, NewObject, AssignKeepsInv DEF Construct
  <1>2. ASSUME NEW s \in Sketches, NEW n \in Registers, NEW r \in Rank, Add(s, n, r)
        PROVE  Inv'
    <2>1. RepOK(sketch[s]) /\ r \in Value
      BY <1>2 DEF Add, Inv
    <2>2. RepOK(AddJr(sketch[s], n, r))
      BY <2>1, AddJrSets
    <2> QED BY <1>2, <2>2, AssignKeepsInv DEF Add
  <1>3. ASSUME NEW s \in Sketches, NEW t \in Sketches, NEW u \in Sketches,
               MergeInto(s, t, u)
        PROVE  Inv'
    <2>1. RepOK(sketch[t]) /\ RepOK(sketch[u])
      BY <1>3 DEF MergeInto, Inv
    <2>2. RepOK(Merge(sketch[t], sketch[u]))
      BY <2>1, MergeIs
    <2> QED BY <1>3, <2>2, AssignKeepsInv DEF MergeInto
  <1>4. CASE UNCHANGED sketch
    BY <1>4 DEF Inv, Held
  <1> QED BY <1>1, <1>2, <1>3, <1>4 DEF Next

\* No history of additions, merges and rebases (up or down) leaves a value in
\* the wrong container, a lower bound above a register, or a field outside
\* its width: what find(), the early return of addJr and the masks rely on.
THEOREM Representation ==
  ASSUME Rank \subseteq Value
  PROVE  Spec => [](TypeOK /\ SparseIffOutsideWindow /\ LowerBoundSound)
  <1>1. Init => Inv
    BY InitInv
  <1>2. Inv /\ [Next]_sketch => Inv'
    BY NextInv
  <1>3. Inv => TypeOK /\ SparseIffOutsideWindow /\ LowerBoundSound
    BY InvImplies
  <1> QED BY <1>1, <1>2, <1>3, PTL DEF Spec

\* Alone, the type correctness of the objects.
THEOREM TypeCorrect ==
  ASSUME Rank \subseteq Value
  PROVE  Spec => []TypeOK
  <1>1. Spec => [](TypeOK /\ SparseIffOutsideWindow /\ LowerBoundSound)
    BY Representation
  <1> QED BY <1>1, PTL

-----------------------------------------------------------------------------
LEMMA AssignShown ==
  ASSUME NEW s, NEW object, NEW f, Assign(s, object), Ranks(object) = f
  PROVE  Oracle!Assign(s, f)
  <1>1. /\ Held' = Held \cup {s}
        /\ \A t \in Held \cup {s} : sketch'[t] = IF t = s THEN object ELSE sketch[t]
    BY DEF Assign, Held
  <1>2. Shown' = [t \in Held \cup {s} |-> IF t = s THEN f ELSE Ranks(sketch[t])]
    BY <1>1 DEF Shown
  <1> QED BY <1>2 DEF Oracle!Assign, Oracle!Held, Shown

LEMMA InitShown == Init => Oracle!Init
  BY DEF Init, Shown, Held, Oracle!Init

LEMMA NextShown ==
  ASSUME Rank \subseteq Value, Inv, [Next]_sketch
  PROVE  [Oracle!Next]_Shown
  <1>1. ASSUME NEW s \in Sketches, NEW flags \in Flags, Construct(s, flags)
        PROVE  Oracle!Construct(s)
    <2>1. Ranks(NewSketch(Normalised(flags))) = [n \in Registers |-> 0]
      BY <1>1, NewObject DEF Construct, Ranks
    <2> QED BY <1>1, <2>1, AssignShown DEF Construct, Oracle!Construct
  <1>2. ASSUME NEW s \in Sketches, NEW n \in Registers, NEW r \in Rank, Add(s, n, r)
        PROVE  Oracle!Add(s, n, r)
    <2>1. s \in Held /\ RepOK(sketch[s]) /\ r \in Value
      BY <1>2 DEF Add, Inv
    <2>2. Ranks(AddJr(sketch[s], n, r)) =
            [i \in Registers |-> IF i = n THEN Larger(Get(sketch[s], n), r)
                                 ELSE Get(sketch[s], i)]
      BY <2>1, AddJrSets DEF Ranks
    <2>3. Shown[s] = Ranks(sketch[s]) /\ s \in DOMAIN Shown
      BY <2>1 DEF Shown
    <2>4. Ranks(AddJr(sketch[s], n, r)) =
            [i \in Registers |-> IF i = n THEN Oracle!Maximum(Shown[s][i], r)
                                 ELSE Shown[s][i]]
      BY <2>2, <2>3 DEF Ranks, Larger, Oracle!Maximum
    <2>5. Assign(s, AddJr(sketch[s], n, r))
      BY <1>2 DEF Add
    <2> QED BY <2>3, <2>4, <2>5, AssignShown DEF Oracle!Add, Oracle!Held
  <1>3. ASSUME NEW s \in Sketches, NEW t \in Sketches, NEW u \in Sketches,
               MergeInto(s, t, u)
        PROVE  Oracle!MergeInto(s, t, u)
    <2>1. /\ t \in Held /\ u \in Held
          /\ RepOK(sketch[t]) /\ RepOK(sketch[u])
      BY <1>3 DEF MergeInto, Inv
    <2>2. Ranks(Merge(sketch[t], sketch[u])) =
            [n \in Registers |-> Larger(Get(sketch[t], n), Get(sketch[u], n))]
      BY <2>1, MergeIs DEF Ranks
    <2>3. /\ Shown[t] = Ranks(sketch[t]) /\ t \in DOMAIN Shown
          /\ Shown[u] = Ranks(sketch[u]) /\ u \in DOMAIN Shown
      BY <2>1 DEF Shown
    <2>4. Ranks(Merge(sketch[t], sketch[u])) =
            [n \in Registers |-> Oracle!Maximum(Shown[t][n], Shown[u][n])]
      BY <2>2, <2>3 DEF Ranks, Larger, Oracle!Maximum
    <2>5. Assign(s, Merge(sketch[t], sketch[u]))
      BY <1>3 DEF MergeInto
    <2> QED BY <2>3, <2>4, <2>5, AssignShown DEF Oracle!MergeInto, Oracle!Held
  <1>4. CASE UNCHANGED sketch
    BY <1>4 DEF Shown, Held
  <1> QED BY <1>1, <1>2, <1>3, <1>4 DEF Next, Oracle!Next

\* Every sketch, in every mode and however it was merged, presents exactly
\* the registers a plain HyperLogLog fed with the same elements has.
THEOREM Refinement ==
  ASSUME Rank \subseteq Value
  PROVE  Spec => ImplementsMaxRegisters
  <1>1. Init => Inv /\ Oracle!Init
    BY InitInv, InitShown
  <1>2. Inv /\ [Next]_sketch => Inv'
    BY NextInv
  <1>3. Inv /\ [Next]_sketch => [Oracle!Next]_Shown
    BY NextShown
  <1> QED BY <1>1, <1>2, <1>3, PTL DEF Spec, ImplementsMaxRegisters, Oracle!Spec

-----------------------------------------------------------------------------
\* The inductive invariant of the modes: between two calls every object keeps
\* what its flags promise.
ModeInv == \A s \in Held : ModeOK(sketch[s])

LEMMA AssignKeepsModes ==
  ASSUME ModeInv, NEW s, NEW object, ModeOK(object), Assign(s, object)
  PROVE  ModeInv'
  BY DEF Assign, Held, ModeInv

LEMMA NextModeInv ==
  ASSUME Rank \subseteq Value, Inv, ModeInv, [Next]_sketch
  PROVE  ModeInv'
  <1>1. ASSUME NEW s \in Sketches, NEW flags \in Flags, Construct(s, flags)
        PROVE  ModeInv'
    <2>1. Normalised(flags) \in SUBSET Flag /\ ValidFlags(Normalised(flags))
      BY <1>1, ProgramAssumption DEF Construct, Normalised, WithType, WithWhen, Flag
    <2>2. ModeOK(NewSketch(Normalised(flags)))
      BY <2>1, NewSketchMode
    <2> QED BY <1>1, <2>2, AssignKeepsModes DEF Construct
  <1>2. ASSUME NEW s \in Sketches, NEW n \in Registers, NEW r \in Rank, Add(s, n, r)
        PROVE  ModeInv'
    <2>1. RepOK(sketch[s]) /\ ModeOK(sketch[s]) /\ r \in Value
      BY <1>2 DEF Add, Inv, ModeInv
    <2>2. ModeOK(AddJr(sketch[s], n, r))
      BY <2>1, AddJrMode
    <2> QED BY <1>2, <2>2, AssignKeepsModes DEF Add
  <1>3. ASSUME NEW s \in Sketches, NEW t \in Sketches, NEW u \in Sketches,
               MergeInto(s, t, u)
        PROVE  ModeInv'
    <2>1. /\ RepOK(sketch[t]) /\ RepOK(sketch[u])
          /\ ModeOK(sketch[t]) /\ ModeOK(sketch[u])
          /\ sketch[t].flags = sketch[u].flags
      BY <1>3 DEF MergeInto, Inv, ModeInv
    <2>2. ModeOK(Merge(sketch[t], sketch[u]))
      BY <2>1, MergeMode
    <2> QED BY <1>3, <2>2, AssignKeepsModes DEF MergeInto
  <1>4. CASE UNCHANGED sketch
    BY <1>4 DEF ModeInv, Held
  <1> QED BY <1>1, <1>2, <1>3, <1>4 DEF Next

LEMMA ModesReached ==
  ASSUME Rank \subseteq Value
  PROVE  Spec => [](Inv /\ ModeInv)
  <1>1. Init => Inv /\ ModeInv
    <2>1. Init => ModeInv
      BY DEF Init, Held, ModeInv
    <2> QED BY <2>1, InitInv
  <1>2. Inv /\ ModeInv /\ [Next]_sketch => (Inv /\ ModeInv)'
    BY NextInv, NextModeInv
  <1> QED BY <1>1, <1>2, PTL DEF Spec

\* The bound on which addJr returns at once never passes a register, in any
\* mode and after any merge, though only compress() computes it.
THEOREM EarlyReturnSound ==
  ASSUME Rank \subseteq Value
  PROVE  Spec => []LowerBoundSound
  <1>1. Spec => [](TypeOK /\ SparseIffOutsideWindow /\ LowerBoundSound)
    BY Representation
  <1> QED BY <1>1, PTL

\* The base of a BOTTOM sketch is its lowest value, and the count of the
\* registers that have it, kept by decrements between compressions, is exact
\* and never zero.
THEOREM BaseIsBottom ==
  ASSUME Rank \subseteq Value
  PROVE  Spec => []BottomInvariant
  <1>1. Inv /\ ModeInv => BottomInvariant
    <2> SUFFICES ASSUME Inv, ModeInv, NEW s \in Held, sketch[s].flags = {"BOTTOM"}
                 PROVE  LET low == {n \in Registers : Get(sketch[s], n) = sketch[s].B}
                        IN  /\ sketch[s].B = sketch[s].lowerBound
                            /\ \A n \in Registers : sketch[s].B <= Get(sketch[s], n)
                            /\ sketch[s].minValueCount = Cardinality(low)
                            /\ low # {}
      BY DEF BottomInvariant
    <2>1. BottomKept(sketch[s]) /\ RepOK(sketch[s])
      BY DEF ModeInv, ModeOK, Inv
    <2> QED BY <2>1 DEF BottomKept, AtBase, RepOK
  <1> QED BY <1>1, ModesReached, PTL

\* A BOTTOM sketch never compresses in vain: each compression but the one that
\* ends a merge raises the base, so there are never more than B rebases.
THEOREM CompressionsPaid ==
  ASSUME Rank \subseteq Value
  PROVE  Spec => []BottomAmortised
  <1>1. ModeInv => BottomAmortised
    BY DEF ModeInv, ModeOK, BottomKept, BottomAmortised
  <1> QED BY <1>1, ModesReached, PTL

\* Full compression after every update keeps S as small as any base allows,
\* although the search tries only the values present and keeps the old base
\* on a tie.
THEOREM FullCompression ==
  ASSUME Rank \subseteq Value
  PROVE  Spec => []FullIsOptimal
  <1>1. ModeInv => FullIsOptimal
    BY DEF ModeInv, ModeOK, Optimal, FullIsOptimal
  <1> QED BY <1>1, ModesReached, PTL

\* No addJr moves the base to make S larger (outside BOTTOM), and only a FULL
\* sketch ever lowers it.
THEOREM RebasesPay ==
  ASSUME Rank \subseteq Value
  PROVE  Spec => RebaseForTheBetter
  <1> DEFINE Better == \A s \in Held :
        IsAdd(s) /\ sketch'[s].B # sketch[s].B =>
          /\ sketch[s].flags # {"BOTTOM"} =>
               Cardinality(DOMAIN sketch'[s].S) <= Cardinality(DOMAIN sketch[s].S)
          /\ "TYPE_FULL" \notin sketch[s].flags => sketch[s].B < sketch'[s].B
  <1>1. Inv /\ ModeInv /\ [Next]_sketch => [Better]_sketch
    <2> SUFFICES ASSUME Inv, ModeInv, NEW s \in Held, IsAdd(s),
                        sketch'[s].B # sketch[s].B
                 PROVE  /\ sketch[s].flags # {"BOTTOM"} =>
                             Cardinality(DOMAIN sketch'[s].S)
                               <= Cardinality(DOMAIN sketch[s].S)
                        /\ "TYPE_FULL" \notin sketch[s].flags =>
                             sketch[s].B < sketch'[s].B
      OBVIOUS
    <2>1. PICK n \in Registers, r \in Rank : Add(s, n, r)
      BY DEF IsAdd
    <2>2. sketch'[s] = AddJr(sketch[s], n, r)
      BY <2>1 DEF Add, Assign
    <2>3. RepOK(sketch[s]) /\ ModeOK(sketch[s]) /\ r \in Value
      BY DEF Inv, ModeInv
    <2> QED BY <2>2, <2>3, AddJrRebases
  <1> QED BY <1>1, ModesReached, PTL DEF Spec, RebaseForTheBetter

-----------------------------------------------------------------------------
(***************************************************************************)
(* A HyperLogLog.                                                          *)
(***************************************************************************)
PlainOK(M) == M \in [Registers -> Value]

LEMMA ValueMasked ==
  ASSUME NEW v \in Value
  PROVE  v % rLimit = v /\ v \in Nat
  BY MaskFits, SketchAssumption DEF Value

LEMMA NewPlainIs == PlainOK(NewPlain) /\ NewPlain = [n \in Registers |-> 0]
  BY SketchAssumption DEF NewPlain, PlainOK, Registers, Value

LEMMA AddPlainIs ==
  ASSUME NEW M, PlainOK(M), NEW n \in Registers, NEW r \in Value
  PROVE  /\ PlainOK(AddPlain(M, n, r))
         /\ AddPlain(M, n, r) = [i \in Registers |-> IF i = n THEN Larger(M[i], r) ELSE M[i]]
  <1>1. r % rLimit = r /\ r \in Nat /\ \A i \in Registers : M[i] \in Nat /\ M[i] \in Value
    BY ValueMasked DEF PlainOK
  <1>2. AddPlain(M, n, r) = [i \in Registers |-> IF i = n THEN Larger(M[i], r) ELSE M[i]]
    BY <1>1 DEF AddPlain, PlainOK, Larger
  <1>3. \A i \in Registers : (IF i = n THEN Larger(M[i], r) ELSE M[i]) \in Value
    BY <1>1 DEF Larger
  <1> QED BY <1>2, <1>3 DEF PlainOK

LEMMA MergePlainIs ==
  ASSUME NEW M, PlainOK(M), NEW other, PlainOK(other)
  PROVE  /\ PlainOK(MergePlain(M, other))
         /\ MergePlain(M, other) = [n \in Registers |-> Larger(M[n], other[n])]
  <1>1. \A n \in Registers : Larger(M[n], other[n]) \in Value
    BY DEF PlainOK, Larger
  <1>2. \A n \in Registers : Larger(M[n], other[n]) % rLimit = Larger(M[n], other[n])
    BY <1>1, ValueMasked
  <1>3. MergePlain(M, other) = [n \in Registers |-> Larger(M[n], other[n])]
    BY <1>2 DEF MergePlain, Larger, Registers
  <1> QED BY <1>1, <1>3 DEF PlainOK

-----------------------------------------------------------------------------
(***************************************************************************)
(* A HyperLogLogZstd: the block, the buffer that agrees with it, and the   *)
(* smallest register.                                                      *)
(***************************************************************************)
Smallest(registers) == Min({registers[n] : n \in Registers})

Block(registers) ==
  [Mcompressed |-> registers, Mtemp |-> registers, lowerBound |-> Smallest(registers)]

ZstdOK(z) == \E registers \in [Registers -> Value] : z = Block(registers)

LEMMA SmallestIs ==
  ASSUME NEW registers \in [Registers -> Value]
  PROVE  /\ Smallest(registers) \in {registers[n] : n \in Registers}
         /\ \A n \in Registers : Smallest(registers) <= registers[n]
         /\ Min({registers[n] : n \in Registers} \cup {rLimit}) = Smallest(registers)
  <1> DEFINE R == {registers[n] : n \in Registers}
  <1>1. R \in SUBSET Nat /\ R # {} /\ \A x \in R : x \in Nat /\ x < rLimit
    <2>1. 0 \in Registers
      BY SketchAssumption DEF Registers
    <2> QED BY <2>1, SketchAssumption DEF Value
  <1>2. Min(R) \in R /\ \A x \in R : Min(R) <= x
    <2> HIDE DEF R
    <2> QED BY <1>1, MinExists
  <1>3. Min(R \cup {rLimit}) = Min(R)
    <2>1. R \cup {rLimit} \in SUBSET Nat /\ R \cup {rLimit} # {}
      BY <1>1, SketchAssumption
    <2>2. /\ Min(R \cup {rLimit}) \in R \cup {rLimit}
          /\ \A x \in R \cup {rLimit} : Min(R \cup {rLimit}) <= x
      <3> HIDE DEF R
      <3> QED BY <2>1, MinExists
    <2> HIDE DEF R
    <2>3. PICK a, b : a = Min(R) /\ b = Min(R \cup {rLimit})
      OBVIOUS
    <2>4. a \in R /\ a \in Nat /\ a < rLimit /\ b <= a
      BY <1>1, <1>2, <2>2, <2>3
    <2>5. b # rLimit
      BY <2>4, SketchAssumption
    <2>6. b \in R /\ b \in Nat /\ a <= b
      BY <1>1, <1>2, <2>2, <2>3, <2>5
    <2> QED BY <2>3, <2>4, <2>6
  <1> QED BY <1>2, <1>3 DEF Smallest

\* What compress() makes of a buffer.
LEMMA CompressZstdIs ==
  ASSUME NEW registers \in [Registers -> Value], NEW c, NEW l
  PROVE  CompressZstd([Mcompressed |-> c, Mtemp |-> registers, lowerBound |-> l])
           = Block(registers)
  <1>1. PICK z : z = [Mcompressed |-> c, Mtemp |-> registers, lowerBound |-> l]
    OBVIOUS
  <1>2. PICK k : k = Min({registers[n] : n \in 0 .. m - 1} \cup {rLimit})
    OBVIOUS
  <1>3. k = Smallest(registers)
    BY <1>2, SmallestIs DEF Registers
  <1>4. CompressZstd(z) = [z EXCEPT !.Mcompressed = registers, !.lowerBound = k]
    <2>1. z.Mtemp = registers
      BY <1>1
    <2> QED BY <1>2, <2>1 DEF CompressZstd
  <1>5. [z EXCEPT !.Mcompressed = registers, !.lowerBound = k]
          = [Mcompressed |-> registers, Mtemp |-> registers, lowerBound |-> k]
    <2>1. PICK y : y = [z EXCEPT !.Mcompressed = registers, !.lowerBound = k]
      OBVIOUS
    <2>2. y.Mcompressed = registers /\ y.Mtemp = registers /\ y.lowerBound = k
      BY <1>1, <2>1
    <2>3. y = [Mcompressed |-> y.Mcompressed, Mtemp |-> y.Mtemp, lowerBound |-> y.lowerBound]
      BY <1>1, <2>1
    <2> QED BY <2>1, <2>2, <2>3
  <1> QED BY <1>1, <1>3, <1>4, <1>5 DEF Block

LEMMA NewZstdIs == NewZstd = Block([n \in Registers |-> 0]) /\ ZstdOK(NewZstd)
  <1>1. Zeros = [n \in Registers |-> 0] /\ Zeros \in [Registers -> Value]
    BY SketchAssumption DEF Zeros, Registers, Value
  <1>2. NewZstd = Block(Zeros)
    BY <1>1, CompressZstdIs DEF NewZstd
  <1> QED BY <1>1, <1>2 DEF ZstdOK

LEMMA DecompressIs ==
  ASSUME NEW registers, NEW z, z = Block(registers)
  PROVE  Decompress(z) = z /\ Decompress(z).Mtemp = registers
  BY DEF Decompress, Block

LEMMA AddZstdIs ==
  ASSUME NEW registers \in [Registers -> Value], NEW n \in Registers, NEW r \in Value
  PROVE  AddZstd(Block(registers), n, r)
           = Block([i \in Registers |-> IF i = n THEN Larger(registers[i], r) ELSE registers[i]])
  <1> DEFINE z     == Block(registers)
             after == [i \in Registers |-> IF i = n THEN Larger(registers[i], r)
                                                    ELSE registers[i]]
  <1>1. /\ r \in Nat /\ registers[n] \in Nat
        /\ Smallest(registers) \in Nat /\ Smallest(registers) <= registers[n]
    BY SmallestIs, ValueMasked
  <1>2. z.lowerBound = Smallest(registers) /\ Decompress(z) = z /\ z.Mtemp = registers
    BY DecompressIs DEF Block
  <1>3. CASE r <= registers[n]
    <2>1. after = registers
      BY <1>1, <1>3 DEF Larger
    <2>2. AddZstd(z, n, r) = z
      <3> HIDE DEF z
      <3> QED BY <1>1, <1>2, <1>3 DEF AddZstd
    <2> QED BY <2>1, <2>2
  <1>4. CASE registers[n] < r
    <2>1. after = [registers EXCEPT ![n] = r] /\ after \in [Registers -> Value]
      BY <1>1, <1>4 DEF Larger
    <2>2. AddZstd(z, n, r) = CompressZstd([z EXCEPT !.Mtemp[n] = r])
      <3>1. ~(r < z.lowerBound) /\ r > Decompress(z).Mtemp[n]
        <4> HIDE DEF z
        <4> QED BY <1>1, <1>2, <1>4
      <3> HIDE DEF z
      <3> QED BY <1>2, <3>1 DEF AddZstd
    <2>3. [z EXCEPT !.Mtemp[n] = r]
            = [Mcompressed |-> registers, Mtemp |-> after, lowerBound |-> Smallest(registers)]
      BY <2>1 DEF Block
    <2> HIDE DEF after, z
    <2>4. CompressZstd([z EXCEPT !.Mtemp[n] = r]) = Block(after)
      <3>1. after \in [Registers -> Value]
        BY <2>1
      <3>2. CompressZstd([Mcompressed |-> registers, Mtemp |-> after,
                          lowerBound |-> Smallest(registers)]) = Block(after)
        BY <3>1, CompressZstdIs
      <3> QED BY <2>3, <3>2
    <2> QED BY <2>2, <2>4 DEF after, z
  <1> QED BY <1>1, <1>3, <1>4

LEMMA MergeZstdIs ==
  ASSUME NEW f \in [Registers -> Value], NEW g \in [Registers -> Value]
  PROVE  MergeZstd(Block(f), Block(g)) = Block([n \in Registers |-> Larger(f[n], g[n])])
  <1> DEFINE after == [n \in Registers |-> Larger(f[n], g[n])]
  <1>1. after \in [Registers -> Value]
    BY DEF Larger
  <1>2. Decompress(Block(f)).Mtemp = f /\ Decompress(Block(g)).Mtemp = g
    BY DecompressIs
  <1>3. PICK c, b, l : NewZstd = [Mcompressed |-> c, Mtemp |-> b, lowerBound |-> l]
    BY NewZstdIs DEF Block
  <1>4. MergeZstd(Block(f), Block(g))
          = CompressZstd([Mcompressed |-> c, Mtemp |-> after, lowerBound |-> l])
    <2>1. PICK new : new = [Mcompressed |-> c, Mtemp |-> b, lowerBound |-> l] /\ NewZstd = new
      BY <1>3
    <2>2. [n \in 0 .. m - 1 |-> IF Decompress(Block(f)).Mtemp[n] < Decompress(Block(g)).Mtemp[n]
                               THEN Decompress(Block(g)).Mtemp[n]
                               ELSE Decompress(Block(f)).Mtemp[n]] = after
      BY <1>2 DEF Larger, Registers
    <2> HIDE DEF after
    <2>3. MergeZstd(Block(f), Block(g)) = CompressZstd([new EXCEPT !.Mtemp = after])
      BY <2>1, <2>2 DEF MergeZstd
    <2>4. [new EXCEPT !.Mtemp = after] = [Mcompressed |-> c, Mtemp |-> after, lowerBound |-> l]
      BY <2>1
    <2> QED BY <2>3, <2>4
  <1> HIDE DEF after
  <1>5. MergeZstd(Block(f), Block(g)) = Block(after)
    BY <1>1, <1>4, CompressZstdIs
  <1> QED BY <1>5 DEF after
-----------------------------------------------------------------------------
(***************************************************************************)
(* A conversion to a HyperLogLog and back.                                 *)
(***************************************************************************)
LEMMA ValidIsNormalised ==
  ASSUME NEW flags \in SUBSET Flag, ValidFlags(flags)
  PROVE  Normalised(flags) = flags
  <1>1. flags \notin {{"TYPE_FULL"}, {"TYPE_INCREASE"}, {"WHEN_ALWAYS"}, {"WHEN_APPEND"}}
    BY DEF ValidFlags
  <1> QED BY <1>1 DEF Normalised, WithWhen, WithType

\* What the flags promise leaves no choice of base and sparse map to a BOTTOM
\* sketch, and none of the size of the sparse map to a FULL one.
LEMMA SameRanksSamePromise ==
  ASSUME NEW e, RepOK(e), ModeOK(e), NEW t, RepOK(t), ModeOK(t),
         t.flags = e.flags, SameRanks(e, t)
  PROVE  /\ e.flags = {"BOTTOM"} => t.B = e.B /\ t.S = e.S
         /\ {"WHEN_ALWAYS", "TYPE_FULL"} \subseteq e.flags =>
              Cardinality(DOMAIN t.S) = Cardinality(DOMAIN e.S)
  <1>1. ASSUME e.flags = {"BOTTOM"}
        PROVE  t.B = e.B /\ t.S = e.S
    <2>1. BottomKept(e) /\ BottomKept(t)
      BY <1>1 DEF ModeOK
    <2>2. PICK i \in Registers : Get(e, i) = e.B
      BY <2>1 DEF BottomKept, AtBase
    <2>3. PICK n \in Registers : Get(t, n) = t.B
      BY <2>1 DEF BottomKept, AtBase
    <2>4. e.B <= Get(e, n) /\ t.B <= Get(t, i)
      BY <2>1 DEF BottomKept, RepOK
    <2>5. e.B \in Nat /\ t.B \in Nat
      BY SketchFields, SketchAssumption DEF RepOK, Value
    <2>6. t.B = e.B
      BY <2>2, <2>3, <2>4, <2>5 DEF SameRanks
    <2>7. \A b : Sparse(t, b) = Sparse(e, b)
      BY DEF Sparse, SameRanks
    <2>8. DOMAIN t.S = DOMAIN e.S
      BY <2>6, <2>7 DEF RepOK
    <2>9. \A k \in DOMAIN e.S : t.S[k] = e.S[k]
      <3>1. DOMAIN e.S \subseteq Registers
        BY DEF RepOK, Sparse
      <3> QED BY <2>8, <3>1 DEF SameRanks, Get
    <2>10. e.S = [k \in DOMAIN e.S |-> e.S[k]] /\ t.S = [k \in DOMAIN t.S |-> t.S[k]]
      BY SketchFields, SparseMapsAre DEF RepOK
    <2> QED BY <2>6, <2>8, <2>9, <2>10
  <1>2. ASSUME {"WHEN_ALWAYS", "TYPE_FULL"} \subseteq e.flags
        PROVE  Cardinality(DOMAIN t.S) = Cardinality(DOMAIN e.S)
    <2>1. Optimal(e) /\ Optimal(t)
      BY <1>2 DEF ModeOK
    <2>2. MinimumSparse(t) = MinimumSparse(e)
      <3>1. {Get(t, n) : n \in Registers} = {Get(e, n) : n \in Registers}
        BY DEF SameRanks
      <3>2. \A b : Sparse(t, b) = Sparse(e, b)
        BY DEF Sparse, SameRanks
      <3> QED BY <3>1, <3>2 DEF MinimumSparse
    <2> QED BY <2>1, <2>2 DEF Optimal
  <1> QED BY <1>1, <1>2

LEMMA ThereAndBack ==
  ASSUME NEW e, RepOK(e), ModeOK(e)
  PROVE  LET back == FromRegisters(Ranks(e), e.flags)
         IN  /\ Ranks(back) = Ranks(e)
             /\ e.flags = {"BOTTOM"} => back.B = e.B /\ back.S = e.S
             /\ {"WHEN_ALWAYS", "TYPE_FULL"} \subseteq e.flags =>
                  Cardinality(DOMAIN back.S) = Cardinality(DOMAIN e.S)
  <1>1. PICK back : back = FromRegisters(Ranks(e), e.flags)
    OBVIOUS
  <1>2. Ranks(e) \in [Registers -> Value] /\ e.flags \in SUBSET Flag /\ ValidFlags(e.flags)
    BY SketchFields DEF RepOK, Ranks
  <1>3. Fed(back, m, Ranks(e), e.flags)
    BY <1>1, <1>2, ValidIsNormalised, FromRegistersIs
  <1>4. \A n \in Registers : n < m
    BY SketchAssumption DEF Registers
  <1>5. /\ RepOK(back) /\ ModeOK(back) /\ back.flags = e.flags
        /\ SameRanks(e, back)
    BY <1>3, <1>4 DEF Fed, SameRanks, Ranks
  <1>6. Ranks(back) = Ranks(e)
    BY <1>5 DEF SameRanks, Ranks
  <1> QED BY <1>1, <1>5, <1>6, SameRanksSamePromise

-----------------------------------------------------------------------------
(***************************************************************************)
(* The inductive invariant of the program: Inv for its HyperLogLogLogs,    *)
(* registers in range in its HyperLogLogs, and a block, buffer and bound   *)
(* that agree in its HyperLogLogZstds.                                     *)
(***************************************************************************)
PlainInv ==
  /\ PlainHeld \subseteq Plains
  /\ plain = [p \in PlainHeld |-> plain[p]]
  /\ \A p \in PlainHeld : PlainOK(plain[p])

ZstdInv ==
  /\ ZstdHeld \subseteq Zstds
  /\ zstd = [z \in ZstdHeld |-> zstd[z]]
  /\ \A z \in ZstdHeld : ZstdOK(zstd[z])

LibraryInv ==
  /\ program \in Programs
  /\ Inv
  /\ ModeInv
  /\ PlainInv
  /\ ZstdInv

LEMMA ProgramFits ==
  ASSUME program \in Programs
  PROVE  program.flags \subseteq Flags
  BY LibraryAssumption

LEMMA AssignPlainKeeps ==
  ASSUME PlainInv, NEW p \in Plains, NEW registers, PlainOK(registers),
         AssignPlain(p, registers)
  PROVE  PlainInv'
  <1>1. plain' = [q \in PlainHeld \cup {p} |-> IF q = p THEN registers ELSE plain[q]]
    BY DEF AssignPlain, With, PlainHeld
  <1>2. PlainHeld' = PlainHeld \cup {p}
    BY <1>1 DEF PlainHeld
  <1>3. plain' = [q \in PlainHeld' |-> plain'[q]]
    BY <1>1, <1>2
  <1>4. \A q \in PlainHeld' : PlainOK(plain'[q])
    BY <1>1, <1>2 DEF PlainInv
  <1>5. PlainHeld' \subseteq Plains
    BY <1>2 DEF PlainInv
  <1> QED BY <1>3, <1>4, <1>5 DEF PlainInv

LEMMA AssignZstdKeeps ==
  ASSUME ZstdInv, NEW z \in Zstds, NEW object, ZstdOK(object), AssignZstd(z, object)
  PROVE  ZstdInv'
  <1>1. zstd' = [y \in ZstdHeld \cup {z} |-> IF y = z THEN object ELSE zstd[y]]
    BY DEF AssignZstd, With, ZstdHeld
  <1>2. ZstdHeld' = ZstdHeld \cup {z}
    BY <1>1 DEF ZstdHeld
  <1>3. zstd' = [y \in ZstdHeld' |-> zstd'[y]]
    BY <1>1, <1>2
  <1>4. \A y \in ZstdHeld' : ZstdOK(zstd'[y])
    BY <1>1, <1>2 DEF ZstdInv
  <1>5. ZstdHeld' \subseteq Zstds
    BY <1>2 DEF ZstdInv
  <1> QED BY <1>3, <1>4, <1>5 DEF ZstdInv

\* Decompressing the operands of a merge changes nothing.
LEMMA ZstdMergeAssigns ==
  ASSUME ZstdInv, NEW z, NEW x, NEW y, ZstdMerge(z, x, y)
  PROVE  AssignZstd(z, MergeZstd(zstd[x], zstd[y]))
  <1>1. \A w \in ZstdHeld : Decompress(zstd[w]) = zstd[w]
    BY DecompressIs DEF ZstdInv, ZstdOK
  <1>2. [w \in ZstdHeld |-> IF w \in {x, y} THEN Decompress(zstd[w]) ELSE zstd[w]] = zstd
    BY <1>1 DEF ZstdInv
  <1> QED BY <1>2 DEF ZstdMerge, AssignZstd

-----------------------------------------------------------------------------
(***************************************************************************)
(* What one call does to the registers presented: an action of Oracle for  *)
(* a HyperLogLogLog, as theorem Refinement says, and one of these for the  *)
(* other classes.                                                          *)
(***************************************************************************)
ShownBy(e, pl, zs) ==
  [x \in DOMAIN e \cup DOMAIN pl \cup DOMAIN zs |->
     CASE x \in DOMAIN e -> Ranks(e[x])
       [] x \in DOMAIN pl -> pl[x]
       [] x \in DOMAIN zs -> Decompress(zs[x]).Mtemp]

LEMMA AllShownIs ==
  /\ AllShown = ShownBy(sketch, plain, zstd)
  /\ AllShown' = ShownBy(sketch', plain', zstd')
  BY DEF AllShown, ShownBy, Held, PlainHeld, ZstdHeld

\* What f shows of the objects e, pl and zs.
Shows(f, e, pl, zs) ==
  /\ DOMAIN f = DOMAIN e \cup DOMAIN pl \cup DOMAIN zs
  /\ f = [x \in DOMAIN f |-> f[x]]
  /\ \A x \in DOMAIN e : f[x] = Ranks(e[x])
  /\ \A x \in DOMAIN pl : f[x] = pl[x]
  /\ \A x \in DOMAIN zs : f[x] = Decompress(zs[x]).Mtemp

Named(e, pl, zs) ==
  DOMAIN e \subseteq Sketches /\ DOMAIN pl \subseteq Plains /\ DOMAIN zs \subseteq Zstds

LEMMA ShownByIs ==
  ASSUME NEW e, NEW pl, NEW zs, Named(e, pl, zs)
  PROVE  Shows(ShownBy(e, pl, zs), e, pl, zs)
  BY LibraryAssumption DEF ShownBy, Shows, Named

LEMMA LibraryNamed == LibraryInv => Named(sketch, plain, zstd)
  BY DEF LibraryInv, Inv, PlainInv, ZstdInv, Held, PlainHeld, ZstdHeld, Named

\* One name shows something else, as Assign of MaxRegisters has it.
Replaced(f, g, x, v) == g = [y \in DOMAIN f \cup {x} |-> IF y = x THEN v ELSE f[y]]

LEMMA ReplacedShown ==
  ASSUME NEW x, NEW v,
         Replaced(ShownBy(sketch, plain, zstd), ShownBy(sketch', plain', zstd'), x, v)
  PROVE  AllOracle!Assign(x, v)
  BY AllShownIs DEF AllOracle!Assign, AllOracle!Held, Replaced

LEMMA AssignedShown ==
  ASSUME LibraryInv, NEW s \in Sketches, NEW object, Assign(s, object), UNCHANGED <<plain, zstd>>
  PROVE  AllOracle!Assign(s, Ranks(object))
  <1>1. PICK f, g : f = ShownBy(sketch, plain, zstd) /\ g = ShownBy(sketch', plain', zstd')
    OBVIOUS
  <1>2. Replaced(sketch, sketch', s, object)
    BY DEF Assign, Replaced, Held
  <1>3. Named(sketch, plain, zstd) /\ Named(sketch', plain, zstd)
    BY <1>2, LibraryNamed DEF Named, Replaced
  <1>4. Shows(f, sketch, plain, zstd) /\ Shows(g, sketch', plain, zstd)
    BY <1>1, <1>3, ShownByIs
  <1>5. s \notin DOMAIN plain /\ s \notin DOMAIN zstd
    BY <1>3, LibraryAssumption DEF Named
  <1>6. Replaced(f, g, s, Ranks(object))
    <2>1. DOMAIN g = DOMAIN f \cup {s} /\ g = [x \in DOMAIN g |-> g[x]]
      BY <1>2, <1>4 DEF Shows, Replaced
    <2>2. \A x \in DOMAIN g : g[x] = IF x = s THEN Ranks(object) ELSE f[x]
      <3> SUFFICES ASSUME NEW x \in DOMAIN g
                   PROVE  g[x] = IF x = s THEN Ranks(object) ELSE f[x]
        OBVIOUS
      <3>1. x \in DOMAIN sketch' \cup DOMAIN plain \cup DOMAIN zstd
        BY <1>2, <1>4 DEF Shows
      <3>2. CASE x = s
        BY <1>2, <1>4, <3>2 DEF Shows, Replaced
      <3>3. CASE x # s /\ x \in DOMAIN sketch'
        BY <1>2, <1>4, <3>3 DEF Shows, Replaced
      <3>4. CASE x # s /\ x \in DOMAIN plain
        BY <1>2, <1>4, <3>4 DEF Shows, Replaced
      <3>5. CASE x # s /\ x \in DOMAIN zstd
        BY <1>2, <1>4, <3>5 DEF Shows, Replaced
      <3> QED BY <3>1, <3>2, <3>3, <3>4, <3>5
    <2> QED BY <2>1, <2>2 DEF Replaced
  <1> QED BY <1>1, <1>6, ReplacedShown

LEMMA AssignedPlainShown ==
  ASSUME LibraryInv, NEW p \in Plains, NEW registers, AssignPlain(p, registers)
  PROVE  AllOracle!Assign(p, registers)
  <1>1. PICK f, g : f = ShownBy(sketch, plain, zstd) /\ g = ShownBy(sketch', plain', zstd')
    OBVIOUS
  <1>2. Replaced(plain, plain', p, registers) /\ sketch' = sketch /\ zstd' = zstd
    BY DEF AssignPlain, With, Replaced
  <1>3. Named(sketch, plain, zstd) /\ Named(sketch, plain', zstd)
    BY <1>2, LibraryNamed DEF Named, Replaced
  <1>4. Shows(f, sketch, plain, zstd) /\ Shows(g, sketch, plain', zstd)
    BY <1>1, <1>2, <1>3, ShownByIs
  <1>5. p \notin DOMAIN sketch /\ p \notin DOMAIN zstd
    BY <1>3, LibraryAssumption DEF Named
  <1>6. Replaced(f, g, p, registers)
    <2>1. DOMAIN g = DOMAIN f \cup {p} /\ g = [x \in DOMAIN g |-> g[x]]
      BY <1>2, <1>4 DEF Shows, Replaced
    <2>2. \A x \in DOMAIN g : g[x] = IF x = p THEN registers ELSE f[x]
      <3> SUFFICES ASSUME NEW x \in DOMAIN g
                   PROVE  g[x] = IF x = p THEN registers ELSE f[x]
        OBVIOUS
      <3>1. x \in DOMAIN sketch \cup DOMAIN plain' \cup DOMAIN zstd
        BY <1>2, <1>4 DEF Shows
      <3>2. CASE x = p
        BY <1>2, <1>4, <3>2 DEF Shows, Replaced
      <3>3. CASE x # p /\ x \in DOMAIN sketch
        BY <1>2, <1>4, <3>3 DEF Shows, Replaced
      <3>4. CASE x # p /\ x \in DOMAIN plain'
        BY <1>2, <1>4, <3>4 DEF Shows, Replaced
      <3>5. CASE x # p /\ x \in DOMAIN zstd
        BY <1>2, <1>4, <3>5 DEF Shows, Replaced
      <3> QED BY <3>1, <3>2, <3>3, <3>4, <3>5
    <2> QED BY <2>1, <2>2 DEF Replaced
  <1> QED BY <1>1, <1>6, ReplacedShown

LEMMA AssignedZstdShown ==
  ASSUME LibraryInv, NEW z \in Zstds, NEW registers, AssignZstd(z, Block(registers))
  PROVE  AllOracle!Assign(z, registers)
  <1>1. PICK f, g : f = ShownBy(sketch, plain, zstd) /\ g = ShownBy(sketch', plain', zstd')
    OBVIOUS
  <1>2. Replaced(zstd, zstd', z, Block(registers)) /\ sketch' = sketch /\ plain' = plain
    BY DEF AssignZstd, With, Replaced
  <1>3. Named(sketch, plain, zstd) /\ Named(sketch, plain, zstd')
    BY <1>2, LibraryNamed DEF Named, Replaced
  <1>4. Shows(f, sketch, plain, zstd) /\ Shows(g, sketch, plain, zstd')
    BY <1>1, <1>2, <1>3, ShownByIs
  <1>5. z \notin DOMAIN sketch /\ z \notin DOMAIN plain
    BY <1>3, LibraryAssumption DEF Named
  <1>6. Replaced(f, g, z, registers)
    <2>1. DOMAIN g = DOMAIN f \cup {z} /\ g = [x \in DOMAIN g |-> g[x]]
      BY <1>2, <1>4 DEF Shows, Replaced
    <2>2. Decompress(Block(registers)).Mtemp = registers
      BY DecompressIs
    <2>3. \A x \in DOMAIN g : g[x] = IF x = z THEN registers ELSE f[x]
      <3> SUFFICES ASSUME NEW x \in DOMAIN g
                   PROVE  g[x] = IF x = z THEN registers ELSE f[x]
        OBVIOUS
      <3>1. x \in DOMAIN sketch \cup DOMAIN plain \cup DOMAIN zstd'
        BY <1>2, <1>4 DEF Shows
      <3>2. CASE x = z
        BY <1>2, <1>4, <2>2, <3>2 DEF Shows, Replaced
      <3>3. CASE x # z /\ x \in DOMAIN sketch
        BY <1>2, <1>4, <3>3 DEF Shows, Replaced
      <3>4. CASE x # z /\ x \in DOMAIN plain
        BY <1>2, <1>4, <3>4 DEF Shows, Replaced
      <3>5. CASE x # z /\ x \in DOMAIN zstd'
        BY <1>2, <1>4, <3>5 DEF Shows, Replaced
      <3> QED BY <3>1, <3>2, <3>3, <3>4, <3>5
    <2> QED BY <2>1, <2>3 DEF Replaced
  <1> QED BY <1>1, <1>6, ReplacedShown

-----------------------------------------------------------------------------
(***************************************************************************)
(* Each call keeps the invariant and is one step of the abstract program.  *)
(***************************************************************************)
Follows == LibraryInv' /\ AllOracle!Next

LEMMA AllShownAt == LibraryInv => Shows(AllShown, sketch, plain, zstd)
  BY AllShownIs, ShownByIs, LibraryNamed

LEMMA SameSketches ==
  ASSUME Inv, ModeInv, UNCHANGED sketch
  PROVE  Inv' /\ ModeInv'
  BY DEF Inv, ModeInv, Held

\* A conversion, or a query, is the merge of an object with itself.
LEMMA CopyFollows ==
  ASSUME NEW x \in Sketches \cup Plains \cup Zstds,
         NEW y \in Sketches \cup Plains \cup Zstds, y \in DOMAIN AllShown,
         NEW registers \in [Registers -> Value], AllShown[y] = registers,
         AllOracle!Assign(x, registers)
  PROVE  AllOracle!Next
  <1>1. [n \in Registers |-> AllOracle!Maximum(AllShown[y][n], AllShown[y][n])] = registers
    BY DEF AllOracle!Maximum
  <1>2. AllOracle!MergeInto(x, y, y)
    BY <1>1 DEF AllOracle!MergeInto, AllOracle!Held
  <1> QED BY <1>2 DEF AllOracle!Next

LEMMA SketchCallFollows ==
  ASSUME Rank \subseteq Value, LibraryInv, SketchCall, UNCHANGED <<program, plain, zstd>>
  PROVE  Follows
  <1>1. Inv /\ ModeInv /\ program.flags \subseteq Flags
    BY ProgramFits DEF LibraryInv
  <1>2. Next
    BY <1>1 DEF SketchCall, Declared, Next
  <1>3. LibraryInv'
    <2>1. Inv' /\ ModeInv'
      BY <1>1, <1>2, NextInv, NextModeInv
    <2> QED BY <2>1 DEF LibraryInv, PlainInv, ZstdInv, PlainHeld, ZstdHeld
  <1>4. Shows(AllShown, sketch, plain, zstd)
    BY AllShownAt
  <1>5. ASSUME NEW s \in Sketches, NEW flags \in Flags, Construct(s, flags)
        PROVE  AllOracle!Construct(s)
    <2>1. Ranks(NewSketch(Normalised(flags))) = [n \in Registers |-> 0]
      BY <1>5, NewObject DEF Construct, Ranks
    <2>2. AllOracle!Assign(s, Ranks(NewSketch(Normalised(flags))))
      BY <1>5, AssignedShown DEF Construct
    <2> QED BY <2>1, <2>2 DEF AllOracle!Construct
  <1>6. ASSUME NEW s \in Sketches, NEW n \in Registers, NEW r \in Rank, Add(s, n, r)
        PROVE  AllOracle!Add(s, n, r)
    <2>1. s \in Held /\ RepOK(sketch[s]) /\ r \in Value
      BY <1>1, <1>6 DEF Add, Inv
    <2>2. AllShown[s] = Ranks(sketch[s]) /\ s \in DOMAIN AllShown
      BY <1>4, <2>1 DEF Shows, Held
    <2>3. Ranks(AddJr(sketch[s], n, r)) =
            [i \in Registers |-> IF i = n THEN Larger(Get(sketch[s], n), r)
                                 ELSE Get(sketch[s], i)]
      BY <2>1, AddJrSets DEF Ranks
    <2>4. Ranks(AddJr(sketch[s], n, r)) =
            [i \in Registers |-> IF i = n THEN AllOracle!Maximum(AllShown[s][i], r)
                                 ELSE AllShown[s][i]]
      BY <2>2, <2>3 DEF Ranks, Larger, AllOracle!Maximum
    <2>5. AllOracle!Assign(s, Ranks(AddJr(sketch[s], n, r)))
      BY <1>6, AssignedShown DEF Add
    <2> QED BY <2>2, <2>4, <2>5 DEF AllOracle!Add, AllOracle!Held
  <1>7. ASSUME NEW s \in Sketches, NEW t \in Sketches, NEW u \in Sketches,
               MergeInto(s, t, u)
        PROVE  AllOracle!MergeInto(s, t, u)
    <2>1. /\ t \in Held /\ u \in Held
          /\ RepOK(sketch[t]) /\ RepOK(sketch[u])
      BY <1>1, <1>7 DEF MergeInto, Inv
    <2>2. /\ AllShown[t] = Ranks(sketch[t]) /\ t \in DOMAIN AllShown
          /\ AllShown[u] = Ranks(sketch[u]) /\ u \in DOMAIN AllShown
      BY <1>4, <2>1 DEF Shows, Held
    <2>3. Ranks(Merge(sketch[t], sketch[u])) =
            [n \in Registers |-> Larger(Get(sketch[t], n), Get(sketch[u], n))]
      BY <2>1, MergeIs DEF Ranks
    <2>4. Ranks(Merge(sketch[t], sketch[u])) =
            [n \in Registers |-> AllOracle!Maximum(AllShown[t][n], AllShown[u][n])]
      BY <2>2, <2>3 DEF Ranks, Larger, AllOracle!Maximum
    <2>5. AllOracle!Assign(s, Ranks(Merge(sketch[t], sketch[u])))
      BY <1>7, AssignedShown DEF MergeInto
    <2> QED BY <2>2, <2>4, <2>5 DEF AllOracle!MergeInto, AllOracle!Held
  <1>8. AllOracle!Next
    BY <1>2, <1>5, <1>6, <1>7 DEF Next, AllOracle!Next
  <1> QED BY <1>3, <1>8 DEF Follows

LEMMA AssignPlainFollows ==
  ASSUME LibraryInv, NEW p \in Plains, NEW registers, PlainOK(registers),
         AssignPlain(p, registers), UNCHANGED program
  PROVE  LibraryInv' /\ AllOracle!Assign(p, registers)
  <1>1. PlainInv'
    BY AssignPlainKeeps DEF LibraryInv
  <1>2. Inv' /\ ModeInv'
    BY SameSketches DEF LibraryInv, AssignPlain
  <1>3. ZstdInv' /\ program' \in Programs
    BY DEF LibraryInv, AssignPlain, ZstdInv, ZstdHeld
  <1> QED BY <1>1, <1>2, <1>3, AssignedPlainShown DEF LibraryInv

LEMMA AssignZstdFollows ==
  ASSUME LibraryInv, NEW z \in Zstds, NEW registers \in [Registers -> Value],
         AssignZstd(z, Block(registers)), UNCHANGED program
  PROVE  LibraryInv' /\ AllOracle!Assign(z, registers)
  <1>1. ZstdInv'
    BY AssignZstdKeeps DEF LibraryInv, ZstdOK
  <1>2. Inv' /\ ModeInv'
    BY SameSketches DEF LibraryInv, AssignZstd
  <1>3. PlainInv' /\ program' \in Programs
    BY DEF LibraryInv, AssignZstd, PlainInv, PlainHeld
  <1> QED BY <1>1, <1>2, <1>3, AssignedZstdShown DEF LibraryInv

LEMMA PlainCallFollows ==
  ASSUME Rank \subseteq Value, LibraryInv, NEW p \in Plains, PlainCall(p), UNCHANGED program
  PROVE  Follows
  <1>1. /\ \A q \in PlainHeld : q \in Plains /\ PlainOK(plain[q])
        /\ \A s \in Held : s \in Sketches /\ RepOK(sketch[s])
    BY DEF LibraryInv, PlainInv, Inv
  <1>2. Shows(AllShown, sketch, plain, zstd)
    BY AllShownAt
  <1>3. /\ \A q \in PlainHeld : AllShown[q] = plain[q] /\ q \in DOMAIN AllShown
        /\ \A s \in Held : AllShown[s] = Ranks(sketch[s]) /\ s \in DOMAIN AllShown
    BY <1>2 DEF Shows, Held, PlainHeld
  <1>4. ASSUME AssignPlain(p, NewPlain)
        PROVE  Follows
    <2>1. LibraryInv' /\ AllOracle!Assign(p, [n \in Registers |-> 0])
      BY <1>4, NewPlainIs, AssignPlainFollows
    <2> QED BY <2>1 DEF AllOracle!Construct, AllOracle!Next, Follows
  <1>5. ASSUME NEW n \in Registers, NEW r \in Rank, PlainAdd(p, n, r)
        PROVE  Follows
    <2>1. p \in PlainHeld /\ AssignPlain(p, AddPlain(plain[p], n, r)) /\ r \in Value
      BY <1>5 DEF PlainAdd
    <2>2. /\ PlainOK(AddPlain(plain[p], n, r))
          /\ AddPlain(plain[p], n, r)
               = [i \in Registers |-> IF i = n THEN Larger(plain[p][i], r) ELSE plain[p][i]]
      BY <1>1, <2>1, AddPlainIs
    <2>3. AddPlain(plain[p], n, r)
            = [i \in Registers |-> IF i = n THEN AllOracle!Maximum(AllShown[p][i], r)
                                            ELSE AllShown[p][i]]
      BY <1>3, <2>1, <2>2 DEF Larger, AllOracle!Maximum
    <2>4. LibraryInv' /\ AllOracle!Assign(p, AddPlain(plain[p], n, r))
      BY <2>1, <2>2, AssignPlainFollows
    <2>5. AllOracle!Add(p, n, r)
      BY <1>3, <2>1, <2>3, <2>4 DEF AllOracle!Add, AllOracle!Held
    <2> QED BY <1>5, <2>4, <2>5 DEF AllOracle!Next, Follows
  <1>6. ASSUME NEW q, NEW o, PlainMerge(p, q, o)
        PROVE  Follows
    <2>1. /\ q \in PlainHeld /\ o \in PlainHeld
          /\ AssignPlain(p, MergePlain(plain[q], plain[o]))
      BY <1>6 DEF PlainMerge
    <2>2. /\ PlainOK(MergePlain(plain[q], plain[o]))
          /\ MergePlain(plain[q], plain[o])
               = [n \in Registers |-> Larger(plain[q][n], plain[o][n])]
      BY <1>1, <2>1, MergePlainIs
    <2>3. MergePlain(plain[q], plain[o])
            = [n \in Registers |-> AllOracle!Maximum(AllShown[q][n], AllShown[o][n])]
      BY <1>3, <2>1, <2>2 DEF Larger, AllOracle!Maximum
    <2>4. LibraryInv' /\ AllOracle!Assign(p, MergePlain(plain[q], plain[o]))
      BY <2>1, <2>2, AssignPlainFollows
    <2>5. AllOracle!MergeInto(p, q, o)
      BY <1>3, <2>1, <2>3, <2>4 DEF AllOracle!MergeInto, AllOracle!Held
    <2>6. q \in Plains /\ o \in Plains
      BY <1>1, <2>1
    <2> QED BY <2>4, <2>5, <2>6 DEF AllOracle!Next, Follows
  <1>7. ASSUME NEW s, ToHyperLogLog(p, s)
        PROVE  Follows
    <2>1. s \in Held
      BY <1>7 DEF ToHyperLogLog
    <2>2. \A n \in Registers : Get(sketch[s], n) \in Value
      BY <1>1, <2>1 DEF RepOK
    <2>3. \A n \in Registers : AddPlain(NewPlain, n, Get(sketch[s], n))[n] = Get(sketch[s], n)
      <3> SUFFICES ASSUME NEW n \in Registers
                   PROVE  AddPlain(NewPlain, n, Get(sketch[s], n))[n] = Get(sketch[s], n)
        OBVIOUS
      <3>1. AddPlain(NewPlain, n, Get(sketch[s], n))[n] = Larger(NewPlain[n], Get(sketch[s], n))
        BY <2>2, NewPlainIs, AddPlainIs
      <3>2. Get(sketch[s], n) \in Nat /\ NewPlain[n] = 0
        BY <2>2, NewPlainIs, ValueMasked
      <3> QED BY <3>1, <3>2 DEF Larger
    <2>4. AssignPlain(p, Ranks(sketch[s]))
      BY <1>7, <2>3 DEF ToHyperLogLog, Ranks
    <2>5. Ranks(sketch[s]) \in [Registers -> Value]
      BY <2>2 DEF Ranks
    <2>6. LibraryInv' /\ AllOracle!Assign(p, Ranks(sketch[s]))
      BY <2>4, <2>5, AssignPlainFollows DEF PlainOK
    <2>7. s \in Sketches /\ AllShown[s] = Ranks(sketch[s]) /\ s \in DOMAIN AllShown
      BY <1>1, <1>3, <2>1
    <2>8. AllOracle!Next
      BY <2>5, <2>6, <2>7, CopyFollows
    <2> QED BY <2>6, <2>8 DEF Follows
  <1>8. ASSUME NEW s \in Sketches, NEW flags \in Flags, FromHyperLogLog(s, p, flags)
        PROVE  Follows
    <2> DEFINE object == FromRegisters(plain[p], flags)
    <2>1. /\ p \in PlainHeld /\ ValidFlags(Normalised(flags))
          /\ Assign(s, object) /\ UNCHANGED <<plain, zstd>>
      BY <1>8 DEF FromHyperLogLog
    <2>2. plain[p] \in [Registers -> Value]
      BY <1>1, <2>1 DEF PlainOK
    <2>3. Normalised(flags) \in SUBSET Flag
      BY ProgramAssumption DEF Normalised, WithType, WithWhen, Flag
    <2>4. Fed(object, m, plain[p], Normalised(flags))
      BY <2>1, <2>2, <2>3, FromRegistersIs
    <2> HIDE DEF object
    <2>5. RepOK(object) /\ ModeOK(object) /\ Ranks(object) = plain[p]
      <3>1. \A n \in Registers : n < m
        BY SketchAssumption DEF Registers
      <3> QED BY <2>2, <2>4, <3>1 DEF Fed, Ranks
    <2>6. Inv' /\ ModeInv'
      BY <2>1, <2>5, AssignKeepsInv, AssignKeepsModes DEF LibraryInv
    <2>7. LibraryInv'
      BY <2>1, <2>6 DEF LibraryInv, PlainInv, ZstdInv, PlainHeld, ZstdHeld
    <2>8. AllOracle!Assign(s, plain[p])
      BY <2>1, <2>5, AssignedShown
    <2>9. AllOracle!Next
      BY <1>3, <2>1, <2>2, <2>8, CopyFollows
    <2> QED BY <2>7, <2>9 DEF Follows
  <1>9. program.flags \subseteq Flags
    BY ProgramFits DEF LibraryInv
  <1> QED BY <1>4, <1>5, <1>6, <1>7, <1>8, <1>9 DEF PlainCall, Declared

LEMMA ZstdCallFollows ==
  ASSUME Rank \subseteq Value, LibraryInv, NEW z \in Zstds, ZstdCall(z), UNCHANGED program
  PROVE  Follows
  <1>1. \A y \in ZstdHeld : y \in Zstds
    BY DEF LibraryInv, ZstdInv
  <1>2. \A y \in ZstdHeld : \E registers \in [Registers -> Value] :
          zstd[y] = Block(registers) /\ AllShown[y] = registers /\ y \in DOMAIN AllShown
    <2> SUFFICES ASSUME NEW y \in ZstdHeld
                 PROVE  \E registers \in [Registers -> Value] :
                          /\ zstd[y] = Block(registers)
                          /\ AllShown[y] = registers /\ y \in DOMAIN AllShown
      OBVIOUS
    <2>1. PICK registers \in [Registers -> Value] : zstd[y] = Block(registers)
      BY DEF LibraryInv, ZstdInv, ZstdOK
    <2>2. Decompress(zstd[y]).Mtemp = registers
      BY <2>1, DecompressIs
    <2>3. AllShown[y] = registers /\ y \in DOMAIN AllShown
      BY <2>2, AllShownAt DEF Shows, ZstdHeld
    <2> QED BY <2>1, <2>3
  <1>3. ASSUME AssignZstd(z, NewZstd)
        PROVE  Follows
    <2>1. [n \in Registers |-> 0] \in [Registers -> Value]
      BY SketchAssumption DEF Value
    <2>2. LibraryInv' /\ AllOracle!Assign(z, [n \in Registers |-> 0])
      BY <1>3, <2>1, NewZstdIs, AssignZstdFollows
    <2> QED BY <2>2 DEF AllOracle!Construct, AllOracle!Next, Follows
  <1>4. ASSUME NEW n \in Registers, NEW r \in Rank, ZstdAdd(z, n, r)
        PROVE  Follows
    <2>1. z \in ZstdHeld /\ AssignZstd(z, AddZstd(zstd[z], n, r)) /\ r \in Value
      BY <1>4 DEF ZstdAdd
    <2>2. PICK f \in [Registers -> Value] :
            zstd[z] = Block(f) /\ AllShown[z] = f /\ z \in DOMAIN AllShown
      BY <1>2, <2>1
    <2>3. PICK g : g = [i \in Registers |-> IF i = n THEN Larger(f[i], r) ELSE f[i]]
      OBVIOUS
    <2>4. g \in [Registers -> Value]
      BY <2>1, <2>3 DEF Larger
    <2>5. AddZstd(zstd[z], n, r) = Block(g)
      BY <2>1, <2>2, <2>3, AddZstdIs
    <2>6. LibraryInv' /\ AllOracle!Assign(z, g)
      BY <2>1, <2>4, <2>5, AssignZstdFollows
    <2>7. g = [i \in Registers |-> IF i = n THEN AllOracle!Maximum(AllShown[z][i], r)
                                             ELSE AllShown[z][i]]
      BY <2>2, <2>3 DEF Larger, AllOracle!Maximum
    <2>8. AllOracle!Add(z, n, r)
      BY <2>2, <2>6, <2>7 DEF AllOracle!Add, AllOracle!Held
    <2> QED BY <1>4, <2>6, <2>8 DEF AllOracle!Next, Follows
  <1>5. ASSUME NEW x, NEW y, ZstdMerge(z, x, y)
        PROVE  Follows
    <2>1. x \in ZstdHeld /\ y \in ZstdHeld
      BY <1>5 DEF ZstdMerge
    <2>2. AssignZstd(z, MergeZstd(zstd[x], zstd[y]))
      BY <1>5, ZstdMergeAssigns DEF LibraryInv
    <2>3. PICK f \in [Registers -> Value] :
            zstd[x] = Block(f) /\ AllShown[x] = f /\ x \in DOMAIN AllShown
      BY <1>2, <2>1
    <2>4. PICK g \in [Registers -> Value] :
            zstd[y] = Block(g) /\ AllShown[y] = g /\ y \in DOMAIN AllShown
      BY <1>2, <2>1
    <2>5. PICK h : h = [n \in Registers |-> Larger(f[n], g[n])]
      OBVIOUS
    <2>6. h \in [Registers -> Value]
      BY <2>5 DEF Larger
    <2>7. MergeZstd(zstd[x], zstd[y]) = Block(h)
      BY <2>3, <2>4, <2>5, MergeZstdIs
    <2>8. LibraryInv' /\ AllOracle!Assign(z, h)
      BY <2>2, <2>6, <2>7, AssignZstdFollows
    <2>9. h = [n \in Registers |-> AllOracle!Maximum(AllShown[x][n], AllShown[y][n])]
      BY <2>3, <2>4, <2>5 DEF Larger, AllOracle!Maximum
    <2>10. AllOracle!MergeInto(z, x, y)
      BY <2>3, <2>4, <2>8, <2>9 DEF AllOracle!MergeInto, AllOracle!Held
    <2>11. x \in Zstds /\ y \in Zstds
      BY <1>1, <2>1
    <2> QED BY <2>8, <2>10, <2>11 DEF AllOracle!Next, Follows
  <1>6. ASSUME ZstdQuery(z)
        PROVE  Follows
    <2>1. z \in ZstdHeld /\ AssignZstd(z, Decompress(zstd[z]))
      BY <1>6 DEF ZstdQuery
    <2>2. PICK f \in [Registers -> Value] :
            zstd[z] = Block(f) /\ AllShown[z] = f /\ z \in DOMAIN AllShown
      BY <1>2, <2>1
    <2>3. LibraryInv' /\ AllOracle!Assign(z, f)
      BY <2>1, <2>2, DecompressIs, AssignZstdFollows
    <2>4. AllOracle!Next
      BY <2>2, <2>3, CopyFollows
    <2> QED BY <2>3, <2>4 DEF Follows
  <1> QED BY <1>3, <1>4, <1>5, <1>6 DEF ZstdCall, Declared

LEMMA LibraryInitIs == LibraryInit => LibraryInv /\ AllOracle!Init
  <1> SUFFICES ASSUME LibraryInit PROVE LibraryInv /\ AllOracle!Init
    OBVIOUS
  <1>1. Held = {} /\ PlainHeld = {} /\ ZstdHeld = {}
    BY DEF LibraryInit, Init, Held, PlainHeld, ZstdHeld
  <1>2. Inv /\ ModeInv
    BY <1>1, InitInv DEF LibraryInit, ModeInv
  <1>3. PlainInv /\ ZstdInv
    BY <1>1 DEF LibraryInit, PlainInv, ZstdInv
  <1>4. AllShown = [x \in {} |-> [n \in Registers |-> 0]]
    BY <1>1 DEF AllShown
  <1> QED BY <1>2, <1>3, <1>4 DEF LibraryInit, LibraryInv, AllOracle!Init

LEMMA LibraryStep ==
  ASSUME Rank \subseteq Value, LibraryInv, [LibraryNext]_libraryVars
  PROVE  LibraryInv' /\ [AllOracle!Next]_AllShown
  <1>1. ASSUME SketchCall, UNCHANGED <<program, plain, zstd>>
        PROVE  Follows
    BY <1>1, SketchCallFollows
  <1>2. ASSUME NEW p \in Plains, PlainCall(p), UNCHANGED program
        PROVE  Follows
    BY <1>2, PlainCallFollows
  <1>3. ASSUME NEW z \in Zstds, ZstdCall(z), UNCHANGED program
        PROVE  Follows
    BY <1>3, ZstdCallFollows
  <1>4. ASSUME UNCHANGED libraryVars
        PROVE  LibraryInv' /\ UNCHANGED AllShown
    <2>1. Inv' /\ ModeInv'
      BY <1>4, SameSketches DEF LibraryInv, libraryVars
    <2>2. PlainInv' /\ ZstdInv' /\ program' \in Programs
      BY <1>4 DEF LibraryInv, libraryVars, PlainInv, ZstdInv, PlainHeld, ZstdHeld
    <2>3. UNCHANGED AllShown
      BY <1>4, AllShownIs DEF libraryVars
    <2> QED BY <2>1, <2>2, <2>3 DEF LibraryInv
  <1> QED BY <1>1, <1>2, <1>3, <1>4 DEF LibraryNext, Declared, Follows

-----------------------------------------------------------------------------
\* The const methods of HyperLogLogZstd overwrite a buffer that agrees with
\* the block already, and the bound on which its addJr returns at once is the
\* smallest register, in any program.
THEOREM BufferNeverStale ==
  ASSUME Rank \subseteq Value
  PROVE  LibrarySpec => []BufferCoherent
  <1>1. LibraryInv => BufferCoherent
    <2> SUFFICES ASSUME LibraryInv, NEW z \in ZstdHeld
                 PROVE  /\ zstd[z].Mtemp = zstd[z].Mcompressed
                        /\ zstd[z].lowerBound = Min({zstd[z].Mtemp[n] : n \in Registers})
      BY DEF BufferCoherent
    <2>1. PICK registers \in [Registers -> Value] : zstd[z] = Block(registers)
      BY DEF LibraryInv, ZstdInv, ZstdOK
    <2>2. /\ zstd[z].Mtemp = registers /\ zstd[z].Mcompressed = registers
          /\ zstd[z].lowerBound = Smallest(registers)
      BY <2>1 DEF Block
    <2> QED BY <2>2 DEF Smallest
  <1>2. LibraryInit => LibraryInv
    BY LibraryInitIs
  <1>3. LibraryInv /\ [LibraryNext]_libraryVars => LibraryInv'
    BY LibraryStep
  <1> QED BY <1>1, <1>2, <1>3, PTL DEF LibrarySpec

\* toHyperLogLog() and fromHyperLogLog() lose no register of any sketch; a
\* BOTTOM sketch gets its base and its sparse map back, a FULL one a sparse
\* map of the same size, whatever histories the two have.
THEOREM ConversionsKeep ==
  ASSUME Rank \subseteq Value
  PROVE  LibrarySpec => []RoundTrip
  <1>1. LibraryInv => RoundTrip
    BY ThereAndBack DEF LibraryInv, Inv, ModeInv, RoundTrip
  <1>2. LibraryInit => LibraryInv
    BY LibraryInitIs
  <1>3. LibraryInv /\ [LibraryNext]_libraryVars => LibraryInv'
    BY LibraryStep
  <1> QED BY <1>1, <1>2, <1>3, PTL DEF LibrarySpec

\* Calls on HyperLogLog, HyperLogLogLog and HyperLogLogZstd objects, and the
\* conversions between them, act on the registers as the plain program of
\* maxima does: no class can be told from another by its registers.
THEOREM LibraryRefinement ==
  ASSUME Rank \subseteq Value
  PROVE  LibrarySpec => ImplementsAllRegisters
  <1>1. LibraryInit => LibraryInv /\ AllOracle!Init
    BY LibraryInitIs
  <1>2. LibraryInv /\ [LibraryNext]_libraryVars => LibraryInv'
    BY LibraryStep
  <1>3. LibraryInv /\ [LibraryNext]_libraryVars => [AllOracle!Next]_AllShown
    BY LibraryStep
  <1> QED BY <1>1, <1>2, <1>3, PTL DEF LibrarySpec, ImplementsAllRegisters, AllOracle!Spec
=============================================================================
