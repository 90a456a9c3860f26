---------------------------- MODULE SketchLemmas ----------------------------
(***************************************************************************)
(* What the methods of Sketch do to the values of the registers: rebase    *)
(* and compress change none, Store changes the one it is given, merge      *)
(* takes the larger of two.  Each also keeps RepOK, the representation     *)
(* invariant on which all of them rely, and ModeOK, what the flags of the  *)
(* object promise of its base, its counts and the size of S.               *)
(***************************************************************************)
EXTENDS Sketch, NumberLemmas, FiniteSetTheorems

RepOK(sk) ==
  /\ sk \in SketchType
  /\ ValidFlags(sk.flags)
  /\ DOMAIN sk.S = Sparse(sk, sk.B)
  /\ \A j \in Registers : sk.lowerBound <= Get(sk, j) /\ Get(sk, j) \in Value

\* Two objects present the same registers.
SameRanks(sk, t) == \A j \in Registers : Get(t, j) = Get(sk, j)

-----------------------------------------------------------------------------
LEMMA SparseMapsAre ==
  ASSUME NEW D \in SUBSET Registers, NEW f \in [D -> Value]
  PROVE  f \in SparseMaps
  BY DEF SparseMaps

\* There are m registers, and one of them is the first.
LEMMA RegistersFinite ==
  /\ IsFiniteSet(Registers)
  /\ Cardinality(Registers) = m
  /\ 0 \in Registers
  <1>1. m \in Nat /\ m >= 1
    BY SketchAssumption
  <1>2. 0 \in Int /\ m - 1 \in Int /\ ~(0 > m - 1) /\ m - 1 - 0 + 1 = m
    BY <1>1
  <1>3. IsFiniteSet(0 .. m - 1) /\ Cardinality(0 .. m - 1) = m
    BY <1>2, FS_Interval
  <1>4. 0 \in 0 .. m - 1
    BY <1>1
  <1> QED BY <1>3, <1>4 DEF Registers

\* The fields of an object, spelt out for the provers.
LEMMA SketchFields ==
  ASSUME NEW sk \in SketchType
  PROVE  /\ sk.M \in [Registers -> 0 .. maxOffset]
         /\ DOMAIN sk.S \in SUBSET Registers
         /\ sk.S \in [DOMAIN sk.S -> Value]
         /\ sk.B \in Value
         /\ sk.lowerBound \in Value
         /\ sk.flags \in SUBSET Flag
  BY DEF SketchType, SparseMaps

LEMMA RebasedType ==
  ASSUME NEW sk \in SketchType, NEW M1 \in [Registers -> 0 .. maxOffset],
         NEW S1 \in SparseMaps, NEW b \in Value, NEW n \in Nat
  PROVE  [sk EXCEPT !.M = M1, !.S = S1, !.B = b, !.rebaseCount = n] \in SketchType
  BY DEF SketchType

LEMMA GetType ==
  ASSUME NEW sk \in SketchType, NEW j \in Registers
  PROVE  Get(sk, j) \in Nat
  BY SketchFields, SketchAssumption DEF Get, Value

-----------------------------------------------------------------------------
\* rebase(newB): every value that fits the new window goes to M without loss,
\* every other to S.
LEMMA RebaseKeeps ==
  ASSUME NEW sk, RepOK(sk), NEW newB \in Value
  PROVE  /\ RepOK(Rebase(sk, newB))
         /\ SameRanks(sk, Rebase(sk, newB))
  <1> DEFINE M1 == [j \in Registers |->
                      IF InWindow(Get(sk, j), newB)
                      THEN (Get(sk, j) - newB) % (maxOffset + 1) ELSE sk.M[j]]
             S1 == [j \in Sparse(sk, newB) |-> Get(sk, j) % rLimit]
  <1>1. sk \in SketchType /\ \A j \in Registers : Get(sk, j) \in Value
    BY DEF RepOK
  <1>2. \A j \in Registers : Get(sk, j) % rLimit = Get(sk, j)
    BY <1>1, MaskFits, SketchAssumption DEF Value
  <1>3. \A j \in Registers : InWindow(Get(sk, j), newB) =>
          /\ Get(sk, j) - newB \in 0 .. maxOffset
          /\ (Get(sk, j) - newB) % (maxOffset + 1) = Get(sk, j) - newB
    <2> SUFFICES ASSUME NEW j \in Registers, InWindow(Get(sk, j), newB)
                 PROVE  /\ Get(sk, j) - newB \in 0 .. maxOffset
                        /\ (Get(sk, j) - newB) % (maxOffset + 1) = Get(sk, j) - newB
      OBVIOUS
    <2>1. Get(sk, j) - newB \in 0 .. maxOffset
      BY <1>1, SketchAssumption DEF InWindow, Value
    <2> QED BY <2>1, MaskFits, SketchAssumption
  <1>4. M1 \in [Registers -> 0 .. maxOffset]
    BY <1>1, <1>3, SketchFields
  <1>5. S1 \in SparseMaps /\ DOMAIN S1 = Sparse(sk, newB)
    <2>1. Sparse(sk, newB) \in SUBSET Registers
      BY DEF Sparse
    <2>2. S1 \in [Sparse(sk, newB) -> Value]
      BY <1>1, <1>2, <2>1
    <2> QED BY <2>1, <2>2, SparseMapsAre
  <1>6. PICK t : t = Rebase(sk, newB)
    OBVIOUS
  <1>7. t = [sk EXCEPT !.M = M1, !.S = S1, !.B = newB, !.rebaseCount = @ + 1]
    BY <1>6 DEF Rebase
  <1> HIDE DEF M1, S1
  <1>8. /\ t \in SketchType
        /\ t.M = M1 /\ t.S = S1 /\ t.B = newB
        /\ t.flags = sk.flags /\ t.lowerBound = sk.lowerBound
    <2>1. /\ t.M = M1 /\ t.S = S1 /\ t.B = newB
          /\ t.flags = sk.flags /\ t.lowerBound = sk.lowerBound
      BY <1>1, <1>7 DEF SketchType
    <2>2. sk.rebaseCount + 1 \in Nat
      BY <1>1 DEF SketchType
    <2>3. t \in SketchType
      BY <1>1, <1>4, <1>5, <1>7, <2>2, RebasedType
    <2> QED BY <2>1, <2>3
  <1>9. \A j \in Registers : Get(t, j) = Get(sk, j)
    BY <1>1, <1>2, <1>3, <1>5, <1>8, SketchAssumption DEF Get, Sparse, M1, S1, Value
  <1>10. DOMAIN t.S = Sparse(t, t.B)
    BY <1>5, <1>8, <1>9 DEF Sparse
  <1> QED BY <1>6, <1>8, <1>9, <1>10 DEF RepOK, SameRanks

-----------------------------------------------------------------------------
\* An object that differs from sk in its counts and its (sound) bound only.
LEMMA SameContents ==
  ASSUME NEW sk, RepOK(sk), NEW t \in SketchType,
         t.flags = sk.flags, t.M = sk.M, t.S = sk.S, t.B = sk.B,
         \A j \in Registers : t.lowerBound <= Get(sk, j)
  PROVE  RepOK(t) /\ SameRanks(sk, t)
  <1>1. \A j \in Registers : Get(t, j) = Get(sk, j)
    BY DEF Get
  <1>2. Sparse(t, t.B) = Sparse(sk, sk.B)
    BY <1>1 DEF Sparse
  <1> QED BY <1>1, <1>2 DEF RepOK, SameRanks

LEMMA SameRanksTrans ==
  ASSUME NEW sk, NEW t, NEW u, SameRanks(sk, t), SameRanks(t, u)
  PROVE  SameRanks(sk, u)
  BY DEF SameRanks

\* The lower bound the compress* loops compute is the smallest register.
LEMMA LowestIs ==
  ASSUME NEW sk, RepOK(sk)
  PROVE  /\ Lowest(sk) \in Value
         /\ \A j \in Registers : Lowest(sk) <= Get(sk, j)
         /\ \E j \in Registers : Get(sk, j) = Lowest(sk)
  <1> DEFINE T == {Get(sk, j) : j \in Registers} \cup {rLimit}
  <1>1. \A j \in Registers : Get(sk, j) \in Value
    BY DEF RepOK
  <1>2. T \in SUBSET Nat /\ T # {}
    BY <1>1, SketchAssumption DEF Value
  <1>3. Min(T) \in T /\ \A y \in T : Min(T) <= y
    BY <1>2, MinExists
  <1>4. 0 \in Registers
    BY SketchAssumption DEF Registers
  <1>5. Min(T) # rLimit
    <2>1. Get(sk, 0) \in 0 .. rLimit - 1 /\ Get(sk, 0) \in T
      BY <1>1, <1>4 DEF Value
    <2>2. Min(T) <= Get(sk, 0)
      BY <1>3, <2>1
    <2> HIDE DEF T
    <2> QED BY <2>1, <2>2, SketchAssumption
  <1> QED BY <1>1, <1>3, <1>5 DEF Lowest

\* compressFull() rebases to the value of some register, if at all.
LEMMA BestBaseIs ==
  ASSUME NEW sk, RepOK(sk)
  PROVE  BestBase(sk) \in Value
  <1> DEFINE C == Candidates(sk)
             T == {Cardinality(Sparse(sk, b)) : b \in C}
             U == {b \in C : Cardinality(Sparse(sk, b)) = FewestSparse(sk)}
  <1>1. sk.B \in Value /\ \A j \in Registers : Get(sk, j) \in Value
    BY SketchFields DEF RepOK
  <1>2. C \in SUBSET Value
    BY <1>1 DEF Candidates
  <1>3. CASE C # {}
    <2>1. \A b : Cardinality(Sparse(sk, b)) \in Nat
      <3>1. IsFiniteSet(Registers)
        BY RegistersFinite
      <3>2. \A b : Sparse(sk, b) \in SUBSET Registers
        BY DEF Sparse
      <3> QED BY <3>1, <3>2, FS_Subset, FS_CardinalityType
    <2>2. T \in SUBSET Nat /\ T # {}
      BY <1>3, <2>1
    <2>3. FewestSparse(sk) \in T
      BY <2>2, MinExists DEF FewestSparse
    <2>4. U # {} /\ U \in SUBSET Nat
      BY <1>2, <2>3 DEF Value
    <2>5. Min(U) \in U
      BY <2>4, MinExists
    <2> QED BY <1>2, <1>3, <2>5 DEF BestBase
  <1>4. CASE C = {}
    BY <1>1, <1>4 DEF BestBase
  <1> QED BY <1>3, <1>4

-----------------------------------------------------------------------------
LEMMA BoundedKeeps ==
  ASSUME NEW sk, RepOK(sk)
  PROVE  LET t == [sk EXCEPT !.lowerBound = Lowest(sk)]
         IN  RepOK(t) /\ SameRanks(sk, t)
  <1>1. PICK t : t = [sk EXCEPT !.lowerBound = Lowest(sk)]
    OBVIOUS
  <1>2. sk \in SketchType /\ Lowest(sk) \in Value
    BY LowestIs DEF RepOK
  <1>3. /\ t \in SketchType
        /\ t.flags = sk.flags /\ t.M = sk.M /\ t.S = sk.S /\ t.B = sk.B
        /\ t.lowerBound = Lowest(sk)
    BY <1>1, <1>2 DEF SketchType
  <1>4. RepOK(t) /\ SameRanks(sk, t)
    BY <1>3, LowestIs, SameContents
  <1> QED BY <1>1, <1>4

LEMMA CountedKeeps ==
  ASSUME NEW sk, RepOK(sk)
  PROVE  LET t == [sk EXCEPT !.lowerBound = Lowest(sk),
                             !.minValueCount =
                               Cardinality({j \in Registers : Get(sk, j) = Lowest(sk)})]
         IN  RepOK(t) /\ SameRanks(sk, t)
  <1> DEFINE low == {j \in Registers : Get(sk, j) = Lowest(sk)}
  <1>1. PICK t : t = [sk EXCEPT !.lowerBound = Lowest(sk), !.minValueCount = Cardinality(low)]
    OBVIOUS
  <1>2. sk \in SketchType /\ Lowest(sk) \in Value
    BY LowestIs DEF RepOK
  <1>3. Cardinality(low) \in Int
    <2>1. IsFiniteSet(Registers) /\ low \in SUBSET Registers
      BY RegistersFinite
    <2> QED BY <2>1, FS_Subset, FS_CardinalityType
  <1> HIDE DEF low
  <1>4. /\ t \in SketchType
        /\ t.flags = sk.flags /\ t.M = sk.M /\ t.S = sk.S /\ t.B = sk.B
        /\ t.lowerBound = Lowest(sk)
    BY <1>1, <1>2, <1>3 DEF SketchType
  <1>5. RepOK(t) /\ SameRanks(sk, t)
    BY <1>4, LowestIs, SameContents
  <1> QED BY <1>1, <1>5 DEF low

\* compressIncrease() never rebases to the limit its search starts from: with
\* that base every register would be sparse, and S cannot hold more.
LEMMA NextValueIs ==
  ASSUME NEW sk, RepOK(sk),
         Cardinality(Sparse(sk, NextValue(sk))) < Cardinality(DOMAIN sk.S)
  PROVE  NextValue(sk) \in Value
  <1> DEFINE above == {r \in {Get(sk, j) : j \in Registers} : sk.B < r}
             T     == above \cup {rLimit}
  <1>1. /\ sk.B \in Value /\ DOMAIN sk.S \in SUBSET Registers
        /\ \A j \in Registers : Get(sk, j) \in Value
    BY SketchFields DEF RepOK
  <1>2. T \in SUBSET Nat /\ T # {}
    BY <1>1, SketchAssumption DEF Value
  <1>3. NextValue(sk) \in T
    BY <1>2, MinExists DEF NextValue
  <1>4. NextValue(sk) # rLimit
    <2> SUFFICES ASSUME NextValue(sk) = rLimit PROVE FALSE
      OBVIOUS
    <2>1. Sparse(sk, rLimit) = Registers
      BY <1>1, SketchAssumption DEF Sparse, InWindow, Value
    <2>2. IsFiniteSet(Registers)
      BY RegistersFinite
    <2>3. /\ Cardinality(DOMAIN sk.S) <= Cardinality(Registers)
          /\ Cardinality(DOMAIN sk.S) \in Nat /\ Cardinality(Registers) \in Nat
      BY <1>1, <2>2, FS_Subset, FS_CardinalityType
    <2> QED BY <2>1, <2>3
  <1> QED BY <1>1, <1>3, <1>4

LEMMA CompressFullKeeps ==
  ASSUME NEW sk, RepOK(sk)
  PROVE  RepOK(CompressFull(sk)) /\ SameRanks(sk, CompressFull(sk))
  <1>1. PICK t : t = [sk EXCEPT !.lowerBound = Lowest(sk)]
    OBVIOUS
  <1>2. RepOK(t) /\ SameRanks(sk, t)
    BY <1>1, BoundedKeeps
  <1>3. RepOK(Rebase(t, BestBase(sk))) /\ SameRanks(t, Rebase(t, BestBase(sk)))
    BY <1>2, BestBaseIs, RebaseKeeps
  <1>4. SameRanks(sk, Rebase(t, BestBase(sk)))
    BY <1>2, <1>3, SameRanksTrans
  <1> QED BY <1>1, <1>2, <1>3, <1>4 DEF CompressFull

LEMMA CompressIncreaseKeeps ==
  ASSUME NEW sk, RepOK(sk)
  PROVE  RepOK(CompressIncrease(sk)) /\ SameRanks(sk, CompressIncrease(sk))
  <1>1. PICK t : t = [sk EXCEPT !.lowerBound = Lowest(sk)]
    OBVIOUS
  <1>2. RepOK(t) /\ SameRanks(sk, t)
    BY <1>1, BoundedKeeps
  <1>3. CASE Cardinality(Sparse(sk, NextValue(sk))) < Cardinality(DOMAIN sk.S)
    <2>1. /\ RepOK(Rebase(t, NextValue(sk)))
          /\ SameRanks(t, Rebase(t, NextValue(sk)))
      BY <1>2, <1>3, NextValueIs, RebaseKeeps
    <2>2. SameRanks(sk, Rebase(t, NextValue(sk)))
      BY <1>2, <2>1, SameRanksTrans
    <2> QED BY <1>1, <1>3, <2>1, <2>2 DEF CompressIncrease
  <1>4. CASE ~(Cardinality(Sparse(sk, NextValue(sk))) < Cardinality(DOMAIN sk.S))
    BY <1>1, <1>2, <1>4 DEF CompressIncrease
  <1> QED BY <1>3, <1>4

LEMMA CompressBottomKeeps ==
  ASSUME NEW sk, RepOK(sk)
  PROVE  RepOK(CompressBottom(sk)) /\ SameRanks(sk, CompressBottom(sk))
  <1>1. PICK t : t = [sk EXCEPT !.lowerBound = Lowest(sk),
                                !.minValueCount =
                                  Cardinality({j \in Registers : Get(sk, j) = Lowest(sk)})]
    OBVIOUS
  <1>2. RepOK(t) /\ SameRanks(sk, t)
    BY <1>1, CountedKeeps
  <1>3. RepOK(Rebase(t, Lowest(sk))) /\ SameRanks(t, Rebase(t, Lowest(sk)))
    BY <1>2, LowestIs, RebaseKeeps
  <1>4. SameRanks(sk, Rebase(t, Lowest(sk)))
    BY <1>2, <1>3, SameRanksTrans
  <1> QED BY <1>1, <1>2, <1>3, <1>4 DEF CompressBottom

\* Compression, in any mode, is invisible in the registers.
LEMMA CompressKeeps ==
  ASSUME NEW sk, RepOK(sk)
  PROVE  RepOK(Compress(sk)) /\ SameRanks(sk, Compress(sk))
  <1> DEFINE done == IF "TYPE_FULL" \in sk.flags THEN CompressFull(sk)
                     ELSE IF "TYPE_INCREASE" \in sk.flags THEN CompressIncrease(sk)
                     ELSE CompressBottom(sk)
  <1>1. RepOK(done) /\ SameRanks(sk, done)
    BY CompressFullKeeps, CompressIncreaseKeeps, CompressBottomKeeps
  <1> HIDE DEF done
  <1>2. PICK t : t = [done EXCEPT !.compressCount = @ + 1]
    OBVIOUS
  <1>3. done \in SketchType
    BY <1>1 DEF RepOK
  <1>4. /\ t \in SketchType
        /\ t.flags = done.flags /\ t.M = done.M /\ t.S = done.S /\ t.B = done.B
        /\ t.lowerBound = done.lowerBound
    BY <1>2, <1>3 DEF SketchType
  <1>5. RepOK(t) /\ SameRanks(done, t)
    BY <1>1, <1>4, SameContents DEF RepOK
  <1>6. SameRanks(sk, t)
    BY <1>1, <1>5, SameRanksTrans
  <1> QED BY <1>2, <1>5, <1>6 DEF Compress, done

-----------------------------------------------------------------------------
\* The masks of the two containers lose nothing of what addJr puts there.
LEMMA PutIs ==
  ASSUME NEW M \in [Registers -> 0 .. maxOffset], NEW j \in Registers,
         NEW e \in 0 .. maxOffset
  PROVE  /\ Put(M, j, e) \in [Registers -> 0 .. maxOffset]
         /\ \A i \in Registers : Put(M, j, e)[i] = IF i = j THEN e ELSE M[i]
  <1>1. e % (maxOffset + 1) = e
    BY MaskFits, SketchAssumption
  <1> QED BY <1>1 DEF Put

LEMMA AddSparseIs ==
  ASSUME NEW S, DOMAIN S \in SUBSET Registers, S \in [DOMAIN S -> Value],
         NEW j \in Registers, NEW r \in Value
  PROVE  AddSparse(S, j, r) \in SparseMaps
  <1>1. r % rLimit = r
    BY MaskFits, SketchAssumption DEF Value
  <1>2. AddSparse(S, j, r) \in [DOMAIN S \cup {j} -> Value]
    BY <1>1 DEF AddSparse
  <1>3. DOMAIN S \cup {j} \in SUBSET Registers
    OBVIOUS
  <1> QED BY <1>2, <1>3, SparseMapsAre

LEMMA EraseSparseIs ==
  ASSUME NEW S, DOMAIN S \in SUBSET Registers, S \in [DOMAIN S -> Value],
         NEW j \in Registers
  PROVE  /\ EraseSparse(S, j) \in SparseMaps
         /\ DOMAIN EraseSparse(S, j) = DOMAIN S \ {j}
         /\ \A i \in DOMAIN S \ {j} : EraseSparse(S, j)[i] = S[i]
  <1>1. EraseSparse(S, j) \in [DOMAIN S \ {j} -> Value]
    BY DEF EraseSparse
  <1>2. DOMAIN S \ {j} \in SUBSET Registers
    OBVIOUS
  <1>3. EraseSparse(S, j) \in SparseMaps
    BY <1>1, <1>2, SparseMapsAre
  <1> QED BY <1>1, <1>3 DEF EraseSparse

\* Store, field by field.
LEMMA StoreFields ==
  ASSUME NEW sk \in SketchType, NEW j \in Registers, NEW r \in Value
  PROVE  LET t == Store(sk, j, r)
         IN  /\ t \in SketchType
             /\ t.flags = sk.flags /\ t.B = sk.B /\ t.lowerBound = sk.lowerBound
             /\ InWindow(r, sk.B) => /\ t.M = Put(sk.M, j, r - sk.B)
                                     /\ t.S = EraseSparse(sk.S, j)
             /\ ~InWindow(r, sk.B) => /\ t.M = sk.M
                                      /\ t.S = AddSparse(sk.S, j, r)
  <1>1. PICK u : u = IF InWindow(r, sk.B)
                     THEN [sk EXCEPT !.S = EraseSparse(@, j), !.M = Put(@, j, r - sk.B)]
                     ELSE [sk EXCEPT !.S = AddSparse(@, j, r)]
    OBVIOUS
  <1>2. PICK n : n = IF Get(sk, j) = sk.lowerBound THEN u.minValueCount - 1
                     ELSE u.minValueCount
    OBVIOUS
  <1>3. /\ u \in SketchType
        /\ u.flags = sk.flags /\ u.B = sk.B /\ u.lowerBound = sk.lowerBound
        /\ InWindow(r, sk.B) => /\ u.M = Put(sk.M, j, r - sk.B)
                                /\ u.S = EraseSparse(sk.S, j)
        /\ ~InWindow(r, sk.B) => /\ u.M = sk.M
                                 /\ u.S = AddSparse(sk.S, j, r)
    <2>1. CASE InWindow(r, sk.B)
      <3>1. r - sk.B \in 0 .. maxOffset
        BY <2>1, SketchFields, SketchAssumption DEF InWindow, Value
      <3>2. Put(sk.M, j, r - sk.B) \in [Registers -> 0 .. maxOffset]
        BY <3>1, SketchFields, PutIs
      <3>3. EraseSparse(sk.S, j) \in SparseMaps
        BY SketchFields, EraseSparseIs
      <3> QED BY <1>1, <2>1, <3>2, <3>3 DEF SketchType
    <2>2. CASE ~InWindow(r, sk.B)
      <3>1. AddSparse(sk.S, j, r) \in SparseMaps
        BY SketchFields, AddSparseIs
      <3> QED BY <1>1, <2>2, <3>1 DEF SketchType
    <2> QED BY <2>1, <2>2
  <1>4. n \in Int
    BY <1>2, <1>3 DEF SketchType
  <1>5. PICK t : t = [u EXCEPT !.minValueCount = n]
    OBVIOUS
  <1>6. /\ t \in SketchType
        /\ t.flags = u.flags /\ t.B = u.B /\ t.lowerBound = u.lowerBound
        /\ t.M = u.M /\ t.S = u.S
    BY <1>3, <1>4, <1>5 DEF SketchType
  <1>7. t = Store(sk, j, r)
    BY <1>1, <1>2, <1>5 DEF Store
  <1> QED BY <1>3, <1>6, <1>7

\* The body of "if (r0 < r)" gives register j the value r and no other
\* register another value.
LEMMA StoreSets ==
  ASSUME NEW sk, RepOK(sk), NEW j \in Registers, NEW r \in Value, Get(sk, j) < r
  PROVE  /\ RepOK(Store(sk, j, r))
         /\ \A i \in Registers :
              Get(Store(sk, j, r), i) = IF i = j THEN r ELSE Get(sk, i)
  <1>1. PICK t : t = Store(sk, j, r)
    OBVIOUS
  <1>2. sk \in SketchType /\ DOMAIN sk.S = Sparse(sk, sk.B)
    BY DEF RepOK
  <1>3. /\ t \in SketchType
        /\ t.flags = sk.flags /\ t.B = sk.B /\ t.lowerBound = sk.lowerBound
        /\ InWindow(r, sk.B) => /\ t.M = Put(sk.M, j, r - sk.B)
                                /\ t.S = EraseSparse(sk.S, j)
        /\ ~InWindow(r, sk.B) => /\ t.M = sk.M
                                 /\ t.S = AddSparse(sk.S, j, r)
    BY <1>1, <1>2, StoreFields
  <1>4. DOMAIN sk.S \in SUBSET Registers /\ sk.S \in [DOMAIN sk.S -> Value]
    BY <1>2, SketchFields
  <1>5. /\ \A i \in Registers : Get(t, i) = IF i = j THEN r ELSE Get(sk, i)
        /\ DOMAIN t.S = IF InWindow(r, sk.B) THEN DOMAIN sk.S \ {j}
                        ELSE DOMAIN sk.S \cup {j}
    <2>1. CASE InWindow(r, sk.B)
      <3>1. r - sk.B \in 0 .. maxOffset /\ r - sk.B + sk.B = r
        BY <1>2, <2>1, SketchFields, SketchAssumption DEF InWindow, Value
      <3>2. \A i \in Registers : t.M[i] = IF i = j THEN r - sk.B ELSE sk.M[i]
        <4>1. sk.M \in [Registers -> 0 .. maxOffset]
          BY <1>2, SketchFields
        <4>2. t.M = Put(sk.M, j, r - sk.B)
          BY <1>3, <2>1
        <4> QED BY <3>1, <4>1, <4>2, PutIs
      <3>3. /\ DOMAIN t.S = DOMAIN sk.S \ {j}
            /\ \A i \in DOMAIN t.S : t.S[i] = sk.S[i]
        <4>1. t.S = EraseSparse(sk.S, j)
          BY <1>3, <2>1
        <4>2. /\ DOMAIN EraseSparse(sk.S, j) = DOMAIN sk.S \ {j}
              /\ \A i \in DOMAIN sk.S \ {j} : EraseSparse(sk.S, j)[i] = sk.S[i]
          BY <1>4, EraseSparseIs
        <4> QED BY <4>1, <4>2
      <3> QED BY <1>3, <2>1, <3>1, <3>2, <3>3 DEF Get
    <2>2. CASE ~InWindow(r, sk.B)
      <3>1. /\ DOMAIN t.S = DOMAIN sk.S \cup {j}
            /\ \A i \in DOMAIN t.S : t.S[i] = IF i = j THEN r ELSE sk.S[i]
        <4>1. t.S = AddSparse(sk.S, j, r)
          BY <1>3, <2>2
        <4>2. /\ DOMAIN AddSparse(sk.S, j, r) = DOMAIN sk.S \cup {j}
              /\ AddSparse(sk.S, j, r)[j] = r
              /\ \A i \in DOMAIN sk.S \ {j} : AddSparse(sk.S, j, r)[i] = sk.S[i]
          <5>1. r % rLimit = r
            BY MaskFits, SketchAssumption DEF Value
          <5> QED BY <5>1 DEF AddSparse
        <4> QED BY <4>1, <4>2
      <3> QED BY <1>3, <2>2, <3>1 DEF Get
    <2> QED BY <2>1, <2>2
  <1>6. DOMAIN t.S = Sparse(t, t.B)
    BY <1>2, <1>3, <1>5 DEF Sparse
  <1>7. \A i \in Registers : t.lowerBound <= Get(t, i) /\ Get(t, i) \in Value
    BY <1>3, <1>5, SketchFields, <1>2 DEF RepOK, Value
  <1>8. RepOK(t)
    BY <1>3, <1>6, <1>7 DEF RepOK
  <1> QED BY <1>1, <1>5, <1>8

\* addJr: register j takes the larger of its value and r; the early return
\* for ranks at or below the lower bound is one that changes nothing.
LEMMA AddJrSets ==
  ASSUME NEW sk, RepOK(sk), NEW j \in Registers, NEW r \in Value
  PROVE  /\ RepOK(AddJr(sk, j, r))
         /\ \A i \in Registers :
              Get(AddJr(sk, j, r), i) = IF i = j THEN Larger(Get(sk, j), r) ELSE Get(sk, i)
  <1> DEFINE after == IF Get(sk, j) < r THEN Store(sk, j, r) ELSE sk
             Sets(t) == \A i \in Registers :
                          Get(t, i) = IF i = j THEN Larger(Get(sk, j), r) ELSE Get(sk, i)
  <1>1. /\ sk.lowerBound \in Nat /\ r \in Nat
        /\ \A i \in Registers : Get(sk, i) \in Nat /\ sk.lowerBound <= Get(sk, i)
    BY SketchFields, SketchAssumption DEF RepOK, Value
  <1>2. RepOK(after) /\ Sets(after)
    <2>1. CASE Get(sk, j) < r
      BY <2>1, StoreSets DEF Larger
    <2>2. CASE ~(Get(sk, j) < r)
      BY <1>1, <2>2 DEF Larger
    <2> QED BY <2>1, <2>2
  <1>3. RepOK(Compress(after)) /\ Sets(Compress(after))
    <2>1. RepOK(Compress(after)) /\ SameRanks(after, Compress(after))
      BY <1>2, CompressKeeps
    <2> QED BY <1>2, <2>1 DEF SameRanks
  <1>4. r <= sk.lowerBound => Sets(sk)
    BY <1>1 DEF Larger
  <1>5. AddJr(sk, j, r) = IF r <= sk.lowerBound THEN sk
                          ELSE IF MustCompress(sk, after, j, r) THEN Compress(after)
                          ELSE after
    BY DEF AddJr
  <1> HIDE DEF after
  <1>6. CASE r <= sk.lowerBound
    BY <1>4, <1>5, <1>6
  <1>7. CASE ~(r <= sk.lowerBound)
    BY <1>2, <1>3, <1>5, <1>7
  <1> QED BY <1>6, <1>7

-----------------------------------------------------------------------------
LEMMA NormalisedValid ==
  ASSUME NEW flags \in SUBSET Flag, ValidFlags(flags)
  PROVE  Normalised(flags) = flags
  BY DEF ValidFlags, Normalised, WithType, WithWhen, Flag

LEMMA NewSketchIs ==
  ASSUME NEW flags \in SUBSET Flag, ValidFlags(flags)
  PROVE  /\ RepOK(NewSketch(flags))
         /\ \A j \in Registers : Get(NewSketch(flags), j) = 0
  <1>1. PICK t : t = NewSketch(flags)
    OBVIOUS
  <1>2. PICK S0 : S0 = [j \in {} |-> 0]
    OBVIOUS
  <1>3. S0 \in SparseMaps /\ DOMAIN S0 = {}
    <2>1. S0 \in [{} -> Value] /\ {} \in SUBSET Registers
      BY <1>2
    <2> QED BY <2>1, SparseMapsAre
  <1>4. 0 \in Value /\ 0 \in 0 .. maxOffset /\ m \in Int
    BY SketchAssumption DEF Value
  <1>5. /\ t \in SketchType
        /\ t.flags = flags /\ t.S = S0 /\ t.B = 0 /\ t.lowerBound = 0
        /\ t.M = [j \in Registers |-> 0]
    BY <1>1, <1>2, <1>3, <1>4 DEF NewSketch, SketchType
  <1>6. \A j \in Registers : Get(t, j) = 0
    BY <1>3, <1>5 DEF Get
  <1>7. Sparse(t, t.B) = {}
    BY <1>5, <1>6, SketchAssumption DEF Sparse, InWindow
  <1> QED BY <1>1, <1>3, <1>4, <1>5, <1>6, <1>7 DEF RepOK

\* The copy loops of merge(): a register that neither S holds fits the larger
\* window, so storing it in M unchecked loses nothing.
LEMMA JoinedIs ==
  ASSUME NEW sk, RepOK(sk), NEW that, RepOK(that)
  PROVE  /\ RepOK(Joined(sk, that))
         /\ \A j \in Registers : Get(Joined(sk, that), j) = JoinedRank(sk, that, j)
  <1> DEFINE b  == JoinedBase(sk, that)
             D  == JoinedSparse(sk, that)
             M1 == [j \in Registers |->
                      IF j \in D THEN 0
                      ELSE (JoinedRank(sk, that, j) - b) % (maxOffset + 1)]
             S1 == [j \in D |-> JoinedRank(sk, that, j) % rLimit]
  <1>1. /\ sk \in SketchType /\ that \in SketchType
        /\ DOMAIN sk.S = Sparse(sk, sk.B) /\ DOMAIN that.S = Sparse(that, that.B)
        /\ sk.B \in Value /\ that.B \in Value
        /\ DOMAIN sk.S \in SUBSET Registers /\ DOMAIN that.S \in SUBSET Registers
        /\ \A j \in Registers : Get(sk, j) \in Value /\ Get(that, j) \in Value
    BY SketchFields DEF RepOK
  <1>2. b \in Value /\ \A j \in Registers : JoinedRank(sk, that, j) \in Value
    BY <1>1 DEF JoinedBase, JoinedRank, Larger
  <1>3. D \in SUBSET Registers
    BY <1>1 DEF JoinedSparse
  <1>4. \A j \in Registers : j \in D <=> ~InWindow(JoinedRank(sk, that, j), b)
    <2>1. ASSUME NEW j \in Registers, j \notin DOMAIN sk.S, j \notin DOMAIN that.S
          PROVE  InWindow(JoinedRank(sk, that, j), b)
      <3>1. InWindow(Get(sk, j), sk.B) /\ InWindow(Get(that, j), that.B)
        BY <1>1, <2>1 DEF Sparse
      <3> QED BY <1>1, <3>1, SketchAssumption
              DEF InWindow, JoinedRank, JoinedBase, Larger, Value
    <2> QED BY <2>1 DEF JoinedSparse
  <1>5. \A j \in Registers : j \notin D =>
          /\ JoinedRank(sk, that, j) - b \in 0 .. maxOffset
          /\ (JoinedRank(sk, that, j) - b) % (maxOffset + 1) = JoinedRank(sk, that, j) - b
    <2> SUFFICES ASSUME NEW j \in Registers, j \notin D
                 PROVE  /\ JoinedRank(sk, that, j) - b \in 0 .. maxOffset
                        /\ (JoinedRank(sk, that, j) - b) % (maxOffset + 1)
                             = JoinedRank(sk, that, j) - b
      OBVIOUS
    <2>1. JoinedRank(sk, that, j) - b \in 0 .. maxOffset
      BY <1>2, <1>4, SketchAssumption DEF InWindow, Value
    <2> QED BY <2>1, MaskFits, SketchAssumption
  <1>6. \A j \in Registers : JoinedRank(sk, that, j) % rLimit = JoinedRank(sk, that, j)
    BY <1>2, MaskFits, SketchAssumption DEF Value
  <1> HIDE DEF b, D
  <1>7. M1 \in [Registers -> 0 .. maxOffset]
    BY <1>5, SketchAssumption
  <1>8. S1 \in SparseMaps /\ DOMAIN S1 = D
    <2>1. S1 \in [D -> Value]
      BY <1>2, <1>3, <1>6
    <2> QED BY <1>3, <2>1, SparseMapsAre
  <1>9. PICK n : n = NewSketch(Normalised(sk.flags))
    OBVIOUS
  <1>10. PICK t : t = [n EXCEPT !.B = b, !.M = M1, !.S = S1]
    OBVIOUS
  <1>11. t = Joined(sk, that)
    BY <1>9, <1>10 DEF Joined, b, D
  <1> HIDE DEF M1, S1
  <1>12. sk.flags \in SUBSET Flag /\ ValidFlags(sk.flags)
    BY <1>1, SketchFields DEF RepOK
  <1>13. n \in SketchType /\ n.flags = sk.flags /\ n.lowerBound = 0
    <2>1. RepOK(n)
      BY <1>9, <1>12, NormalisedValid, NewSketchIs
    <2>2. n.flags = sk.flags /\ n.lowerBound = 0
      BY <1>9, <1>12, NormalisedValid DEF NewSketch
    <2> QED BY <2>1, <2>2 DEF RepOK
  <1>14. /\ t \in SketchType
         /\ t.flags = sk.flags /\ t.lowerBound = 0
         /\ t.B = b /\ t.M = M1 /\ t.S = S1
    BY <1>2, <1>7, <1>8, <1>10, <1>13 DEF SketchType
  <1>15. \A j \in Registers : Get(t, j) = JoinedRank(sk, that, j)
    <2> TAKE j \in Registers
    <2>1. CASE j \in D
      BY <1>6, <1>8, <1>14, <2>1 DEF Get, S1
    <2>2. CASE j \notin D
      <3>1. M1[j] = JoinedRank(sk, that, j) - b
        BY <1>5, <2>2 DEF M1
      <3> QED BY <1>2, <1>8, <1>14, <2>2, <3>1, SketchAssumption DEF Get, Value
    <2> QED BY <2>1, <2>2
  <1>16. DOMAIN t.S = Sparse(t, t.B)
    BY <1>3, <1>4, <1>8, <1>14, <1>15 DEF Sparse
  <1> QED BY <1>2, <1>11, <1>12, <1>14, <1>15, <1>16, SketchAssumption DEF RepOK, Value

LEMMA MergeIs ==
  ASSUME NEW sk, RepOK(sk), NEW that, RepOK(that)
  PROVE  /\ RepOK(Merge(sk, that))
         /\ \A j \in Registers :
              Get(Merge(sk, that), j) = Larger(Get(sk, j), Get(that, j))
  <1>1. /\ RepOK(Joined(sk, that))
        /\ \A j \in Registers : Get(Joined(sk, that), j) = JoinedRank(sk, that, j)
    BY JoinedIs
  <1>2. RepOK(Merge(sk, that)) /\ SameRanks(Joined(sk, that), Merge(sk, that))
    BY <1>1, CompressKeeps DEF Merge
  <1> QED BY <1>1, <1>2 DEF SameRanks, JoinedRank

-----------------------------------------------------------------------------
\* Every set of registers has a size, at most m.
LEMMA RegistersCounted ==
  ASSUME NEW D \in SUBSET Registers
  PROVE  IsFiniteSet(D) /\ Cardinality(D) \in 0 .. m
  <1>1. IsFiniteSet(Registers) /\ Cardinality(Registers) = m
    BY RegistersFinite
  <1>2. IsFiniteSet(D) /\ Cardinality(D) <= m /\ Cardinality(D) \in Nat
    BY <1>1, FS_Subset, FS_CardinalityType
  <1> QED BY <1>2, SketchAssumption

LEMMA SparseCounted ==
  ASSUME NEW sk, NEW b
  PROVE  Cardinality(Sparse(sk, b)) \in 0 .. m
  BY RegistersCounted DEF Sparse

\* What S would hold depends on the presented values alone.
LEMMA SameSparse ==
  ASSUME NEW sk, NEW t, SameRanks(sk, t), NEW b
  PROVE  Sparse(t, b) = Sparse(sk, b)
  BY DEF SameRanks, Sparse

\* The fields that rebase() sets, and those it leaves alone.
LEMMA RebaseFields ==
  ASSUME NEW sk \in SketchType, NEW newB
  PROVE  LET t == Rebase(sk, newB)
         IN  /\ t.B = newB /\ DOMAIN t.S = Sparse(sk, newB)
             /\ t.flags = sk.flags /\ t.lowerBound = sk.lowerBound
             /\ t.minValueCount = sk.minValueCount
             /\ t.compressCount = sk.compressCount
             /\ t.rebaseCount = sk.rebaseCount + 1
  <1>1. PICK S1 : S1 = [j \in Sparse(sk, newB) |-> Get(sk, j) % rLimit]
    OBVIOUS
  <1>2. PICK M1 : M1 = [j \in Registers |->
                          IF InWindow(Get(sk, j), newB)
                          THEN (Get(sk, j) - newB) % (maxOffset + 1) ELSE sk.M[j]]
    OBVIOUS
  <1>3. Rebase(sk, newB) = [sk EXCEPT !.M = M1, !.S = S1, !.B = newB, !.rebaseCount = @ + 1]
    BY <1>1, <1>2 DEF Rebase
  <1>4. DOMAIN S1 = Sparse(sk, newB)
    BY <1>1
  <1> QED BY <1>3, <1>4 DEF SketchType

\* compressFull() leaves S no larger than any base among the values would,
\* and moves the base only to make S strictly smaller.
LEMMA CompressFullIs ==
  ASSUME NEW sk, RepOK(sk)
  PROVE  LET t == CompressFull(sk)
         IN  /\ \A j \in Registers :
                  Cardinality(DOMAIN t.S) <= Cardinality(Sparse(sk, Get(sk, j)))
             /\ t.B # sk.B => Cardinality(DOMAIN t.S) < Cardinality(DOMAIN sk.S)
  <1> DEFINE Size(b) == Cardinality(Sparse(sk, b))
             C       == Candidates(sk)
             T       == {Size(b) : b \in C}
             U       == {b \in C : Size(b) = FewestSparse(sk)}
  <1>1. /\ sk \in SketchType /\ sk.B \in Value /\ DOMAIN sk.S = Sparse(sk, sk.B)
        /\ \A j \in Registers : Get(sk, j) \in Value
    BY SketchFields DEF RepOK
  <1>2. C \in SUBSET Nat /\ \A b \in C : Size(b) < Cardinality(DOMAIN sk.S)
    BY <1>1 DEF Candidates, Value
  <1>3. \A b : Size(b) \in Nat
    BY SparseCounted
  <1>4. \A j \in Registers : Get(sk, j) \in C \/ Cardinality(DOMAIN sk.S) <= Size(Get(sk, j))
    BY <1>1, <1>3, SketchAssumption DEF Candidates, Value
  <1>5. CASE C = {}
    <2>1. BestBase(sk) = sk.B
      BY <1>5 DEF BestBase
    <2>2. CompressFull(sk) = [sk EXCEPT !.lowerBound = Lowest(sk)]
      BY <2>1 DEF CompressFull
    <2>3. CompressFull(sk).S = sk.S /\ CompressFull(sk).B = sk.B
      BY <1>1, <2>2 DEF SketchType
    <2> QED BY <1>4, <1>5, <2>3
  <1>6. CASE C # {}
    <2>1. FewestSparse(sk) \in T /\ \A n \in T : FewestSparse(sk) <= n
      <3>1. T \in SUBSET Nat /\ T # {}
        BY <1>3, <1>6
      <3> QED BY <3>1, MinExists DEF FewestSparse
    <2>2. BestBase(sk) \in U
      <3>1. U # {} /\ U \in SUBSET Nat
        BY <1>2, <2>1
      <3>2. BestBase(sk) = Min(U)
        BY <1>6 DEF BestBase
      <3> QED BY <3>1, <3>2, MinExists
    <2>3. PICK b : b = BestBase(sk)
      OBVIOUS
    <2>4. /\ b \in C /\ Size(b) < Cardinality(DOMAIN sk.S)
          /\ \A c \in C : Size(b) <= Size(c)
      BY <1>2, <2>1, <2>2, <2>3
    <2>5. b # sk.B
      BY <1>1, <1>3, <2>4
    <2>6. PICK u : u = [sk EXCEPT !.lowerBound = Lowest(sk)]
      OBVIOUS
    <2>7. RepOK(u) /\ SameRanks(sk, u)
      BY <2>6, BoundedKeeps
    <2>8. CompressFull(sk) = Rebase(u, b)
      BY <2>3, <2>5, <2>6 DEF CompressFull
    <2>9. DOMAIN CompressFull(sk).S = Sparse(sk, b)
      BY <2>7, <2>8, RebaseFields, SameSparse DEF RepOK
    <2>10. Cardinality(DOMAIN sk.S) \in Nat
      BY <1>1, SparseCounted
    <2> HIDE DEF C
    <2> QED BY <1>3, <1>4, <2>4, <2>9, <2>10
  <1> QED BY <1>5, <1>6

\* No base whatever needs fewer sparse registers than the best base among the
\* values: its window could start at the lowest value it covers.
LEMMA ValuesSuffice ==
  ASSUME NEW sk, RepOK(sk), NEW b \in Value, Sparse(sk, b) # Registers
  PROVE  \E j \in Registers : Cardinality(Sparse(sk, Get(sk, j))) <= Cardinality(Sparse(sk, b))
  <1> DEFINE T == {Get(sk, j) : j \in Registers \ Sparse(sk, b)}
  <1>1. \A j \in Registers : Get(sk, j) \in Value
    BY DEF RepOK
  <1>2. T \in SUBSET Nat /\ T # {}
    BY <1>1 DEF Value, Sparse
  <1>3. PICK i \in Registers \ Sparse(sk, b) :
          \A j \in Registers \ Sparse(sk, b) : Get(sk, i) <= Get(sk, j)
    <2>1. Min(T) \in T /\ \A n \in T : Min(T) <= n
      <3> HIDE DEF T
      <3> QED BY <1>2, MinExists
    <2> QED BY <2>1
  <1>4. Sparse(sk, Get(sk, i)) \subseteq Sparse(sk, b)
    <2> SUFFICES ASSUME NEW j \in Registers, j \notin Sparse(sk, b)
                 PROVE  InWindow(Get(sk, j), Get(sk, i))
      BY DEF Sparse
    <2>1. InWindow(Get(sk, j), b) /\ InWindow(Get(sk, i), b) /\ Get(sk, i) <= Get(sk, j)
      BY <1>3 DEF Sparse
    <2> QED BY <1>1, <2>1, SketchAssumption DEF InWindow, Value
  <1>5. IsFiniteSet(Sparse(sk, b))
    BY RegistersCounted DEF Sparse
  <1> QED BY <1>4, <1>5, FS_Subset

\* S is as small as minimumBits() says it can be.
Optimal(sk) == Cardinality(DOMAIN sk.S) = MinimumSparse(sk)

\* compressFull() reaches the least size that any base allows.
LEMMA CompressFullOptimal ==
  ASSUME NEW sk, RepOK(sk)
  PROVE  Optimal(CompressFull(sk))
  <1>1. PICK t : t = CompressFull(sk)
    OBVIOUS
  <1>2. RepOK(t) /\ SameRanks(sk, t)
    BY <1>1, CompressFullKeeps
  <1> DEFINE Size(b) == Cardinality(Sparse(t, b))
             T       == {Size(b) : b \in {Get(t, j) : j \in Registers}} \cup {m}
  <1>3. /\ DOMAIN t.S = Sparse(t, t.B) /\ t.B \in Value
        /\ Cardinality(DOMAIN t.S) \in 0 .. m
    BY <1>2, SketchFields, SparseCounted DEF RepOK
  <1>4. \A j \in Registers : Cardinality(DOMAIN t.S) <= Size(Get(t, j))
    <2>1. \A j \in Registers : Sparse(t, Get(t, j)) = Sparse(sk, Get(sk, j))
      BY <1>2, SameSparse DEF SameRanks
    <2> QED BY <1>1, <2>1, CompressFullIs
  <1>5. T \in SUBSET Nat /\ T # {}
    BY SparseCounted, SketchAssumption
  <1>6. Cardinality(DOMAIN t.S) \in T
    <2>1. CASE Sparse(t, t.B) = Registers
      <3>1. Cardinality(Registers) = m
        BY RegistersFinite
      <3> QED BY <1>3, <2>1, <3>1
    <2>2. CASE Sparse(t, t.B) # Registers
      <3>1. PICK j \in Registers : Size(Get(t, j)) <= Size(t.B)
        BY <1>2, <1>3, <2>2, ValuesSuffice
      <3>2. Size(Get(t, j)) = Cardinality(DOMAIN t.S)
        BY <1>3, <1>4, <3>1, SparseCounted
      <3> QED BY <3>2
    <2> QED BY <2>1, <2>2
  <1>7. \A n \in T : Cardinality(DOMAIN t.S) <= n
    BY <1>3, <1>4
  <1>8. Min(T) \in T /\ \A n \in T : Min(T) <= n
    BY <1>5, MinExists
  <1>9. Min(T) = Cardinality(DOMAIN t.S)
    <2> HIDE DEF T
    <2>1. Min(T) \in Nat /\ Cardinality(DOMAIN t.S) \in Nat
      BY <1>5, <1>6, <1>8
    <2> QED BY <1>6, <1>7, <1>8, <2>1
  <1> QED BY <1>1, <1>9 DEF Optimal, MinimumSparse

-----------------------------------------------------------------------------
\* Store() in terms of the size of S and of the counts.
LEMMA StoreCounts ==
  ASSUME NEW sk, RepOK(sk), NEW j \in Registers, NEW r \in Value, Get(sk, j) < r
  PROVE  LET t == Store(sk, j, r)
         IN  /\ t.minValueCount = IF Get(sk, j) = sk.lowerBound THEN sk.minValueCount - 1
                                  ELSE sk.minValueCount
             /\ t.compressCount = sk.compressCount /\ t.rebaseCount = sk.rebaseCount
             /\ Cardinality(DOMAIN t.S) <= Cardinality(DOMAIN sk.S) + 1
  <1>1. sk \in SketchType /\ DOMAIN sk.S \in SUBSET Registers
    BY SketchFields DEF RepOK
  <1>2. PICK u : u = IF InWindow(r, sk.B)
                     THEN [sk EXCEPT !.S = EraseSparse(@, j), !.M = Put(@, j, r - sk.B)]
                     ELSE [sk EXCEPT !.S = AddSparse(@, j, r)]
    OBVIOUS
  <1>3. PICK n : n = IF Get(sk, j) = sk.lowerBound THEN u.minValueCount - 1
                     ELSE u.minValueCount
    OBVIOUS
  <1>4. Store(sk, j, r) = [u EXCEPT !.minValueCount = n]
    BY <1>2, <1>3 DEF Store
  <1>5. /\ u.minValueCount = sk.minValueCount
        /\ u.compressCount = sk.compressCount /\ u.rebaseCount = sk.rebaseCount
        /\ DOMAIN u = DOMAIN sk
    BY <1>1, <1>2 DEF SketchType
  <1>6. /\ Store(sk, j, r).minValueCount = n
        /\ Store(sk, j, r).compressCount = sk.compressCount
        /\ Store(sk, j, r).rebaseCount = sk.rebaseCount
    BY <1>1, <1>4, <1>5 DEF SketchType
  <1>7. Cardinality(DOMAIN Store(sk, j, r).S) <= Cardinality(DOMAIN sk.S) + 1
    <2>1. \/ Store(sk, j, r).S = EraseSparse(sk.S, j)
          \/ Store(sk, j, r).S = AddSparse(sk.S, j, r)
      BY <1>1, StoreFields
    <2>2. DOMAIN Store(sk, j, r).S \in {DOMAIN sk.S \ {j}, DOMAIN sk.S \cup {j}}
      BY <2>1 DEF EraseSparse, AddSparse
    <2>3. IsFiniteSet(DOMAIN sk.S) /\ Cardinality(DOMAIN sk.S) \in Nat
      BY <1>1, RegistersCounted
    <2>4. /\ Cardinality(DOMAIN sk.S \ {j}) <= Cardinality(DOMAIN sk.S) + 1
          /\ Cardinality(DOMAIN sk.S \cup {j}) <= Cardinality(DOMAIN sk.S) + 1
      <3> DEFINE D == DOMAIN sk.S
      <3>1. Cardinality(D \ {j}) = IF j \in D THEN Cardinality(D) - 1 ELSE Cardinality(D)
        BY <2>3, FS_RemoveElement
      <3>2. Cardinality(D \cup {j}) = IF j \in D THEN Cardinality(D) ELSE Cardinality(D) + 1
        BY <2>3, FS_AddElement
      <3> HIDE DEF D
      <3>3. Cardinality(D) \in Nat
        BY <2>3 DEF D
      <3>4. /\ Cardinality(D \ {j}) <= Cardinality(D) + 1
            /\ Cardinality(D \cup {j}) <= Cardinality(D) + 1
        BY <3>1, <3>2, <3>3
      <3> QED BY <3>4 DEF D
    <2> QED BY <2>2, <2>4
  <1> QED BY <1>3, <1>5, <1>6, <1>7

\* compress() adds one to its counter and is otherwise the mode's own search.
LEMMA CompressIs ==
  ASSUME NEW sk, RepOK(sk)
  PROVE  LET done == IF "TYPE_FULL" \in sk.flags THEN CompressFull(sk)
                     ELSE IF "TYPE_INCREASE" \in sk.flags THEN CompressIncrease(sk)
                     ELSE CompressBottom(sk)
             t    == Compress(sk)
         IN  /\ t.flags = done.flags /\ t.M = done.M /\ t.S = done.S /\ t.B = done.B
             /\ t.lowerBound = done.lowerBound /\ t.minValueCount = done.minValueCount
             /\ t.compressCount = done.compressCount + 1
             /\ t.rebaseCount = done.rebaseCount
  <1> DEFINE done == IF "TYPE_FULL" \in sk.flags THEN CompressFull(sk)
                     ELSE IF "TYPE_INCREASE" \in sk.flags THEN CompressIncrease(sk)
                     ELSE CompressBottom(sk)
  <1>1. done \in SketchType
    BY CompressFullKeeps, CompressIncreaseKeeps, CompressBottomKeeps DEF RepOK
  <1>2. Compress(sk) = [done EXCEPT !.compressCount = @ + 1]
    BY DEF Compress
  <1> HIDE DEF done
  <1>3. /\ Compress(sk).flags = done.flags /\ Compress(sk).M = done.M
        /\ Compress(sk).S = done.S /\ Compress(sk).B = done.B
        /\ Compress(sk).lowerBound = done.lowerBound
        /\ Compress(sk).minValueCount = done.minValueCount
        /\ Compress(sk).compressCount = done.compressCount + 1
        /\ Compress(sk).rebaseCount = done.rebaseCount
    BY <1>1, <1>2 DEF SketchType
  <1> QED BY <1>3 DEF done

\* compressIncrease() moves the base up, and only to make S strictly smaller.
LEMMA CompressIncreaseIs ==
  ASSUME NEW sk, RepOK(sk)
  PROVE  LET t == CompressIncrease(sk)
         IN  t.B # sk.B => /\ Cardinality(DOMAIN t.S) < Cardinality(DOMAIN sk.S)
                           /\ sk.B < t.B
  <1> DEFINE b == NextValue(sk)
  <1>1. PICK u : u = [sk EXCEPT !.lowerBound = Lowest(sk)]
    OBVIOUS
  <1>2. RepOK(u) /\ SameRanks(sk, u) /\ sk \in SketchType
    BY <1>1, BoundedKeeps DEF RepOK
  <1>3. CASE Cardinality(Sparse(sk, b)) < Cardinality(DOMAIN sk.S)
    <2>1. CompressIncrease(sk) = Rebase(u, b)
      BY <1>1, <1>3 DEF CompressIncrease
    <2>2. Rebase(u, b).B = b /\ DOMAIN Rebase(u, b).S = Sparse(sk, b)
      BY <1>2, RebaseFields, SameSparse DEF RepOK
    <2>3. sk.B < b
      <3> DEFINE T == {r \in {Get(sk, j) : j \in Registers} : sk.B < r} \cup {rLimit}
      <3>1. sk.B \in Value /\ \A j \in Registers : Get(sk, j) \in Value
        BY SketchFields DEF RepOK
      <3>2. T \in SUBSET Nat /\ T # {} /\ \A r \in T : sk.B < r
        BY <3>1, SketchAssumption DEF Value
      <3>3. b = Min(T)
        BY DEF NextValue
      <3> HIDE DEF T, b
      <3> QED BY <3>2, <3>3, MinExists
    <2> QED BY <1>3, <2>1, <2>2, <2>3
  <1>4. CASE ~(Cardinality(Sparse(sk, b)) < Cardinality(DOMAIN sk.S))
    <2>1. CompressIncrease(sk).B = sk.B
      BY <1>1, <1>2, <1>4 DEF CompressIncrease, SketchType
    <2> QED BY <2>1
  <1> QED BY <1>3, <1>4

\* compressBottom(): the base follows the smallest value, from below only,
\* and the registers that have it are counted afresh.
LEMMA CompressBottomIs ==
  ASSUME NEW sk, RepOK(sk), \A j \in Registers : sk.B <= Get(sk, j)
  PROVE  LET t == CompressBottom(sk)
         IN  /\ t.B = Lowest(sk) /\ t.lowerBound = Lowest(sk)
             /\ t.minValueCount = Cardinality({j \in Registers : Get(sk, j) = Lowest(sk)})
             /\ t.compressCount = sk.compressCount
             /\ t.rebaseCount = IF sk.B < Lowest(sk) THEN sk.rebaseCount + 1
                                ELSE sk.rebaseCount
  <1>1. PICK n : n = Cardinality({j \in Registers : Get(sk, j) = Lowest(sk)})
    OBVIOUS
  <1>2. PICK u : u = [sk EXCEPT !.lowerBound = Lowest(sk), !.minValueCount = n]
    OBVIOUS
  <1>3. RepOK(u) /\ SameRanks(sk, u) /\ sk \in SketchType
    BY <1>1, <1>2, CountedKeeps DEF RepOK
  <1>4. /\ u.B = sk.B /\ u.lowerBound = Lowest(sk) /\ u.minValueCount = n
        /\ u.compressCount = sk.compressCount /\ u.rebaseCount = sk.rebaseCount
    BY <1>2, <1>3 DEF SketchType
  <1>5. /\ sk.B \in Nat /\ Lowest(sk) \in Nat /\ sk.B <= Lowest(sk)
    BY <1>3, LowestIs, SketchFields, SketchAssumption DEF Value
  <1>6. CompressBottom(sk) = IF sk.B < Lowest(sk) THEN Rebase(u, Lowest(sk)) ELSE u
    BY <1>1, <1>2, <1>5 DEF CompressBottom
  <1>7. CASE sk.B < Lowest(sk)
    BY <1>1, <1>3, <1>4, <1>6, <1>7, RebaseFields DEF RepOK
  <1>8. CASE ~(sk.B < Lowest(sk))
    BY <1>1, <1>4, <1>5, <1>6, <1>8
  <1> QED BY <1>7, <1>8

\* No mode changes the flags.
LEMMA CompressFlags ==
  ASSUME NEW sk, RepOK(sk)
  PROVE  Compress(sk).flags = sk.flags
  <1>1. sk \in SketchType
    BY DEF RepOK
  <1>2. PICK low : low = Lowest(sk)
    OBVIOUS
  <1>3. PICK n : n = Cardinality({j \in Registers : Get(sk, j) = low})
    OBVIOUS
  <1>4. PICK u : u = [sk EXCEPT !.lowerBound = low]
    OBVIOUS
  <1>5. PICK v : v = [sk EXCEPT !.lowerBound = low, !.minValueCount = n]
    OBVIOUS
  <1>6. RepOK(u) /\ RepOK(v)
    BY <1>2, <1>3, <1>4, <1>5, BoundedKeeps, CountedKeeps
  <1>7. u.flags = sk.flags /\ v.flags = sk.flags
    BY <1>1, <1>4, <1>5 DEF SketchType
  <1>8. \A b : Rebase(u, b).flags = sk.flags /\ Rebase(v, b).flags = sk.flags
    BY <1>6, <1>7, RebaseFields DEF RepOK
  <1>9. CompressFull(sk).flags = sk.flags
    BY <1>2, <1>4, <1>7, <1>8 DEF CompressFull
  <1>10. CompressIncrease(sk).flags = sk.flags
    BY <1>2, <1>4, <1>7, <1>8 DEF CompressIncrease
  <1>11. CompressBottom(sk).flags = sk.flags
    BY <1>2, <1>3, <1>5, <1>7, <1>8 DEF CompressBottom
  <1> QED BY <1>9, <1>10, <1>11, CompressIs

-----------------------------------------------------------------------------
\* What the flags promise of an object between two calls, beyond RepOK.  A
\* BOTTOM object has its base at the smallest value, with the exact count of
\* the registers that have it, and has not rebased more often than the base
\* has values; one that is fully compressed after every update has an S as
\* small as any base allows.
AtBase(sk) == {j \in Registers : Get(sk, j) = sk.B}

BottomKept(sk) ==
  /\ sk.lowerBound = sk.B
  /\ sk.minValueCount = Cardinality(AtBase(sk))
  /\ AtBase(sk) # {}
  /\ sk.compressCount <= sk.rebaseCount + 1
  /\ sk.rebaseCount <= sk.B

ModeOK(sk) ==
  /\ sk.flags = {"BOTTOM"} => BottomKept(sk)
  /\ {"WHEN_ALWAYS", "TYPE_FULL"} \subseteq sk.flags => Optimal(sk)

LEMMA NewSketchMode ==
  ASSUME NEW flags \in SUBSET Flag, ValidFlags(flags)
  PROVE  ModeOK(NewSketch(flags))
  <1>1. PICK t : t = NewSketch(flags)
    OBVIOUS
  <1>2. \A j \in Registers : Get(t, j) = 0
    BY <1>1, NewSketchIs
  <1>3. /\ t.B = 0 /\ t.lowerBound = 0 /\ t.minValueCount = m
        /\ t.compressCount = 0 /\ t.rebaseCount = 0 /\ DOMAIN t.S = {}
    BY <1>1 DEF NewSketch
  <1>4. 0 \in Registers /\ Cardinality(Registers) = m
    BY RegistersFinite
  <1>5. AtBase(t) = Registers
    BY <1>2, <1>3 DEF AtBase
  <1>6. BottomKept(t)
    BY <1>3, <1>4, <1>5 DEF BottomKept
  <1>7. Optimal(t)
    <2> DEFINE T == {Cardinality(Sparse(t, b)) : b \in {Get(t, j) : j \in Registers}} \cup {m}
    <2>1. Sparse(t, 0) = {} /\ Cardinality({}) = 0
      BY <1>2, FS_EmptySet, SketchAssumption DEF Sparse, InWindow
    <2>2. 0 \in T
      BY <1>2, <1>4, <2>1
    <2>3. T \in SUBSET Nat
      BY SparseCounted, SketchAssumption
    <2>4. Min(T) = 0
      <3> HIDE DEF T
      <3>1. Min(T) \in T /\ \A n \in T : Min(T) <= n
        BY <2>2, <2>3, MinExists
      <3>2. Min(T) \in Nat /\ Min(T) <= 0
        BY <2>2, <2>3, <3>1
      <3> QED BY <3>2
    <2> QED BY <1>3, <2>1, <2>4 DEF Optimal, MinimumSparse
  <1> QED BY <1>1, <1>6, <1>7 DEF ModeOK

\* compress() makes good what an update or a merge left: it re-establishes
\* the promises of the mode.  A BOTTOM object needs a base below no register's
\* value; a compression that is not in vain is paid for by the rise of B.
LEMMA CompressMode ==
  ASSUME NEW sk, RepOK(sk),
         sk.flags = {"BOTTOM"} =>
           /\ \A j \in Registers : sk.B <= Get(sk, j)
           /\ sk.rebaseCount <= sk.B
           /\ \/ sk.compressCount <= sk.rebaseCount
              \/ sk.compressCount <= sk.rebaseCount + 1 /\ AtBase(sk) = {}
  PROVE  ModeOK(Compress(sk))
  <1>1. PICK t : t = Compress(sk)
    OBVIOUS
  <1>2. RepOK(t) /\ SameRanks(sk, t) /\ t.flags = sk.flags
    BY <1>1, CompressKeeps, CompressFlags
  <1>3. ASSUME sk.flags = {"BOTTOM"}
        PROVE  BottomKept(t)
    <2>1. /\ t.B = CompressBottom(sk).B /\ t.lowerBound = CompressBottom(sk).lowerBound
          /\ t.minValueCount = CompressBottom(sk).minValueCount
          /\ t.compressCount = CompressBottom(sk).compressCount + 1
          /\ t.rebaseCount = CompressBottom(sk).rebaseCount
      BY <1>1, <1>3, CompressIs
    <2>2. /\ t.B = Lowest(sk) /\ t.lowerBound = Lowest(sk)
          /\ t.minValueCount = Cardinality({j \in Registers : Get(sk, j) = Lowest(sk)})
          /\ t.compressCount = sk.compressCount + 1
          /\ t.rebaseCount = IF sk.B < Lowest(sk) THEN sk.rebaseCount + 1
                             ELSE sk.rebaseCount
      BY <1>3, <2>1, CompressBottomIs
    <2>3. AtBase(t) = {j \in Registers : Get(sk, j) = Lowest(sk)}
      BY <1>2, <2>2 DEF AtBase, SameRanks
    <2>4. /\ \A j \in Registers : Lowest(sk) <= Get(sk, j)
          /\ \E j \in Registers : Get(sk, j) = Lowest(sk)
          /\ Lowest(sk) \in Nat /\ sk.B \in Nat
          /\ sk.compressCount \in Nat /\ sk.rebaseCount \in Nat
      BY LowestIs, SketchFields, SketchAssumption DEF RepOK, Value, SketchType
    <2>5. AtBase(t) # {}
      BY <2>3, <2>4
    <2>6. sk.B <= Lowest(sk) /\ (AtBase(sk) = {} => sk.B < Lowest(sk))
      BY <1>3, <2>4 DEF AtBase
    <2>7. t.compressCount <= t.rebaseCount + 1 /\ t.rebaseCount <= t.B
      BY <1>3, <2>2, <2>4, <2>6
    <2> QED BY <2>2, <2>3, <2>5, <2>7 DEF BottomKept
  <1>4. ASSUME "TYPE_FULL" \in sk.flags
        PROVE  Optimal(t)
    <2>1. t.S = CompressFull(sk).S
      BY <1>1, <1>4, CompressIs
    <2>2. SameRanks(CompressFull(sk), t)
      BY <1>2, CompressFullKeeps DEF SameRanks
    <2>3. Optimal(CompressFull(sk))
      BY CompressFullOptimal
    <2>4. MinimumSparse(t) = MinimumSparse(CompressFull(sk))
      <3>1. \A b : Sparse(t, b) = Sparse(CompressFull(sk), b)
        BY <2>2, SameSparse
      <3>2. {Get(t, j) : j \in Registers} = {Get(CompressFull(sk), j) : j \in Registers}
        BY <2>2 DEF SameRanks
      <3> QED BY <3>1, <3>2 DEF MinimumSparse
    <2> QED BY <2>1, <2>3, <2>4 DEF Optimal
  <1> QED BY <1>1, <1>2, <1>3, <1>4 DEF ModeOK

\* addJr: the count of the lowest registers is right again after the store,
\* and at zero, when no register is left at the base, compress() follows.
LEMMA AddJrMode ==
  ASSUME NEW sk, RepOK(sk), ModeOK(sk), NEW j \in Registers, NEW r \in Value
  PROVE  ModeOK(AddJr(sk, j, r))
  <1>1. CASE ~(Get(sk, j) < r) \/ r <= sk.lowerBound
    <2>1. sk.flags = {"BOTTOM"} => sk.minValueCount # 0
      <3> SUFFICES ASSUME sk.flags = {"BOTTOM"} PROVE sk.minValueCount # 0
        OBVIOUS
      <3>1. AtBase(sk) # {} /\ sk.minValueCount = Cardinality(AtBase(sk))
        BY DEF ModeOK, BottomKept
      <3>2. IsFiniteSet(AtBase(sk))
        BY RegistersCounted DEF AtBase
      <3> QED BY <3>1, <3>2, FS_EmptySet
    <2>2. AddJr(sk, j, r) = sk
      BY <1>1, <2>1 DEF AddJr, MustCompress
    <2> QED BY <2>2
  <1>2. CASE Get(sk, j) < r /\ ~(r <= sk.lowerBound)
    <2>1. PICK u : u = Store(sk, j, r)
      OBVIOUS
    <2>2. /\ RepOK(u)
          /\ \A i \in Registers : Get(u, i) = IF i = j THEN r ELSE Get(sk, i)
      BY <1>2, <2>1, StoreSets
    <2>3. /\ u.flags = sk.flags /\ u.B = sk.B /\ u.lowerBound = sk.lowerBound
          /\ u.minValueCount = IF Get(sk, j) = sk.lowerBound THEN sk.minValueCount - 1
                               ELSE sk.minValueCount
          /\ u.compressCount = sk.compressCount /\ u.rebaseCount = sk.rebaseCount
      BY <1>2, <2>1, StoreFields, StoreCounts DEF RepOK
    <2>4. AddJr(sk, j, r) = IF MustCompress(sk, u, j, r) THEN Compress(u) ELSE u
      BY <1>2, <2>1 DEF AddJr
    <2>5. sk.B \in Nat /\ r \in Nat /\ \A i \in Registers : Get(sk, i) \in Nat
      BY SketchFields, SketchAssumption DEF RepOK, Value
    <2>6. ASSUME sk.flags = {"BOTTOM"}
          PROVE  /\ u.minValueCount = Cardinality(AtBase(u))
                 /\ \A i \in Registers : u.B <= Get(u, i)
                 /\ MustCompress(sk, u, j, r) <=> AtBase(u) = {}
      <3>1. BottomKept(sk) /\ \A i \in Registers : sk.B <= Get(sk, i)
        BY <2>6 DEF ModeOK, BottomKept, RepOK
      <3>2. IsFiniteSet(AtBase(sk)) /\ IsFiniteSet(AtBase(u))
        BY RegistersCounted DEF AtBase
      <3>3. \A i \in Registers : u.B <= Get(u, i)
        BY <1>2, <2>2, <2>3, <2>5, <3>1
      <3>4. AtBase(u) = AtBase(sk) \ {j}
        <4>1. sk.B < r
          BY <1>2, <2>5, <3>1
        <4> QED BY <2>2, <2>3, <2>5, <4>1 DEF AtBase
      <3>5. u.minValueCount = Cardinality(AtBase(u))
        <4>1. Get(sk, j) = sk.lowerBound <=> j \in AtBase(sk)
          BY <3>1 DEF AtBase, BottomKept
        <4>2. Cardinality(AtBase(sk) \ {j}) =
                IF j \in AtBase(sk) THEN Cardinality(AtBase(sk)) - 1
                ELSE Cardinality(AtBase(sk))
          BY <3>2, FS_RemoveElement
        <4>3. sk.minValueCount = Cardinality(AtBase(sk))
          BY <3>1 DEF BottomKept
        <4> QED BY <2>3, <3>4, <4>1, <4>2, <4>3
      <3>6. MustCompress(sk, u, j, r) <=> u.minValueCount = 0
        BY <2>6 DEF MustCompress
      <3> QED BY <3>2, <3>3, <3>5, <3>6, FS_EmptySet
    <2>7. CASE MustCompress(sk, u, j, r)
      <3> SUFFICES ModeOK(Compress(u))
        BY <2>4, <2>7
      <3>1. ASSUME u.flags = {"BOTTOM"}
            PROVE  /\ \A i \in Registers : u.B <= Get(u, i)
                   /\ u.rebaseCount <= u.B
                   /\ u.compressCount <= u.rebaseCount + 1 /\ AtBase(u) = {}
        BY <2>3, <2>6, <2>7, <3>1 DEF ModeOK, BottomKept
      <3> QED BY <2>2, <3>1, CompressMode
    <2>8. CASE ~MustCompress(sk, u, j, r)
      <3> SUFFICES ModeOK(u)
        BY <2>4, <2>8
      <3>1. "WHEN_ALWAYS" \notin sk.flags
        BY <1>2, <2>8 DEF MustCompress
      <3>2. ASSUME sk.flags = {"BOTTOM"}
            PROVE  BottomKept(u)
        BY <2>3, <2>6, <2>8, <3>2 DEF ModeOK, BottomKept
      <3> QED BY <2>3, <3>1, <3>2 DEF ModeOK
    <2> QED BY <2>7, <2>8
  <1> QED BY <1>1, <1>2

\* merge(): the copy loops leave the counts of a fresh object, and compress()
\* at the end makes them right.
LEMMA MergeMode ==
  ASSUME NEW sk, RepOK(sk), ModeOK(sk), NEW that, RepOK(that), ModeOK(that),
         sk.flags = that.flags
  PROVE  ModeOK(Merge(sk, that))
  <1>1. PICK u : u = Joined(sk, that)
    OBVIOUS
  <1>2. /\ RepOK(u)
        /\ \A j \in Registers : Get(u, j) = Larger(Get(sk, j), Get(that, j))
    BY <1>1, JoinedIs DEF JoinedRank
  <1>3. /\ u.flags = sk.flags /\ u.B = Larger(sk.B, that.B)
        /\ u.compressCount = 0 /\ u.rebaseCount = 0
    <2>1. Normalised(sk.flags) = sk.flags
      BY NormalisedValid, SketchFields DEF RepOK
    <2> QED BY <1>1, <2>1 DEF Joined, NewSketch, JoinedBase
  <1>4. /\ sk.B \in Nat /\ that.B \in Nat
        /\ \A j \in Registers : Get(sk, j) \in Nat /\ Get(that, j) \in Nat
    BY SketchFields, SketchAssumption DEF RepOK, Value
  <1>5. ASSUME u.flags = {"BOTTOM"}
        PROVE  /\ \A j \in Registers : u.B <= Get(u, j)
               /\ u.rebaseCount <= u.B /\ u.compressCount <= u.rebaseCount
    <2>1. \A j \in Registers : sk.B <= Get(sk, j) /\ that.B <= Get(that, j)
      BY <1>3, <1>5 DEF ModeOK, BottomKept, RepOK
    <2> QED BY <1>2, <1>3, <1>4, <2>1 DEF Larger
  <1> QED BY <1>1, <1>2, <1>5, CompressMode DEF Merge

\* An addJr that moves the base leaves S no larger, unless the mode is BOTTOM,
\* and only TYPE_FULL lowers the base.
LEMMA AddJrRebases ==
  ASSUME NEW sk, RepOK(sk), ModeOK(sk), NEW j \in Registers, NEW r \in Value,
         AddJr(sk, j, r).B # sk.B
  PROVE  /\ sk.flags # {"BOTTOM"} =>
              Cardinality(DOMAIN AddJr(sk, j, r).S) <= Cardinality(DOMAIN sk.S)
         /\ "TYPE_FULL" \notin sk.flags => sk.B < AddJr(sk, j, r).B
  <1>1. PICK t : t = AddJr(sk, j, r)
    OBVIOUS
  <1>2. PICK u : u = IF Get(sk, j) < r THEN Store(sk, j, r) ELSE sk
    OBVIOUS
  <1>3. RepOK(u) /\ u.B = sk.B /\ u.flags = sk.flags /\ u.lowerBound = sk.lowerBound
    <2>1. CASE Get(sk, j) < r
      <3>1. RepOK(u)
        BY <1>2, <2>1, StoreSets
      <3>2. sk \in SketchType
        BY DEF RepOK
      <3> QED BY <1>2, <2>1, <3>1, <3>2, StoreFields
    <2>2. CASE ~(Get(sk, j) < r)
      BY <1>2, <2>2
    <2> QED BY <2>1, <2>2
  <1>4. t = Compress(u)
    BY <1>1, <1>2, <1>3 DEF AddJr
  <1>5. t.B # u.B
    BY <1>1, <1>3
  <1>6. /\ Cardinality(DOMAIN u.S) <= Cardinality(DOMAIN sk.S) + 1
        /\ Cardinality(DOMAIN sk.S) \in Nat /\ Cardinality(DOMAIN u.S) \in Nat
        /\ Cardinality(DOMAIN t.S) \in Nat
    <2>1. RepOK(t)
      BY <1>3, <1>4, CompressKeeps
    <2>2. \A o : RepOK(o) => Cardinality(DOMAIN o.S) \in Nat
      BY SparseCounted DEF RepOK
    <2>3. Cardinality(DOMAIN u.S) <= Cardinality(DOMAIN sk.S) + 1
      BY <1>2, <2>2, StoreCounts
    <2> QED BY <1>3, <2>1, <2>2, <2>3
  <1>7. sk.flags \in SUBSET Flag /\ ValidFlags(sk.flags)
    BY SketchFields DEF RepOK
  <1>8. CASE "TYPE_FULL" \in sk.flags
    <2>1. t.S = CompressFull(u).S /\ t.B = CompressFull(u).B
      BY <1>3, <1>4, <1>8, CompressIs
    <2>2. Cardinality(DOMAIN t.S) < Cardinality(DOMAIN u.S)
      BY <1>3, <1>5, <2>1, CompressFullIs
    <2> QED BY <1>1, <1>6, <1>8, <2>2
  <1>9. CASE "TYPE_FULL" \notin sk.flags /\ "TYPE_INCREASE" \in sk.flags
    <2>1. t.S = CompressIncrease(u).S /\ t.B = CompressIncrease(u).B
      BY <1>3, <1>4, <1>9, CompressIs
    <2>2. Cardinality(DOMAIN t.S) < Cardinality(DOMAIN u.S) /\ u.B < t.B
      BY <1>3, <1>5, <2>1, CompressIncreaseIs
    <2> QED BY <1>1, <1>3, <1>6, <1>9, <2>2
  <1>10. CASE "TYPE_FULL" \notin sk.flags /\ "TYPE_INCREASE" \notin sk.flags
    <2>1. sk.flags = {"BOTTOM"}
      BY <1>7, <1>10 DEF ValidFlags
    <2>2. t.B = CompressBottom(u).B
      BY <1>3, <1>4, <1>10, CompressIs
    <2>3. \A i \in Registers : u.B <= Get(u, i)
      <3>1. u.lowerBound = u.B
        <4>1. sk.lowerBound = sk.B
          BY <2>1 DEF ModeOK, BottomKept
        <4> QED BY <1>3, <4>1
      <3> QED BY <1>3, <3>1 DEF RepOK
    <2>4. t.B = Lowest(u)
      BY <1>3, <2>2, <2>3, CompressBottomIs
    <2>5. u.B <= t.B /\ u.B \in Nat /\ t.B \in Nat
      BY <1>3, <2>3, <2>4, LowestIs, SketchFields, SketchAssumption DEF RepOK, Value
    <2> QED BY <1>1, <1>3, <1>5, <2>1, <2>5
  <1> QED BY <1>8, <1>9, <1>10

-----------------------------------------------------------------------------
LEMMA AddJrFlags ==
  ASSUME NEW sk, RepOK(sk), NEW j \in Registers, NEW r \in Value
  PROVE  AddJr(sk, j, r).flags = sk.flags
  <1> DEFINE after == IF Get(sk, j) < r THEN Store(sk, j, r) ELSE sk
  <1>1. RepOK(after) /\ after.flags = sk.flags
    <2>1. CASE Get(sk, j) < r
      <3>1. RepOK(Store(sk, j, r))
        BY <2>1, StoreSets
      <3>2. Store(sk, j, r).flags = sk.flags
        <4>1. sk \in SketchType
          BY DEF RepOK
        <4> QED BY <4>1, StoreFields
      <3> QED BY <2>1, <3>1, <3>2
    <2>2. CASE ~(Get(sk, j) < r)
      BY <2>2
    <2> QED BY <2>1, <2>2
  <1>2. Compress(after).flags = sk.flags
    <2> HIDE DEF after
    <2> QED BY <1>1, CompressFlags
  <1> QED BY <1>1, <1>2 DEF AddJr

\* What fromHyperLogLog() has made of the first k registers.
Fed(t, k, registers, flags) ==
  /\ RepOK(t)
  /\ ModeOK(t)
  /\ t.flags = flags
  /\ \A j \in Registers : Get(t, j) = IF j < k THEN registers[j] ELSE 0

LEMMA FedNothing ==
  ASSUME NEW flags \in SUBSET Flag, ValidFlags(flags), NEW registers
  PROVE  Fed(NewSketch(flags), 0, registers, flags)
  <1>1. \A j \in Registers : ~(j < 0)
    BY DEF Registers
  <1>2. NewSketch(flags).flags = flags
    BY DEF NewSketch
  <1> QED BY <1>1, <1>2, NewSketchIs, NewSketchMode DEF Fed

LEMMA FedOneMore ==
  ASSUME NEW t, NEW k \in Registers, NEW registers \in [Registers -> Value], NEW flags,
         Fed(t, k, registers, flags)
  PROVE  Fed(AddJr(t, k, registers[k]), k + 1, registers, flags)
  <1> DEFINE u == AddJr(t, k, registers[k])
  <1>1. RepOK(t) /\ ModeOK(t) /\ t.flags = flags /\ registers[k] \in Value
    BY DEF Fed
  <1>2. /\ RepOK(u)
        /\ \A j \in Registers : Get(u, j) = IF j = k THEN Larger(Get(t, k), registers[k])
                                            ELSE Get(t, j)
    BY <1>1, AddJrSets
  <1>3. ModeOK(u) /\ u.flags = flags
    BY <1>1, AddJrMode, AddJrFlags
  <1> HIDE DEF u
  <1>4. Larger(Get(t, k), registers[k]) = registers[k]
    <2>1. Get(t, k) = 0
      BY DEF Fed, Registers
    <2>2. registers[k] = 0 \/ 0 < registers[k]
      BY <1>1, SketchAssumption DEF Value
    <2> QED BY <2>1, <2>2 DEF Larger
  <1>5. \A j \in Registers : Get(u, j) = IF j < k + 1 THEN registers[j] ELSE 0
    <2> SUFFICES ASSUME NEW j \in Registers
                 PROVE  Get(u, j) = IF j < k + 1 THEN registers[j] ELSE 0
      OBVIOUS
    <2>1. CASE j = k
      <3>1. j < k + 1
        BY <2>1 DEF Registers
      <3> QED BY <1>2, <1>4, <2>1, <3>1
    <2>2. CASE j # k
      <3>1. j < k <=> j < k + 1
        BY <2>2, SketchAssumption DEF Registers
      <3>2. Get(u, j) = Get(t, j)
        BY <1>2, <2>2
      <3> QED BY <3>1, <3>2 DEF Fed
    <2> QED BY <2>1, <2>2
  <1>6. Fed(u, k + 1, registers, flags)
    BY <1>2, <1>3, <1>5 DEF Fed
  <1> QED BY <1>6 DEF u

\* fromHyperLogLog() gives a new object each of the registers in turn.
LEMMA FromRegistersIs ==
  ASSUME NEW flags, Normalised(flags) \in SUBSET Flag, ValidFlags(Normalised(flags)),
         NEW registers \in [Registers -> Value]
  PROVE  Fed(FromRegisters(registers, flags), m, registers, Normalised(flags))
  <1> DEFINE new      == NewSketch(Normalised(flags))
             Feeds(f, k) == f = [n \in 0 .. k |-> IF n = 0 THEN new
                                                  ELSE AddJr(f[n - 1], n - 1, registers[n - 1])]
             OK(t, k) == Fed(t, k, registers, Normalised(flags))
  <1>1. OK(new, 0)
    BY FedNothing
  <1> HIDE DEF new
  <1>2. \A k \in 0 .. m : \E f : Feeds(f, k)
    <2> DEFINE None == {k \in 0 .. m : ~ \E f : Feeds(f, k)}
    <2> SUFFICES ASSUME None # {} PROVE FALSE
      OBVIOUS
    <2>1. Min(None) \in None /\ \A k \in None : Min(None) <= k
      <3>1. None \in SUBSET Nat
        BY SketchAssumption
      <3> HIDE DEF None
      <3> QED BY <3>1, MinExists
    <2>2. PICK k \in 0 .. m : k \in None /\ \A l \in None : k <= l
      BY <2>1
    <2>3. CASE k = 0
      <3>1. PICK f : f = [n \in 0 .. 0 |-> new]
        OBVIOUS
      <3>2. Feeds(f, 0)
        BY <3>1
      <3> QED BY <2>2, <2>3, <3>2
    <2>4. CASE k # 0
      <3>1. k - 1 \in 0 .. m /\ ~(k <= k - 1) /\ k \in Nat \ {0}
        BY <2>4, SketchAssumption
      <3>2. PICK f : Feeds(f, k - 1)
        BY <2>2, <3>1
      <3>3. PICK g : g = [n \in 0 .. k |-> IF n = k THEN AddJr(f[k - 1], k - 1, registers[k - 1])
                                           ELSE f[n]]
        OBVIOUS
      <3>4. \A n \in 0 .. k : n # 0 => n - 1 \in 0 .. k - 1 /\ n - 1 # k
        BY <3>1
      <3>5. \A n \in 0 .. k - 1 : g[n] = f[n]
        BY <3>1, <3>3
      <3>6. \A n \in 0 .. k - 1 :
              f[n] = IF n = 0 THEN new ELSE AddJr(f[n - 1], n - 1, registers[n - 1])
        BY <3>2
      <3>7. \A n \in 0 .. k :
              g[n] = IF n = 0 THEN new ELSE AddJr(g[n - 1], n - 1, registers[n - 1])
        <4> SUFFICES ASSUME NEW n \in 0 .. k
                     PROVE  g[n] = IF n = 0 THEN new
                                   ELSE AddJr(g[n - 1], n - 1, registers[n - 1])
          OBVIOUS
        <4>1. CASE n = k
          BY <3>1, <3>3, <3>4, <3>5, <4>1
        <4>2. CASE n # k
          <5>1. n \in 0 .. k - 1
            BY <3>1, <4>2
          <5> QED BY <3>4, <3>5, <3>6, <5>1
        <4> QED BY <4>1, <4>2
      <3>8. Feeds(g, k)
        BY <3>3, <3>7
      <3> QED BY <2>2, <3>8
    <2> QED BY <2>3, <2>4
  <1>3. PICK fed : Feeds(fed, m) /\ FromRegisters(registers, flags) = fed[m]
    <2> DEFINE fed == CHOOSE f : Feeds(f, m)
    <2>1. Feeds(fed, m)
      <3>1. \E f : Feeds(f, m)
        <4>1. m \in 0 .. m
          BY SketchAssumption
        <4> HIDE DEF Feeds, fed
        <4> QED BY <1>2, <4>1
      <3> HIDE DEF Feeds
      <3> QED BY <3>1 DEF fed
    <2>2. FromRegisters(registers, flags) = fed[m]
      BY DEF FromRegisters, new
    <2> QED BY <2>1, <2>2
  <1>4. \A k \in 0 .. m : OK(fed[k], k)
    <2> DEFINE Bad == {k \in 0 .. m : ~OK(fed[k], k)}
    <2> SUFFICES ASSUME Bad # {} PROVE FALSE
      OBVIOUS
    <2>1. Min(Bad) \in Bad /\ \A k \in Bad : Min(Bad) <= k
      <3>1. Bad \in SUBSET Nat
        BY SketchAssumption
      <3> HIDE DEF Bad
      <3> QED BY <3>1, MinExists
    <2>2. PICK k \in 0 .. m : k \in Bad /\ \A l \in Bad : k <= l
      BY <2>1
    <2>3. \A n \in 0 .. m :
            fed[n] = IF n = 0 THEN new ELSE AddJr(fed[n - 1], n - 1, registers[n - 1])
      BY <1>3
    <2>4. k # 0
      BY <1>1, <2>2, <2>3
    <2>5. k - 1 \in 0 .. m /\ ~(k <= k - 1) /\ k - 1 \in Registers
      BY <2>4, SketchAssumption DEF Registers
    <2>6. OK(fed[k - 1], k - 1)
      BY <2>2, <2>5
    <2>7. registers[k - 1] \in Value
      BY <2>5
    <2>8. OK(AddJr(fed[k - 1], k - 1, registers[k - 1]), k - 1 + 1)
      <3> HIDE DEF Bad
      <3> QED BY <2>5, <2>6, <2>7, FedOneMore
    <2>9. fed[k] = AddJr(fed[k - 1], k - 1, registers[k - 1])
      BY <2>3, <2>4
    <2>10. k - 1 + 1 = k
      BY <2>5
    <2> QED BY <2>2, <2>8, <2>9, <2>10
  <1> QED BY <1>3, <1>4, SketchAssumption
=============================================================================
