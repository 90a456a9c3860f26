------------------------------- MODULE Sketch -------------------------------
(***************************************************************************)
(* One HyperLogLogLog object (src/hyperlogloglog/HyperLogLogLog.hpp): m    *)
(* registers kept as a dense vector M of offsets from the base B, and a    *)
(* sparse map S for the registers whose value is not within maxOffset of   *)
(* B.  Every operator is the effect of one method on the object; the state *)
(* machine that calls them is in HyperLogLogLog.                           *)
(*                                                                         *)
(* S is a finite function (what PackedMap promises) and M a function on    *)
(* the registers (what PackedVector promises); the two containers are      *)
(* modelled in modules of their own.                                       *)
(***************************************************************************)
EXTENDS FiniteSetsExt, Integers

CONSTANTS
  m,          \* number of registers
  maxOffset,  \* largest offset an entry of M holds: (1u << mBits) - 1
  rLimit,     \* 1u << sBits: one more than the largest value S holds
  Flags,      \* the flags arguments a program passes to the constructor
  Rank        \* the ranks a program passes to addJr

\* The constructor throws unless m is a power of two; mBits and sBits are
\* positive (2 or 3, and 6 for 64-bit words).
ASSUME SketchAssumption ==
  /\ m \in Nat \ {0}
  /\ maxOffset \in Nat \ {0}
  /\ rLimit \in Nat \ {0}

Registers == 0 .. m - 1

\* The bits of the flags argument that the constructors and compress() test.
Flag == {"WHEN_ALWAYS", "WHEN_APPEND", "TYPE_FULL", "TYPE_INCREASE", "BOTTOM"}

ASSUME ProgramAssumption ==
  /\ Flags \subseteq SUBSET Flag
  /\ Rank \subseteq Nat

-----------------------------------------------------------------------------
(***************************************************************************)
(* The flags normalised and validated by the constructor.                  *)
(***************************************************************************)
WithWhen(flags) ==
  IF flags \in {{"TYPE_FULL"}, {"TYPE_INCREASE"}}
  THEN flags \cup {"WHEN_ALWAYS"} ELSE flags

WithType(flags) ==
  IF flags \in {{"WHEN_ALWAYS"}, {"WHEN_APPEND"}}
  THEN flags \cup {"TYPE_FULL"} ELSE flags

Normalised(flags) == WithType(WithWhen(flags))

\* FALSE where the constructor throws invalid_argument.
ValidFlags(flags) ==
  \/ flags = {"BOTTOM"}
  \/ /\ "BOTTOM" \notin flags
     /\ flags \cap {"TYPE_FULL", "TYPE_INCREASE"} # {}
     /\ flags \cap {"WHEN_ALWAYS", "WHEN_APPEND"} # {}

\* A freshly constructed object.
NewSketch(flags) ==
  [flags         |-> flags,
   M             |-> [j \in Registers |-> 0],
   S             |-> [j \in {} |-> 0],
   B             |-> 0,
   lowerBound    |-> 0,
   minValueCount |-> m,
   compressCount |-> 0,
   rebaseCount   |-> 0]

\* The objects: what the widths of the fields can hold.
Value == 0 .. rLimit - 1

SparseMaps == UNION {[D -> Value] : D \in SUBSET Registers}

SketchType ==
  [flags         : SUBSET Flag,
   M             : [Registers -> 0 .. maxOffset],
   S             : SparseMaps,
   B             : Value,
   lowerBound    : Value,
   minValueCount : Int,
   compressCount : Nat,
   rebaseCount   : Nat]

-----------------------------------------------------------------------------
(***************************************************************************)
(* The containers: PackedVector::set masks the element to mBits bits, and  *)
(* PackedMap::add masks the value to sBits bits.                           *)
(***************************************************************************)
Put(M, j, e) == [M EXCEPT ![j] = e % (maxOffset + 1)]

AddSparse(S, j, r) ==
  [i \in DOMAIN S \cup {j} |-> IF i = j THEN r % rLimit ELSE S[i]]

EraseSparse(S, j) == [i \in DOMAIN S \ {j} |-> S[i]]

\* get(j): the value of register j.
Get(sk, j) == IF j \in DOMAIN sk.S THEN sk.S[j] ELSE sk.M[j] + sk.B

\* exportRegisters(), and the values iterate() presents.
Ranks(sk) == [j \in Registers |-> Get(sk, j)]

\* An offset from base b can hold the value r.
InWindow(r, b) == b <= r /\ r <= b + maxOffset

\* The registers S would have to hold if the base were b ("ns" in compress*).
Sparse(sk, b) == {j \in Registers : ~InWindow(Get(sk, j), b)}

\* The smallest register value, never above rLimit, as the compress* loops
\* compute it from their initial value 1u << sBits.
Lowest(sk) == Min({Get(sk, j) : j \in Registers} \cup {rLimit})

-----------------------------------------------------------------------------
(***************************************************************************)
(* rebase(newB): the loop handles every register once and touches only     *)
(* that register's entries, so its effect is pointwise.                    *)
(***************************************************************************)
\* Mutant of Rebase: an entry that moves to M is not erased from S.
Rebase_KeepsEntries(sk, newB) ==
  [sk EXCEPT
     !.M = [j \in Registers |->
              IF InWindow(Get(sk, j), newB)
              THEN (Get(sk, j) - newB) % (maxOffset + 1) ELSE sk.M[j]],
     !.S = [j \in DOMAIN sk.S \cup Sparse(sk, newB) |-> Get(sk, j) % rLimit],
     !.B = newB,
     !.rebaseCount = @ + 1]

Rebase(sk, newB) ==
  [sk EXCEPT
     !.M = [j \in Registers |->
              IF InWindow(Get(sk, j), newB)
              THEN (Get(sk, j) - newB) % (maxOffset + 1) ELSE sk.M[j]],
     !.S = [j \in Sparse(sk, newB) |-> Get(sk, j) % rLimit],
     !.B = newB,
     !.rebaseCount = @ + 1]

-----------------------------------------------------------------------------
(***************************************************************************)
(* compressFull(): the base that makes S smallest, among the values the    *)
(* registers have; the lowest one when several tie, and the present base   *)
(* unless S gets strictly smaller.  The loop that finds it, with its early *)
(* exit, is modelled in SketchLoops.                                       *)
(***************************************************************************)
\* Mutants of Candidates: bases below the present one are not tried; a tie
\* counts as an improvement.
Candidates_Upwards(sk) ==
  {b \in {Get(sk, j) : j \in Registers} :
     sk.B <= b /\ b < rLimit /\ Cardinality(Sparse(sk, b)) < Cardinality(DOMAIN sk.S)}

Candidates_Ties(sk) ==
  {b \in {Get(sk, j) : j \in Registers} :
     b < rLimit /\ Cardinality(Sparse(sk, b)) <= Cardinality(DOMAIN sk.S)}

Candidates(sk) ==
  {b \in {Get(sk, j) : j \in Registers} :
     b < rLimit /\ Cardinality(Sparse(sk, b)) < Cardinality(DOMAIN sk.S)}

FewestSparse(sk) == Min({Cardinality(Sparse(sk, b)) : b \in Candidates(sk)})

BestBase(sk) ==
  IF Candidates(sk) = {} THEN sk.B
  ELSE Min({b \in Candidates(sk) : Cardinality(Sparse(sk, b)) = FewestSparse(sk)})

CompressFull(sk) ==
  LET bounded == [sk EXCEPT !.lowerBound = Lowest(sk)]
  IN  IF BestBase(sk) # sk.B THEN Rebase(bounded, BestBase(sk)) ELSE bounded

\* compressIncrease(): only the next value above B is tried as the base.
NextValue(sk) ==
  Min({r \in {Get(sk, j) : j \in Registers} : sk.B < r} \cup {rLimit})

\* Mutants of CompressIncrease: the rebase is not conditional; lowerBound is
\* taken over the values above the base only.
CompressIncrease_Unconditional(sk) ==
  Rebase([sk EXCEPT !.lowerBound = Lowest(sk)], NextValue(sk))

CompressIncrease_BoundAboveBase(sk) ==
  LET bounded == [sk EXCEPT !.lowerBound = NextValue(sk)]
  IN  IF Cardinality(Sparse(sk, NextValue(sk))) < Cardinality(DOMAIN sk.S)
      THEN Rebase(bounded, NextValue(sk)) ELSE bounded

CompressIncrease(sk) ==
  LET bounded == [sk EXCEPT !.lowerBound = Lowest(sk)]
  IN  IF Cardinality(Sparse(sk, NextValue(sk))) < Cardinality(DOMAIN sk.S)
      THEN Rebase(bounded, NextValue(sk)) ELSE bounded

\* Mutant of CompressBottom: the count of the lowest registers is not renewed.
CompressBottom_OldCount(sk) ==
  LET low     == Lowest(sk)
      bounded == [sk EXCEPT !.lowerBound = low]
  IN  IF low > sk.B THEN Rebase(bounded, low) ELSE bounded

\* compressBottom(): the base follows the smallest register value.
CompressBottom(sk) ==
  LET low     == Lowest(sk)
      counted == [sk EXCEPT
                    !.lowerBound = low,
                    !.minValueCount = Cardinality({j \in Registers : Get(sk, j) = low})]
  IN  IF low > sk.B THEN Rebase(counted, low) ELSE counted

\* compress(): TYPE_FULL wins over TYPE_INCREASE.
Compress(sk) ==
  LET done == IF "TYPE_FULL" \in sk.flags THEN CompressFull(sk)
              ELSE IF "TYPE_INCREASE" \in sk.flags THEN CompressIncrease(sk)
              ELSE CompressBottom(sk)
  IN  [done EXCEPT !.compressCount = @ + 1]

-----------------------------------------------------------------------------
(***************************************************************************)
(* addJr(j, r).  Store is the body of "if (r0 < r)": the value goes to M   *)
(* when the window covers it, otherwise to S.                              *)
(***************************************************************************)
Store(sk, j, r) ==
  LET r0     == Get(sk, j)
      placed == IF InWindow(r, sk.B)
                THEN [sk EXCEPT !.S = EraseSparse(@, j), !.M = Put(@, j, r - sk.B)]
                ELSE [sk EXCEPT !.S = AddSparse(@, j, r)]
  IN  [placed EXCEPT !.minValueCount = IF r0 = sk.lowerBound THEN @ - 1 ELSE @]

\* Mutant of MustCompress: BOTTOM compresses after every update.
MustCompress_EveryUpdate(sk, after, j, r) ==
  /\ Get(sk, j) < r
  /\ \/ {"WHEN_ALWAYS", "BOTTOM"} \cap sk.flags # {}
     \/ ~InWindow(r, sk.B) /\ j \notin DOMAIN sk.S /\ "WHEN_APPEND" \in sk.flags

\* The condition under which addJr ends with compress(): after is the object
\* after the store, or sk itself when the value was not larger.
MustCompress(sk, after, j, r) ==
  LET updated       == Get(sk, j) < r
      sizeIncreased == updated /\ ~InWindow(r, sk.B) /\ j \notin DOMAIN sk.S
  IN  \/ updated /\ "WHEN_ALWAYS" \in sk.flags
      \/ sizeIncreased /\ "WHEN_APPEND" \in sk.flags
      \/ after.minValueCount = 0 /\ sk.flags = {"BOTTOM"}

AddJr(sk, j, r) ==
  LET after == IF Get(sk, j) < r THEN Store(sk, j, r) ELSE sk
  IN  IF r <= sk.lowerBound THEN sk
      ELSE IF MustCompress(sk, after, j, r) THEN Compress(after) ELSE after

-----------------------------------------------------------------------------
(***************************************************************************)
(* merge(that): a new object whose base is the larger of the two.  A       *)
(* register that neither S holds goes to M unconditionally (the code makes *)
(* no window check there); the others are checked.  The cursors over the   *)
(* two sorted maps are modelled in MergeLoops.                             *)
(***************************************************************************)
Larger(a, b) == IF a < b THEN b ELSE a

\* Mutant of JoinedRank: a register that only that.S holds is read from that.M.
JoinedRank_DenseThat(sk, that, j) == Larger(Get(sk, j), that.M[j] + that.B)

JoinedRank(sk, that, j) == Larger(Get(sk, j), Get(that, j))

JoinedBase(sk, that) == Larger(sk.B, that.B)

JoinedSparse(sk, that) ==
  {j \in DOMAIN sk.S \cup DOMAIN that.S :
     ~InWindow(JoinedRank(sk, that, j), JoinedBase(sk, that))}

Joined(sk, that) ==
  [NewSketch(Normalised(sk.flags)) EXCEPT
     !.B = JoinedBase(sk, that),
     !.M = [j \in Registers |->
              IF j \in JoinedSparse(sk, that) THEN 0
              ELSE (JoinedRank(sk, that, j) - JoinedBase(sk, that)) % (maxOffset + 1)],
     !.S = [j \in JoinedSparse(sk, that) |-> JoinedRank(sk, that, j) % rLimit]]

Merge(sk, that) == Compress(Joined(sk, that))

-----------------------------------------------------------------------------
(***************************************************************************)
(* fromHyperLogLog(hll, mBits, flags): a new object given each register of *)
(* hll, in order.  toHyperLogLog() gives a plain HyperLogLog the registers *)
(* iterate() presents.                                                     *)
(***************************************************************************)
FromRegisters(registers, flags) ==
  LET fed[n \in 0 .. m] ==
        IF n = 0 THEN NewSketch(Normalised(flags))
        ELSE AddJr(fed[n - 1], n - 1, registers[n - 1])
  IN  fed[m]

\* minimumBits(): the fewest sparse registers any base among the values needs.
MinimumSparse(sk) ==
  Min({Cardinality(Sparse(sk, b)) : b \in {Get(sk, j) : j \in Registers}} \cup {m})
=============================================================================
