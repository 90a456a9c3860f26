----------------------------- MODULE MergeLoops -----------------------------
(***************************************************************************)
(* merge(that) of two HyperLogLogLog objects, one turn of its loops at a   *)
(* time, and then the loops of compress() on the result, which SketchLoops *)
(* has.  A cursor j over the registers and one into each sorted map move   *)
(* forward through four loops (both maps have entries left, only the first *)
(* has, only the second has, neither has).  Which loop runs follows from   *)
(* the cursors.  The object under construction is sk of SketchLoops, and   *)
(* pc is "merge" until compress() takes it over.                           *)
(***************************************************************************)
EXTENDS SketchLoops

CONSTANTS
  Operands,    \* the registers the operands may have
  MergedFlags  \* and their flags

VARIABLES
  this, that,  \* the operands, while they are read
  j,           \* the next register
  i1, i2,      \* the next entry of this.S and of that.S
  result       \* <<what Sketch says the merge returns>>; empty if there is no merge

operands == <<this, that, j, i1, i2, result>>
mergeVars == <<vars, operands>>

H == sk

NoMerge ==
  /\ this = NewSketch({}) /\ that = NewSketch({})
  /\ j = 0 /\ i1 = 0 /\ i2 = 0

\* A program that updates one object, or one that calls merge on two objects
\* of the same kind with any registers.
MergeInit ==
  \/ ObjectInit /\ NoMerge /\ result = <<>>
  \/ /\ \E flags \in MergedFlags, f, g \in Operands :
          /\ this = FromRegisters(f, flags)
          /\ that = FromRegisters(g, flags)
     /\ sk = [NewSketch(Normalised(this.flags)) EXCEPT !.B = Larger(this.B, that.B)]
     /\ before = NewSketch({})
     /\ pc = "merge"
     /\ cursor = Start
     /\ local = NoLocals
     /\ j = 0 /\ i1 = 0 /\ i2 = 0
     /\ result = <<Merge(this, that)>>

-----------------------------------------------------------------------------
Left1 == i1 < Cardinality(DOMAIN this.S)
Left2 == i2 < Cardinality(DOMAIN that.S)

\* The next key that either map has; m when neither has one.
NextKey ==
  Min((IF Left1 THEN {KeyAt(this.S, i1)} ELSE {})
        \cup (IF Left2 THEN {KeyAt(that.S, i2)} ELSE {}) \cup {m})

\* The loops "while (j < k)", and the last one: a register of neither map.
CopyDense ==
  /\ pc = "merge"
  /\ j < NextKey
  /\ sk' = [H EXCEPT !.M = Put(@, j, Larger(this.M[j] + this.B, that.M[j] + that.B) - H.B)]
  /\ j' = j + 1
  /\ UNCHANGED <<before, pc, cursor, local, this, that, i1, i2, result>>

At1(k) == Left1 /\ KeyAt(this.S, i1) = k

At2(k) == Left2 /\ KeyAt(that.S, i2) = k

\* Mutant of PutRank: the value goes to M without a test of the window.
PutRank_Unchecked(r) == [H EXCEPT !.M = Put(@, j, r - H.B)]

PutRank(r) ==
  IF InWindow(r, H.B) THEN [H EXCEPT !.M = Put(@, j, r - H.B)]
                      ELSE [H EXCEPT !.S = AddSparse(@, j, r)]

\* The body of a loop after its "while (j < k)": a register of either map.
CopyEntry ==
  /\ pc = "merge"
  /\ Left1 \/ Left2
  /\ j >= NextKey
  /\ LET k  == NextKey
         r1 == IF At1(k) THEN this.S[k] ELSE this.M[j] + this.B
         r2 == IF At2(k) THEN that.S[k] ELSE that.M[j] + that.B
     IN  /\ sk' = PutRank(Larger(r1, r2))
         /\ i1' = IF At1(k) THEN i1 + 1 ELSE i1
         /\ i2' = IF At2(k) THEN i2 + 1 ELSE i2
  /\ j' = j + 1
  /\ UNCHANGED <<before, pc, cursor, local, this, that, result>>

\* H.compress(), loop by loop; the operands are not looked at any more.
Finish ==
  /\ pc = "merge"
  /\ ~Left1 /\ ~Left2 /\ j >= m
  /\ Enter(H)
  /\ before' = H
  /\ this' = NewSketch({}) /\ that' = NewSketch({})
  /\ j' = 0 /\ i1' = 0 /\ i2' = 0
  /\ UNCHANGED result

MergeLoop ==
  \/ CopyDense
  \/ CopyEntry
  \/ Finish
  \/ Loop /\ UNCHANGED operands

MergeNext ==
  \/ MergeLoop
  \/ result = <<>> /\ ObjectNext /\ UNCHANGED operands

\* The calls are synchronous: a loop that has been entered runs.
MergeSpec == MergeInit /\ [][MergeNext]_mergeVars /\ WF_mergeVars(MergeLoop)

-----------------------------------------------------------------------------
\* The loops, those of compress() included, compute what Sketch says merge()
\* returns.
MergesAsSketch == result # <<>> /\ pc = "idle" => <<sk>> = result

\* A call of addJr, loops and all, has the effect Sketch gives it in one step.
Atomic ==
  INSTANCE HyperLogLogLog WITH
    Sketches <- {"a"},
    sketch <- [s \in IF pc = "absent" \/ result # <<>> THEN {} ELSE {"a"} |->
                 IF pc = "idle" THEN sk ELSE before]

ImplementsSketch == Atomic!Spec
=============================================================================
