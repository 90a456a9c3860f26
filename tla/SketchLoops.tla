----------------------------- MODULE SketchLoops -----------------------------
(***************************************************************************)
(* One HyperLogLogLog object with the loops of compress() and rebase()     *)
(* taken one register at a time, as the code runs them: iterate() walks    *)
(* the registers with a cursor into the sorted map, the three compress*    *)
(* functions search for a base with it, and rebase() moves entries between *)
(* M and S while B still is the old base.  Sketch gives each of these its  *)
(* effect in one step; MergeLoops, which adds the loops of merge() and     *)
(* gives the specification, shows that those effects are reached.          *)
(***************************************************************************)
EXTENDS Sketch

VARIABLES
  sk,      \* the object
  before,  \* the object when the running addJr or compress() was called
  pc,      \* the loop that runs, "idle" between calls, "absent" before the first
  cursor,  \* iterate(): j, the next register, and i, the next entry of S;
           \* rebase(): j, the next register
  local    \* the local variables of the compress* functions and of rebase()

vars == <<sk, before, pc, cursor, local>>

NoLocals == [potentialBase |-> 0, nextPotentialBase |-> 0, bestNs |-> 0,
             bestPotentialBase |-> 0, nBelowB |-> 0, ns |-> 0, newB |-> 0]

Start == [j |-> 0, i |-> 0]

ObjectInit ==
  /\ sk = NewSketch({})
  /\ before = NewSketch({})
  /\ pc = "absent"
  /\ cursor = Start
  /\ local = NoLocals

CallConstructor(flags) ==
  /\ pc = "absent"
  /\ ValidFlags(Normalised(flags))
  /\ sk' = NewSketch(Normalised(flags))
  /\ before' = sk'
  /\ pc' = "idle"
  /\ UNCHANGED <<cursor, local>>

-----------------------------------------------------------------------------
\* compress() of the object after: the first loop of the function that the
\* flags select, with its locals initialised.
Enter(after) ==
  /\ cursor' = Start
  /\ IF "TYPE_FULL" \in after.flags
     THEN /\ pc' = "fullLowest"
          /\ sk' = after
          /\ local' = [NoLocals EXCEPT !.potentialBase = rLimit,
                                       !.bestNs = Cardinality(DOMAIN after.S),
                                       !.bestPotentialBase = after.B]
     ELSE IF "TYPE_INCREASE" \in after.flags
     THEN /\ pc' = "increaseNext"
          /\ sk' = [after EXCEPT !.lowerBound = rLimit]
          /\ local' = [NoLocals EXCEPT !.potentialBase = rLimit]
     ELSE /\ pc' = "bottomLowest"
          /\ sk' = [after EXCEPT !.lowerBound = rLimit]
          /\ local' = NoLocals

CallAddJr(j, r) ==
  /\ pc = "idle"
  /\ before' = sk
  /\ LET after == IF Get(sk, j) < r THEN Store(sk, j, r) ELSE sk
     IN  IF r > sk.lowerBound /\ MustCompress(sk, after, j, r)
         THEN Enter(after)
         ELSE /\ sk' = IF r <= sk.lowerBound THEN sk ELSE after
              /\ UNCHANGED <<pc, cursor, local>>

\* The end of compress(): leave is sk, but for what the last loop changes.
Return(leave) ==
  /\ sk' = [leave EXCEPT !.compressCount = @ + 1]
  /\ pc' = "idle"
  /\ cursor' = Start
  /\ local' = NoLocals
  /\ UNCHANGED before

\* A call of rebase(newB), or the end of compress() without one.
RebaseOrReturn(needed, newB) ==
  IF needed
  THEN /\ pc' = "rebase"
       /\ cursor' = Start
       /\ local' = [NoLocals EXCEPT !.newB = newB]
       /\ UNCHANGED <<sk, before>>
  ELSE Return(sk)

-----------------------------------------------------------------------------
(***************************************************************************)
(* iterate(): the registers before the key of the entry i come from M, the *)
(* register at the key from S.                                             *)
(***************************************************************************)
KeyAt(S, i) == CHOOSE k \in DOMAIN S : Cardinality({l \in DOMAIN S : l < k}) = i

AtEntry == cursor.i < Cardinality(DOMAIN sk.S) /\ KeyAt(sk.S, cursor.i) <= cursor.j

More == cursor.i < Cardinality(DOMAIN sk.S) \/ cursor.j < m

\* The value that iterate() passes to the function.
Presented ==
  IF AtEntry THEN sk.S[KeyAt(sk.S, cursor.i)] ELSE sk.M[cursor.j] + sk.B

Advance ==
  cursor' = [j |-> cursor.j + 1, i |-> IF AtEntry THEN cursor.i + 1 ELSE cursor.i]

-----------------------------------------------------------------------------
(***************************************************************************)
(* compressFull().  The first loop's nextPotentialBase is overwritten      *)
(* before it is read, and left out.                                        *)
(***************************************************************************)
FullLowest ==
  /\ pc = "fullLowest"
  /\ More
  /\ Advance
  /\ local' = [local EXCEPT !.potentialBase = IF Presented < @ THEN Presented ELSE @]
  /\ UNCHANGED <<sk, before, pc>>

\* The condition of the while loop, with the locals l.
SearchOn(l) == l.nBelowB < l.bestNs /\ l.potentialBase < rLimit

FullLowestDone ==
  /\ pc = "fullLowest"
  /\ ~More
  /\ sk' = [sk EXCEPT !.lowerBound = local.potentialBase]
  /\ IF SearchOn(local)
     THEN /\ pc' = "fullTry"
          /\ cursor' = Start
          /\ local' = [local EXCEPT !.nextPotentialBase = rLimit, !.ns = 0]
     ELSE /\ pc' = "fullChosen"
          /\ UNCHANGED <<cursor, local>>
  /\ UNCHANGED before

\* Mutants of TryRegister: the registers below the base are counted again with
\* every base; a register at the base is taken for one above it.
TryRegister_CountsAgain(l, r) ==
  [l EXCEPT
     !.ns = @ + (IF InWindow(r, l.potentialBase) THEN 0 ELSE 1),
     !.nBelowB = @ + (IF r <= l.potentialBase THEN 1 ELSE 0),
     !.nextPotentialBase = IF l.potentialBase < r /\ r < @ THEN r ELSE @]

TryRegister_AtIsAbove(l, r) ==
  [l EXCEPT
     !.ns = @ + (IF InWindow(r, l.potentialBase) THEN 0 ELSE 1),
     !.nBelowB = @ + (IF r < l.potentialBase THEN 1 ELSE 0),
     !.nextPotentialBase = IF l.potentialBase <= r /\ r < @ THEN r ELSE @]

\* What the search does with a register of value r.
TryRegister(l, r) ==
  [l EXCEPT
     !.ns = @ + (IF InWindow(r, l.potentialBase) THEN 0 ELSE 1),
     !.nBelowB = @ + (IF r = l.potentialBase THEN 1 ELSE 0),
     !.nextPotentialBase = IF l.potentialBase < r /\ r < @ THEN r ELSE @]

FullTry ==
  /\ pc = "fullTry"
  /\ More
  /\ Advance
  /\ local' = TryRegister(local, Presented)
  /\ UNCHANGED <<sk, before, pc>>

\* Mutant of Tried: a base that is no better replaces the best so far.
Tried_TieWins(l) ==
  LET better == l.ns <= l.bestNs
  IN  [l EXCEPT !.bestNs = IF better THEN l.ns ELSE @,
                !.bestPotentialBase = IF better THEN l.potentialBase ELSE @,
                !.potentialBase = l.nextPotentialBase]

\* The end of the loop's body: ns is the sparse size with the base tried.
Tried(l) ==
  LET better == l.ns < l.bestNs
  IN  [l EXCEPT !.bestNs = IF better THEN l.ns ELSE @,
                !.bestPotentialBase = IF better THEN l.potentialBase ELSE @,
                !.potentialBase = l.nextPotentialBase]

FullTryDone ==
  /\ pc = "fullTry"
  /\ ~More
  /\ IF SearchOn(Tried(local))
     THEN /\ cursor' = Start
          /\ local' = [Tried(local) EXCEPT !.nextPotentialBase = rLimit, !.ns = 0]
          /\ UNCHANGED pc
     ELSE /\ pc' = "fullChosen"
          /\ local' = Tried(local)
          /\ UNCHANGED cursor
  /\ UNCHANGED <<sk, before>>

FullChosen ==
  /\ pc = "fullChosen"
  /\ RebaseOrReturn(local.bestPotentialBase # sk.B, local.bestPotentialBase)

-----------------------------------------------------------------------------
(***************************************************************************)
(* compressIncrease().                                                     *)
(***************************************************************************)
IncreaseNext ==
  /\ pc = "increaseNext"
  /\ More
  /\ Advance
  /\ local' = [local EXCEPT !.potentialBase =
                 IF sk.B < Presented /\ Presented < @ THEN Presented ELSE @]
  /\ sk' = [sk EXCEPT !.lowerBound = IF Presented < @ THEN Presented ELSE @]
  /\ UNCHANGED <<before, pc>>

IncreaseNextDone ==
  /\ pc = "increaseNext"
  /\ ~More
  /\ pc' = "increaseTry"
  /\ cursor' = Start
  /\ UNCHANGED <<sk, before, local>>

IncreaseTry ==
  /\ pc = "increaseTry"
  /\ More
  /\ Advance
  /\ local' = [local EXCEPT
       !.ns = @ + (IF InWindow(Presented, local.potentialBase) THEN 0 ELSE 1)]
  /\ UNCHANGED <<sk, before, pc>>

IncreaseTryDone ==
  /\ pc = "increaseTry"
  /\ ~More
  /\ RebaseOrReturn(local.ns < Cardinality(DOMAIN sk.S), local.potentialBase)

-----------------------------------------------------------------------------
(***************************************************************************)
(* compressBottom().                                                       *)
(***************************************************************************)
BottomLowest ==
  /\ pc = "bottomLowest"
  /\ More
  /\ Advance
  /\ sk' = [sk EXCEPT !.lowerBound = IF Presented < @ THEN Presented ELSE @]
  /\ UNCHANGED <<before, pc, local>>

BottomLowestDone ==
  /\ pc = "bottomLowest"
  /\ ~More
  /\ sk' = [sk EXCEPT !.minValueCount = 0]
  /\ pc' = "bottomCount"
  /\ cursor' = Start
  /\ UNCHANGED <<before, local>>

BottomCount ==
  /\ pc = "bottomCount"
  /\ More
  /\ Advance
  /\ sk' = [sk EXCEPT !.minValueCount =
              @ + (IF Presented = sk.lowerBound THEN 1 ELSE 0)]
  /\ UNCHANGED <<before, pc, local>>

BottomCountDone ==
  /\ pc = "bottomCount"
  /\ ~More
  /\ RebaseOrReturn(sk.lowerBound > sk.B, sk.lowerBound)

-----------------------------------------------------------------------------
(***************************************************************************)
(* rebase(newB): each register in turn, read with the old base.            *)
(***************************************************************************)
\* Mutant of RebaseRegister: B is assigned before the loop, not after it.
RebaseRegister_NewBaseFirst(j, newB) ==
  LET r == Get([sk EXCEPT !.B = newB], j)
  IN  IF InWindow(r, newB)
      THEN [sk EXCEPT !.M = Put(@, j, r - newB), !.S = EraseSparse(@, j)]
      ELSE [sk EXCEPT !.S = AddSparse(@, j, r)]

RebaseRegister(j, newB) ==
  LET r == Get(sk, j)
  IN  IF InWindow(r, newB)
      THEN [sk EXCEPT !.M = Put(@, j, r - newB), !.S = EraseSparse(@, j)]
      ELSE [sk EXCEPT !.S = AddSparse(@, j, r)]

RebaseOne ==
  /\ pc = "rebase"
  /\ cursor.j < m
  /\ cursor' = [cursor EXCEPT !.j = @ + 1]
  /\ sk' = RebaseRegister(cursor.j, local.newB)
  /\ UNCHANGED <<before, pc, local>>

RebaseDone ==
  /\ pc = "rebase"
  /\ cursor.j = m
  /\ Return([sk EXCEPT !.B = local.newB, !.rebaseCount = @ + 1])

Loop ==
  \/ FullLowest   \/ FullLowestDone   \/ FullTry     \/ FullTryDone \/ FullChosen
  \/ IncreaseNext \/ IncreaseNextDone \/ IncreaseTry \/ IncreaseTryDone
  \/ BottomLowest \/ BottomLowestDone \/ BottomCount \/ BottomCountDone
  \/ RebaseOne    \/ RebaseDone

ObjectNext ==
  \/ \E flags \in Flags : CallConstructor(flags)
  \/ \E j \in Registers, r \in Rank : CallAddJr(j, r)
  \/ Loop

-----------------------------------------------------------------------------
\* "this is a lower bound on ns" (the comment at nBelowB): no base above the
\* one being tried needs fewer sparse entries than the count in nBelowB, which
\* is what allows the search to stop before it has tried every base.
BelowBoundsNs ==
  pc = "fullTry" =>
    \A b \in local.potentialBase + 1 .. rLimit :
      local.nBelowB <= Cardinality(Sparse(sk, b))

\* While rebase() runs, the registers it has handled have their value with
\* respect to the new base and the others with respect to the old one: every
\* register has the value it had when the call was made, except the one that
\* addJr has given a larger one.
RebaseHalfway ==
  pc = "rebase" =>
    LET now(j) == IF j \in DOMAIN sk.S THEN sk.S[j]
                  ELSE sk.M[j] + IF j < cursor.j THEN local.newB ELSE sk.B
        changed == {j \in Registers : now(j) # Get(before, j)}
    IN  /\ Cardinality(changed) <= 1
        /\ \A j \in changed : now(j) > Get(before, j)

\* Every call that compresses returns: the search visits each value at most
\* once, whatever the registers hold.
CallsReturn == pc \notin {"absent", "idle"} ~> pc = "idle"
=============================================================================
