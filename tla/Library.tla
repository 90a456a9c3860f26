------------------------------ MODULE Library ------------------------------
(***************************************************************************)
(* A program that uses the three kinds of sketch side by side, as test.cpp *)
(* and measure.cpp do, and converts between HyperLogLog and HyperLogLogLog.*)
(* HyperLogLogLog gives the calls on sketch; here are the calls on plain   *)
(* (HyperLogLog) and zstd (HyperLogLogZstd).  A program declares some of   *)
(* the names and gives constructors and conversions some of the flags.     *)
(***************************************************************************)
EXTENDS HyperLogLogLog

CONSTANTS
  Plains,   \* names of HyperLogLog variables
  Zstds,    \* names of HyperLogLogZstd variables
  Programs  \* what a program may declare: names, and flags arguments

\* A name is a variable of one class.
ASSUME LibraryAssumption ==
  /\ Plains \cap Zstds = {}
  /\ Sketches \cap (Plains \cup Zstds) = {}
  /\ Programs \subseteq [names : SUBSET (Sketches \cup Plains \cup Zstds), flags : SUBSET Flags]

VARIABLES
  program,  \* what this program declares; it does not change
  plain,    \* plain[p]: the object in variable p, once it holds one
  zstd      \* zstd[z]: the object in variable z, once it holds one

libraryVars == <<program, sketch, plain, zstd>>

INSTANCE PlainSketch
INSTANCE ZstdSketch

PlainHeld == DOMAIN plain

ZstdHeld == DOMAIN zstd

LibraryInit ==
  /\ program \in Programs
  /\ Init
  /\ plain = [p \in {} |-> NewPlain]
  /\ zstd = [z \in {} |-> NewZstd]

\* f with f[x] = y, where x may be new.
With(f, x, y) == [z \in DOMAIN f \cup {x} |-> IF z = x THEN y ELSE f[z]]

-----------------------------------------------------------------------------
AssignPlain(p, registers) ==
  /\ plain' = With(plain, p, registers)
  /\ UNCHANGED <<sketch, zstd>>

PlainAdd(p, j, r) ==
  /\ p \in PlainHeld
  /\ AssignPlain(p, AddPlain(plain[p], j, r))

PlainMerge(p, q, o) ==
  /\ {q, o} \subseteq PlainHeld
  /\ AssignPlain(p, MergePlain(plain[q], plain[o]))

\* p = s.toHyperLogLog(): the registers iterate() presents, added one by one
\* to a new object.
ToHyperLogLog(p, s) ==
  /\ s \in Held
  /\ AssignPlain(p, [j \in Registers |->
                       AddPlain(NewPlain, j, Get(sketch[s], j))[j]])

\* s = fromHyperLogLog(p, mBits, flags).
FromHyperLogLog(s, p, flags) ==
  /\ p \in PlainHeld
  /\ ValidFlags(Normalised(flags))
  /\ Assign(s, FromRegisters(plain[p], flags))
  /\ UNCHANGED <<plain, zstd>>

-----------------------------------------------------------------------------
AssignZstd(z, object) ==
  /\ zstd' = With(zstd, z, object)
  /\ UNCHANGED <<sketch, plain>>

ZstdAdd(z, j, r) ==
  /\ z \in ZstdHeld
  /\ AssignZstd(z, AddZstd(zstd[z], j, r))

\* z = x.merge(y): the operands are decompressed, then z gets the new object.
ZstdMerge(z, x, y) ==
  /\ {x, y} \subseteq ZstdHeld
  /\ zstd' = With([w \in ZstdHeld |-> IF w \in {x, y} THEN Decompress(zstd[w])
                                                      ELSE zstd[w]],
                  z, MergeZstd(zstd[x], zstd[y]))
  /\ UNCHANGED <<sketch, plain>>

\* exportRegisters() and estimate().
ZstdQuery(z) ==
  /\ z \in ZstdHeld
  /\ AssignZstd(z, Decompress(zstd[z]))

-----------------------------------------------------------------------------
Declared(names) == names \cap program.names

SketchCall ==
  \/ \E s \in Declared(Sketches), flags \in program.flags : Construct(s, flags)
  \/ \E s \in Declared(Sketches), j \in Registers, r \in Rank : Add(s, j, r)
  \/ \E s, a, b \in Declared(Sketches) : MergeInto(s, a, b)

PlainCall(p) ==
  \/ AssignPlain(p, NewPlain)
  \/ \E j \in Registers, r \in Rank : PlainAdd(p, j, r)
  \/ \E q, o \in Declared(Plains) : PlainMerge(p, q, o)
  \/ \E s \in Declared(Sketches) : ToHyperLogLog(p, s)
  \/ \E s \in Declared(Sketches), flags \in program.flags : FromHyperLogLog(s, p, flags)

ZstdCall(z) ==
  \/ AssignZstd(z, NewZstd)
  \/ \E j \in Registers, r \in Rank : ZstdAdd(z, j, r)
  \/ \E x, y \in Declared(Zstds) : ZstdMerge(z, x, y)
  \/ ZstdQuery(z)

LibraryNext ==
  /\ UNCHANGED program
  /\ \/ SketchCall /\ UNCHANGED <<plain, zstd>>
     \/ \E p \in Declared(Plains) : PlainCall(p)
     \/ \E z \in Declared(Zstds) : ZstdCall(z)

LibrarySpec == LibraryInit /\ [][LibraryNext]_libraryVars

-----------------------------------------------------------------------------
\* The buffer of a HyperLogLogZstd never differs from what decompress() would
\* put there, so the const methods that overwrite it lose nothing, and the
\* early return of addJr is exact: lowerBound is the smallest register.
BufferCoherent ==
  \A z \in ZstdHeld :
    /\ zstd[z].Mtemp = zstd[z].Mcompressed
    /\ zstd[z].lowerBound = Min({zstd[z].Mtemp[j] : j \in Registers})

\* A sketch converted to a HyperLogLog and back, with its own flags, needs as
\* many sparse entries as before: in BOTTOM mode it has the same base and
\* entries; with full compression after every update it may have another base
\* (a tie keeps the one it met first), but never a worse one.
RoundTrip ==
  \A s \in Held :
    LET back == FromRegisters(Ranks(sketch[s]), sketch[s].flags)
    IN  /\ Ranks(back) = Ranks(sketch[s])
        /\ sketch[s].flags = {"BOTTOM"} =>
             back.B = sketch[s].B /\ back.S = sketch[s].S
        /\ {"WHEN_ALWAYS", "TYPE_FULL"} \subseteq sketch[s].flags =>
             Cardinality(DOMAIN back.S) = Cardinality(DOMAIN sketch[s].S)

\* The registers every sketch of the program presents, whatever its class.
AllShown ==
  [x \in Held \cup PlainHeld \cup ZstdHeld |->
     CASE x \in Held      -> Ranks(sketch[x])
       [] x \in PlainHeld -> plain[x]
       [] x \in ZstdHeld  -> Decompress(zstd[x]).Mtemp]

AllOracle ==
  INSTANCE MaxRegisters WITH reg <- AllShown,
                             Sketches <- Sketches \cup Plains \cup Zstds

\* Calls on any class, and conversions between them, act on the registers as
\* the abstract program does (a conversion is the merge of a sketch with
\* itself into another variable): no class can be told from another by them.
ImplementsAllRegisters == AllOracle!Spec
=============================================================================
