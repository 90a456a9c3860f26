------------------------------ MODULE CpcUnion ------------------------------
(***************************************************************************)
(* A program with one cpc_sketch and one cpc_union of DataSketches: the    *)
(* sketch is updated, saved and restored, and made anew in any size; the   *)
(* union takes sketches, folding them to the fewest rows it has met, as a  *)
(* sketch while that is sparse and as a matrix of bits from then on, and   *)
(* gives its result back as a sketch.                                      *)
(***************************************************************************)
EXTENDS CpcCompressor

CONSTANTS
  Hashes,      \* what data hash to: row bits and leading zeros
  LgKs,        \* lg_k of the sketches the program makes
  UnionLgKs,   \* lg_k the union may be made with
  MaxGiven     \* bound on the data the sketch and the union hold together

ASSUME UnionAssumption ==
  /\ LgKs \subseteq Nat /\ UnionLgKs \subseteq Nat
  /\ \A hash \in Hashes : hash[1] \in Nat /\ hash[2] \in 0 .. Cols - 1

VARIABLES
  sketch,   \* the cpc_sketch
  union,    \* the cpc_union: lgK, and its accumulator or its matrix
  given     \* given.sketch, given.union: hashes each has been given

vars == <<sketch, union, given>>

\* Stands for a null accumulator, and for an empty bit_matrix.
Absent == <<>>

newUnion(lgK) == [lgK |-> lgK, accumulator |-> newSketch(lgK),
                  matrix |-> Absent, ok |-> TRUE]

Init ==
  /\ \E lgK \in LgKs : sketch = newSketch(lgK)
  /\ \E lgK \in UnionLgKs : union = newUnion(lgK)
  /\ given = [sketch |-> {}, union |-> {}]

-----------------------------------------------------------------------------
\* Slots are visited a golden stride apart, and rows folded to those of dst.
walk_table_updating_sketch(dst, table) ==
  LET slots == 2^table.lgSize
      golden == (618034 * slots) \div 1000000
      stride == IF golden % 2 = 0 THEN golden + 1 ELSE golden
      visited == SelectSeq([i \in 1 .. slots |-> table.slots[((i - 1) * stride) % slots]],
                           LAMBDA item : item # NONE)
  IN  FoldLeft(LAMBDA d, item : row_col_update(d, item % 2^(LgCols + dst.lgK)),
               dst, visited)

\* The matrix of one size or'ed into another of no more rows. An accumulator
\* that was empty when the union shrank may have left it rows it has no use for.
Or(matrix, lgK, src) ==
  [row \in DOMAIN matrix |->
     matrix[row] \cup UNION {src[r] : r \in {s \in DOMAIN src : s % 2^lgK = row}}]

or_table_into_matrix(u, table) ==
  LET Cells(row) == {Col(i) : i \in {j \in ToSet(Items(table)) :
                                       Row(j) % 2^u.lgK = row}}
  IN  [u EXCEPT !.matrix = [row \in DOMAIN @ |-> @[row] \cup Cells(row)]]

or_window_into_matrix(u, x) ==
  [u EXCEPT !.matrix = Or(@, u.lgK, [row \in DOMAIN x.window |->
                                       {x.offset + b : b \in x.window[row]}])]

or_matrix_into_matrix(u, src) == [u EXCEPT !.matrix = Or(@, u.lgK, src)]

switch_to_bit_matrix(u) ==
  [u EXCEPT !.matrix = build_bit_matrix(u.accumulator), !.accumulator = Absent]

\* An accumulator that is no longer sparse gives way to a matrix.
SwitchIfFull(u) ==
  IF Flavor(u.accumulator) \in {"EMPTY", "SPARSE"} THEN u ELSE switch_to_bit_matrix(u)

\* Mutant: an accumulator that fills up as it shrinks is kept.
reduce_k_keeping_accumulator(u, lgK) ==
  IF u.matrix # Absent
    THEN [u EXCEPT !.lgK = lgK,
                   !.matrix = Or([row \in Rows(lgK) |-> {}], lgK,
                                 [row \in Rows(u.lgK) |-> @[row]])]
  ELSE IF u.accumulator.numCoupons = 0
    THEN [u EXCEPT !.lgK = lgK]
  ELSE [u EXCEPT !.lgK = lgK,
                 !.accumulator = walk_table_updating_sketch(newSketch(lgK), @.table)]

reduce_k(u, lgK) ==
  IF u.matrix # Absent
    THEN [u EXCEPT !.lgK = lgK,
                   !.matrix = Or([row \in Rows(lgK) |-> {}], lgK,
                                 [row \in Rows(u.lgK) |-> @[row]])]
  ELSE IF u.accumulator.numCoupons = 0
    THEN [u EXCEPT !.lgK = lgK]
  ELSE SwitchIfFull([u EXCEPT !.lgK = lgK,
                              !.accumulator = walk_table_updating_sketch(
                                                newSketch(lgK), @.table)])

\* A union that has no more rows than the sketch it takes.
UpdateReduced(u, x) ==
  LET switched == IF u.accumulator = Absent THEN u ELSE switch_to_bit_matrix(u)
  IN  IF /\ u.accumulator # Absent
         /\ Flavor(u.accumulator) \notin {"EMPTY", "SPARSE"}
        THEN [u EXCEPT !.ok = FALSE]
      ELSE IF Flavor(x) = "SPARSE" /\ u.accumulator # Absent
        THEN IF u.accumulator.numCoupons = 0 /\ u.lgK = x.lgK
             THEN [u EXCEPT !.accumulator = x]
             ELSE SwitchIfFull([u EXCEPT !.accumulator =
                                  walk_table_updating_sketch(@, x.table)])
      ELSE IF Flavor(x) = "SPARSE"
        THEN or_table_into_matrix(u, x.table)
      ELSE IF Flavor(x) \in {"HYBRID", "PINNED"}
        THEN or_table_into_matrix(or_window_into_matrix(switched, x), x.table)
      ELSE or_matrix_into_matrix(switched, build_bit_matrix(x))

internal_update(u, x) ==
  UpdateReduced(IF x.lgK < u.lgK THEN reduce_k(u, x.lgK) ELSE u, x)

-----------------------------------------------------------------------------
get_result_from_accumulator(u) ==
  IF \/ u.lgK # u.accumulator.lgK
     \/ Flavor(u.accumulator) \notin {"EMPTY", "SPARSE"}
    THEN Throw(u.accumulator)
  ELSE IF u.accumulator.numCoupons = 0
    THEN newSketch(u.lgK)
  ELSE [u.accumulator EXCEPT !.merged = TRUE]

get_result_from_bit_matrix(u) ==
  LET matrix == [row \in Rows(u.lgK) |-> u.matrix[row]]
      c == MapThenSumSet(LAMBDA row : Cardinality(matrix[row]), DOMAIN matrix)
      offset == determine_correct_offset(u.lgK, c)
      split == SplitMatrix(matrix, offset,
                           NewTable(Max({u.lgK - 4, 2}), LgCols + u.lgK))
  IN  [newSketch(u.lgK) EXCEPT
         !.numCoupons = c, !.table = split.table, !.window = split.window,
         !.offset = offset, !.fic = split.fic, !.kxp = 0, !.merged = TRUE,
         !.ok = determine_flavor(u.lgK, c) \in {"HYBRID", "PINNED", "SLIDING"}]

get_result(u) == IF u.accumulator # Absent THEN get_result_from_accumulator(u)
                                           ELSE get_result_from_bit_matrix(u)

-----------------------------------------------------------------------------
\* The program makes another sketch in the place of the one it has.
New(lgK) ==
  /\ sketch' = newSketch(lgK)
  /\ given' = [given EXCEPT !.sketch = {}]
  /\ UNCHANGED union

Update(hash) ==
  /\ Cardinality(given.sketch) + Cardinality(given.union) < MaxGiven
  /\ sketch' = update(sketch, hash)
  /\ given' = [given EXCEPT !.sketch = @ \cup {hash}]
  /\ UNCHANGED union

SaveAndRestore ==
  /\ sketch' = Restore(sketch)
  /\ UNCHANGED <<union, given>>

\* An empty sketch is not looked at, whatever its size.
Merge ==
  /\ Flavor(sketch) # "EMPTY"
  /\ union' = internal_update(union, sketch)
  /\ given' = [given EXCEPT !.union = @ \cup given.sketch]
  /\ UNCHANGED sketch

\* sketch = union.get_result()
GetResult ==
  /\ sketch' = get_result(union)
  /\ given' = [given EXCEPT !.sketch = given.union]
  /\ UNCHANGED union

Next ==
  \/ \E lgK \in LgKs : New(lgK)
  \/ \E hash \in Hashes : Update(hash)
  \/ SaveAndRestore \/ Merge \/ GetResult

Spec == Init /\ [][Next]_vars

-----------------------------------------------------------------------------
Sketches == {sketch} \cup (IF union.accumulator = Absent THEN {} ELSE {union.accumulator})

\* The matrix that hashes stand for, folded to 2^lgK rows.
MatrixOf(hashes, lgK) ==
  [row \in Rows(lgK) |-> {h[2] : h \in {g \in hashes : g[1] % 2^lgK = row}}]

PresentsAll(x, hashes) ==
  /\ build_bit_matrix(x) = MatrixOf(hashes, x.lgK)
  /\ x.numCoupons = MapThenSumSet(LAMBDA row : Cardinality(MatrixOf(hashes, x.lgK)[row]),
                                  Rows(x.lgK))

\* However a sketch keeps its bits - a table of 1's, a window that has moved
\* with a table of surprises on both sides, a matrix in a union - and however
\* it came to them - updates in any order, a saved image, a merge folded to
\* fewer rows - it has exactly the bits of the data it was given, and its
\* count is their number.
Presents ==
  /\ PresentsAll(sketch, given.sketch)
  /\ IF union.accumulator # Absent
     THEN PresentsAll(union.accumulator, given.union)
     ELSE \A row \in Rows(union.lgK) :
            union.matrix[row] = MatrixOf(given.union, union.lgK)[row]

\* No legal call meets one of the errors the classes throw: a pair that is
\* already in a table, or a table with no room; a count too low or too high
\* for the window; a union whose matrix is too sparse for a result; a
\* compressed image that is read beyond its last word.
NeverThrows ==
  /\ \A x \in Sketches \cup {get_result(union)} : x.ok /\ x.table.ok
  /\ union.ok

\* Updates left of the first interesting column are dropped unseen: every row
\* has a 1 in each of those columns. It is saved and read back with a window
\* whose offset is not, so the two must not come apart.
SkipsOnlyKnown ==
  \A x \in Sketches \cup {get_result(union)} :
    /\ x.fic <= x.offset
    /\ x.offset = determine_correct_offset(x.lgK, x.numCoupons)
    /\ \A row \in Rows(x.lgK) : 0 .. x.fic - 1 \subseteq build_bit_matrix(x)[row]

\* The mass of the cells of a matrix that are 0.
MassOf(matrix) ==
  MapThenSumSet(LAMBDA row : 2^Cols - 1 - MapThenSumSet(LAMBDA c : 2^(Cols - c - 1),
                                                        matrix[row]),
                DOMAIN matrix)

\* What is subtracted from kxp coupon by coupon, and worked out afresh now and
\* then, is the mass of the bits that are 0, up to that of the columns past
\* the last; but a sketch read back from an empty image has lost it all (its
\* first update then divides by 0).
MassExact ==
  ~sketch.merged =>
    sketch.kxp - MassOf(build_bit_matrix(sketch))
      \in {0, 2^sketch.lgK, 2^sketch.lgK - 2^(sketch.lgK + Cols)}

\* What a sketch is compressed to fits the buffers, which are made before it
\* is known how long it will be and written without a check.
BuffersHold ==
  LET image == compress(sketch)
      n == image.entries
  IN  /\ n > 0 => image.table.words <=
                    safe_length_for_compressed_pair_buf(2^sketch.lgK, n,
                      golomb_choose_number_of_base_bits(2^sketch.lgK + n, n))
      /\ image.window.words <= safe_length_for_compressed_window_buf(2^sketch.lgK)
=============================================================================
