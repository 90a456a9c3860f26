----------------------------- MODULE CpcSketch -----------------------------
(***************************************************************************)
(* One CPC sketch of DataSketches (cpc_sketch): a matrix of bits, a row    *)
(* for every value of the hash's low bits and a column for every number of *)
(* leading zeros, kept as a table of its 1's while there are few, and then *)
(* as a window of columns with a table of what is surprising beside it: a  *)
(* 1 after the window or a 0 before it.                                    *)
(***************************************************************************)
EXTENDS U32Table

CONSTANTS
  LgCols,      \* log2 of the columns of the matrix (6)
  WindowBits,  \* columns of the window (8)
  MinLgK,      \* the least lg_k (CPC_MIN_LG_K, 4)
  Limits       \* where the flavors change, in coupons for a row; see Below

\* A window moves by one column for every coupon a row gains, so that it must
\* begin to move when it would otherwise be WindowBits columns behind.
ASSUME SketchAssumption ==
  /\ LgCols \in Nat /\ WindowBits \in 1 .. 2^LgCols - 1 /\ MinLgK \in Nat \ {0}
  /\ Limits.pinned = Limits.start + 8

Cols == 2^LgCols

\* c coupons in k rows are fewer than ratio[2] / ratio[1] a row; the code has
\* <<32, 3>> for sparse, <<2, 1>> for hybrid, 27 eighths for pinned and 19
\* eighths for start.
Below(c, k, ratio) == ratio[1] * c < ratio[2] * k

determine_flavor(lgK, c) ==
  CASE c = 0 -> "EMPTY"
    [] c > 0 /\ Below(c, 2^lgK, Limits.sparse) -> "SPARSE"
    [] ~Below(c, 2^lgK, Limits.sparse) /\ Below(c, 2^lgK, Limits.hybrid) -> "HYBRID"
    [] ~Below(c, 2^lgK, Limits.hybrid) /\ 8 * c < Limits.pinned * 2^lgK -> "PINNED"
    [] OTHER -> "SLIDING"

determine_correct_offset(lgK, c) ==
  LET tmp == 8 * c - Limits.start * 2^lgK
  IN  IF tmp < 0 THEN 0 ELSE tmp \div 2^(lgK + 3)

MaxOffset == Cols - WindowBits

-----------------------------------------------------------------------------
rowCol(row, col) == row * Cols + col
Row(item) == item \div Cols
Col(item) == item % Cols

\* hash is the pair of row bits and of leading zeros, clipped to the columns.
row_col_from_two_hashes(hash, lgK) == rowCol(hash[1] % 2^lgK, hash[2])

Rows(lgK) == 0 .. 2^lgK - 1

Flip(S, T) == (S \ T) \cup (T \ S)

\* kxp is counted in units of 2^-Cols. ok turns FALSE where the class throws.
newSketch(lgK) ==
  [lgK |-> lgK, numCoupons |-> 0, table |-> NewTable(2, LgCols + lgK),
   window |-> <<>>, offset |-> 0, fic |-> 0, kxp |-> 2^(lgK + Cols),
   merged |-> FALSE, ok |-> lgK >= MinLgK]

Throw(x) == [x EXCEPT !.ok = FALSE]

Flavor(x) == determine_flavor(x.lgK, x.numCoupons)

\* The row of a window, as the set of its columns counted from the offset,
\* and the surprises in the table, brought together.
build_bit_matrix(x) ==
  LET Surprises(row) == {Col(i) : i \in {j \in ToSet(Items(x.table)) : Row(j) = row}}
      Before == 0 .. x.offset - 1
      Window(row) == IF x.window = <<>> THEN {} ELSE {x.offset + b : b \in x.window[row]}
  IN  [row \in Rows(x.lgK) |->
         IF x.numCoupons = 0 THEN Before
         ELSE Flip(Before \cup Window(row), Surprises(row))]

\* The mass of the columns that are 0 in one byte of a row, in units of the
\* last column of the byte (KXP_BYTE_TABLE).
ByteMass(matrix, j) ==
  MapThenSumSet(LAMBDA row :
                  MapThenSumSet(LAMBDA b : 2^(WindowBits - b - 1),
                                {b \in 0 .. WindowBits - 1 :
                                   j * WindowBits + b \notin matrix[row]}),
                DOMAIN matrix)

\* Mutant: the bytes are weighed as if they were the first one.
refresh_kxp_unweighed(matrix) ==
  MapThenSumSet(LAMBDA j : 2^(Cols - WindowBits) * ByteMass(matrix, j),
                0 .. Cols \div WindowBits - 1)

refresh_kxp(matrix) ==
  MapThenSumSet(LAMBDA j : 2^(Cols - WindowBits * (j + 1)) * ByteMass(matrix, j),
                0 .. Cols \div WindowBits - 1)

\* Mutant: only 1's after the window count as interesting.
SplitMatrix_ones_only(matrix, offset, table) ==
  LET Surprising(row) ==
        Flip(matrix[row] \ (offset .. offset + WindowBits - 1), 0 .. offset - 1)
      items == UNION {{rowCol(row, col) : col \in Surprising(row)} :
                        row \in DOMAIN matrix}
  IN  [window |-> [row \in DOMAIN matrix |->
                     {c - offset : c \in matrix[row] \cap
                                           (offset .. offset + WindowBits - 1)}],
       table |-> FoldLeft(maybe_insert, table, Sorted(items)),
       fic |-> offset]

\* The window, the table of surprises and the first interesting column for a
\* matrix and an offset.
SplitMatrix(matrix, offset, table) ==
  LET Surprising(row) ==
        Flip(matrix[row] \ (offset .. offset + WindowBits - 1), 0 .. offset - 1)
      items == UNION {{rowCol(row, col) : col \in Surprising(row)} :
                        row \in DOMAIN matrix}
  IN  [window |-> [row \in DOMAIN matrix |->
                     {c - offset : c \in matrix[row] \cap
                                           (offset .. offset + WindowBits - 1)}],
       table |-> FoldLeft(maybe_insert, table, Sorted(items)),
       fic |-> Min({offset} \cup {Col(i) : i \in items})]

-----------------------------------------------------------------------------
\* A coupon that is new to the sketch.
Novel(x, item) ==
  [x EXCEPT !.numCoupons = @ + 1, !.kxp = @ - 2^(Cols - Col(item) - 1)]

promote_sparse_to_windowed(x) ==
  LET k == 2^x.lgK
      items == Items(x.table)
      c == Limits.sparse[1] * x.numCoupons
      atLimit == \/ c = Limits.sparse[2] * k
                 \/ x.lgK = MinLgK /\ c > Limits.sparse[2] * k
  IN  IF ~atLimit \/ x.offset # 0 THEN Throw(x)
      ELSE [x EXCEPT
              !.window = [row \in Rows(x.lgK) |->
                            {Col(i) : i \in {j \in ToSet(items) :
                                        Row(j) = row /\ Col(j) < WindowBits}}],
              !.table = FoldLeft(maybe_insert, NewTable(2, LgCols + x.lgK),
                          SelectSeq(items, LAMBDA i : Col(i) >= WindowBits))]

update_sparse(x, item) ==
  LET updated == Novel([x EXCEPT !.table = maybe_insert(@, item)], item)
  IN  IF ~Below(x.numCoupons, 2^x.lgK, Limits.sparse) THEN Throw(x)
      ELSE IF HasItem(x.table, item) THEN x
      ELSE IF ~Below(updated.numCoupons, 2^x.lgK, Limits.sparse)
        THEN promote_sparse_to_windowed(updated)
      ELSE updated

move_window(x) ==
  LET offset == x.offset + 1
      matrix == build_bit_matrix(x)
      split == SplitMatrix(matrix, offset, clear(x.table))
  IN  IF \/ offset > MaxOffset
         \/ offset # determine_correct_offset(x.lgK, x.numCoupons)
         \/ x.window = <<>>
      THEN Throw(x)
      ELSE [x EXCEPT !.kxp = IF offset % WindowBits = 0 THEN refresh_kxp(matrix)
                                                        ELSE @,
                     !.window = split.window, !.table = split.table,
                     !.offset = offset, !.fic = split.fic]

\* c coupons are too many for a window at the sketch's offset.
PastWindow(x, c) == 8 * c >= (Limits.pinned + 8 * x.offset) * 2^x.lgK

\* A window moves by one column, which is to be enough.
Moved(x) == IF PastWindow(x, x.numCoupons) THEN Throw(x) ELSE x

MoveIfPast(x) ==
  IF PastWindow(x, x.numCoupons) THEN Moved(move_window(x)) ELSE x

update_windowed(x, item) ==
  LET col == Col(item)
      before == col < x.offset
      after == col >= x.offset + WindowBits
      bit == col - x.offset
      novel == CASE before -> HasItem(x.table, item)
                 [] after  -> ~HasItem(x.table, item)
                 [] ~before /\ ~after -> bit \notin x.window[Row(item)]
      put == CASE before -> [x EXCEPT !.table = maybe_delete(@, item)]
               [] after  -> [x EXCEPT !.table = maybe_insert(@, item)]
               [] ~before /\ ~after -> [x EXCEPT !.window[Row(item)] = @ \cup {bit}]
  IN  IF \/ x.offset > MaxOffset
         \/ Below(x.numCoupons, 2^x.lgK, Limits.sparse)
         \/ PastWindow(x, x.numCoupons)
        THEN Throw(x)
      ELSE IF ~novel THEN x
      ELSE MoveIfPast(Novel(put, item))

row_col_update(x, item) ==
  IF Col(item) < x.fic THEN x
  ELSE IF x.window = <<>> THEN update_sparse(x, item)
  ELSE update_windowed(x, item)

update(x, hash) == row_col_update(x, row_col_from_two_hashes(hash, x.lgK))
=============================================================================
