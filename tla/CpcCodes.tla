------------------------------ MODULE CpcCodes ------------------------------
(***************************************************************************)
(* What the compressor of DataSketches' CPC sketch does with the data it   *)
(* is given: as the program starts, it makes and checks the inverse of     *)
(* every code and of every order of columns; then a sketch of lg_k LgK,    *)
(* whose matrix fills up cell by cell, is saved and read back at any time, *)
(* with the limits, codes and orders of the library.                       *)
(***************************************************************************)
EXTENDS CpcCompressor, CpcTables

CONSTANTS
  LgK,     \* lg_k of the sketch
  Slants   \* how many columns a row may be ahead of the next one

VARIABLES
  pc,        \* "codes", "made", "orders", "ready", or "thrown"
  which,     \* the code or the order that is inverted
  decoding,  \* its decoding table, or the inverse of the order
  slant, time   \* how the matrix fills up, and how far it has

vars == <<pc, which, decoding, slant, time>>

\* Memory that has not been written.
UNSET == -1

\* The code of columns is the first to be inverted.
Code(i) == IF i = 0 THEN length_limited_unary_encoding_table65
                    ELSE encoding_tables_for_high_entropy_byte[i]

Bytes(code) == 0 .. Len(code) - 1

Length(entry) == entry \div 2^12
Codeword(entry) == entry % 2^12

Init ==
  /\ pc = "codes" /\ which = 0
  /\ decoding = <<>>
  /\ slant = 0 /\ time = 0

\* Mutant: an entry for the codeword followed by zeros alone.
make_decoding_table_without_copies ==
  LET code == Code(which)
      Marks(b, x) == x = Codeword(code[b + 1])
      bytes(x) == {b \in Bytes(code) : Marks(b, x)}
  IN  /\ pc = "codes"
      /\ decoding' = [x \in 0 .. 4095 |->
                        IF bytes(x) = {} THEN UNSET
                        ELSE 256 * Length(code[Max(bytes(x)) + 1]) + Max(bytes(x))]
      /\ pc' = "made"
      /\ UNCHANGED <<which, slant, time>>

\* Every byte marks the twelve bits that begin with its codeword, over those
\* a lesser byte has marked.
make_decoding_table ==
  LET code == Code(which)
      Marks(b, x) == x % 2^Length(code[b + 1]) = Codeword(code[b + 1])
      bytes(x) == {b \in Bytes(code) : Marks(b, x)}
  IN  /\ pc = "codes"
      /\ decoding' = [x \in 0 .. 4095 |->
                        IF bytes(x) = {} THEN UNSET
                        ELSE 256 * Length(code[Max(bytes(x)) + 1]) + Max(bytes(x))]
      /\ pc' = "made"
      /\ UNCHANGED <<which, slant, time>>

\* Every twelve bits must decode to a byte whose codeword they begin with.
Valid ==
  \A x \in DOMAIN decoding :
    LET length == decoding[x] \div 256
        entry == Code(which)[(decoding[x] % 256) + 1]
    IN  /\ decoding[x] # UNSET
        /\ length = Length(entry)
        /\ Codeword(entry) = x % 2^length

\* The columns' code is followed by one for every phase, and they by the orders.
validate_decoding_table ==
  /\ pc = "made"
  /\ IF ~Valid
       THEN pc' = "thrown" /\ UNCHANGED which
     ELSE IF which < Len(encoding_tables_for_high_entropy_byte)
       THEN pc' = "codes" /\ which' = which + 1
     ELSE pc' = "orders" /\ which' = 1
  /\ UNCHANGED <<decoding, slant, time>>

\* Where a number comes twice in an order, its last place is its inverse.
make_inverse_permutation ==
  LET order == column_permutations_for_encoding[which]
      places(col) == {i \in 0 .. MaxOffset - 1 : order[i + 1] = col}
      inverse == [col \in 0 .. MaxOffset - 1 |->
                    IF places(col) = {} THEN UNSET ELSE Max(places(col))]
  IN  /\ pc = "orders" /\ which <= Len(column_permutations_for_encoding)
      /\ decoding' = inverse
      /\ which' = which + 1
      /\ pc' = IF \E i \in 0 .. MaxOffset - 1 :
                    inverse[i] = UNSET \/ order[inverse[i] + 1] # i
               THEN "thrown" ELSE "orders"
      /\ UNCHANGED <<slant, time>>

Started ==
  /\ pc = "orders" /\ which > Len(column_permutations_for_encoding)
  /\ pc' = "ready"
  /\ decoding' = <<>>
  /\ slant' \in Slants
  /\ UNCHANGED <<which, time>>

\* The matrix fills up column by column, each row slant columns behind the one
\* before it: a cell is 1 once its time has come.
Times(row, col) == (col + slant * row) * 2^LgK + row

Matrix == [row \in Rows(LgK) |-> {col \in 0 .. Cols - 1 : Times(row, col) < time}]

GainCoupon ==
  /\ pc = "ready"
  /\ time <= Times(2^LgK - 1, Cols - 1)
  /\ time' = time + 1
  /\ UNCHANGED <<pc, which, decoding, slant>>

Next ==
  \/ make_decoding_table \/ validate_decoding_table \/ make_inverse_permutation \/ Started
  \/ GainCoupon

Spec == Init /\ [][Next]_vars

-----------------------------------------------------------------------------
\* The sketch that has the matrix, as far as it is compressed.
Sketched ==
  LET matrix == Matrix
      c == MapThenSumSet(LAMBDA row : Cardinality(matrix[row]), Rows(LgK))
      offset == determine_correct_offset(LgK, c)
      empty == NewTable(2, LgCols + LgK)
      split == SplitMatrix(matrix, offset, empty)
      ones == UNION {{rowCol(row, col) : col \in matrix[row]} : row \in Rows(LgK)}
      sparse == determine_flavor(LgK, c) \in {"EMPTY", "SPARSE"}
  IN  [lgK |-> LgK, numCoupons |-> c, offset |-> offset,
       window |-> IF sparse THEN <<>> ELSE split.window,
       table |-> IF sparse THEN FoldLeft(maybe_insert, empty, Sorted(ones)) ELSE split.table]

\* "Only the encoding tables are defined by this file. The decoding tables
\* (which are exact inverses) are created at library startup time": no check
\* of the startup fails, and no byte is lost to another, which those checks,
\* that go through what can be decoded and not through what can be encoded,
\* would not notice.
ExactInverses ==
  /\ pc # "thrown"
  /\ pc = "made" =>
       \A b \in Bytes(Code(which)) :
         LET entry == Code(which)[b + 1]
         IN  decoding[Codeword(entry)] = 256 * Length(entry) + b

\* Whatever the flavor and the phase of its count, a sketch can be compressed,
\* and is read back as it was, without a word read past the last.
SavedWhole ==
  LET Same(x, back) == /\ back.ok
                       /\ back.window = x.window
                       /\ ToSet(Items(back.table)) = ToSet(Items(x.table))
      Whole(x) == Compressible(x) /\ Same(x, uncompress(compress(x), LgK, x.numCoupons))
  IN  pc = "ready" => Whole(Sketched)
=============================================================================
