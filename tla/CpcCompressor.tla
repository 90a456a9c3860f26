--------------------------- MODULE CpcCompressor ---------------------------
(***************************************************************************)
(* How a CPC sketch of DataSketches is saved and restored: its window in a *)
(* prefix code chosen by the phase of its count, its table as sorted pairs *)
(* in a unary code for columns and a Golomb code for rows, both packed     *)
(* into words that the decoder reads ahead of what it needs.               *)
(***************************************************************************)
EXTENDS CpcSketch

CONSTANTS
  WordBits,      \* bits of a compressed word (32)
  Peek,          \* bits the decoder looks at for a codeword (12)
  UnaryPeek,     \* bits it looks at for a unary number (8)
  UnaryCodes,    \* UnaryCodes[x]: codeword for a column x further on
  WindowCodes,   \* WindowCodes[phase]: codewords for the rows of a window
  ColumnOrders,  \* ColumnOrders[phase]: order of the columns beside a window
  LgPhases,      \* log2 of the number of phases of a count (4)
  MidPhases,     \* ratios below which a phase before them is taken, in order
  Steady,        \* ratio below which MidPhases are (<<1000, 2375>>)
  Counter        \* numbers the unsigned type of a count holds (2^32)

ASSUME CompressorAssumption ==
  /\ WordBits >= Peek /\ Peek >= UnaryPeek /\ UnaryPeek > 0
  /\ LgPhases \in Nat /\ LgPhases <= MinLgK

Phases == 2^LgPhases

\* The products are taken in the type of the count, which may wrap.
BelowWrapped(c, k, ratio) ==
  (ratio[1] * c) % Counter < (ratio[2] * k) % Counter

\* MidPhases are numbered after the true phases; one below Steady but none
\* of them is given the phase a count there will come to.
determine_pseudo_phase(lgK, c) ==
  LET mid == {i \in DOMAIN MidPhases : BelowWrapped(c, 2^lgK, MidPhases[i])}
  IN  IF ~BelowWrapped(c, 2^lgK, Steady)
        THEN (c \div 2^(lgK - LgPhases)) % Phases
      ELSE IF mid = {} THEN (6 * Phases) \div 16
      ELSE Phases + Min(mid) - 1

-----------------------------------------------------------------------------
\* Written bits and the number of words they take with the padding after them.
Packed(bits, padding) ==
  [bits |-> bits, words |-> (Len(bits) + padding + WordBits - 1) \div WordBits]

\* The n low bits of a number, the lowest first.
LowBits(number, n) == [i \in 1 .. n |-> (number \div 2^(i - 1)) % 2]

Bit(data, i) == IF i < Len(data.bits) THEN data.bits[i + 1] ELSE 0

\* A reader has taken at bits out of the words it has loaded; it loads one
\* more where fewer than minbits are left of them.
Fill(reader, minbits) ==
  IF WordBits * reader.words - reader.at < minbits
  THEN [reader EXCEPT !.words = @ + 1] ELSE reader

Take(reader, n) == [reader EXCEPT !.at = @ + n]

StartReader == [at |-> 0, words |-> 0]

\* The symbol whose codeword comes next; the codes are complete.
Symbol(data, reader, codes) ==
  CHOOSE s \in DOMAIN codes :
    \A i \in 1 .. Len(codes[s]) : Bit(data, reader.at + i - 1) = codes[s][i]

low_level_compress_bytes(rows, codes) ==
  Packed(FlattenSeq([i \in DOMAIN rows |-> codes[rows[i]]]), Peek - 1)

\* The rows read, and whether no more words were read than there are.
low_level_uncompress_bytes(data, count, codes) ==
  LET Next(state, i) ==
        LET filled == Fill(state.reader, Peek)
            symbol == Symbol(data, filled, codes)
        IN  [reader |-> Take(filled, Len(codes[symbol])),
             rows |-> Append(state.rows, symbol)]
      end == FoldLeft(Next, [reader |-> StartReader, rows |-> <<>>],
                      [i \in 1 .. count |-> i])
  IN  [rows |-> end.rows, ok |-> end.reader.words <= data.words]

-----------------------------------------------------------------------------
golomb_choose_number_of_base_bits(k, count) ==
  LET quotient == (k - count) \div count
  IN  IF quotient = 0 THEN 0 ELSE Max({p \in 0 .. quotient : 2^p <= quotient})

PairPadding(baseBits) == IF baseBits > Peek - 2 THEN 0 ELSE Peek - 2 - baseBits

\* A number in unary: as many zeros, then a one.
write_unary(number) == [i \in 1 .. number |-> 0] \o <<1>>

RECURSIVE read_unary(_, _)
read_unary(data, reader) ==
  LET filled == Fill(reader, UnaryPeek)
      ones == {i \in 0 .. UnaryPeek - 1 : Bit(data, filled.at + i) = 1}
      rest == read_unary(data, Take(filled, UnaryPeek))
  IN  IF ones # {}
        THEN [value |-> Min(ones), reader |-> Take(filled, Min(ones) + 1)]
      ELSE IF filled.at > Len(data.bits)
        THEN [value |-> 0, reader |-> [filled EXCEPT !.words = data.words + 1]]
      ELSE [rest EXCEPT !.value = @ + UnaryPeek]

\* Each pair is written as what it is further on than the one before it: in
\* columns where the row is the same, and in rows.
low_level_compress_pairs(pairs, baseBits) ==
  LET PredictedRow(i) == IF i = 1 THEN 0 ELSE Row(pairs[i - 1])
      PredictedCol(i) == IF i = 1 \/ Row(pairs[i]) # PredictedRow(i) THEN 0
                         ELSE Col(pairs[i - 1]) + 1
      Code(i) == LET y == Row(pairs[i]) - PredictedRow(i)
                 IN  UnaryCodes[Col(pairs[i]) - PredictedCol(i)]
                       \o write_unary(y \div 2^baseBits) \o LowBits(y, baseBits)
      sorted == \A i \in DOMAIN pairs : /\ Row(pairs[i]) >= PredictedRow(i)
                                        /\ Col(pairs[i]) >= PredictedCol(i)
  IN  IF sorted
      THEN Packed(FlattenSeq([i \in DOMAIN pairs |-> Code(i)]), PairPadding(baseBits))
      ELSE [bits |-> <<>>, words |-> -1]

low_level_uncompress_pairs(data, count, baseBits) ==
  LET Next(state, i) ==
        LET filled == Fill(state.reader, Peek)
            x == Symbol(data, filled, UnaryCodes)
            unary == read_unary(data, Take(filled, Len(UnaryCodes[x])))
            low == Fill(unary.reader, baseBits)
            y == unary.value * 2^baseBits
                   + MapThenSumSet(LAMBDA b : Bit(data, low.at + b) * 2^b,
                                   0 .. baseBits - 1)
            row == state.row + y
            col == x + (IF y > 0 THEN 0 ELSE state.col)
        IN  [reader |-> Take(low, baseBits), row |-> row, col |-> col + 1,
             pairs |-> Append(state.pairs, rowCol(row, col))]
      end == FoldLeft(Next, [reader |-> StartReader, row |-> 0, col |-> 0,
                             pairs |-> <<>>], [i \in 1 .. count |-> i])
  IN  [pairs |-> end.pairs, ok |-> end.reader.words <= data.words]

-----------------------------------------------------------------------------
\* Stands for data that is not in an image.
NoData == [bits |-> <<>>, words |-> 0]

\* Mutant: the codewords of the columns are forgotten.
safe_length_without_columns(k, n, baseBits) ==
  (n * (1 + baseBits) + k \div 2^baseBits + PairPadding(baseBits)
     + WordBits - 1) \div WordBits

safe_length_for_compressed_pair_buf(k, n, baseBits) ==
  (Peek * n + n * (1 + baseBits) + k \div 2^baseBits + PairPadding(baseBits)
     + WordBits - 1) \div WordBits

safe_length_for_compressed_window_buf(k) ==
  (Peek * k + Peek - 1 + WordBits - 1) \div WordBits

compress_surprising_values(pairs, lgK) ==
  LET n == Len(pairs)
  IN  IF n = 0 THEN NoData
      ELSE low_level_compress_pairs(pairs,
             golomb_choose_number_of_base_bits(2^lgK + n, n))

uncompress_surprising_values(data, n, lgK) ==
  IF n = 0 THEN [pairs |-> <<>>, ok |-> TRUE]
  ELSE low_level_uncompress_pairs(data, n,
         golomb_choose_number_of_base_bits(2^lgK + n, n))

\* The code for the window of a sketch; none where the phase has no table.
CodesFor(x) == WindowCodes[determine_pseudo_phase(x.lgK, x.numCoupons)]

compress_sliding_window(x) ==
  low_level_compress_bytes([i \in 1 .. 2^x.lgK |-> x.window[i - 1]], CodesFor(x))

\* Where a column beside the window of a sliding sketch is written: counted
\* from the end of the window round to its beginning, then permuted.
ColumnOut(lgK, c, offset, col) ==
  ColumnOrders[determine_pseudo_phase(lgK, c)][(col + MaxOffset - offset) % Cols]

\* Mutant: the columns are counted from the beginning of the window.
ColumnIn_from_beginning(lgK, c, offset, col) ==
  LET permutation == ColumnOrders[determine_pseudo_phase(lgK, c)]
      inverse == CHOOSE d \in DOMAIN permutation : permutation[d] = col
  IN  (inverse + offset) % Cols

ColumnIn(lgK, c, offset, col) ==
  LET permutation == ColumnOrders[determine_pseudo_phase(lgK, c)]
      inverse == CHOOSE d \in DOMAIN permutation : permutation[d] = col
  IN  (inverse + offset + WindowBits) % Cols

\* The pairs that are written for a sketch, in order.
WrittenPairs(x) ==
  LET items == ToSet(Items(x.table))
      fromWindow == UNION {{rowCol(row, b) : b \in x.window[row]} : row \in DOMAIN x.window}
      Out(item) == rowCol(Row(item), ColumnOut(x.lgK, x.numCoupons, x.offset, Col(item)))
      written == CASE Flavor(x) \in {"EMPTY", "SPARSE"} -> items
                   [] Flavor(x) = "HYBRID"  -> items \cup fromWindow
                   [] Flavor(x) = "PINNED"  -> {item - WindowBits : item \in items}
                   [] Flavor(x) = "SLIDING" -> {Out(item) : item \in items}
  IN  Sorted(written)

\* A flavor and a window that do not go together, or a column that cannot be
\* shifted out of the window's way, are refused.
Compressible(x) ==
  LET items == ToSet(Items(x.table))
  IN  CASE Flavor(x) = "EMPTY" -> TRUE
        [] Flavor(x) = "SPARSE" -> x.window = <<>>
        [] Flavor(x) = "HYBRID" -> /\ x.window # <<>> /\ x.offset = 0
                                   /\ Len(WrittenPairs(x)) = x.numCoupons
        [] Flavor(x) = "PINNED" -> \A item \in items : Col(item) >= WindowBits
        [] Flavor(x) = "SLIDING" ->
             \A item \in items : (Col(item) + MaxOffset - x.offset) % Cols < MaxOffset

HasWindow(x) == Flavor(x) \in {"PINNED", "SLIDING"}

\* serialize(), but for the fields it copies.
compress(x) ==
  [table |-> compress_surprising_values(WrittenPairs(x), x.lgK),
   entries |-> Len(WrittenPairs(x)),
   window |-> IF HasWindow(x) THEN compress_sliding_window(x) ELSE NoData]

\* The table of a sketch whose pairs were read: those of a hybrid one that
\* belong to its window are left out.
TableOf(pairs, flavor, lgK) ==
  make_from_pairs(IF flavor # "HYBRID" THEN pairs
                  ELSE SelectSeq(pairs, LAMBDA item : Col(item) >= WindowBits),
                  LgCols + lgK)

WindowOf(pairs, bytes, flavor, lgK) ==
  CASE flavor \in {"EMPTY", "SPARSE"} -> <<>>
    [] flavor = "HYBRID" ->
         [row \in Rows(lgK) |->
            {Col(item) : item \in {i \in ToSet(pairs) :
                                      Row(i) = row /\ Col(i) < WindowBits}}]
    [] flavor \in {"PINNED", "SLIDING"} ->
         [row \in Rows(lgK) |-> bytes.rows[row + 1]]

\* A pair as it was before it was written.
PairIn(item, flavor, lgK, c) ==
  CASE flavor \in {"EMPTY", "SPARSE", "HYBRID"} -> item
    [] flavor = "PINNED"  -> item + WindowBits
    [] flavor = "SLIDING" ->
         rowCol(Row(item), ColumnIn(lgK, c, determine_correct_offset(lgK, c), Col(item)))

uncompress_flavor(flavor, read, bytes, lgK, c) ==
  LET pairs == [i \in DOMAIN read.pairs |-> PairIn(read.pairs[i], flavor, lgK, c)]
  IN  [table |-> TableOf(pairs, flavor, lgK),
       window |-> WindowOf(pairs, bytes, flavor, lgK),
       ok |-> read.ok /\ (flavor \in {"PINNED", "SLIDING"} => bytes.ok)]

uncompress(image, lgK, c) ==
  uncompress_flavor(
    determine_flavor(lgK, c),
    uncompress_surprising_values(image.table, image.entries, lgK),
    low_level_uncompress_bytes(image.window, 2^lgK,
                               WindowCodes[determine_pseudo_phase(lgK, c)]),
    lgK, c)

\* The offset is worked out from the count; kxp is not in the image of an
\* empty sketch, nor in that of a merged one, and is then 0.
deserialize(x, restored) ==
  [x EXCEPT !.table = restored.table, !.window = restored.window,
            !.offset = determine_correct_offset(x.lgK, x.numCoupons),
            !.kxp = IF x.merged \/ x.numCoupons = 0 THEN 0 ELSE @,
            !.ok = @ /\ restored.ok]

\* A sketch that is saved and read back.
Restore(x) ==
  LET image == compress(x)
  IN  IF ~Compressible(x) \/ image.table.words = -1 THEN Throw(x)
      ELSE deserialize(x, uncompress(image, x.lgK, x.numCoupons))
=============================================================================
