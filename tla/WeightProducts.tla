--------------------------- MODULE WeightProducts ---------------------------
(***************************************************************************)
(* The products of quantised weights: crates/mivi-quant/src/lib.rs,        *)
(* types.rs, f16.rs, q8_0.rs, q4_k_m.rs and q6_k.rs, over                  *)
(* crates/mivi-core/src/simd.                                              *)
(*                                                                         *)
(* Numbers are left out: a float that was summed up is the sequence of the *)
(* products in it, in the order they were added, and a weight is the place *)
(* it was decoded from.  A block of weights is taken apart into bits, with *)
(* the sizes of the formats; in the products of whole matrices the blocks, *)
(* the vectors and the thresholds are smaller than in the code.            *)
(***************************************************************************)
EXTENDS Naturals, Sequences, SequencesExt, FiniteSets

CONSTANTS
    Formats,         \* the types with a block size, and how each is laid out
    Requests,        \* bound: the products that are asked for
    Lanes,           \* the floats of a vector, 8
    SerialRows,      \* RAYON_PARALLEL_THRESHOLD
    ChunkRows,       \* PARALLEL_CHUNK_SIZE
    StackChunk,      \* DEQUANT_STACK_CHUNK
    DotBatch,        \* the batch up to which rows are multiplied by input, 8
    ColumnTile       \* COLUMN_TILE

ASSUME KernelAssumption ==
    /\ {Lanes, SerialRows, ChunkRows, StackChunk, ColumnTile} \subseteq Nat \ {0}
    /\ DotBatch \in 1..(4 * Lanes - 1)
    /\ \A t \in DOMAIN Formats :
           /\ Formats[t].elems \in Nat \ {0}
           /\ Formats[t].bytes \in Nat \ {0}
           /\ Formats[t].kernel \in {"f32", "half", "block", "none"}
           /\ Formats[t].kernel = "block" => Formats[t].elems % Lanes = 0

VARIABLES
    asked,       \* what the caller asks for: its arguments
    phase,       \* "idle", "called", "matvec", "matmul", "done" or "failed"
    tasks,       \* the chunks of rows that workers still compute
    rowMajor,    \* row_major_output
    out,         \* the caller's buffer
    block        \* the terms that a kernel made of one block

kernelVars == <<asked, phase, tasks, rowMajor, out, block>>

----------------------------------------------------------------------------
(* One block, bit by bit.  A term is an input, the bits of the weight that *)
(* it is multiplied by, and those of the scale and of the minimum.         *)

BitRange(byte, first, last) == [i \in 1..(last - first + 1) |-> <<byte, first + i - 1>>]

Term(x, q, scale, min) == [x |-> x, q |-> q, scale |-> scale, min |-> min]

\* With the high bits of the minimum from the byte of those of the scale.
ScaleMinOfOneByte(j) ==
    LET q(i) == 4 + i
    IN  IF j < 4 THEN [d |-> BitRange(q(j), 0, 5), m |-> BitRange(q(j + 4), 0, 5)]
        ELSE [d |-> BitRange(q(j + 4), 0, 3) \o BitRange(q(j - 4), 6, 7),
              m |-> BitRange(q(j + 4), 4, 7) \o BitRange(q(j - 4), 6, 7)]

\* get_scale_min_k4; the twelve bytes of scales start at byte 4.
ScaleMin(j) ==
    LET q(i) == 4 + i
    IN  IF j < 4 THEN [d |-> BitRange(q(j), 0, 5), m |-> BitRange(q(j + 4), 0, 5)]
        ELSE [d |-> BitRange(q(j + 4), 0, 3) \o BitRange(q(j - 4), 6, 7),
              m |-> BitRange(q(j + 4), 4, 7) \o BitRange(q(j), 6, 7)]

\* The two values of byte l of group j: its low bits, and its high ones.
Q4Terms(j, l) ==
    LET byte == 16 + j * 32 + l
        low == ScaleMin(2 * j)
        high == ScaleMin(2 * j + 1)
    IN  <<Term(j * 64 + l, BitRange(byte, 0, 3), low.d, low.m),
          Term(j * 64 + l + 32, BitRange(byte, 4, 7), high.d, high.m)>>

\* The four values that share a byte of qh, when their scales are those of is.
Q6Terms(half, l, is) ==
    LET ql(i) == half * 64 + i
        qh == 128 + half * 32 + l
        scale(i) == BitRange(192 + half * 8 + i, 0, 7)
        x == half * 128 + l
    IN  <<Term(x, BitRange(ql(l), 0, 3) \o BitRange(qh, 0, 1), scale(is), <<>>),
          Term(x + 32, BitRange(ql(l + 32), 0, 3) \o BitRange(qh, 2, 3), scale(is + 2), <<>>),
          Term(x + 64, BitRange(ql(l), 4, 7) \o BitRange(qh, 4, 5), scale(is + 4), <<>>),
          Term(x + 96, BitRange(ql(l + 32), 4, 7) \o BitRange(qh, 6, 7), scale(is + 6), <<>>)>>

Q8Term(i) == Term(i, BitRange(2 + i, 0, 7), <<>>, <<>>)

\* The kernels by the steps of their loops, with the terms each step adds.  The
\* scalar ones go on as the decoders do.
Q4Decoded == [<<j, l>> \in (0..3) \X (0..31) |-> Q4Terms(j, l)]

Q4Vectors == [<<j, k, lane>> \in (0..3) \X (0..3) \X (0..7) |-> Q4Terms(j, k * 8 + lane)]

Q6Decoded == [<<half, l>> \in (0..1) \X (0..31) |-> Q6Terms(half, l, l \div 16)]

Q6Vectors ==
    [<<half, is, k, lane>> \in (0..1) \X (0..1) \X (0..1) \X (0..7) |->
        Q6Terms(half, is * 16 + k * 8 + lane, is)]

Q8Decoded == [i \in 0..31 |-> <<Q8Term(i)>>]

Q8Vectors == [<<k, lane>> \in (0..3) \X (0..7) |-> <<Q8Term(k * 8 + lane)>>]

\* dot_q8_0_f32_avx2 loads two registers of bytes and widens each by halves.
Q8Dot ==
    [<<register, half, lane>> \in (0..1) \X (0..1) \X (0..7) |->
        <<Q8Term(register * 16 + half * 8 + lane)>>]

BlockKernels ==
    {"Q4_K", "Q6_K", "Q8_0"} \X {"decoder", "vectors"} \cup {<<"Q8_0", "dot">>}

BlockTerms(format, kernel) ==
    CASE <<format, kernel>> = <<"Q4_K", "decoder">> -> Q4Decoded
      [] <<format, kernel>> = <<"Q4_K", "vectors">> -> Q4Vectors
      [] <<format, kernel>> = <<"Q6_K", "decoder">> -> Q6Decoded
      [] <<format, kernel>> = <<"Q6_K", "vectors">> -> Q6Vectors
      [] <<format, kernel>> = <<"Q8_0", "decoder">> -> Q8Decoded
      [] <<format, kernel>> = <<"Q8_0", "vectors">> -> Q8Vectors
      [] <<format, kernel>> = <<"Q8_0", "dot">> -> Q8Dot

\* The bytes of a block, and those of d and dmin among them.
BlockLayout(format) ==
    CASE format = "Q4_K" -> [bytes |-> 144, elems |-> 256, header |-> 0..3]
      [] format = "Q6_K" -> [bytes |-> 210, elems |-> 256, header |-> 208..209]
      [] format = "Q8_0" -> [bytes |-> 34, elems |-> 32, header |-> 0..1]

----------------------------------------------------------------------------
(* Sums of products.                                                       *)

Smaller(m, n) == IF m < n THEN m ELSE n

Product(weight, input, fused) == [weight |-> weight, input |-> input, fused |-> fused]

\* What a float of the caller holds before the call.
Before == <<Product(<<>>, 0, FALSE)>>

Format == Formats[asked.type]

BytesOfRow == (asked.cols \div Format.elems) * Format.bytes

\* dequantize_slice: a row is decoded block after block.
DecodedRow(row) ==
    [c \in 1..asked.cols |->
        <<row * BytesOfRow + ((c - 1) \div Format.elems) * Format.bytes, (c - 1) % Format.elems>>]

DotScalar(weights, input) ==
    [c \in DOMAIN weights |-> Product(weights[c], input + c - 1, FALSE)]

\* hsum256_ps
LaneSum(lanes) == FlattenSeq(lanes)

\* Every lane sums up by itself, and what fills no vector is added after them.
DotVectors(weights, input) ==
    LET chunks == Len(weights) \div Lanes
        lane(k) == [c \in 1..chunks |->
                        LET i == (c - 1) * Lanes + k
                        IN  Product(weights[i], input + i - 1, TRUE)]
    IN  LaneSum([k \in 1..Lanes |-> lane(k)])
        \o DotScalar(SubSeq(weights, chunks * Lanes + 1, Len(weights)), input + chunks * Lanes)

\* dot_product_simd and matvec_f32
Dot(weights, input) ==
    IF asked.vectors THEN DotVectors(weights, input) ELSE DotScalar(weights, input)

\* A row in pieces of some of its weights, with the input each begins at.
InPieces(weights, size) ==
    [p \in 1..((Len(weights) + size - 1) \div size) |->
        LET from == (p - 1) * size
        IN  [input |-> from,
             weights |-> SubSeq(weights, from + 1, Smaller(from + size, Len(weights)))]]

\* A row of floats, in place or through a buffer of the stack.
FloatRow(row) ==
    IF asked.aligned THEN Dot(DecodedRow(row), 0)
    ELSE LET pieces == InPieces(DecodedRow(row), StackChunk)
         IN  FlattenSeq([p \in DOMAIN pieces |-> DotScalar(pieces[p].weights, pieces[p].input)])

\* A row of halves has no vector kernel.
HalfRow(row) == DotScalar(DecodedRow(row), 0)

\* A row of blocks, one after the other.
BlockRow(row) ==
    LET blocks == InPieces(DecodedRow(row), Format.elems)
    IN  FlattenSeq([p \in DOMAIN blocks |-> Dot(blocks[p].weights, blocks[p].input)])

\* A row of a product with a vector.
RowDot(row) ==
    CASE Format.kernel = "f32" -> FloatRow(row)
      [] Format.kernel = "half" -> HalfRow(row)
      [] Format.kernel = "block" -> BlockRow(row)

\* transposed_inputs
Transposed(i) == (i % asked.batch) * asked.cols + i \div asked.batch

Zeroed == [b \in 1..asked.batch |-> <<>>]

\* The sums at the places of lanes visit these columns.
Visited(sums, weights, columns, lanes, fused) ==
    [b \in DOMAIN sums |->
        IF b \notin lanes THEN sums[b]
        ELSE sums[b] \o [n \in DOMAIN columns |->
                 Product(weights[columns[n] + 1],
                         Transposed(columns[n] * asked.batch + b - 1), fused)]]

Columns(from, to) == [n \in 1..(to - from) |-> from + n - 1]

\* The batch in registers of these widths, as long as each fits, then one by one.
AcrossBatch(sums, weights, columns, widths) ==
    LET Fill(s, width) ==
            LET end == s.offset + ((asked.batch - s.offset) \div width) * width
            IN  [offset |-> end,
                 sums |-> Visited(s.sums, weights, columns, (s.offset + 1)..end, TRUE)]
        filled == FoldLeft(Fill, [offset |-> 0, sums |-> sums], widths)
    IN  Visited(filled.sums, weights, columns, (filled.offset + 1)..asked.batch, FALSE)

\* matmul_accumulate_transposed_simd on sums of zero.
Single(weights) ==
    LET all == Columns(0, asked.cols)
    IN  IF ~asked.vectors
        THEN Visited(Zeroed, weights, all, 1..asked.batch, FALSE)
        ELSE AcrossBatch(Zeroed, weights, all,
                         IF asked.batch < 4 * Lanes THEN <<Lanes>>
                         ELSE <<8 * Lanes, 4 * Lanes, Lanes>>)

\* A row of a pair in registers, column tile by column tile.
Tiled(weights) ==
    LET Tile(sums, t) ==
            LET from == (t - 1) * ColumnTile
                to == Smaller(from + ColumnTile, asked.cols)
            IN  AcrossBatch(sums, weights, Columns(from, to), <<4 * Lanes, Lanes>>)
        tiles == (asked.cols + ColumnTile - 1) \div ColumnTile
    IN  FoldLeft(Tile, Zeroed, [t \in 1..tiles |-> t])

\* matmul_accumulate_transposed_pair_simd, for each of its two rows.
InPair(weights) == IF asked.vectors THEN Tiled(weights) ELSE Single(weights)

----------------------------------------------------------------------------
KernelInit ==
    /\ asked = [op |-> "none"]
    /\ phase = "idle"
    /\ tasks = {}
    /\ rowMajor = <<>>
    /\ out = <<>>
    /\ block = <<>>

\* A part of the rows, from the row next on.
Task(chunk, rows, size) ==
    [first |-> chunk * size, next |-> chunk * size, end |-> Smaller((chunk + 1) * size, rows)]

Split(rows, size) == {Task(chunk, rows, size) : chunk \in 0..((rows + size - 1) \div size - 1)}

\* A kernel takes one block.
TakeBlock(format, kernel) ==
    /\ phase = "idle"
    /\ asked' = [op |-> "block", type |-> format]
    /\ block' = BlockTerms(format, kernel)
    /\ phase' = "done"
    /\ UNCHANGED <<tasks, rowMajor, out>>

\* A caller asks for a product; its buffers hold so many floats and bytes.
Ask ==
    /\ phase = "idle"
    /\ \E call \in Requests :
           /\ asked' = call
           /\ out' = [i \in 1..call.outLen |-> Before]
    /\ phase' = "called"
    /\ UNCHANGED <<tasks, rowMajor, block>>

\* validate_matvec_args and validate_matmul_args
Valid ==
    /\ asked.cols % Format.elems = 0
    /\ asked.outLen >= asked.batch * asked.rows
    /\ asked.inputLen >= asked.batch * asked.cols
    /\ asked.weightLen >= asked.rows * BytesOfRow

\* One row of inputs is multiplied as a vector.
AsVector == asked.op = "matvec" \/ asked.batch = 1

\* A product with a vector finds out at once that a type has no kernel.
WellFormed ==
    /\ asked.type \in DOMAIN Formats
    /\ Valid
    /\ AsVector => Format.kernel # "none"

Refuse ==
    /\ phase = "called"
    /\ ~WellFormed
    /\ phase' = "failed"
    /\ UNCHANGED <<asked, tasks, rowMajor, out, block>>

\* parallel_row_matvec: many rows are split among the workers; rows of floats
\* never are.
StartMatvec ==
    /\ phase = "called"
    /\ WellFormed
    /\ AsVector
    /\ phase' = "matvec"
    /\ tasks' = Split(asked.rows, IF asked.rows >= SerialRows /\ Format.kernel # "f32"
                                    THEN ChunkRows ELSE asked.rows + 1)
    /\ UNCHANGED <<asked, rowMajor, out, block>>

\* Nothing is asked for.
NothingToDo ==
    /\ phase = "called"
    /\ WellFormed
    /\ ~AsVector
    /\ asked.batch = 0 \/ asked.rows = 0
    /\ phase' = "done"
    /\ UNCHANGED <<asked, tasks, rowMajor, out, block>>

StartMatmul ==
    /\ phase = "called"
    /\ WellFormed
    /\ ~AsVector
    /\ asked.batch > 0 /\ asked.rows > 0
    /\ phase' = "matmul"
    /\ rowMajor' = [i \in 1..(asked.rows * asked.batch) |-> <<>>]
    /\ tasks' = Split(asked.rows,
                      IF asked.rows >= SerialRows /\ asked.threads > 1
                      THEN (asked.rows + asked.threads - 1) \div asked.threads
                      ELSE asked.rows)
    /\ UNCHANGED <<asked, out, block>>

\* The task is left with the rows from next on.
Advance(task, next) ==
    tasks' = (tasks \ {task}) \cup (IF next < task.end THEN {[task EXCEPT !.next = next]} ELSE {})

MatvecRow(task) ==
    /\ phase = "matvec"
    /\ out' = [out EXCEPT ![task.next + 1] = RowDot(task.next)]
    /\ Advance(task, task.next + 1)
    /\ UNCHANGED <<asked, phase, rowMajor, block>>

\* The sums of a row are put into the slice of its chunk.
Stored(buffer, task, row, sums) ==
    LET start == task.first * asked.batch + (row - task.first) * asked.batch
    IN  [i \in DOMAIN buffer |->
            IF i \in (start + 1)..(start + asked.batch) THEN sums[i - start] ELSE buffer[i]]

\* compute_batched_rows, up to a batch of 31: one row.
BatchRow(task) ==
    /\ phase = "matmul"
    /\ Format.kernel # "none"
    /\ asked.batch < 4 * Lanes
    /\ LET weights == DecodedRow(task.next)
           sums == IF asked.batch <= DotBatch
                   THEN [b \in 1..asked.batch |-> Dot(weights, (b - 1) * asked.cols)]
                   ELSE Single(weights)
       IN  rowMajor' = Stored(rowMajor, task, task.next, sums)
    /\ Advance(task, task.next + 1)
    /\ UNCHANGED <<asked, phase, out, block>>

\* Whole pairs only.
PairOnly(task) ==
    IF task.next + 1 < task.end THEN <<task.next, task.next + 1>> ELSE <<>>

\* The rows that are computed at once: the last of an odd number is alone.
PairOrLast(task) ==
    IF task.next + 1 < task.end THEN <<task.next, task.next + 1>> ELSE <<task.next>>

\* compute_batched_rows, from a batch of 32 on: two rows.
BatchPair(task) ==
    /\ phase = "matmul"
    /\ Format.kernel # "none"
    /\ asked.batch >= 4 * Lanes
    /\ LET rows == PairOrLast(task)
           Sums(row) == IF Len(rows) = 2 THEN InPair(DecodedRow(row)) ELSE Single(DecodedRow(row))
       IN  rowMajor' = FoldLeft(LAMBDA buffer, row : Stored(buffer, task, row, Sums(row)),
                                rowMajor, rows)
    /\ Advance(task, task.next + 2)
    /\ UNCHANGED <<asked, phase, out, block>>

\* The type has a size but no decoder: the error of any worker ends the call.
BatchFails ==
    /\ phase = "matmul"
    /\ Format.kernel = "none"
    /\ phase' = "failed"
    /\ tasks' = {}
    /\ UNCHANGED <<asked, rowMajor, out, block>>

\* All workers have joined.
MatvecJoined ==
    /\ phase = "matvec"
    /\ tasks = {}
    /\ phase' = "done"
    /\ UNCHANGED <<asked, tasks, rowMajor, out, block>>

\* All workers have joined, and the rows go to the inputs they belong to.
MatmulJoined ==
    /\ phase = "matmul"
    /\ tasks = {}
    /\ out' = [i \in DOMAIN out |->
                  LET input == (i - 1) \div asked.rows
                      row == (i - 1) % asked.rows
                  IN  IF input < asked.batch THEN rowMajor[row * asked.batch + input + 1]
                      ELSE out[i]]
    /\ phase' = "done"
    /\ UNCHANGED <<asked, tasks, rowMajor, block>>

KernelNext ==
    \/ \E <<format, kernel>> \in BlockKernels : TakeBlock(format, kernel)
    \/ Ask
    \/ Refuse
    \/ StartMatvec
    \/ NothingToDo
    \/ StartMatmul
    \/ \E task \in tasks : MatvecRow(task) \/ BatchRow(task) \/ BatchPair(task)
    \/ BatchFails
    \/ MatvecJoined
    \/ MatmulJoined

----------------------------------------------------------------------------
(* Properties.                                                             *)

\* Every kernel of a quantised format multiplies each input of a block once,
\* and by what the decoder takes the weight for, and no bit of the block is
\* left out or belongs to two weights, or to a weight and a scale.
BlocksDecodeAlike ==
    phase = "done" /\ asked.op = "block" =>
        LET layout == BlockLayout(asked.type)
            added == UNION {{<<step, n>> : n \in DOMAIN block[step]} : step \in DOMAIN block}
            terms == {block[at[1]][at[2]] : at \in added}
            decoded == BlockTerms(asked.type, "decoder")
            ofWeights == UNION {ToSet(t.q) : t \in terms}
            scales == {t.scale : t \in terms} \cup {t.min : t \in terms}
            ofScales == UNION {ToSet(bits) : bits \in scales}
            every == (0..(layout.bytes - 1)) \X (0..7)
        IN  /\ terms = UNION {ToSet(decoded[step]) : step \in DOMAIN decoded}
            /\ {t.x : t \in terms} = 0..(layout.elems - 1)
            /\ Cardinality(added) = layout.elems
            /\ \A t \in terms : Cardinality(ToSet(t.q)) * layout.elems = Cardinality(ofWeights)
            /\ \A s \in scales : \A r \in scales \ {s} : ToSet(s) \cap ToSet(r) = {}
            /\ ofWeights \cap ofScales = {}
            /\ ofWeights \cup ofScales = every \ (layout.header \X (0..7))

\* The weight of a row and a column in a matrix that is stored row by row.
Weight(row, col) ==
    LET i == row * asked.cols + col
    IN  <<(i \div Format.elems) * Format.bytes, i % Format.elems>>

\* A finished call has for every input and every row the product of each column
\* once, and has written nothing else; one that fails has written nothing.  In a
\* large batch a row is summed up column by column and to the last rounding as
\* it would be alone, whoever shares its registers, its chunk and its tiles.
ProductsRight ==
    LET cells == asked.batch * asked.rows
        Cell(row, b) == out[b * asked.rows + row + 1]
        Inputs(cell) == [c \in DOMAIN cell |-> cell[c].input]
    IN  /\ phase = "failed" => \A i \in DOMAIN out : out[i] = Before
        /\ phase = "done" /\ asked.op # "block" =>
               /\ \A i \in DOMAIN out : i > cells => out[i] = Before
               /\ \A row \in 0..(asked.rows - 1), b \in 0..(asked.batch - 1) :
                      /\ Len(Cell(row, b)) = asked.cols
                      /\ {<<p.weight, p.input>> : p \in ToSet(Cell(row, b))}
                             = {<<Weight(row, c), b * asked.cols + c>> :
                                    c \in 0..(asked.cols - 1)}
                      /\ asked.batch > DotBatch =>
                             /\ Inputs(Cell(row, b))
                                    = [c \in 1..asked.cols |-> b * asked.cols + c - 1]
                             /\ Cell(row, b) = Single(DecodedRow(row))[b + 1]

\* Both: of the values that a product adds up, each is the right one, once.
KernelsRight == BlocksDecodeAlike /\ ProductsRight

============================================================================
