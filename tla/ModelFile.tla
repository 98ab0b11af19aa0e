----------------------------- MODULE ModelFile -----------------------------
(***************************************************************************)
(* A model in a GGUF file: how GgufWriter writes it (training/export/      *)
(* convert_to_gguf.py), how it is opened and its parameters are found      *)
(* (crates/mivi-model/src/gguf.rs, loader.rs, model.rs), and which of its  *)
(* bytes the layers read for a token (crates/mivi-model/src/transformer.rs,*)
(* ssm.rs, ffn.rs, crates/mivi-quant/src/types.rs).                        *)
(*                                                                         *)
(* The writer writes in place and in order, and may stop anywhere; what is *)
(* on disk may be loaded at any time.  A tensor is named by its layer (0   *)
(* for none, then from 1) and the rest of its name; its values are the     *)
(* bytes from which they are read.                                         *)
(***************************************************************************)
EXTENDS Integers, Sequences, SequencesExt, FiniteSetsExt, Functions, TLC

CONSTANTS
    Exports,        \* [meta, tensors: Seq([name, dims, type]), headerBytes, alignment, sound]:
                    \* sound when the metadata state the shapes of the tensors and all can be used
    StepTokens      \* tokens that are given to a loaded model

VARIABLES
    export,         \* what is being written, with its header
    onDisk,         \* bytes of it in the file
    model,          \* what Model::load made of the file
    computed        \* the outcome of the last step of the model

modelFileVars == <<export, onDisk, model, computed>>

NotLoadedYet == [status |-> "unopened"]
NotComputed == [status |-> "none"]

----------------------------------------------------------------------------
(* Types of tensors: GgmlType, by the bytes of a block.                    *)

BlockSizeOf == [F32 |-> 1, F16 |-> 1, Q4_0 |-> 32, Q8_0 |-> 32]
TypeSize == [F32 |-> 4, F16 |-> 2, Q4_0 |-> 18, Q8_0 |-> 34]
Sized == DOMAIN TypeSize
WithKernel == {"F32", "F16", "Q8_0"}    \* dequantize_slice and quantized_matvec know them

Elements(dims) == FoldLeft(LAMBDA product, d : product * d, 1, dims)
AlignUp(n, step) == ((n + step - 1) \div step) * step
TensorBytes(type, dims) ==
    ((Elements(dims) + BlockSizeOf[type] - 1) \div BlockSizeOf[type]) * TypeSize[type]
RowBytes(type, columns) == (columns \div BlockSizeOf[type]) * TypeSize[type]

----------------------------------------------------------------------------
(* The writer.                                                             *)

WrittenBytes(t) == IF t.type \in Sized THEN TensorBytes(t.type, t.dims) ELSE 1

\* Each tensor begins where the ones before it, padded, have ended.
Place(e, placed, t) ==
    [next |-> placed.next + AlignUp(WrittenBytes(t), e.alignment),
     header |-> placed.header @@ (t.name :> [name |-> t.name, type |-> t.type, dims |-> t.dims,
                                             offset |-> placed.next])]

\* The header of the file, with the offset of each tensor from the start of the data.
HeaderOf(e) ==
    FoldLeft(LAMBDA placed, t : Place(e, placed, t), [next |-> 0, header |-> <<>>], e.tensors).header

DataStart(e) == AlignUp(e.headerBytes, e.alignment)

\* Where the bytes of a tensor are.
ExtentOf(e, name) ==
    [from |-> DataStart(e) + e.header[name].offset, bytes |-> WrittenBytes(e.header[name])]

\* Lengths the file passes through: part of the header, the header, and for each tensor
\* part of it, all of it, and its padding.
WriteMarks(e) ==
    {e.headerBytes \div 2, DataStart(e)}
    \cup UNION {LET x == ExtentOf(e, name)
                IN  {x.from + x.bytes \div 2, x.from + x.bytes,
                     x.from + AlignUp(x.bytes, e.alignment)} : name \in DOMAIN e.header}

\* A part of what is left, or all of it, reaches the disk.  What is written after the file was
\* mapped is not in the mapping.
ExportOn ==
    /\ model = NotLoadedYet
    /\ \E mark \in WriteMarks(export) : mark > onDisk /\ onDisk' = mark
    /\ UNCHANGED <<export, model, computed>>

----------------------------------------------------------------------------
(* GgufFile::open and get_tensor_data.  general.alignment is a power of    *)
(* two, for which the mask of the code rounds up.                          *)

DefaultAlignment == 32
AlignmentRead(meta) == IF meta.alignment = 0 THEN DefaultAlignment ELSE meta.alignment

\* The alignment that the metadata state is not looked at.
DefaultDataOffset(e) == AlignUp(e.headerBytes, DefaultAlignment)
DataOffset(e) == AlignUp(e.headerBytes, AlignmentRead(e.meta))

InHeader(e, name) == name \in DOMAIN e.header

Entry(e, name) ==
    LET t == e.header[name]
    IN  [name |-> name, type |-> t.type, dims |-> t.dims, from |-> DataOffset(e) + t.offset,
         bytes |-> WrittenBytes(t)]

\* get_tensor_data, without the checks for overflow: an entry whose bytes are all mapped.
Mapped(e, mapped, name) ==
    /\ InHeader(e, name)
    /\ LET t == Entry(e, name)
       IN  t.type \in Sized /\ t.from + t.bytes <= mapped

----------------------------------------------------------------------------
(* extract_model_config and ModelConfig::validate.  A number that as_usize *)
(* does not take is negative here.                                         *)

\* The key of the lfm family, read last, wins over the one of lfm2.
MetaNumber(meta, key, default) ==
    LET stated == {prefix \in {"lfm", "lfm2"} :
                      <<prefix, key>> \in DOMAIN meta.numbers /\ meta.numbers[<<prefix, key>>] >= 0}
    IN  IF "lfm" \in stated THEN meta.numbers[<<"lfm", key>>]
        ELSE IF "lfm2" \in stated THEN meta.numbers[<<"lfm2", key>>]
        ELSE default

\* head_count_kv may be a list with one number per layer, 0 for layers without attention.
HeadsFrom(heads, prefix, before) ==
    IF prefix \notin DOMAIN heads THEN before
    ELSE IF heads[prefix].scalar
    THEN IF heads[prefix].values[1] >= 0 THEN heads[prefix].values[1] ELSE before
    ELSE LET positive == {n \in ToSet(heads[prefix].values) : n > 0}
         IN  IF positive = {} THEN before ELSE Max(positive)

ConvNames(layer) == {<<layer, "ssm_conv">>, <<layer, "shortconv.conv">>}

\* The first layer whose convolution has a kernel for each channel tells its length.
KernelLength(e, dim, layers, stated) ==
    LET conv(l) == IF InHeader(e, <<l, "ssm_conv">>) THEN <<l, "ssm_conv">> ELSE <<l, "shortconv.conv">>
        total(l) == Elements(Entry(e, conv(l)).dims)
        telling == {l \in 1..layers :
                       /\ \E name \in ConvNames(l) : InHeader(e, name)
                       /\ dim > 0 /\ total(l) >= dim /\ total(l) % dim = 0}
    IN  IF telling = {} THEN stated ELSE total(Min(telling)) \div dim

\* A layer of the long names only.
HasInputProjection(e, layer) == InHeader(e, <<layer, "ssm_in">>)

IsRecurrent(e, layer) ==
    \/ InHeader(e, <<layer, "ssm_in">>)
    \/ InHeader(e, <<layer, "shortconv.in_proj">>)
    \/ InHeader(e, <<layer, "shortconv.conv">>)

ConfigOf(e) ==
    LET number(key, default) == MetaNumber(e.meta, key, default)
        dim == number("embedding_length", 1024)
        layers == number("block_count", 16)
        heads == number("attention.head_count", 16)
        headDim == IF heads > 0 THEN dim \div heads ELSE 64
        kvHeads == HeadsFrom(e.meta.kvHeads, "lfm", HeadsFrom(e.meta.kvHeads, "lfm2", 8))
    IN  [dim |-> dim, hidden |-> number("feed_forward_length", 4608), layers |-> layers,
         heads |-> heads, kvHeads |-> kvHeads, headDim |-> headDim, kvDim |-> kvHeads * headDim,
         vocab |-> IF e.meta.tokens >= 0 THEN e.meta.tokens ELSE 65536,
         kernel |-> KernelLength(e, dim, layers, number("ssm.conv_kernel", 3)),
         recurrent |-> {l \in 1..layers : IsRecurrent(e, l)}]

ValidConfig(c) ==
    /\ c.dim > 0 /\ c.heads > 0 /\ c.kvHeads > 0 /\ c.layers > 0
    /\ c.dim % c.heads = 0 /\ c.heads % c.kvHeads = 0

----------------------------------------------------------------------------
(* Finding the parameters: the names each is looked for under, in order,   *)
(* and what of it a step needs.                                            *)

Matrix(names, rows, columns) ==
    [names |-> names, kind |-> "matrix", rows |-> rows, columns |-> columns, needed |-> TRUE]
Vector(names, length) ==
    [names |-> names, kind |-> "vector", rows |-> length, columns |-> 1, needed |-> TRUE]
Optional(p) == [p EXCEPT !.needed = FALSE]

FeedForward(c, l) ==
    {Vector(<<<<l, "ffn_norm">>>>, c.dim),
     Matrix(<<<<l, "ffn_gate">>>>, c.hidden, c.dim), Matrix(<<<<l, "ffn_up">>>>, c.hidden, c.dim),
     Matrix(<<<<l, "ffn_down">>>>, c.dim, c.hidden)}

AttentionLayer(c, l) ==
    {Vector(<<<<l, "attn_norm">>>>, c.dim),
     Optional(Vector(<<<<l, "attn_q_norm">>>>, c.headDim)),
     Optional(Vector(<<<<l, "attn_k_norm">>>>, c.headDim)),
     Matrix(<<<<l, "attn_q">>>>, c.dim, c.dim), Matrix(<<<<l, "attn_k">>>>, c.kvDim, c.dim),
     Matrix(<<<<l, "attn_v">>>>, c.kvDim, c.dim), Matrix(<<<<l, "attn_output">>>>, c.dim, c.dim)}

RecurrentLayer(c, l) ==
    {Vector(<<<<l, "ssm_norm">>, <<l, "attn_norm">>>>, c.dim),
     Matrix(<<<<l, "ssm_in">>, <<l, "shortconv.in_proj">>>>, 3 * c.dim, c.dim),
     Matrix(<<<<l, "ssm_out">>, <<l, "shortconv.out_proj">>>>, c.dim, c.dim)}

LayerParameters(c, l) ==
    FeedForward(c, l) \cup IF l \in c.recurrent THEN RecurrentLayer(c, l) ELSE AttentionLayer(c, l)

\* A kernel of any length is accepted; a step uses the part it has.
Convolution(l) ==
    [Optional(Vector(<<<<l, "ssm_conv">>, <<l, "shortconv.conv">>>>, 0)) EXCEPT !.kind = "kernel"]

TokenEmbedding(c) == Matrix(<<<<0, "token_embd">>, <<0, "model.embed_tokens">>>>, c.vocab, c.dim)
OutputNorm(c) ==
    Optional(Vector(<<<<0, "output_norm">>, <<0, "token_embd_norm">>,
                      <<0, "token_embd_norm without a suffix">>>>, c.dim))
OutputHead(c) == Optional(Matrix(<<<<0, "output">>, <<0, "lm_head">>>>, c.vocab, c.dim))

Parameters(c) ==
    {TokenEmbedding(c), OutputNorm(c), OutputHead(c)}
    \cup UNION {LayerParameters(c, l) : l \in 1..c.layers}
    \cup {Convolution(l) : l \in c.recurrent}

\* Vectors are converted when they are loaded, matrices when they are used.
Found(e, mapped, p, i) ==
    /\ Mapped(e, mapped, p.names[i])
    /\ p.kind # "matrix" => Entry(e, p.names[i]).type \in WithKernel

\* Whatever the header names is taken, whether its bytes are there or not.
NamedAtAll(e, mapped, p) ==
    LET found == {i \in DOMAIN p.names : InHeader(e, p.names[i])}
    IN  IF found = {} THEN {} ELSE {Entry(e, p.names[Min(found)])}

\* The tensor of a parameter, as a set of at most one.
TensorFor(e, mapped, p) ==
    LET found == {i \in DOMAIN p.names : Found(e, mapped, p, i)}
    IN  IF found = {} THEN {} ELSE {Entry(e, p.names[Min(found)])}

HeaderMapped(e, mapped) == mapped >= e.headerBytes

LoadModel ==
    /\ model = NotLoadedYet
    /\ onDisk > 0
    /\ LET c == ConfigOf(export)
           parameters == Parameters(c)
           complete == \A p \in parameters : p.needed => TensorFor(export, onDisk, p) # {}
       IN  model' = IF HeaderMapped(export, onDisk) /\ ValidConfig(c) /\ complete
                     THEN [status |-> "loaded", config |-> c, mapped |-> onDisk,
                           weights |-> [p \in parameters |-> TensorFor(export, onDisk, p)]]
                     ELSE [status |-> "refused", mapped |-> onDisk]
    /\ UNCHANGED <<export, onDisk, computed>>

----------------------------------------------------------------------------
(* forward_step with logits: it fails on the first weight that does not    *)
(* have the shape of the configuration, by an error or an assertion.       *)

Fits(p, t) ==
    CASE p.kind = "vector" -> Elements(t.dims) = p.rows
      [] p.kind = "kernel" -> TRUE
      [] p.kind = "matrix" ->      \* validate_matvec_args
            /\ t.type \in WithKernel
            /\ p.columns % BlockSizeOf[t.type] = 0
            /\ t.bytes >= p.rows * RowBytes(t.type, p.columns)

\* The head is the embedding where the file has none.
HeadRead(m) ==
    LET own == m.weights[OutputHead(m.config)]
    IN  IF own = {} THEN m.weights[TokenEmbedding(m.config)] ELSE own

EmbeddingRow(m, token) ==
    LET t == CHOOSE t \in m.weights[TokenEmbedding(m.config)] : TRUE
        row == (m.config.dim * TypeSize[t.type]) \div BlockSizeOf[t.type]
    IN  [name |-> t.name, from |-> t.from + token * row, bytes |-> row]

BytesRead(p, t) ==
    [name |-> t.name, from |-> t.from,
     bytes |-> IF p.kind = "matrix" THEN p.rows * RowBytes(t.type, p.columns) ELSE t.bytes]

LayersFit(m) ==
    \A p \in Parameters(m.config) \ {TokenEmbedding(m.config), OutputHead(m.config)} :
        \A t \in m.weights[p] : Fits(p, t)
HeadFits(m) == \A t \in HeadRead(m) : Fits(OutputHead(m.config), t)
EmbeddingFits(m, token) ==
    \A t \in m.weights[TokenEmbedding(m.config)] :
        /\ t.type \in WithKernel
        /\ EmbeddingRow(m, token).from + EmbeddingRow(m, token).bytes <= m.mapped

ComputeStep(token) ==
    /\ model.status = "loaded"
    /\ computed = NotComputed
    /\ LET m == model
           c == m.config
           layers == Parameters(c) \ {TokenEmbedding(c), OutputHead(c)}
       IN  computed' =
             IF token < c.vocab /\ EmbeddingFits(m, token) /\ LayersFit(m) /\ HeadFits(m)
             THEN [status |-> "logits",
                   reads |-> {EmbeddingRow(m, token)}
                             \cup UNION {{BytesRead(p, t) : t \in m.weights[p]} : p \in layers}
                             \cup {BytesRead(OutputHead(c), t) : t \in HeadRead(m)}]
             ELSE [status |-> "failed", token |-> token]
    /\ UNCHANGED <<export, onDisk, model>>

----------------------------------------------------------------------------
ModelFileInit ==
    /\ \E e \in Exports : export = e @@ [header |-> HeaderOf(e)]
    /\ onDisk = 0
    /\ model = NotLoadedYet
    /\ computed = NotComputed

ModelFileNext == ExportOn \/ LoadModel \/ \E token \in StepTokens : ComputeStep(token)

----------------------------------------------------------------------------
(* Properties.                                                             *)

WholeIn(e, mapped, name) ==
    ExtentOf(e, name).from + ExtentOf(e, name).bytes <= mapped

\* The read is one of a row of the embedding, and that has fewer rows than the vocabulary.
OfShortEmbedding(r) ==
    /\ r.name \in ToSet(TokenEmbedding(model.config).names)
    /\ Elements(export.header[r.name].dims) < model.config.vocab * model.config.dim

\* Logits are computed from the bytes that the writer wrote for the tensors they stand for,
\* all of them on disk when the file was opened, and no tensor that was whole is passed over,
\* wherever the writer had stopped.  Where an embedding is too short, which is not noticed
\* beside a head of its own, a row may be taken from what is behind it in the file.
ReadsWhatWasWritten ==
    computed.status = "logits" =>
        /\ \A r \in computed.reads : OfShortEmbedding(r) => r.from + r.bytes <= model.mapped
        /\ \A r \in {read \in computed.reads : ~OfShortEmbedding(read)} :
              LET x == ExtentOf(export, r.name)
              IN  x.from <= r.from /\ r.from + r.bytes <= x.from + x.bytes
                  /\ WholeIn(export, model.mapped, r.name)
        /\ \A p \in Parameters(model.config) :
              LET whole == {i \in DOMAIN p.names :
                              /\ p.names[i] \in DOMAIN export.header
                              /\ WholeIn(export, model.mapped, p.names[i])}
              IN  (whole # {} /\ export.sound) =>
                     \E r \in computed.reads : r.name = p.names[Min(whole)]

\* A sound file that is whole when it is opened loads, and every token of its vocabulary can
\* be computed.
WholeFilesServe ==
    (/\ export.sound
     /\ model # NotLoadedYet
     /\ \A name \in DOMAIN export.header : WholeIn(export, model.mapped, name)) =>
        /\ model.status = "loaded"
        /\ computed.status = "failed" => computed.token >= export.meta.tokens

ModelFileRight == ReadsWhatWasWritten /\ WholeFilesServe

============================================================================
