----------------------------- MODULE LayerTiles -----------------------------
(***************************************************************************)
(* What a context of the model holds after its layers have run over it,    *)
(* one token at a time (forward_step) or a tile of rows at a time          *)
(* (run_chunked_prefill, attention_forward_tile, ssm_forward_tile):        *)
(* crates/mivi-model/src/model.rs, transformer.rs, ssm.rs and ffn.rs.      *)
(*                                                                         *)
(* Numbers are left out: a computed vector is the term that tells what it  *)
(* was computed from.  A layer is "attention" or "ssm".  The prefix cache, *)
(* which belongs to Inference, stays empty here, and positions count from  *)
(* zero, places in sequences from one.                                     *)
(***************************************************************************)
EXTENDS Naturals, Sequences, SequencesExt

CONSTANTS
    Vocabulary,      \* the tokens below vocab_size
    Unknown,         \* a token that is not
    LayerLists,      \* bound: the models that are tried
    Kernels,         \* bound: their ssm_conv_kernel
    Prompts,         \* bound: what is prefilled in one call
    TileSizes,       \* bound: tile_tokens of PrefillStrategy::Chunked
    ChunkSize,       \* chunk_size of the prefix cache
    MaxSeqLen,       \* max_seq_len
    MaxCalls         \* bound: the calls that one context sees

ASSUME LayerAssumption ==
    /\ Unknown \notin Vocabulary
    /\ LayerLists \subseteq Seq({"attention", "ssm"})
    /\ Kernels \subseteq Nat
    /\ Prompts \subseteq Seq(Vocabulary \cup {Unknown}) \ {<<>>}
    /\ TileSizes \subseteq Nat \ {0}
    /\ ChunkSize \in Nat \ {0}
    /\ MaxSeqLen \in Nat
    /\ MaxCalls \in Nat

VARIABLES
    net,        \* the model: its layers, kernel, and whether adapters are active
    seen,       \* the tokens processed since the last reset
    cells,      \* kv_cache: of each layer, the cells at the positions
    conv,       \* conv_states: of each layer, the last inputs of the convolution
    logits,     \* state.logits
    prompt,     \* what is left to prefill
    start,      \* start_pos of the call
    tile,       \* its tile_tokens, 0 for one token at a time
    calls       \* for the bound

layerVars == <<net, seen, cells, conv, logits, prompt, start, tile, calls>>

Zero == <<"zero">>

Places == 1..Len(net.layers)

----------------------------------------------------------------------------
(* The operations of a layer.  With adapters every projection is another.  *)

Embedding(token) == <<"embedding", token>>

\* Keys and values of a row: norm, projections, head norms, rotation to pos.
KeyValue(x, pos, adapted) == <<"kv", adapted, x, pos>>

\* The row after causal attention over these cells, projection and residual.
Attended(x, pos, over, adapted) == <<"attended", adapted, x, pos, over>>

\* B * X of the projected row.
Gate(x, adapted) == <<"gate", adapted, x>>

\* C * the convolution of the window, projected, and the residual.
Convolved(x, window, adapted) == <<"convolved", adapted, x, window>>

\* The second half of every layer.
Ffn(x, adapted) == <<"ffn", adapted, x>>

\* compute_logits_from_state
Logits(x, adapted) == <<"logits", adapted, x>>

\* The states move by one place, and the new input comes last.
Shifted(window, bx) == Append(Tail(window), bx)

----------------------------------------------------------------------------
(* One token.  A run is the row and the two memories as the layers go on.  *)

\* attention_forward: the cell is stored before it is attended to.
AttentionForward(run, l, pos) ==
    LET stored == [run.cells EXCEPT ![l][pos + 1] = KeyValue(run.x, pos, net.adapted)]
    IN  [run EXCEPT
            !.cells = stored,
            !.x = Ffn(Attended(@, pos, SubSeq(stored[l], 1, pos + 1), net.adapted),
                      net.adapted)]

\* ssm_forward: without a kernel the whole layer is left out.
SsmForward(run, l) ==
    LET window == Shifted(run.conv[l], Gate(run.x, net.adapted))
    IN  IF net.kernel = 0 THEN run
        ELSE [run EXCEPT
                !.conv[l] = window,
                !.x = Ffn(Convolved(@, window, net.adapted), net.adapted)]

ForwardStep(token, pos) ==
    FoldLeft(LAMBDA run, l :
                 IF net.layers[l] = "attention" THEN AttentionForward(run, l, pos)
                 ELSE SsmForward(run, l),
             [x |-> Embedding(token), cells |-> cells, conv |-> conv],
             [l \in Places |-> l])

----------------------------------------------------------------------------
(* A tile.  Its rows are projected together and without adapters; the      *)
(* memories change row by row.                                             *)

Indices(rows) == [r \in DOMAIN rows |-> r]

FfnRows(rows) == [r \in DOMAIN rows |-> Ffn(rows[r], FALSE)]

\* attention_forward_tile: rows from the position from on.
AttentionTile(run, l, from) ==
    LET Row(t, r) ==
            LET pos == from + r - 1
                stored == [t.cells EXCEPT ![l][pos + 1] = KeyValue(run.rows[r], pos, FALSE)]
            IN  [t EXCEPT
                    !.cells = stored,
                    !.rows[r] = Attended(run.rows[r], pos, SubSeq(stored[l], 1, pos + 1), FALSE)]
        after == FoldLeft(Row, run, Indices(run.rows))
    IN  [after EXCEPT !.rows = FfnRows(@)]

\* Every row sees the states from before the tile.
StatelessTile(run, l) ==
    LET Window(r) == Shifted(run.conv[l], Gate(run.rows[r], FALSE))
    IN  IF net.kernel = 0 THEN run
        ELSE [run EXCEPT
                !.conv[l] = Window(Len(run.rows)),
                !.rows = FfnRows([r \in DOMAIN @ |-> Convolved(@[r], Window(r), FALSE)])]

\* ssm_forward_tile: each row sees what the rows before have left.
SsmTile(run, l) ==
    LET Row(t, r) ==
            LET window == Shifted(t.conv[l], Gate(run.rows[r], FALSE))
            IN  [t EXCEPT !.conv[l] = window,
                          !.rows[r] = Convolved(run.rows[r], window, FALSE)]
        after == FoldLeft(Row, run, Indices(run.rows))
    IN  IF net.kernel = 0 THEN run ELSE [after EXCEPT !.rows = FfnRows(@)]

ForwardTile(tokens, from) ==
    FoldLeft(LAMBDA run, l :
                 IF net.layers[l] = "attention" THEN AttentionTile(run, l, from)
                 ELSE SsmTile(run, l),
             [rows |-> [i \in DOMAIN tokens |-> Embedding(tokens[i])],
              cells |-> cells, conv |-> conv],
             [l \in Places |-> l])

\* The rows of the next tile: at the start of a context it ends at the next
\* boundary of a chunk.
TileRows ==
    LET room == ChunkSize - (Len(seen) % ChunkSize)
        most == IF tile < Len(prompt) THEN tile ELSE Len(prompt)
    IN  IF start = 0 /\ room < most THEN room ELSE most

----------------------------------------------------------------------------
\* A model is loaded.
Load ==
    /\ net.layers = <<>>
    /\ \E layers \in LayerLists, kernel \in Kernels, adapted \in BOOLEAN :
          /\ net' = [layers |-> layers, kernel |-> kernel, adapted |-> adapted]
          /\ cells' = [l \in DOMAIN layers |-> [p \in 1..MaxSeqLen |-> Zero]]
          /\ conv' = [l \in DOMAIN layers |-> [k \in 1..kernel |-> Zero]]
    /\ UNCHANGED <<seen, logits, prompt, start, tile, calls>>

\* reset_context: the cells stay where they are.
ResetContext ==
    /\ seen' = <<>>
    /\ conv' = [l \in Places |-> [k \in DOMAIN conv[l] |-> Zero]]
    /\ logits' = Zero
    /\ UNCHANGED cells

SizeAsAsked(size) == size

\* generate_streaming and generate_tokens_incremental, up to the prefill: a new
\* context, or more of the old one.  Tiles do without adapters, so that with
\* them the tokens go one by one.
Strategy(size) == IF net.adapted THEN 0 ELSE size

Call(tokens, size, anew) ==
    /\ net.layers # <<>>
    /\ prompt = <<>>
    /\ calls < MaxCalls
    /\ calls' = calls + 1
    /\ IF anew THEN ResetContext
       ELSE seen # <<>> /\ UNCHANGED <<seen, cells, conv, logits>>
    /\ start' = IF anew THEN 0 ELSE Len(seen)
    /\ start' + Len(tokens) <= MaxSeqLen
    /\ prompt' = tokens
    /\ tile' = Strategy(size)
    /\ UNCHANGED net

Store(run) == cells' = run.cells /\ conv' = run.conv

\* One round of run_token_prefill.
PrefillToken ==
    /\ prompt # <<>>
    /\ tile = 0
    /\ Head(prompt) # Unknown
    /\ LET run == ForwardStep(Head(prompt), Len(seen))
       IN  /\ Store(run)
           /\ logits' = IF Len(prompt) = 1 THEN Logits(run.x, net.adapted) ELSE logits
    /\ seen' = Append(seen, Head(prompt))
    /\ prompt' = Tail(prompt)
    /\ UNCHANGED <<net, start, tile, calls>>

\* One round of run_chunked_prefill.
PrefillTile ==
    LET rows == SubSeq(prompt, 1, TileRows)
        run == ForwardTile(rows, Len(seen))
    IN  /\ prompt # <<>>
        /\ tile > 0
        /\ Unknown \notin ToSet(rows)
        /\ Store(run)
        /\ logits' = IF Len(rows) = Len(prompt) THEN Logits(Last(run.rows), net.adapted)
                     ELSE logits
        /\ seen' = seen \o rows
        /\ prompt' = SubSeq(prompt, Len(rows) + 1, Len(prompt))
        /\ UNCHANGED <<net, start, tile, calls>>

\* The call is cancelled between two rounds, or meets a token that is not in the
\* vocabulary: it ends with the context as it is.
StopPrefill ==
    /\ prompt # <<>>
    /\ prompt' = <<>>
    /\ UNCHANGED <<net, seen, cells, conv, logits, start, tile, calls>>

\* The forward_step of a drawn token.
Decode(token) ==
    /\ net.layers # <<>>
    /\ prompt = <<>>
    /\ seen # <<>> /\ Len(seen) < MaxSeqLen
    /\ LET run == ForwardStep(token, Len(seen))
       IN  /\ Store(run)
           /\ logits' = Logits(run.x, net.adapted)
    /\ seen' = Append(seen, token)
    /\ UNCHANGED <<net, prompt, start, tile, calls>>

LayerInit ==
    /\ net = [layers |-> <<>>, kernel |-> 0, adapted |-> FALSE]
    /\ seen = <<>>
    /\ cells = <<>>
    /\ conv = <<>>
    /\ logits = Zero
    /\ prompt = <<>>
    /\ start = 0
    /\ tile = 0
    /\ calls = 0

LayerNext ==
    \/ Load
    \/ \E tokens \in Prompts, size \in TileSizes \cup {0}, anew \in BOOLEAN :
          Call(tokens, size, anew)
    \/ PrefillToken
    \/ PrefillTile
    \/ StopPrefill
    \/ \E token \in Vocabulary : Decode(token)

LayerSpec == LayerInit /\ [][LayerNext]_layerVars

----------------------------------------------------------------------------
(* Properties.                                                             *)

\* The row of the position p before the layer l, as the layers are meant: a row
\* depends on the rows up to its own in the layer below and on nothing else.
Meant ==
    LET with == net.adapted
        row[l \in 1..(Len(net.layers) + 1), p \in 0..Len(seen)] ==
            IF l = 1 THEN Embedding(seen[p + 1])
            ELSE IF net.layers[l - 1] = "attention"
            THEN Ffn(Attended(row[l - 1, p], p,
                              [t \in 1..(p + 1) |-> KeyValue(row[l - 1, t - 1], t - 1, with)], with), with)
            ELSE IF net.kernel = 0 THEN row[l - 1, p]
            ELSE Ffn(Convolved(row[l - 1, p],
                               [k \in 1..net.kernel |->
                                   IF p + k < net.kernel THEN Zero
                                   ELSE Gate(row[l - 1, p + k - net.kernel], with)], with), with)
    IN  row

\* Whether it was processed by tokens or by tiles of any size, in one call or in
\* several, over the cells of an older context or not, a context holds at every
\* position, in every layer, in the convolution states and in the logits of its
\* last token what the layers are meant to compute for it.
TilesAgree ==
    LET n == Len(seen)
        row == Meant
    IN  /\ \A l \in Places :
              IF net.layers[l] = "attention"
              THEN \A p \in 1..n : cells[l][p] = KeyValue(row[l, p - 1], p - 1, net.adapted)
              ELSE \A k \in 1..net.kernel :
                      conv[l][k] = IF n + k <= net.kernel THEN Zero
                                   ELSE Gate(row[l, n + k - net.kernel - 1], net.adapted)
        /\ logits = Zero \/ \E p \in 1..n : logits = Logits(row[Len(net.layers) + 1, p - 1], net.adapted)

============================================================================
