----------------------------- MODULE Inference -----------------------------
(***************************************************************************)
(* One model serving a sequence of requests: Model of                      *)
(* crates/mivi-model/src/model.rs with its KV cache, its recurrent state   *)
(* and the prefix cache of PrefixCache.                                    *)
(*                                                                         *)
(* A computed value (a KV cell, the recurrent state, the logits) is named  *)
(* by the token history it was computed from, or is Junk when it belongs   *)
(* to no single history.  The forward pass reads the recurrent state and   *)
(* every cell below its position, so it yields the next history only when  *)
(* all of them agree on one.  reset_context leaves the KV cells in place:  *)
(* whatever they hold is of another request, so the model calls them Junk, *)
(* which asks of the code that it never reads one.                         *)
(***************************************************************************)
EXTENDS Integers, Sequences, FiniteSets, FiniteSetsExt

CONSTANTS
    Tokens,      \* the vocabulary
    ChunkSize,   \* PrefixCache::chunk_size, in tokens
    TileTokens,  \* PrefillStrategy::Chunked, 1 for PrefillStrategy::Token
    Prompts,     \* the token sequences requests come with
    MaxPrompt,   \* bound: tokens of a prompt
    MaxNew,      \* bound: the max_tokens a request asks for
    MaxSeqLen,   \* config.max_seq_len
    MaxCached,   \* limits of the prefix cache; a chunk counts for one byte,
    MaxBytes,    \*   as all chunks of one model have the same size
    Junk         \* a computed value that belongs to no single history

ASSUME LengthsAssumption ==
    /\ ChunkSize \in Nat \ {0}
    /\ TileTokens \in Nat \ {0}
    /\ MaxPrompt \in Nat \ {0}
    /\ MaxNew \in Nat
    /\ MaxSeqLen \in Nat
    /\ MaxPrompt <= MaxSeqLen
    /\ MaxCached \in Nat \ {0}    \* with_budget replaces a zero by its default
    /\ MaxBytes \in Nat \ {0}     \* likewise

ASSUME PromptsAssumption ==
    \A p \in Prompts : p \in Seq(Tokens) /\ Len(p) \in 1..MaxPrompt

ASSUME JunkAssumption == Junk \notin Seq(Tokens)

VARIABLES
    kv,         \* KvCache: position -> cell
    kvPos,      \* KvCache::current_pos
    ssm,        \* RunState: the recurrent state
    logits,     \* RunState::logits
    phase,      \* what the engine thread is doing
    prompt,     \* the prompt tokens of the request
    cursor,     \* prompt tokens processed or restored
    hash,       \* chained_hash
    generated,  \* generated_ids
    chunks, lru, memory   \* the prefix cache

model == <<kv, kvPos, ssm, logits>>
request == <<prompt, cursor, hash, generated>>
cache == <<chunks, lru, memory>>
modelVars == <<model, phase, request, cache>>

----------------------------------------------------------------------------
(* Data.                                                                   *)

Histories == (UNION {[1..n -> Tokens] : n \in 0..MaxSeqLen}) \cup {Junk}

Positions == 0..(MaxSeqLen - 1)

Snapshots == [cells : [1..ChunkSize -> Histories], ssm : Histories]

Cache == INSTANCE PrefixCache WITH
    Chunks <- [1..ChunkSize -> Tokens],
    MaxDepth <- MaxPrompt \div ChunkSize + 1,
    States <- Snapshots,
    Bytes <- LAMBDA s : 1,
    MaxChunks <- MaxCached

\* The first n tokens of a sequence, and the chunks they fill.
Take(tokens, n) == SubSeq(tokens, 1, n)

ChunkAt(tokens, i) == SubSeq(tokens, (i - 1) * ChunkSize + 1, i * ChunkSize)

PathOf(tokens) == [i \in 1..(Len(tokens) \div ChunkSize) |-> ChunkAt(tokens, i)]

\* The tokens of a path.
TokensOf(path) ==
    [i \in 1..(Len(path) * ChunkSize) |->
        path[((i - 1) \div ChunkSize) + 1][((i - 1) % ChunkSize) + 1]]

\* The history that the recurrent state and the cells below "pos" agree on.
Seen(pos) ==
    IF /\ ssm # Junk
       /\ Len(ssm) = pos
       /\ \A i \in 0..(pos - 1) : kv[i] = Take(ssm, i + 1)
    THEN ssm ELSE Junk

Extend(history, tokens) == IF history = Junk THEN Junk ELSE history \o tokens

\* forward_step over a run of tokens, or the layers over one tile, from "pos".
\* Cells are stored and the recurrent state advances token by token.
Forward(tokens, pos) ==
    /\ kv' = [i \in Positions |->
                 IF i \in pos..(pos + Len(tokens) - 1)
                 THEN Extend(Seen(pos), Take(tokens, i - pos + 1))
                 ELSE kv[i]]
    /\ kvPos' = Max({kvPos, pos + Len(tokens)})
    /\ ssm' = Extend(Seen(pos), tokens)

----------------------------------------------------------------------------
(* The start of a request.                                                 *)

\* reset_context.
Reset ==
    /\ kv' = [i \in Positions |-> Junk]
    /\ kvPos' = 0
    /\ ssm' = <<>>
    /\ logits' = Junk

Accept(p, from, chained, to) ==
    /\ prompt' = p
    /\ cursor' = from
    /\ hash' = chained
    /\ generated' = <<>>
    /\ phase' = to

EntireRestorable(p) == p

\* The last token is always processed, so that its logits are computed.
Restorable(p) == Take(p, Len(p) - 1)

DeepestOnly(path) == {path}

\* The entries whose cells restore_longest_prefix imports.
Imported(path) == Cache!RestoreChain(path)

ImportedInPlace(n) == 0

\* import_state_range leaves the position at the end of what it wrote.
ImportedTo(n) == n * ChunkSize

\* Of the imported intervals that cover a position the last one written stays:
\* the walk is replayed from the root.
CellFrom(path, i) ==
    LET over == {g \in Imported(path) :
                    i \in (chunks[g].start * ChunkSize)..(Len(g) * ChunkSize - 1)}
        last == CHOOSE g \in over : \A f \in over : Len(f) <= Len(g)
    IN  IF over = {} THEN Junk
        ELSE chunks[last].state.cells[i - chunks[last].start * ChunkSize + 1]

\* generate_streaming_with_cancel: reset, then restore the longest cached
\* prefix.  (That a restore may fail half way is not modelled: RestoreIsWhole
\* of PrefixCache shows the walk complete, and intervals of one model fit.)
Start ==
    /\ phase = "idle"
    /\ \E p \in Prompts :
          LET path == PathOf(Restorable(p))
              n == Cache!MatchedChunks(path)
              found == Cache!PrefixOf(path, n)
          IN
          \/ /\ n = 0
             /\ Reset
             /\ Accept(p, 0, Cache!Root, "prefill")
             /\ UNCHANGED cache
          \/ /\ Cache!RestoreLongestPrefix(path)
             /\ kv' = [i \in Positions |-> CellFrom(found, i)]
             /\ kvPos' = ImportedTo(n)
             /\ ssm' = chunks[found].state.ssm
             /\ logits' = Junk
             /\ Accept(p, n * ChunkSize, found, "prefill")

\* A request cancelled before it begins, or whose prompt does not fit
\* (checked_context_end), has reset the context and nothing else.
Refuse ==
    /\ phase = "idle"
    /\ Reset
    /\ UNCHANGED <<phase, request, cache>>

\* generate_with_json_grammar uses neither the prefix cache nor cancellation.
StartGrammar ==
    /\ phase = "idle"
    /\ Reset
    /\ \E p \in Prompts : Accept(p, 0, Cache!Root, "grammar")
    /\ UNCHANGED cache

----------------------------------------------------------------------------
(* Prefill.                                                                *)

UnclippedTileEnd == Min({cursor + TileTokens, Len(prompt)})

\* A tile never crosses a chunk boundary, where a snapshot is due.
TileEnd == Min({cursor + TileTokens, Len(prompt),
                (cursor \div ChunkSize + 1) * ChunkSize})

ComputeLogits(end) ==
    logits' = IF end = Len(prompt) THEN ssm' ELSE logits

\* The snapshot of the chunk that ends at "end": its cells and the recurrent
\* state at its end.
SnapshotAt(end) ==
    [cells |-> [i \in 1..ChunkSize |-> kv'[end - ChunkSize + i - 1]], ssm |-> ssm']

\* cache_prefill_boundary.  The hash advances even when the chunk is refused.
CacheBoundary(end) ==
    LET index == end \div ChunkSize - 1
        c == ChunkAt(prompt, index + 1)
    IN
    /\ hash' = Cache!ChunkHash(hash, c)
    /\ \/ Cache!InsertDeltaChunk(hash, c, index, SnapshotAt(end))
       \/ /\ ~(index = 0 /\ hash = Cache!Root)
          /\ ~(hash \in DOMAIN chunks /\ chunks[hash].index = index - 1)
          /\ UNCHANGED cache

PrefillTile ==
    /\ phase = "prefill"
    /\ cursor < Len(prompt)
    /\ Forward(SubSeq(prompt, cursor + 1, TileEnd), cursor)
    /\ ComputeLogits(TileEnd)
    /\ cursor' = TileEnd
    /\ IF TileEnd % ChunkSize = 0
       THEN CacheBoundary(TileEnd)
       ELSE UNCHANGED <<hash, cache>>
    /\ UNCHANGED <<phase, prompt, generated>>

PrefillGrammar ==
    /\ phase = "grammar"
    /\ cursor < Len(prompt)
    /\ Forward(<<prompt[cursor + 1]>>, cursor)
    /\ ComputeLogits(cursor + 1)
    /\ cursor' = cursor + 1
    /\ UNCHANGED <<phase, prompt, hash, generated, cache>>

BeginDecode ==
    /\ phase \in {"prefill", "grammar"}
    /\ cursor >= Len(prompt)
    /\ phase' = "decode"
    /\ UNCHANGED <<model, request, cache>>

----------------------------------------------------------------------------
(* Generation.                                                             *)

Position == Len(prompt) + Len(generated)

RoomForOneMore == Position <= MaxSeqLen

ContextHasRoom == Position < MaxSeqLen

\* One round of the generation loop: a token is drawn from the logits and
\* processed at its position.
Decode ==
    /\ phase = "decode"
    /\ ContextHasRoom
    /\ Len(generated) < MaxNew
    /\ \E t \in Tokens :
          /\ Forward(<<t>>, Position)
          /\ logits' = ssm'
          /\ generated' = Append(generated, t)
    /\ UNCHANGED <<phase, prompt, cursor, hash, cache>>

\* The loop ends: max_tokens, context full, end-of-sequence token, stop
\* sequence, a callback that refuses more, or cancellation.  A token drawn in
\* the last round is not processed.
EndDecode ==
    /\ phase = "decode"
    /\ phase' = "idle"
    /\ UNCHANGED <<model, request, cache>>

\* Cancellation during prefill is seen between tiles.
CancelPrefill ==
    /\ phase = "prefill"
    /\ cursor < Len(prompt)
    /\ phase' = "idle"
    /\ UNCHANGED <<model, request, cache>>

\* An error or a panic in the middle of a forward pass: some layers have stored
\* their cells and advanced their states, others have not.
Fail ==
    LET pos == IF phase = "decode" THEN Position ELSE cursor
        end == CASE phase = "prefill" -> TileEnd
                 [] phase = "grammar" -> cursor + 1
                 [] OTHER -> Position + 1
    IN
    /\ phase # "idle"
    /\ pos < end
    /\ end <= MaxSeqLen
    /\ kv' = [i \in Positions |-> IF i \in pos..(end - 1) THEN Junk ELSE kv[i]]
    /\ kvPos' \in pos..end
    /\ ssm' = Junk
    /\ logits' = Junk
    /\ phase' = "idle"
    /\ UNCHANGED <<request, cache>>

----------------------------------------------------------------------------
ModelInit ==
    /\ kv = [i \in Positions |-> Junk]
    /\ kvPos = 0
    /\ ssm = <<>>
    /\ logits = Junk
    /\ phase = "idle"
    /\ prompt = <<>>
    /\ cursor = 0
    /\ hash = <<>>
    /\ generated = <<>>
    /\ Cache!Init

ModelNext ==
    \/ Start
    \/ Refuse
    \/ StartGrammar
    \/ PrefillTile
    \/ PrefillGrammar
    \/ BeginDecode
    \/ Decode
    \/ EndDecode
    \/ CancelPrefill
    \/ Fail

ModelSpec == ModelInit /\ [][ModelNext]_modelVars

----------------------------------------------------------------------------
(* Properties.                                                             *)

\* The shape of the model's state: no position beyond max_seq_len is used.
ModelTypeOK ==
    /\ kv \in [Positions -> Histories]
    /\ kvPos \in 0..MaxSeqLen
    /\ ssm \in Histories
    /\ logits \in Histories
    /\ phase \in {"idle", "prefill", "grammar", "decode"}
    /\ prompt \in Prompts \cup {<<>>}
    /\ cursor \in 0..MaxPrompt
    /\ generated \in UNION {[1..n -> Tokens] : n \in 0..MaxNew}
    /\ \A h \in DOMAIN chunks : chunks[h].state \in Snapshots

\* Every cached snapshot is what a run from an empty context would have at the
\* end of that prefix, whichever mixture of restored chunks, tiles, refused
\* insertions, cancelled and failed requests produced it.
SnapshotsExact ==
    \A h \in DOMAIN chunks :
        /\ chunks[h].state.ssm = TokensOf(h)
        /\ \A i \in 1..ChunkSize :
              chunks[h].state.cells[i] = Take(TokensOf(h), (Len(h) - 1) * ChunkSize + i)

\* Every token is drawn from the prediction for exactly the prompt this request
\* came with and the tokens generated for it so far: the request is answered as
\* by a model without any cache.  Only a decoding model draws from its logits.
Stage == IF phase = "idle" THEN "idle"
         ELSE IF phase = "decode" THEN "answering" ELSE "reading"

Context == IF phase = "decode" THEN logits ELSE <<>>

Cold == INSTANCE ColdInference WITH stage <- Stage, context <- Context

ImplementsCold == Cold!Spec

\* Every cached chunk can be found again: find_longest_prefix stops at the
\* first missing chunk, so one whose ancestors are gone would only hold memory.
AllReachable ==
    \A h \in DOMAIN chunks : Cache!MatchedChunks(h) = Len(h)

\* A prompt that was read to its end is cached up to its last full chunk,
\* unless the cache is full.
PromptCachedUnlessFull ==
    phase = "prefill" /\ cursor = Len(prompt) =>
        \/ Cache!MatchedChunks(PathOf(prompt)) = Len(prompt) \div ChunkSize
        \/ Cardinality(DOMAIN chunks) >= Min({MaxCached, MaxBytes})

\* The position the KV cache reports is the number of tokens in it, after a
\* restore too.
PositionExact ==
    /\ phase \in {"prefill", "grammar"} => kvPos = cursor
    /\ phase = "decode" => kvPos = Position

============================================================================
