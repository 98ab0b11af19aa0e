# Mivi in TLA+

Specifications of the Mivi inference server (a CPU language-model server in
Rust), checked with TLC and proved about with TLAPS. The modules follow the code
of `crates/`; the lines each definition stands for are in `PROJECT.json` (`map`).
Paths below are relative to `crates/`.

    tlc -workers 2 -config Engine.cfg MCEngine.tla
    tlapm AgentServerProofs.tla

## 1. The system

| part | source | state it keeps | operations | what makes it hard | what makes it correct |
|---|---|---|---|---|---|
| Prefix cache | `mivi-kv/src/prefix.rs` | `chunks` by chained hash, `lru_order`, `total_memory_bytes` | insert, find, restore, prune, clear | entries name other entries as parents; two limits; redundant bookkeeping | every restore is whole; the books agree with the map; both limits hold |
| KV cache, run state | `mivi-kv/src/cache.rs`, `mivi-core/src/arena.rs` | cells by layer and position, `current_pos`; recurrent state, logits | `store`, `reset`, export and import of intervals | `reset` leaves old cells in place; flat buffers at four precisions | no cell of another context is read; no two cells overlap |
| Inference | `mivi-model/src/model.rs` | the above, the chained hash, the generated ids | generate, prefill, snapshots, JSON mode | tiles and chunks of different sizes; cancellation, refusal, failure half way | each request is answered as by a model without a cache |
| Layers | `mivi-model/src/transformer.rs`, `ssm.rs`, `ffn.rs` | row, KV cells, convolution states | one token, one tile | two code paths for the same values | tiles compute what tokens compute |
| Choice of a token | `mivi-model/src/sampler.rs`, `grammar.rs`, `pld.rs` | masks, candidates, automaton | mask, penalise, cut, draw, feed | bounds that cut candidates; the mask lags behind the decoder | no forbidden or unlikely token; what the automaton takes is JSON, but for three departures |
| Text of an answer | `model.rs`, `engine_actor.rs`, `routes/chat.rs`, `mivi-tools` codec | pending bytes and text | decode, match stops, hold back, parse calls | delimiters split over tokens | nothing lost, doubled or leaked |
| Prompts, tokenizer | `mivi-server/src/model_profile.rs`, `mivi-tokenizer` | profile; memo of words | detect, render, encode, decode | templates decide; a cache of words | a conversation only grows; bytes survive |
| Engine actor | `mivi-server/src/engine_actor.rs` | command queue, model with sampler, a stream or reply channel per request | generate, stream, encode, cancel, recovery from panics | bounded channels with blocking sends, one thread for all | options stay with their request; everybody is answered |
| Chat endpoint | `mivi-server/src/routes/chat.rs`, `streaming.rs` | permits, a task and an event channel per stream | admission, blocking answer, streaming task | timers, disconnects, stalled clients in one `select!` | well-formed events, honest finish reasons, permits come back |
| Anthropic endpoint | `routes/anthropic.rs` | as above, in a body pulled by the connection | the same | deadlines are polled by the client's reads | the same |
| Agent endpoint and loop | `routes/agent.rs`, `mivi-agent/src/engine.rs` | step counts, window of recent actions, phase | `step`, retries of a required call | timeouts with unknown effects, stagnation, two counters | bounded steps; nothing after an unknown effect |
| Tool broker, file tools | `mivi-tools/src/broker.rs`, `builtins/fs.rs` | execution slots; the workspace | execute, read, write, list | handlers outlive their call; the tree changes under a call | slots bound handlers; files change as a whole |
| Stores | `mivi-kv/src/semantic.rs`, `disk.rs`, `mivi-context`, `mivi-memory`, `expert_cache.rs` | bounded lists, indexes, files | insert, evict, search, save, load | limits, ties, a crash in a save | what is found was stored and is current |
| Model files | `training/export/convert_to_gguf.py`, `mivi-model/src/gguf.rs`, `loader.rs` | a file and its map | write, open, look up, read | a file cut anywhere; optional tensors | no byte is read that was not written for it |
| Server process | `mivi-cli/src/runners/serve.rs`, `mivi-server/src/lib.rs`, `watchdog.rs` | socket, watchdog, shutdown channel | start, bind, look, shut down | ports taken meanwhile; a channel closed at once | nearest free port; ends for a cause only |
| Command-line chat | `mivi-cli/src/runners/chat.rs`, `chat_stream.rs` | conversation, `cached_tokens`, filter | line, token, slash commands | tags split over tokens | the screen shows what the text means, by the tags that are seen |
| Fixture capture | `mivi-server/src/fixture_diagnostics.rs`, `fixtures.rs` | a session all parties `try_lock` | arm, record, collect, read back | every lost lock is a lost step | a capture is honest or marked |
| Products of weights | `mivi-quant`, `mivi-core/src/simd` | chunks of rows, an output buffer | products with a vector or a batch | five kernels chosen by sizes, workers over the rows | each product once, in every path the same |
| Everything else | norms and rotation, configuration, logging, UI, training | | | arithmetic, parsing, input and output | not a matter of control |

How they interact: HTTP handlers take one of `max_concurrent_requests` permits
without waiting, send commands through a bounded queue to the one engine thread,
and receive either one reply through a oneshot channel or text through a bounded
channel that the thread fills with blocking sends. A chat's streaming task turns that
text into events in a second bounded channel that the client's connection drains;
the Anthropic endpoint has no task, its body runs when the connection polls it; an
agent's task alternates generations with tool calls through the broker. The engine
thread owns the model, and with it the sampler, the KV cache, the recurrent state and
the prefix cache, which all requests share one after another.

The complete list of parts with their status, and of the hazards with the
properties aimed at them, is in `PROJECT.json`.

## 2. Modules

| module | models | role |
|---|---|---|
| `PrefixCache`, `PrefixCacheProofs` | the in-memory prefix cache | component, theorems |
| `KvLayout` | the flat buffers of the KV cache | component; theorems in `ComponentsProofs` |
| `Inference`, `InferenceProofs` | one model serving requests one after another | composes `PrefixCache` (`Cache == INSTANCE`) with KV cache and run state; theorems, on top of those of `PrefixCacheProofs` |
| `ColdInference` | a model without any cache | abstract specification that `Inference` implements |
| `LayerTiles` | layers by token and by tile | component, with the layers' meaning as reference |
| `WeightProducts` | products of quantised weights, by every kernel | component, with the matrix as reference |
| `Sampling`, `JsonMode` | the choice of a token; the JSON mask and automaton | components, with a parser of RFC 8259 as reference |
| `AnswerText`, `ToolCallStream` | text of a generation on its way to a client; streamed tool calls | components, compared with the whole text; theorems about `AnswerText` in `StreamProofs` |
| `Prompts`, `Tokenizer` | model profiles and rendered prompts; byte-pair encoding | components |
| `EngineActor`, `EngineActorProofs` | engine thread, channels, sampler | component, theorems, and the engine as its clients see it |
| `ChatServer`, `ChatServerProofs` | the chat endpoint in front of the engine | composes `EngineActor` (`E == INSTANCE`) and implements it; theorems |
| `AnthropicServer`, `AnthropicServerProofs` | the messages endpoint in front of the engine | composes `EngineActor` and implements it; theorems |
| `ToolBroker` | the slots of the tool handlers | component |
| `AgentServer`, `AgentServerProofs` | agent endpoint and loop over the broker | extends `ToolBroker`; theorems |
| `WorkspaceFiles` | the file tools, one system call at a time | component |
| `SavedFiles`, `ModelFile` | cache files, records, indexes; GGUF files | components with crashes |
| `ContextStore`, `AnchorCache`, `MemoryIndex`, `ExpertHeat`, `Ranking` | the stores, and the sort they share | components; theorems in `ComponentsProofs` |
| `FixtureCapture` | a capture session | component; theorems in `StreamProofs` |
| `StreamProofs` | | theorems about what one generation streams: the text of `AnswerText`, the record of `FixtureCapture` |
| `FixtureStream` | the reader of the event streams of captures | component |
| `TerminalChat` | the chat of the command line | component |
| `Serving` | a server process from its start to its end | component; theorems in `ComponentsProofs` |
| `ComponentsProofs` | | theorems about the components that one caller uses at a time: `KvLayout`, the stores, `Serving` |
| `MC*` | small values for TLC | `MCComponents`, `MCEngine` and `MCGeneration` bundle parts; the runs of the endpoints but `Agent` need none, their configurations give the constants directly |

Definitions next to a modelled one with a telling name (`TouchTwice`,
`UnclippedTileEnd`, `NothingDropped`, ...) are the same idea with a plausible
mistake. No specification uses them. Replacing the real definition by one of
them must violate the property `PROJECT.json` pairs it with, and does: each
property is known to notice at least one mistake in the code.

### PrefixCache

`chunks`, `lru`, `memory` are the fields of the struct. The hash chained over all
tokens up to the end of a chunk is modelled as the sequence of chunk contents it
covers, so `ChunkHash` is `Append` and a parent is a prefix. This is the one
idealisation: the code compares 64-bit hashes and never tokens, and the model
assumes they do not collide. Positions count chunks. `insert_node`'s eviction loops
are one definition, `EvictTo`: `select_eviction_hash` picks the greatest in the
total order `Precedes` (deepest first, and among equals nearest the front of the LRU
list), so the loop removes the shortest initial part of that order that satisfies
the limits (`Fits`). `InsertDeltaChunk` and `InsertChunk` may alternate freely,
`Clear` and `PruneToBytes` may come at any time. An insertion that the code refuses
with an error changes nothing and is no step. `find_longest_suffix_match` only reads.

The bytes of an entry are a cardinality (`ByteSlots`), which makes sums
additive for the provers without recursion. `Without` and the other list
functions are recursive functions rather than RECURSIVE operators for the same
reason.

### Inference, LayerTiles, KvLayout

In `Inference` a KV cell, the recurrent state and the logits are named by the token
history they were computed from, or `Junk` if they belong to no single history.
`Seen(pos)` is what a forward pass at `pos` can conclude: the history that the recurrent
state and every cell below `pos` agree on. `Reset` leaves the cells in place in the code;
the model turns them into `Junk`, which asks of the code that it never reads them.

| action | code |
|---|---|
| `Start` | `generate_streaming_with_cancel`: reset, then `restore_longest_prefix` of all but the last token |
| `Refuse` | early returns after the reset: cancelled, or the prompt does not fit |
| `StartGrammar`, `PrefillGrammar` | `generate_with_json_grammar`, which bypasses the cache and cannot be cancelled |
| `PrefillTile` | one turn of `run_chunked_prefill` with `cache_prefill_boundary`; with `TileTokens = 1` it is `run_token_prefill` |
| `Decode`, `EndDecode` | the generation loop and its exits |
| `CancelPrefill` | cancellation seen between tiles |
| `Fail` | an error or a panic between two layers: cells and states of the tile are `Junk` |

Left out of it: the arm of `Start` for a restore that fails half way (`RestoreIsWhole`
shows that it cannot be reached), the numbers, and the text. `ImplementsCold` is the
refinement: every behaviour of `Inference` is one of `ColdInference`, which has no cache. There
a request comes with its prompt (`Ask`), the prompt is read, that one and the whole of it
(`Read`), and a token is drawn only from the prediction for `prompt \o generated`, and is what
is generated next (`Draw`). The prompt and the tokens generated are the variables of the
loop itself; the stage is that of its phase (`Stage`), and the context of the prediction is
what the logits were computed from while decoding (`Context`). Answering from the restored
context of another request would be no step of `ColdInference`.

`LayerTiles` opens the forward pass that `Inference` takes as one step: rows, KV cells,
convolution states and logits are terms that tell what they were computed from, layer by
layer, through the two code paths (`attention_forward` and `ssm_forward` for a token, the
`_tile` variants for a tile), with and without adapters, from position zero or
continuing. `TilesAgree` compares all of them with `Meant`, the meaning of the layers.
`KvLayout` opens the cells: the index arithmetic of plain and packed buffers, layers with
other dimensions or none, and export and import of intervals.

### WeightProducts

Every projection of a layer is a product of quantised weights, and the code has several
ways to each. `WeightProducts` models them at two levels. A block of Q4_K, Q6_K or Q8_0 is
taken apart into bits, with the sizes of the formats: `TakeBlock` runs the loops of a
decoder, a vector kernel or the dot product of the KV cache, and `BlocksDecodeAlike`
says that every input is multiplied once, by the same bits as in the decoder, and that the
bits of a block are divided among weights, scales and minima without rest. A whole product
is a call of `quantized_matvec` or `quantized_matmul_rows`: `Refuse`, `StartMatvec`,
`NothingToDo` and `StartMatmul` are its beginning, a task is a chunk of rows that a worker
of rayon computes (`MatvecRow`, `BatchRow`, `BatchPair`), and `MatvecJoined` and
`MatmulJoined` come after all of them. A sum is the sequence of the products in it, with
whether each was fused, so that `ProductsRight` can say more than that the sums are
complete: in a batch beyond `DotBatch` a row is summed up in one order and to the
last rounding like a row alone, in whatever chunk, pair, register or tile it was. Reads
outside a buffer would be errors of TLC. The order within the rows of smaller batches is
that of the lanes and is not compared; the test of the repository compares those numbers.

### Sampling, JsonMode

`Sampling` is a pure module: an initial state chooses logits, mask, penalties and
limits, one action makes the choice. Temperature and softmax keep the order of the logits
and are left out. `SamplingRight` says which tokens may be chosen without retracing the
code's shortcuts (partial sorts, cutoffs), and that a prompt-lookup draft is a quotation.

`JsonMode` runs the automaton, the mask and the draw of `generate_with_json_grammar`
together with the decoder of `AnswerText`. The reference is a parser of RFC 8259 that gives the
places at which a phrase of the grammar may end. `NoneBarred`: the mask bars no token with
which a JSON text could go on. `TakesJson`: what the automaton has taken is the beginning of a
JSON text, and complete when it is whole, unless the text departs from JSON in one of three
ways, which `Departs` names: a comma that comes first in an object, a backslash before a
character that must not be escaped, a line break in a string. `AlwaysJson` says the same without
that reservation, as the comments in the source do, and the run `Json` shows it violated.
`FailsByStraying` and `TrackerAgrees` are about the automaton's errors and the server's tracker.
A step in which the mask is empty lets every token through, as in the code.

### AnswerText, ToolCallStream, TerminalChat, Prompts, Tokenizer

Characters are symbols, of which one is three bytes wide, so that a token may end inside
it; stop sequences and delimiters are short words over two letters, chosen so that they
overlap with each other and with themselves. The properties define what a client must see
from the whole output, and compare it with what was sent in pieces. `ToolCallStream` is
`stream_update`, the codec of Python-like calls, and the deltas the chat endpoint sends of it,
fed with texts cut anywhere; the deltas, concatenated, are the calls that were written. Numbers
are parsed and printed as `serde_json` does it (`NumberOf`, `Float`, `JsonNumber`): integers as
they are, minus zero and integers that are too long as floats, a float by the shortest digits,
with a point or with an exponent. So what is streamed of a number before it is whole may
contradict the whole: of `-0.5` the client is sent `-0.0` first, and nothing corrects it. `Steady` says
of a value that no beginning of it which can be read is printed otherwise than as a beginning
of it; `DeltasAssemble` promises the arguments for calls whose values are steady, and everything
else for all calls. Integers and points stand in their places up to three digits, for about 19 and 16
in the code. Not in the model: numbers with more digits than a float keeps, a plus sign, `E` for `e`,
and the words `true`, `false` and `null`.

In `TerminalChat` the filter of `chat_stream.rs` is a step per token; the reference
(`Reading`) reads the whole text from left to right. `TagsRecognised` says that the screen shows
what the filter is meant to show, and the run `Tags` shows it violated: the filter's list of
held-back beginnings has a gap (see Disagreements below). `ScreenRight` holds of every cut and says
exactly which tags count: one that opens a call is missed if, and only if, a token ended right
before its bracket, or a thought opens behind it in the token that completes it, since the
filter looks for `<think>` first. The prompt that the model reads has a beginning-of-text token
before it in some models (`bos`), which takes a place of the context and is not in `cached_tokens`.

`Prompts` detects a profile in a model's metadata, or takes an explicit one, and renders
a conversation that grows message by message. `Extends` says that what was rendered before
stays where it was, on which the prefix cache lives. `Tokenizer` encodes with special
tokens, pieces, byte symbols and merges in rank order, remembers words in slots, and
decodes.

### EngineActor

`queue` is the command channel, `job` and `step` say what the thread executes and
how far it is, `sampler` and `saved` are the sampler and the `SamplingCheckpoint`,
`stream` and `reply` are the channels. The sampler is modelled by whose options are
in effect and whose seed the generator continues. `history` is no state of the
code: it records the messages sent, those sent after a cancellation, and the outcome.

Clients (`Client`) do anything an `EngineHandle` allows: submit when the queue has room,
receive, cancel, drop the receiver, await a reply or drop the future that awaits
it. The thread's actions follow the handlers: `TakeCommand` (with checkpoint and options),
`Encode`, `Generate`, then for a stream `BeginStream`, `Emit`/`SendText` (the check in
the callback and the blocking send are separate steps, which is where a
cancellation races), `CutShort`, `SendRefused`, `Finish`, `FailStream`/`SendError`/
`ErrorSent`, and `Panic` at every place where handler code runs.

Left out: the mock engine, the engine without a model, fixture capture (which is
`FixtureCapture`'s).

### ChatServer, AnthropicServer

`handler[r]` is where the code that serves `r` is, and therefore also whether it
holds a permit (`Holding`): the permit is a local of the handler and then of the
task. `sse[r]` is the event channel. `sent[r]` records what the client has been sent
and is read by no action. Places of a chat and their code:

| places | code |
|---|---|
| `admit`, `admitting` | `admit_model_context`: the prompt is counted by the engine |
| `ask`, `asked` | `handle_chat_blocking` |
| `open`, `start`, `select` | the task: role event, command, the `select!` |
| `text`, `update`, `alive` | sends inside the loop |
| `fail` | the error event, and then the finish reason `error` |
| `completion`, `counting`, `flush`, `judge`, `calls` | after the loop: the output counted, held-back text sent, tool calls validated and sent |
| `finish`, `done` | finish reason, `[DONE]` |

`DropHandler` is the loss of the handler's future before there is a response
(`TimeoutLayer`'s 408, or the client left): the permit is freed, the engine is not
told. Timers carry no clock and may fire whenever they are armed. What the tool-call
codec makes of the text is a free choice, text is counted but not spelled. A
loaded model always states its context length, so that admission always counts.

In `AnthropicServer` a stream has no task. When the client has read (`Read`), the connection
polls the body, which runs to its next events (`Yield`), and its timers are looked at only
then. `DropBody` is a lost connection, by which `CancellationOnDrop` tells the engine. The events after an error, in
particular after a tool call that fails validation, follow the code.

### ToolBroker, AgentServer

A call waits in the semaphore's queue, runs on a blocking thread, and is answered; its
future may be dropped at any time, but a handler that runs keeps its permit until it
returns, which it need never do. `AgentServer` puts runs on top: `Unparsable` to
`EndStep` are `AgentLoop::step` with its guards in the code's order (a call that does not
parse, no call, a finish call, stagnation, the calls in turn, a timeout that ends the
step), the rest is `run_agent_task`. The engine is reduced to an output or a failure, since `ChatServer`
covers the way to it; an output is the sequence of its calls, which is also its
signature in the stagnation window.

### Stores and files

`ContextStore`, `AnchorCache`, `MemoryIndex` and `ExpertHeat` have one caller at a
time. Similarity is a table, and sorting is `Ranking` (stable, greater first): an item's rank is
the number of those before it, `InOrder` puts items at their ranks, and `Retained` does the
same with the items that a `retain` or a `filter` keeps. `HoldsLatest` says what the context
store promises whatever the order of insertions: a block that is gone had to leave a full store,
to later blocks or to pinned ones, and a pinned block to later pinned ones only. Tests are the only callers of
some of them (the disk, anchor, expert, context and memory stores are not on the
server's paths yet).

`SavedFiles` writes cache files, records and JSON documents in units and in place; a
crash leaves a beginning. What a load returns was saved, whole where the format can tell.
`ModelFile` does the same for GGUF files: header, then tensors with padding, cut
anywhere, mapped by a loader at any time; every parameter is looked up under each of its names,
and the bytes that a step reads must be those written for it. `ReadsWhatWasWritten` excepts one
kind of file: a `token_embd` with fewer rows than the vocabulary, beside an output projection of
its own, which the loader takes at its word (see Disagreements).

`WorkspaceFiles` takes `read_file`, `write_file` and `list_dir` apart into system calls. Between
any two of them another program may remove a file, a link or an empty directory, add to a file,
place a link to a directory outside under a name of the paths, or rename within a directory, over
what is there as well. So a directory that was validated may be a link when it is opened;
`OpenedAt`, the `openat` with `O_NOFOLLOW`, is what keeps the call inside, and following
the link instead is a mutant that `OutsideUntouched` notices. The other program leaves
temporary files alone. The removal of a temporary file may fail, which the code does not look at:
`kept` records such a file, and `ErrorMeansNothing` allows no other.

### FixtureCapture, FixtureStream, Serving

`FixtureCapture`: arming, the engine's record, the router's and the collector's looks, each
behind a `try_lock` that may lose, the waiter and its wakeups, and the recorder in
the model. `FixtureStream` cuts a response body into frames of any size and compares what
the reader makes of it with what was sent.

`Serving`: settings, the search for a port beside other processes, watchdog looks
(memory goes up and down freely between two of them), the channel whose sender is
dropped at once, the three triggers of a graceful shutdown, connections that finish.

## 3. Runs

Times are for two workers.

| run | question | bounds |
|---|---|---|
| `Components` | is each of twelve components right by itself? | see below; 686k states, 160 s |
| `Generation` | is each of ten parts between tokens, text and files right by itself? | see below; 453k states, 150 s |
| `Engine` | does a server of one model answer like one without a cache? and, by itself, are sampler, cancellation and answers right under arbitrary clients? | 2 tokens, chunks of 2, tiles of 3 (so tiles are clipped), 20 prompts of 1 to 6 tokens that branch at the first and third token, up to 3 chunks cached, context of 6 (generation meets its end), 1 new token; beside it a seeded stream of 2 pieces and a blocking request, all channels of capacity 1, so that every send can block; 73k states, 80 s |
| `EnginePanic` | are options request-scoped even in a panic? (violated) | the engine of `Engine` |
| `Tags` | is a tag seen however the tokens cut it? (violated) | the chat of `Generation`, tokens of up to 4 symbols |
| `Json` | is what JSON mode returns JSON? (violated) | the JSON mode of `Generation` |
| `ChatServer` | the life of a streaming request with tools beside a blocking one | 2 permits, channels of capacity 1, 2 pieces of text; 91k states |
| `ChatPanic` | does "stop" mean a complete answer? (violated after a panic) | as `ChatServer` |
| `ChatStalled` | does the deadline end a stream? (violated) | one stream of 3 pieces, a client that stays and does not read |
| `Agent` | runs over one slot for tools | one run of up to 7 steps (its request for 9 meets the limit) that fills the stagnation window with two calls in any order, perhaps after a retry, unless it finishes; then one run that must use a tool and one that need not, with calls allowed, barred, unknown and finishing; 98k states |
| `Anthropic` | the life of requests at the messages endpoint | a stream with tools beside another stream or a blocking request, 2 pieces of text, channels of capacity 1 |
| `AnthropicError` | is an error never followed by a normal stop? (violated) | the same |

`Components`, `Engine` and `Generation` explore parts that do not interact: the initial state
chooses the part that moves, all others rest in one initial state, so the run's states are the sum of
the parts' and not their product, and each part sees exactly its own specification
(`MCNext` of the module). They share a run because they share nothing
else.

Parts of `Components`: the prefix cache (2 chunk contents, 14 hashes, 3 entries or 4
bytes, snapshots of 1 or 2 bytes: either limit can bind first, and one insertion may evict
several); three requests for two permits of `ChatServer` with clients that never read
(330k of the states); a capture of two requests; event streams of up to four events in
frames of 1, 3 or 6 symbols; KV buffers of three layers at each precision; a context
store of capacity 0 or 2; anchors under the least budget; an index of three records;
three experts in two layers; conversations of up to three messages for every kind of
profile; texts whose merges, bytes and special tokens interfere; a server process with
one connection, ports at the end of their range and three looks of the watchdog.

Parts of `Generation`: texts of up to five tokens, with wide characters split at every
byte; calls with quoted, nested and repeated values, and numbers that are printed as they are
written or quite differently, cut at any character; three
layers of two kinds, tiles of 2 and 3, two calls in one context; blocks in their real sizes,
and products with vectors of 2 floats for 8, so that batches of 8, 16 and 27 stand for 32, 64
and 107, 5 rows on 1 to 3 threads with thresholds of 4 for 256 and chunks of 2 for 128 (odd
chunks, and chunks that end early), column tiles of 4 for 128; JSON texts of four tokens and two
levels of nesting; vocabularies around the width of a mask word; three turns of a
terminal chat over a window of 12 tokens, with both opening tags in one text in either order and tokens
of up to 6 symbols, enough to complete one tag and bring the other; two tool calls on three trees, one
of them with links inside and outside, one with a directory outside that a link may come to lead to,
beside one change by another program (the two calls differ in nothing but their names, so the run uses
their symmetry); two saves of each kind of file with a crash anywhere; models of one or two layers
with the names of either family, cut anywhere.

| combined property | conjuncts |
|---|---|
| `StoresRight` | `CellsSeparate`, `ContextRight`, `DeepestIsFound`, `SearchesCurrent`, `HeatRight` |
| `TextsRight` | `StreamRight`, `PromptsRight`, `TokenizerRight` |
| `LayersRight` | `TilesAgree`, `KernelsRight` (`BlocksDecodeAlike`, `ProductsRight`) |
| `ChoicesRight` | `SamplingRight`, `JsonModeRight` |
| `FilesWhole` | `FilesRight`, `SavedFilesRight`, `ModelFileRight` |

Why small bounds are enough here: the interesting cases are adjacent pairs. One
more piece of text than a channel holds makes a send block; a second request is
what an unrestored sampler, an unreturned permit or a stale cell can harm; a third
is needed for a permit to be given away while the engine still works for the first
two. Three chunk levels give an entry a parent and a grandparent, and a limit
of three entries out of fourteen forces every kind of eviction. A delimiter of three symbols
has proper beginnings of one and two; a wide character of three bytes can be cut at two
places. One slot for tools is enough for a handler that nobody waits for to starve
another run.

`CHECK_DEADLOCK FALSE` in all runs: each request to an engine is made once, each text ends, a
process stops, so a system that has done its work stops.

### The properties worth a second look

* `RestoreIsWhole`, `ParentClosed` (`PrefixCache`): the intervals a restore imports
  tile the prefix, whatever was evicted in between. Evicting the oldest entry first
  would break it.
* `AllReachable`, `PromptCachedUnlessFull` (`Inference`): no memory is held by a chunk
  that no lookup can find, and a prompt is not half cached for lack of a boundary.
* `SnapshotsExact`, `ImplementsCold`: cancelled, refused and failed requests in any
  order never leak a value of another context into the cache or into a prediction.
* `TilesAgree`: both code paths of every layer compute the same terms.
* `BlocksDecodeAlike`, `ProductsRight`: the kernels behind them multiply and add up the
  same numbers, and threads, pairs and tiles are not seen in the sums of a large batch.
* `ScopedUntilPanic`, `OneLateMessage`, `AllAnswered` (`EngineActor`).
* `EventsWellFormed`, `StopMeansWholeOrPanic`, `StopReasonMeansWhole`: from the client's
  side, whatever timers, codec and engine do.
* `WantedStreamsHoldPermits`, `BacklogWithinSlots`: the permits bound the engine's
  backlog although a permit is freed while its generation goes on. The reason is not
  local: the request that gets the freed permit first has its prompt counted by
  the engine, in the queue behind the abandoned work.
* `ImplementsEngine`: every step of the server is a step of `EngineActor` or leaves it
  alone, so what `EngineActor` promises to arbitrary clients holds for this one.
* `NothingAfterTimeout`, `SlotsExact`, `NoStagnantActs`, `StepsAgree`, `HonestStop`
  (`AgentServer`): the loop and the endpoint count steps separately, and one of them takes
  a step back for a retry; they agree whenever either tests its limit.
* `AnswerTextRight`, `DeltasAssemble`, `ScreenRight`: a property of the whole
  text, for every way of cutting it.
* `OutsideUntouched`, `FilesRight` (`WorkspaceFiles`): a link that appears between two
  system calls, in the place of a directory that was checked, leads no call outside.
* `ImplementsCold` is about this request's prompt and its tokens, and says so of every token.
* `NoLostWakeup` (`FixtureCapture`): a waiter that lost every `try_lock` race is still
  woken.

### Disagreements between text and code

The runs with expected violations each show one, quoted in `PROJECT.json`
(`findings`): a panic leaves its sampling options and seed behind; a panic in
mid-stream is reported as a normal stop; a stalled client suspends the deadline; an
Anthropic message whose tool call fails validation has an error event and still stops
normally; the JSON mode returns texts that are no JSON; and the tag `<tool_call>` is printed
if a token ends before its bracket.

Others were met on the way. The modules follow the code, and the properties are
stated so that they hold of it:

* `mivi-kv/src/prefix.rs:399` says that pruning removes the oldest chunks; the code
  (`prefix.rs:417-429`) takes the deepest, and the oldest among those. The code is right: with
  the oldest first `ParentClosed` fails (`OldestPrecedes`).
* The JSON mode never flushes the byte decoder, and for a prompt that ends with `{` the output
  lacks that brace.
* The filter of the command-line chat searches its buffer for `<think>` before `<tool_call>`,
  whichever comes first: a call is printed as text if a thought opens behind it in the same token.
  `finish` drops an unfinished tool call unless part of its closing tag was held. The number of
  tokens cached that `/stats` prints (`mivi-cli/src/runners/chat.rs:249`) leaves out the
  beginning-of-text token.
* `mivi-tools/src/parser.rs:45` calls the streamed arguments "A JSON object prefix that only
  grows as more model output becomes parseable". Of a number they may not only grow: `-0.5` is
  streamed as `-0.0` when the text is cut after `-0`, `1e-1` as `1`, and an integer of more than 19
  digits digit by digit until it becomes a float. The endpoint sends what is longer than before and corrects
  nothing (`mivi-server/src/routes/chat.rs:455-468`), so the arguments a client puts together are
  not those of the call. `1e5` does no harm, as its beginnings cannot be read or are printed alike.
* `step()`'s own limit guard (`mivi-agent/src/engine.rs:95-101`) cannot be reached
  (`StepsAgree`).
* `TopPerLayer` pins among the 1024 experts that are hottest overall, while its comment
  (`mivi-model/src/expert_cache.rs:150`) says "Pin top N hottest experts per layer". `PinsHottest`
  asks of every layer that no expert left out is hotter than one that is pinned, which the cut does
  not break, and that N are pinned if no more than 1024 experts were active, beyond which
  a layer may get fewer.
* A model file whose `token_embd` has fewer rows than the vocabulary is loaded if it has an output
  projection of its own, and for the last tokens of the vocabulary the bytes behind the tensor
  are read (`mivi-model/src/model.rs:361-365`).
* `write_file` ignores the error of the removal of its temporary file
  (`mivi-tools/src/builtins/fs.rs:296`, `302`, `322`), which then stays beside the target.
* A search of the context store with an embedding of another length than the store's finds
  nothing; `FindsMostSimilar` says so.
* A record file cut by a crash may load with another importance and no content. A KV cache
  file does not store `standalone_hash`. A model file cut inside an optional tensor (output
  projection, norms of heads, convolution) loads as a model without it.
* A vocabulary piece that is spelled with byte symbols is misread when it is also a
  plain entry; a single unknown byte becomes the unknown token without byte fallback; the
  memo of words compares 64-bit hashes only.
* The native prompt renderer without tools repeats the thinking instruction in every
  system message.
* A handler for Ctrl+C or SIGTERM that cannot be installed completes its future and
  shuts the server down. A graceful shutdown, also one by the memory safelock, waits for
  every open connection, so that the stalled stream of `ChatStalled` delays it.

## 4. Fairness

Safety runs assume none. `EngineActor!FairSpec`: the thread takes steps while it can
(it is an OS thread in a loop), and a client reads its stream or drops it: without
that nobody is ever answered, as the thread blocks in `blocking_send`.
`ChatServer!FairSpec`: the thread runs; the runtime polls every task that can go on
(weak fairness of `Handle`); `select!` polls its branches in random order, so a
branch that is ready again and again is taken (strong fairness of receiving from
the engine, against the keep-alive timer); clients in `Reading` go on reading.
`TimedSpec` adds that a deadline armed again and again expires; it is used only by
the run that shows that this is not enough. Requests in the liveness run have reading
clients; `ChatStalled` shows what happens without.

`AnthropicServer!FairSpec`: the thread runs, handlers and chunk streams that can go on do,
and the client of a stream reads or leaves. That last assumption is the point: without it
no deadline of the body is ever polled, and the permit stays. `AllReleased` therefore says
nothing of a client that stays and does not read; of that hazard no property is claimed.

`AgentServer!FairSpec`: the runtime polls every task, the engine answers or fails, and a
call that is not answered times out (`Proceeds`); a client that reads lets every send
finish and one that has left makes it fail. Nothing is assumed of tool handlers: one may
never return, and a call may never get a slot. `EveryRunEnds` holds nevertheless.

## 5. Proofs

`PrefixCacheProofs` proves for all values of the constants (any number of chunk
contents, any depth, limits and snapshot sizes satisfying `SizesAssumption` and
`BytesAssumption`):

| theorem | property |
|---|---|
| `TypeCorrect` | `TypeOK` |
| `ParentsStay` | `ParentClosed` |
| `RestoresWhole` | `RestoreIsWhole` |
| `BookkeepingStaysExact` | `BookkeepingExact` |
| `StaysWithinBudget` | `WithinBudget` |
| `TailsGoFirst` | `TailsFirst` |

None of them is inductive alone. The invariant `CacheInv` (theorem
`CacheInvariant`) adds that an entry's index is the length of its path minus
one, that its parent is either `Root` with an interval from zero or its own prefix
with an interval of one chunk, and that the map is finite. The argument: an eviction
removes an initial part of the order "deepest first", and a parent is always
exactly one shallower than its child, so whatever removes the parent has removed
the child before. The bookkeeping needs that the LRU list is injective and ranges
over the map, so that removing a set of hashes from both removes the same bytes from
the total; the budget needs the bookkeeping, as the loops compare the running total and not
the true sum. Lemmas about `Without`, `Touch`, `BytesOf` and `EvictTo` come
first, then one step per operation.

`InferenceProofs` proves for any vocabulary and prompts, any sizes of chunks and tiles, any
length of the context and any limits of the cache satisfying `LengthsAssumption`,
`PromptsAssumption` and `JunkAssumption`:

| theorem | property |
|---|---|
| `InferenceTypeCorrect` | `ModelTypeOK` (of no run) |
| `SnapshotsStayExact` | `SnapshotsExact` |
| `PositionsStayExact` | `PositionExact` |
| `EverythingReachable` | `AllReachable` |
| `PromptsStayCached` | `PromptCachedUnlessFull` |
| `ColdModelImplemented` | `ImplementsCold` |

Its cache is the one of `PrefixCache` with chunks of tokens and entries of one byte; the
theorems about that module are brought in by `P == INSTANCE PrefixCacheProofs`, and every
step of the loop is shown to be a step of `P` or to leave the cache alone, so that
`P!CacheInv` holds throughout. The invariant `InferenceInv` (theorem `InferenceInductive`)
says what the model holds: `Holds(s)` means that position, recurrent state and every cell
below the position are those of `s`. While a prompt is read that is its beginning up to
`cursor` (`Reading`), while an answer is generated the prompt and the answer (`Generating`);
`Chained` says that the hash is that of the full chunks read so far, and that they are cached or
the cache is full. `CachedExact` is `SnapshotsExact` with the interval each entry owns.

The argument goes round in a circle, which is why the parts are proved together. A tile ends in
the chunk it began in, or with it (`TileCompletesChunk`), so a snapshot covers one chunk and is
taken from a model that holds the prompt up to it: it is exact (`SnapshotIsExact`). An entry
that owns one chunk has its parents down to the root in the cache, so the walk of a restore
visits all of them (`WholeWalk`), each position below its end is covered by one of them
(`RestoredCell`), and a restored model again holds the beginning of the prompt. That a prompt stays
cached needs that an insertion evicts from a full cache only. Eviction stops at the first
entry that makes the contents fit; what goes before the last entry that goes could have gone
alone (`LastEvicted`) and did not suffice, so one entry more would have exceeded a limit.

`EngineActorProofs` proves for any set of requests, any subset of them streaming or
seeded, and any capacities of at least one:

| theorem | property |
|---|---|
| `EngineTypeCorrect` | `TypeOK` |
| `SamplerIsScoped` | `ScopedUntilPanic` |
| `AtMostOneLateMessage` | `OneLateMessage` |
| `NobodyWaitsInVain` | `WaitsForACommand` (of no run) |

The invariant `EngineInv` (theorem `EngineInductive`) has six parts. `TypeInv` adds to
the types that the thread is in the handler of the command it holds. `PendingInv` says
that the command in execution and the queue, read as one sequence, hold at most one
generation of each request, whose outcome is still open: without it a second
generation could overwrite the outcome `panicked`, and the hypothesis of
`ScopedUntilPanic` would become true again. `ReplyInv` says the same of the commands that
answer once: each has a reply channel of its own, and whoever waits has one of them.
`GenerationInv` ties the two kinds of pending generation to what can still be seen of them,
so that a stream whose sender lives has its command in the queue or in execution. `SamplerInv` adds that the checkpoint a
handler holds is the sampler the model was loaded with. `LateInv` adds that a late
message leaves its stream cancelled, that a handler which has begun to send has
delivered none late so far, and that a request not yet asked for has none, because asking
opens a new channel whose flag is down. Each part is proved preserved on its own, with one
step per action; the parts about outcomes look at a handler's step only through the two
things it can do, return or continue (`HandlerOutcomes`).

The last section of `EngineActorProofs` is for the endpoints. A stream `Owes` its reader what
has been sent and not received, what the handler has still to send, and its end: `Owed(r, n)`
says that after `n` pieces of text have been received, what is in the channel and what is known
of the generation leave exactly the rest. The lemmas `OwedAtFirst`, `OwedKept`, `OwedTaken` and
`OwedAtLast` follow that through the opening of the stream, a step of anybody else, a receive
and the end, and `EngineFrame` says what the thread's steps leave alone.

`AgentServerProofs` proves for any runs, any tools and permits, any limits and retries
and any outputs of the model satisfying `BrokerAssumption` and `AgentAssumption`:

| theorem | property |
|---|---|
| `AgentTypeCorrect` | `TypeOK` (of no run) |
| `SlotsStayExact` | `SlotsExact` |
| `NothingFollowsTimeout` | `NothingAfterTimeout` |
| `CountsAgree` | `StepsAgree` |
| `NeverActsStagnant` | `NoStagnantActs` |
| `StopsHonestly` | `HonestStop` |

The invariant `AgentInv` (theorem `AgentInductive`): `StepsInv` relates the two counts at
every place (`Ahead`: the loop counts a step before it acts, the endpoint after). `QueueInv`
and `SlotInv` make permits a cardinality: the running handlers are a set of numbered pairs,
finite, and a permit given to a caller adds exactly one. `TimeoutInv` follows a run from the
call that timed out to its end and shows that no place on that way starts another call.
`StopInv` ties the reason to phase, limit and client. `WindowInv` says that the stagnation
window is the end of everything executed; trimming it to its length keeps that, since the
last items of the last items are the last items of the whole.

`StreamProofs` proves for any number of requests, records and pieces satisfying
`CaptureAssumption`, and any tokens, stop sequences, forced prefixes and delimiter satisfying
`TextAssumption` (these are finite texts, delimiter and stop sequences not empty:
`validate_stop_sequences` refuses empty ones):

| theorem | property |
|---|---|
| `AnswersAreRight` | `AnswerTextRight` |
| `CapturesAreRight` | `CaptureRight` |

Engine, endpoint and collector share the session behind `try_lock`s, and whoever finds it
locked gives its step up, so nothing can be said of one of them alone. The invariant
`CaptureInv` (theorem `CaptureInvariant`) has a part for each. `CommandsInOrder` and
`NothingBefore`: the commands of a request reach the engine one after the other, and before
its generation nothing of it is anywhere. `Past` and `Clean` are the two states of the session
in which another request may begin. `HonestModel`: what the model recorded of a whole generation
is what is in the channel and in the body together, so that a record taken while pieces are still
on their way stays right. `EndIsHonest` says that a stream which ends without an error has been
`Drained`. `SessionHonest`, `EngineHonest` and `ClientHonest` say that all the records are of the
request that is served, and that what was lost has marked the session incomplete; `WaiterAwake`
that a collector sleeps only while nothing has come that it waits for.

The text of an answer has the invariant `AnswerInv` (theorem `TextInvariant`). While tokens come,
what the decoder keeps is the part of the bytes that is no text yet, and what the loop keeps is the
end of the text so far, long enough for every beginning of a stop sequence the text ends in
(`KeptIsEnough`; this part is what makes the invariant inductive). Its argument has three parts:

* Bytes. `Lossy` is a recursive function over places; `TextsAre` says that it
  exists and reads one character or mark at each step, and from that `LossyOfJoin` and
  `FeedDecodes`: bytes cut at a place where the decoder may stop are decoded alike in one piece and
  in two. What the decoder withholds is the same whether it has seen the bytes at once or
  one token after the other.
* Stop sequences. A beginning of a stop sequence that ends in the new text reaches back no
  further than what was kept (`KeptSuffices`), so the first stop sequence of the list that ends
  the whole text is the one that ends what is kept and new; and what `HoldBack`
  releases leaves as much as the next token needs (`ReleaseKeeps`). The blocking request takes the
  stop sequences off one after the other: a fold, shown to exist by well-founded recursion
  (`FoldExists`), of which the first cut is the one the stream made (`BlockingIs`).
* Delimiter. `SafeIs` replaces the search of the endpoint by the least place at which the rest of
  the text agrees with the delimiter as far as both go. A longer text can only move that place
  back (`SafeGrows`), so what was shown stays right.

`ComponentsProofs` proves under the assumptions of the modules (`ServingAssumption`,
`LayoutAssumption`, `ContextAssumption`, `AnchorAssumption`, `IndexAssumption`,
`HeatAssumption`: constants are numbers where the code has numbers, experts are finitely many,
similarities are integers):

| theorem | property |
|---|---|
| `ServesRight` | `ServingRight` |
| `CellsAreSeparate` | `CellsSeparate` |
| `StoreIsRight` | `ContextRight` |
| `DeepestAnchorsAreFound` | `DeepestIsFound` |
| `SearchesAreCurrent` | `SearchesCurrent` |
| `HottestExpertsArePinned`, `TokensAreCounted` | `HeatRight` |
| `StoresAreRight` | `StoresRight`, of all five |

Each part has its inductive invariant, a theorem of its own:

* `ServingInv`: `SearchInv` says the ports tried so far were
  taken when they were tried, so that the first success is the nearest; `LockInv` relates what
  the watchdog has seen to what waits in its channel, whose sender is gone when the
  message is sent; `WarningInv` remembers a warning until the memory has been low;
  `EndInv` says that a server which ends has closed its listener and served its connections.
* `LayoutInv`: every cell that was written is in the units that `Offset` gives, and an exported
  interval has each cell at its place (`ExportedWhole`). The number of a unit determines layer,
  position and place in the cell (`DistinctProducts`), and a place in an
  interval its layer by quotient and remainder (`QuotientIs`), so the closed forms of `store`,
  export and import can be compared unit by unit (`UnitsWhole`). That every layer with attention
  has a place, in whatever order the list names them, is `LayersHavePlaces`.
* `ContextInv`: the serial numbers of the blocks ascend, and `HoldsLatest` holds. An insertion
  evicts the oldest unpinned block, and all before it are pinned; that is what makes a block which
  is gone one that had to go.
* `AnchorInv`: each insertion is `Accounted` for: kept, overwritten, or with as many other positions
  as the budget allows. The code evicts from the front of its list, whatever is there; what is
  proved is that an anchor is gone only if it was replaced or had to make room.
* `IndexInv`: one entry for each record, with the vector that `current` says it was last given.
* `HeatInv`: heat and activations have the same experts, the order of the map names each once,
  and the activations add up to the tokens. The sum is a fold over a set, whose definition
  chooses a recursive function: `Tally` counts marks instead, and `SumIs` shows
  that both agree, by a set of least cardinality on which they would not.

All searches rest on a few lemmas about rankings. `RankIsBijection` says that counting those
before an item gives each item a place of its own; from it `RetainedIs` tells of a
filtered sequence where each of its items was (`Placings`), and `BestIs` of a sorted and truncated one
that no item which is missing has a greater score than one that is there (`Winners`).

`ChatServerProofs` proves for any requests, any of them streaming, seeded or with tools, any
number of permits and any capacities satisfying `EngineAssumption` and `ServerAssumption`:

| theorem | property |
|---|---|
| `ServerTypeCorrect` | `TypeOK` (of no run), and never more permits out than slots |
| `EngineImplemented` | `ImplementsEngine` |
| `EventsAreWellFormed` | `EventsWellFormed` |
| `StopIsWhole` | `StopMeansWholeOrPanic` |
| `WantedStreamsAdmitted` | `WantedStreamsHoldPermits` |
| `BacklogIsBounded` | `BacklogWithinSlots` |

`EngineImplemented` comes first and is used by all others: the variables of the engine are
those of the endpoint, so every step of the endpoint is shown to be a step of the engine or of
its clients, and the invariant of `EngineActorProofs` holds behind the endpoint. `ServerInv`
(theorem `ServerInductive`) then says, for each place of a handler, what its reply channel
(`ReplyPlace`), the kind of its generation (`KindPlace`), its stream (`StreamPlace`) and the
last event sent (`EventPlace`) may be. `StreamPlace` carries `Owed` from the engine through the
`select!` loop; a handler that leaves the loop because the stream has ended owes nothing, which
is what "stop" means to the client. Without it, the count of texts sent would say nothing of the
count the engine sent.

`BacklogIsBounded` needs more than the permits, because a permit is freed while its
generation goes on. `Abreast(i)` are the requests whose generation is at place `i` of the
engine's line or behind it, or who may yet ask for one once what stands before place `i` is done:
a handler that is about to ask, or one whose prompt is counted by a command before place `i`. `BacklogInv` says that from every place these are no more than the slots. A request
that comes in with a freed permit has its count put at the end of the line, so it is abreast of
nothing that stands there already; and when the engine takes a command, the places move by one.

`AnthropicServerProofs` proves under `EngineAssumption` and `AnthropicAssumption`:

| theorem | property |
|---|---|
| `MessagesUseTheEngine` | `E!Spec` (of no run) |
| `MessagesWithinSlots` | never more permits out than slots (of no run) |
| `MessagesAreWellFormed` | `EventsWellFormed` |
| `StopReasonIsWhole` | `StopReasonMeansWhole` |

The invariant has the same three layers (`ReplyPlace`, `KindPlace`, `BodyPlace`), but the
properties look at the whole of what was sent, with counts of events, and not at the last event.
`Tale(s, last, deltas, errors, ending)` says that `s` is a beginning of a message that ends in
`last`, with so many deltas and errors and these events of its end. One lemma per kind of event
says how a tale goes on, each place of the body says which tale has been told, and `Right` says
how a tale may end given the generation; `Told` keeps that when the body breaks off. The events
of one `Yield` are appended together, so the lemmas about concatenation come first.

Checked by TLC only: prompts, tokens, streamed tool calls, layers, products of weights, files, the
reader of event streams, the command-line chat (`TextsRight`, `DeltasAssemble`, `LayersRight`,
`ChoicesRight`, `TerminalChatRight`, `FilesWhole`), and every liveness property.
Liveness and ENABLED are beyond the prover. The references of the other text, token and layer modules are
recursive definitions over their input, as is the decoding of blocks; what such a definition
computes for every input needs an induction that the prover cannot instantiate and that has to
be replaced, as for `Tally` and `Lossy`, by a least counterexample for each of them. `SelectSeq`,
`@@` and `:>`, which those modules and the ones about files are written with, cannot be expanded in a proof.

## 6. Plan

Done: all parts of the inventory but the last line of its table, each with
properties that some run checks and mutants that violate them; proofs about prefix cache,
inference, engine, chat, messages and agent endpoints, the text of answers, captures, KV buffers, stores and server
process.

Next, in this order:

1. Proofs about `SavedFiles` and `WorkspaceFiles`, whose invariants are local to a file.
2. `FixtureCapture` over `EngineActor` instead of beside it; the JSON codec of tool calls.

### Not modelled

* Floating-point arithmetic: norms, rotation, activation functions, rounding, quantisation
  to Q8_0, TurboQuant. Its place in the control is in `LayerTiles`, `KvLayout` and
  `WeightProducts`, with values as terms. Overflow of buffer sizes, which the code checks,
  and the NEON kernel of floats, which has the shape of the other, are left out too, as is
  packed prefill, which is compiled for tests only.
* Configuration, arguments, request validation, key comparison, schemas, the
  calculator, the parsers of `mivi-context`, the router and minifier: sequential functions of their input,
  of which a model would only repeat the code.
* Capture of layer activations, limits on the size of settings and descriptors in a capture.
* Logging, metrics, the embedded page: nothing depends on them.
* Code without a caller on the paths of the program: `ToolCallGrammar`, `compact_json_schema` (which also drops
  properties named `description` or `title`), `IntrusiveBpeMerger`'s alignment tables, adaptive watchdog
  thresholds. Prompt-lookup drafts have no caller either and are in `Sampling` as they are
  a search with a precise meaning.
* LoRA adapters in model files and overflowing offsets in their headers; quantised values of
  `token_embd`, whose shape the loader takes from the metadata.
* Other programs that rename between directories or out of the workspace, or change a temporary
  file, while a file tool is at work; writes by the tools of others are all of one kind (`Extend`).
* In texts of JSON: control characters other than a line break, and the digits of `\u` escapes.
* Training, evaluation and reference scripts, other than the writer of model files.
* Collisions of 64-bit hashes, in the prefix cache and in the memo of words.
