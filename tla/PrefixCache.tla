---------------------------- MODULE PrefixCache ----------------------------
(***************************************************************************)
(* The in-memory prefix cache of crates/mivi-kv/src/prefix.rs.             *)
(*                                                                         *)
(* A prompt is cut into fixed-size chunks of tokens.  A cached chunk keeps *)
(* the attention KV cells of its own interval, the recurrent state at its  *)
(* end, and a pointer to the chunk before it.  Chunks are keyed by a hash  *)
(* chained over all the tokens up to their end; here the hash IS that      *)
(* sequence of chunk contents, which states the one assumption the code    *)
(* makes of compute_chunk_hash: that two token prefixes never collide.     *)
(* Positions and intervals are counted in chunks, not in tokens.           *)
(***************************************************************************)
EXTENDS Integers, Sequences, FiniteSets, SequencesExt, FiniteSetsExt

CONSTANTS
    Chunks,     \* the token contents a full chunk can have
    MaxDepth,   \* bound: full chunks in the longest prompt
    MaxChunks,  \* PrefixCache::max_chunks
    MaxBytes,   \* PrefixCache::max_memory_bytes
    States,     \* the hybrid KV and SSM snapshots a chunk can carry
    Bytes(_)    \* PrefixChunk::memory_bytes of a chunk carrying a snapshot

ASSUME SizesAssumption ==
    /\ MaxDepth \in Nat \ {0}
    /\ MaxChunks \in Nat \ {0}    \* with_budget replaces a zero by its default
    /\ MaxBytes \in Nat \ {0}     \* likewise

ASSUME BytesAssumption == \A s \in States : Bytes(s) \in Nat \ {0}

VARIABLES
    chunks,     \* PrefixCache::chunks, hash -> entry
    lru,        \* PrefixCache::lru_order, oldest first
    memory      \* PrefixCache::total_memory_bytes

vars == <<chunks, lru, memory>>

----------------------------------------------------------------------------
(* Data.                                                                   *)

\* prev_hash = 0, and also parent_hash = None.
Root == <<>>

Hashes == UNION {[1..n -> Chunks] : n \in 1..MaxDepth}

ChunkHash(prev, c) == Append(prev, c)

\* PrefixChunk: "start" is kv_start, and state.pos is always index + 1.
Entry == [index  : 0..(MaxDepth - 1),
          parent : Hashes \cup {Root},
          start  : 0..(MaxDepth - 1),
          state  : States]

Cached == DOMAIN chunks

Monus(m, n) == IF n >= m THEN 0 ELSE m - n

\* The bytes of the entries "hs", counted one by one: a sum whose additivity
\* is that of Cardinality.
ByteSlots(cs, h) == {h} \X (1..Bytes(cs[h].state))

BytesOf(cs, hs) == Cardinality(UNION {ByteSlots(cs, h) : h \in hs})

Position(order, h) == CHOOSE i \in DOMAIN order : order[i] = h

\* SelectSeq(order, LAMBDA h : h \notin hs), in a form the provers can expand.
Without(order, hs) ==
    LET kept[i \in 0..Len(order)] ==
            IF i = 0 THEN <<>>
            ELSE IF order[i] \in hs THEN kept[i - 1]
            ELSE Append(kept[i - 1], order[i])
    IN  kept[Len(order)]

TouchTwice(order, h) == Append(order, h)

Touch(order, h) ==
    IF Contains(order, h) THEN Append(Without(order, {h}), h) ELSE order

----------------------------------------------------------------------------
(* Eviction.  select_eviction_hash takes, of the entries with the greatest *)
(* chunk index, the one nearest the front of the LRU list, so repeated     *)
(* calls remove the entries in the total order Precedes.  The two eviction *)
(* loops remove the shortest initial part of that order after which both   *)
(* limits hold.                                                            *)

OldestPrecedes(cs, order, a, b) == Position(order, a) < Position(order, b)

ShallowPrecedes(cs, order, a, b) ==
    \/ cs[a].index < cs[b].index
    \/ cs[a].index = cs[b].index /\ Position(order, a) < Position(order, b)

Precedes(cs, order, a, b) ==
    \/ cs[a].index > cs[b].index
    \/ cs[a].index = cs[b].index /\ Position(order, a) < Position(order, b)

EvictedFirst(cs, order, out) ==
    \A e \in out, k \in DOMAIN cs \ out : Precedes(cs, order, e, k)

FitsOneOver(cs, mem, out, len, target) ==
    /\ Cardinality(DOMAIN cs \ out) <= len + 1
    /\ Monus(mem, BytesOf(cs, out)) <= target

Fits(cs, mem, out, len, target) ==
    /\ Cardinality(DOMAIN cs \ out) <= len
    /\ Monus(mem, BytesOf(cs, out)) <= target

\* Both loops, from the given contents: at most "len" entries, then at most
\* "target" bytes.  prune_to_bytes also stops once nothing is left.
EvictTo(cs, order, mem, len, target) ==
    \E out \in SUBSET DOMAIN cs :
        /\ EvictedFirst(cs, order, out)
        /\ Fits(cs, mem, out, len, target) \/ out = DOMAIN cs
        /\ \A less \in (SUBSET out) \ {out} :
               EvictedFirst(cs, order, less) => ~Fits(cs, mem, less, len, target)
        /\ chunks' = [h \in DOMAIN cs \ out |-> cs[h]]
        /\ lru' = Without(order, out)
        /\ memory' = Monus(mem, BytesOf(cs, out))

----------------------------------------------------------------------------
(* Operations.                                                             *)

InsertNode(prev, c, index, state, start, parent) ==
    LET hash == ChunkHash(prev, c)
        node == [index |-> index, parent |-> parent, start |-> start, state |-> state]
    IN
    \/ /\ hash \in Cached
       /\ lru' = Touch(lru, hash)
       /\ UNCHANGED <<chunks, memory>>
    \/ /\ hash \notin Cached
       /\ EvictTo([h \in Cached \cup {hash} |-> IF h = hash THEN node ELSE chunks[h]],
                  Append(lru, hash), memory + Bytes(state), MaxChunks, MaxBytes)

InsertUnderMissingAncestor(prev, c, index, state) ==
    InsertNode(prev, c, index, state, index, prev)

InsertAtEndIndex(prev, c, index, state) ==
    /\ \/ index = 0 /\ prev = Root
       \/ index # 0 /\ prev \in Cached /\ chunks[prev].index = index - 1
    /\ InsertNode(prev, c, index + 1, state, index, prev)

\* insert_delta_chunk: a chunk whose ancestor is not cached is refused (an Err
\* that leaves the cache as it is, so no step).
InsertDeltaChunk(prev, c, index, state) ==
    /\ \/ index = 0 /\ prev = Root
       \/ index # 0 /\ prev \in Cached /\ chunks[prev].index = index - 1
    /\ InsertNode(prev, c, index, state, index, prev)

\* insert_chunk: a full snapshot owns the whole interval from zero and points
\* at no ancestor, whether or not one is cached.
InsertChunk(prev, c, index, state) ==
    InsertNode(prev, c, index, state, 0, Root)

PrefixOf(path, n) == SubSeq(path, 1, n)

\* find_longest_prefix: chunk by chunk up to the first that is not cached.
MatchedChunks(path) ==
    Max({n \in 0..Len(path) : \A i \in 1..n : PrefixOf(path, i) \in Cached})

\* The lookup of restore_longest_prefix; only the deepest match is touched.
RestoreLongestPrefix(path) ==
    /\ MatchedChunks(path) > 0
    /\ lru' = Touch(lru, PrefixOf(path, MatchedChunks(path)))
    /\ UNCHANGED <<chunks, memory>>

\* The walk of restore_longest_prefix from a match back to an entry without a
\* parent: the hashes it asks the map for.
RestoreChain(h) ==
    {PrefixOf(h, n) : n \in {m \in 1..Len(h) : \A i \in (m + 1)..Len(h) :
        /\ PrefixOf(h, i) \in Cached
        /\ chunks[PrefixOf(h, i)].parent = PrefixOf(h, i - 1)}}

PruneToBytes(target) == EvictTo(chunks, lru, memory, Cardinality(Cached), target)

Clear ==
    /\ chunks' = <<>>
    /\ lru' = <<>>
    /\ memory' = 0

----------------------------------------------------------------------------
Init ==
    /\ chunks = <<>>
    /\ lru = <<>>
    /\ memory = 0

\* Every caller numbers a chunk by the number of chunks before it.
Next ==
    \/ \E prev \in Hashes \cup {Root}, c \in Chunks, state \in States :
          /\ Len(prev) < MaxDepth
          /\ \/ InsertDeltaChunk(prev, c, Len(prev), state)
             \/ InsertChunk(prev, c, Len(prev), state)
    \/ \E path \in Hashes : RestoreLongestPrefix(path)
    \/ \E target \in 0..MaxBytes : PruneToBytes(target)
    \/ Clear

Spec == Init /\ [][Next]_vars

----------------------------------------------------------------------------
(* Properties.                                                             *)

\* The shape of the three fields of the cache.
TypeOK ==
    /\ chunks \in [Cached -> Entry]
    /\ Cached \subseteq Hashes
    /\ lru \in Seq(Hashes)
    /\ memory \in Nat

\* No entry outlives the entry its parent_hash names, however insertions,
\* evictions at either limit and prunes interleave: restore_longest_prefix
\* never meets a missing ancestor.
ParentClosed ==
    \A h \in Cached : chunks[h].parent # Root => chunks[h].parent \in Cached

\* The intervals a restore of any entry imports tile [0, pos): each position
\* is written by exactly one entry of the walk, and every entry of the walk is
\* in the map.
RestoreIsWhole ==
    \A h \in Cached :
        /\ RestoreChain(h) \subseteq Cached
        /\ \A pos \in 0..chunks[h].index :
              \E g \in RestoreChain(h) :
                  /\ pos \in chunks[g].start..chunks[g].index
                  /\ \A f \in RestoreChain(h) \ {g} :
                         pos \notin chunks[f].start..chunks[f].index

\* The redundant bookkeeping agrees with the map after every operation: the
\* LRU list names each entry once and nothing else, and the running byte total
\* is the sum over the entries (it is never recomputed).
BookkeepingExact ==
    /\ ToSet(lru) = Cached
    /\ IsInjective(lru)
    /\ memory = BytesOf(chunks, Cached)

\* Both limits hold whenever an operation has returned.
WithinBudget ==
    /\ Cardinality(Cached) <= MaxChunks
    /\ memory <= MaxBytes

\* A step that evicts an entry leaves no deeper one behind: under any pressure
\* the roots that several prompts share outlive the tails.
TailsFirst ==
    [][\A gone \in Cached \ Cached', kept \in Cached' :
            chunks'[kept].index <= chunks[gone].index]_vars

============================================================================
