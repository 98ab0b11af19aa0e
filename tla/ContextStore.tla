---------------------------- MODULE ContextStore ----------------------------
(***************************************************************************)
(* The context store and its operations (crates/mivi-context/src/store.rs  *)
(* and vm.rs).  A content is a sequence of characters, each of them given  *)
(* by its number of bytes; an embedding is its dimension, its norm and its *)
(* direction.                                                              *)
(***************************************************************************)
EXTENDS Integers, Sequences, SequencesExt, FiniteSets, FiniteSetsExt, Ranking

CONSTANTS
    Capacities,     \* values of max_blocks
    Offers,         \* [id, source, content, embedding: [dimension, norm, direction]]
    Names,          \* what may be looked up: ids and sources
    Dimension,      \* that of the quantizer
    Similarity,     \* the cosine of a direction and the query
    MaxBlocksAdded  \* bound: insertions

ASSUME ContextAssumption ==
    /\ Capacities \subseteq Nat
    /\ \A offer \in Offers :
          offer.content \in Seq(Nat) /\ Similarity[offer.embedding.direction] \in Int

VARIABLES
    capacity,       \* max_blocks, or -1 before the store exists
    blocks,         \* the blocks, the oldest first
    added,          \* every block that was offered
    output          \* what the last operation returned

contextVars == <<capacity, blocks, added, output>>

NoOutput == [kind |-> "none"]

\* The oldest block goes, pinned or not.
EvictedOldest(pinned) ==
    IF Len(blocks) < capacity \/ blocks = <<>> THEN blocks ELSE Tail(blocks)

OldestUnpinned == SelectInSeq(blocks, LAMBDA block : ~block.pinned)

\* The oldest unpinned block goes; if there is none, the oldest one for a pinned block.
Evicted(pinned) ==
    IF Len(blocks) < capacity THEN blocks
    ELSE IF OldestUnpinned # 0 THEN RemoveAt(blocks, OldestUnpinned)
    ELSE IF blocks = <<>> THEN blocks ELSE Tail(blocks)

Rejected(pinned) ==
    ~pinned /\ Len(blocks) >= capacity /\ \A i \in DOMAIN blocks : blocks[i].pinned

\* An embedding of another dimension is left out.
Quantized(embedding) ==
    IF embedding.dimension = Dimension THEN embedding
    ELSE [dimension |-> 0, norm |-> 0, direction |-> embedding.direction]

BlockOf(offer, pinned, serial) ==
    [id |-> offer.id, source |-> offer.source, content |-> offer.content,
     embedding |-> Quantized(offer.embedding), pinned |-> pinned, serial |-> serial]

----------------------------------------------------------------------------
(* Operations.                                                             *)

\* with_capacity
Create ==
    /\ capacity = -1
    /\ capacity' \in Capacities
    /\ UNCHANGED <<blocks, added, output>>

\* add_block_with_embedding
AddBlock(offer, pinned) ==
    /\ capacity >= 0 /\ Len(added) < MaxBlocksAdded
    /\ LET block == BlockOf(offer, pinned, Len(added))
       IN /\ blocks' = IF Rejected(pinned) THEN blocks ELSE Append(Evicted(pinned), block)
          /\ added' = Append(added, block)
    /\ output' = NoOutput
    /\ UNCHANGED capacity

\* An operation that reads; one after each insertion is enough.
Answered(answer) ==
    /\ capacity >= 0 /\ output = NoOutput
    /\ output' = answer
    /\ UNCHANGED <<capacity, blocks, added>>

\* find_block: the oldest one that has the name as its source or its id
FoundAt(name) == SelectInSeq(blocks, LAMBDA block : block.source = name \/ block.id = name)

WidthOf(content, characters) ==
    FoldLeft(LAMBDA sum, width : sum + width, 0, SubSeq(content, 1, characters))

\* op_slice: the bounds count characters, the slice is cut in bytes.
Slice(name, start, end) ==
    LET content == blocks[FoundAt(name)].content
        At(index) == WidthOf(content, IF index < Len(content) THEN index ELSE Len(content))
    IN Answered(
        IF FoundAt(name) = 0 THEN [kind |-> "not found"]
        ELSE IF start >= Len(content)
             THEN [kind |-> "out of bounds", content |-> content, start |-> start]
        ELSE [kind |-> "slice", content |-> content, start |-> start, end |-> end,
              bytes |-> <<At(start), IF end <= start THEN At(start) ELSE At(end)>>])

\* search_semantic
Cosine(block) == Similarity[block.embedding.direction]

Embedded ==
    Retained(blocks, {i \in DOMAIN blocks : /\ blocks[i].embedding.dimension > 0
                                            /\ blocks[i].embedding.norm > 0})

SearchSemantic(dimension, count) ==
    Answered([kind |-> "search", dimension |-> dimension, count |-> count,
              found |-> IF dimension # Dimension THEN <<>>
                        ELSE Best(Embedded, [i \in DOMAIN Embedded |-> Cosine(Embedded[i])], count)])

----------------------------------------------------------------------------
ContextInit ==
    /\ capacity = -1
    /\ blocks = <<>>
    /\ added = <<>>
    /\ output = NoOutput

ContextNext ==
    \/ Create
    \/ \E offer \in Offers, pinned \in BOOLEAN : AddBlock(offer, pinned)
    \/ \E name \in Names, start, end \in 0..3 : Slice(name, start, end)
    \/ \E dimension \in {Dimension, Dimension + 1}, count \in 0..2 :
          SearchSemantic(dimension, count)

ContextSpec == ContextInit /\ [][ContextNext]_contextVars

----------------------------------------------------------------------------
(* Properties.                                                             *)

\* Whatever the order of the insertions, the store holds the latest pinned blocks
\* that fit and, in the room they leave, the latest of the others, in the order they
\* came: one that is not there had to leave a full store to later ones or to pinned
\* ones, and a pinned one to later pinned ones.  A store of no capacity holds the
\* latest pinned block all the same.
HoldsLatest ==
    capacity >= 0 =>
        /\ Len(blocks) <= capacity \/ (Len(blocks) = 1 /\ blocks[1].pinned)
        /\ ToSet(blocks) \subseteq ToSet(added)
        /\ \A i, j \in DOMAIN blocks : i < j => blocks[i].serial < blocks[j].serial
        /\ \A gone \in ToSet(added) \ ToSet(blocks) :
              /\ Len(blocks) >= capacity
              /\ \A block \in ToSet(blocks) :
                    block.serial > gone.serial \/ (block.pinned /\ ~gone.pinned)
              /\ gone.pinned => blocks # <<>> /\ \A block \in ToSet(blocks) : block.pinned

\* A slice is whole characters, from start to end or to the end of the content.
SlicesCharacters ==
    output.kind = "slice" =>
        \E first, last \in 0..Len(output.content) :
            /\ output.bytes = <<WidthOf(output.content, first), WidthOf(output.content, last)>>
            /\ first = output.start
            /\ last = Max({first, Min({output.end, Len(output.content)})})

\* A search gives the most similar of the blocks that can be compared, as many as were
\* asked for and are there; a query of another dimension gives none.
FindsMostSimilar ==
    output.kind = "search" =>
        IF output.dimension = Dimension THEN IsBest(output.found, Embedded, Cosine, output.count)
        ELSE output.found = <<>>

\* The three properties of the context store
ContextRight == HoldsLatest /\ SlicesCharacters /\ FindsMostSimilar

=============================================================================
