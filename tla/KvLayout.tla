------------------------------ MODULE KvLayout ------------------------------
(***************************************************************************)
(* The flat buffers of the KV cache (crates/mivi-kv/src/cache.rs): where   *)
(* the cell of a layer and a position lies at each precision, and how      *)
(* intervals of cells are exported and imported.                           *)
(*                                                                         *)
(* There is one buffer: that of the values has the layout of that of the   *)
(* keys.  A unit of it, an element or a byte, is the value it belongs to   *)
(* and its place in the cell, and a buffer begins at 0 as in the code.     *)
(***************************************************************************)
EXTENDS Integers, Sequences, FiniteSets, FiniteSetsExt

CONSTANTS
    Layers,         \* n_layers
    LayerLists,     \* the attention layers, in the order of the cache
    Positions,      \* max_seq_len
    Dimensions,     \* values of kv_dim
    BlockSize,      \* Q8_0_BLOCK_SIZE
    BlockBytes,     \* Q8_0_BYTES
    NormBytes,      \* the bytes of a norm
    WordBytes,      \* the bytes of an f32
    Values,         \* what may be stored in a cell
    MaxSteps        \* bound: operations

ASSUME LayoutAssumption ==
    /\ {Layers, Positions, BlockSize, BlockBytes, NormBytes, WordBytes} \subseteq Nat \ {0}
    /\ LayerLists \subseteq Seq(Nat) /\ Dimensions \subseteq Nat
    /\ "none" \notin Values

VARIABLES
    format,     \* attention layers, precision and dimension of the cache
    buffer,     \* k_cache or k_q8_cache
    position,   \* current_pos
    exported,   \* what was exported
    cells,      \* what should be in each cell
    steps

layoutVars == <<format, buffer, position, exported, cells, steps>>

Precisions == {"f32", "q8_0", "tq4", "tq2"}

CeilDiv(a, b) == (a + b - 1) \div b

----------------------------------------------------------------------------
(* Offsets.                                                                *)

\* bytes_per_token, in elements at full precision
UnitsOf(precision, dimension) ==
    CASE precision = "f32" -> dimension
      [] precision = "q8_0" -> CeilDiv(dimension, BlockSize) * BlockBytes
      [] precision = "tq4" -> NormBytes + CeilDiv(dimension, 2)
      [] precision = "tq2" -> NormBytes + CeilDiv(dimension, 4)

Units == UnitsOf(format.precision, format.dimension)

\* How long an exported interval is for each token, in units.
ExportUnits == IF format.precision = "f32" THEN Units ELSE CeilDiv(Units, WordBytes) * WordBytes

\* layer_map: the last place of a layer in the list, or none.
LayerMap(layer) ==
    Max({-1} \cup {i - 1 : i \in {j \in DOMAIN format.layers : format.layers[j] = layer}})

Mapped == {layer \in 0..Layers - 1 : LayerMap(layer) >= 0}

\* n_allocated_layers, which is told from the map
AllocatedLayers ==
    Max({Cardinality(Mapped)} \cup {LayerMap(layer) + 1 : layer \in Mapped})

OffsetOfPacked(cacheLayer, at) == cacheLayer * Positions + at * Units

Offset(cacheLayer, at) == (cacheLayer * Positions + at) * Units

Unwritten == [value |-> "none", unit |-> -1]

----------------------------------------------------------------------------
(* Operations.                                                             *)

Bounded == steps < MaxSteps /\ steps' = steps + 1

\* try_new_selective_with_precision
Allocate ==
    /\ format.precision = "none"
    /\ \E layers \in LayerLists, precision \in Precisions, dimension \in Dimensions :
          /\ format' = [layers |-> layers, precision |-> precision, dimension |-> dimension]
          /\ buffer' = [i \in 0..Len(layers) * Positions * UnitsOf(precision, dimension) - 1 |->
                           Unwritten]
    /\ UNCHANGED <<position, exported, cells, steps>>

AfterStore(layer, at, value) ==
    LET start == Offset(LayerMap(layer), at)
    IN [i \in DOMAIN buffer |-> IF i - start \in 0..Units - 1
                                THEN [value |-> value, unit |-> i - start] ELSE buffer[i]]

\* store; a layer without attention or a position past the end is an error.
Store(layer, at, value) ==
    /\ format.precision # "none"
    /\ layer \in Mapped /\ at < Positions
    /\ buffer' = AfterStore(layer, at, value)
    /\ position' = Max({position, at + 1})
    /\ cells' = [cells EXCEPT ![layer][at] = value]
    /\ Bounded
    /\ UNCHANGED <<format, exported>>

InRange(start, tokens) == start <= Positions /\ tokens <= Positions - start

\* The cells of a layer from a position on end within the buffer.
IntervalFits(cacheLayer, at, tokens) ==
    Offset(cacheLayer, at) + tokens * Units <= Cardinality(DOMAIN buffer)

\* export_state_range; the interval of a layer follows that of the layer before.
Exported(start, tokens) ==
    LET span == tokens * Units
    IN [i \in 0..AllocatedLayers * tokens * ExportUnits - 1 |->
           IF i \div span < AllocatedLayers /\ IntervalFits(i \div span, start, tokens)
           THEN buffer[Offset(i \div span, start) + (i % span)] ELSE Unwritten]

ExportStateRange(start, tokens) ==
    /\ format.precision # "none"
    /\ InRange(start, tokens) /\ tokens > 0
    /\ exported' = [data |-> Exported(start, tokens),
                    cells |-> [layer \in 0..Layers - 1 |->
                                  [at \in 0..tokens - 1 |-> cells[layer][start + at]]]]
    /\ Bounded
    /\ UNCHANGED <<format, buffer, position, cells>>

\* The part of each layer that the interval covers is taken from the data.
Imported(target, tokens, data) ==
    LET span == tokens * Units
    IN [i \in DOMAIN buffer |->
           LET cacheLayer == i \div (Positions * Units)
               place == i - Offset(cacheLayer, target)
           IN IF /\ cacheLayer < AllocatedLayers /\ IntervalFits(cacheLayer, target, tokens)
                 /\ place \in 0..span - 1
              THEN data[cacheLayer * span + place] ELSE buffer[i]]

\* import_state_at; data of another length than the interval is refused.
ImportAt(target, tokens) ==
    /\ format.precision # "none"
    /\ InRange(target, tokens)
    /\ Cardinality(DOMAIN exported.data) = AllocatedLayers * tokens * ExportUnits
    /\ buffer' = Imported(target, tokens, exported.data)
    /\ cells' = [layer \in 0..Layers - 1 |-> [at \in 0..Positions - 1 |->
                    IF at >= target /\ at < target + tokens THEN exported.cells[layer][at - target]
                    ELSE cells[layer][at]]]
    /\ Bounded
    /\ UNCHANGED <<format, exported>>

ImportStateAt(target, tokens) == ImportAt(target, tokens) /\ UNCHANGED position

ImportStateRange(start, tokens) == ImportAt(start, tokens) /\ position' = start + tokens

ImportState(tokens) == ImportAt(0, tokens) /\ position' = tokens

\* reset leaves the cells.
Reset ==
    /\ position' = 0
    /\ Bounded
    /\ UNCHANGED <<format, buffer, exported, cells>>

----------------------------------------------------------------------------
LayoutInit ==
    /\ format = [layers |-> <<>>, precision |-> "none", dimension |-> 0]
    /\ buffer = [i \in {} |-> Unwritten]
    /\ position = 0
    /\ exported = [data |-> [i \in {} |-> Unwritten],
                   cells |-> [layer \in 0..Layers - 1 |-> [at \in {} |-> "none"]]]
    /\ cells = [layer \in 0..Layers - 1 |-> [at \in 0..Positions - 1 |-> "none"]]
    /\ steps = 0

LayoutNext ==
    \/ Allocate
    \/ \E layer \in 0..Layers, at \in 0..Positions, value \in Values : Store(layer, at, value)
    \/ \E start, tokens \in 0..Positions :
          \/ ExportStateRange(start, tokens)
          \/ ImportStateAt(start, tokens)
          \/ ImportStateRange(start, tokens)
    \/ \E tokens \in 0..Positions : ImportState(tokens)
    \/ Reset

LayoutSpec == LayoutInit /\ [][LayoutNext]_layoutVars

----------------------------------------------------------------------------
(* Properties.                                                             *)

\* get_k and its variants
Cell(layer, at) == [unit \in 0..Units - 1 |-> buffer[Offset(LayerMap(layer), at) + unit]]

Expected(value) ==
    [unit \in 0..Units - 1 |->
        IF value = "none" THEN Unwritten ELSE [value |-> value, unit |-> unit]]

\* Every cell holds the whole of what was stored in it or imported for it last:
\* no two cells share a unit, at any precision, order of layers or dimension, and
\* an interval arrives where it is imported whatever its start was.
CellsSeparate ==
    format.precision # "none" =>
        \A layer \in Mapped, at \in 0..Positions - 1 : Cell(layer, at) = Expected(cells[layer][at])

=============================================================================
