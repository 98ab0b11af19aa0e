------------------------------ MODULE MCStores ------------------------------
(* The stores that one caller uses at a time: the cells of the KV cache,   *)
(* the context store, the semantic anchors, the index of the memory and    *)
(* the heat of the experts.                                                *)
EXTENDS KvLayout, ContextStore, AnchorCache, MemoryIndex, ExpertHeat

MCCacheLayers == {<<2, 1>>, <<0, 0>>, <<3, 1>>}

MCPrefixes == {<<>>, <<1>>, <<1, 1>>, <<1, 2>>}

MCEmbedding(dimension, direction) ==
    [dimension |-> dimension, norm |-> 1, direction |-> direction]

MCOffers ==
    {[id |-> "a", source |-> "file", content |-> <<1, 2>>, embedding |-> MCEmbedding(2, "near")],
     [id |-> "b", source |-> "a", content |-> <<2, 1, 1>>, embedding |-> MCEmbedding(2, "far")],
     [id |-> "c", source |-> "file", content |-> <<>>, embedding |-> MCEmbedding(3, "near")]}

MCSimilarity == [direction \in {"near", "far"} |-> IF direction = "near" THEN 2 ELSE 1]

MCVectors ==
    {MCEmbedding(2, "near"), MCEmbedding(2, "against"), MCEmbedding(3, "near"),
     [MCEmbedding(2, "near") EXCEPT !.norm = 0]}

MCLikeness == [direction \in {"near", "against"} |-> IF direction = "near" THEN 2 ELSE -1]

MCExperts ==
    {[layer |-> 0, expert |-> 0], [layer |-> 0, expert |-> 1], [layer |-> 1, expert |-> 0]}

\* What is stored is found again, and never something else in its place.
StoresRight ==
    /\ CellsSeparate
    /\ ContextRight
    /\ DeepestIsFound
    /\ SearchesCurrent
    /\ HeatRight

=============================================================================
