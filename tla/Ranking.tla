------------------------------ MODULE Ranking ------------------------------
(* The rankings of the semantic searches and of the expert heat: sort_by   *)
(* with the greater score first, which keeps the order of equals, and then *)
(* truncate.                                                               *)
EXTENDS Integers, Sequences, FiniteSets

\* The items at the places that have a rank, in the order of their ranks
InOrder(items, rank) ==
    [r \in 1..Cardinality(DOMAIN rank) |-> items[CHOOSE i \in DOMAIN rank : rank[i] = r]]

\* sort_by(|a, b| b.partial_cmp(&a)), of the pairs of an item and its score
Ranked(items, scores) ==
    LET Before(i, j) ==
            \/ scores[i] > scores[j]
            \/ scores[i] = scores[j] /\ i < j
    IN  InOrder(items, [j \in DOMAIN items |->
                           Cardinality({i \in DOMAIN items : Before(i, j)}) + 1])

\* truncate
Best(items, scores, count) ==
    SubSeq(Ranked(items, scores), 1, IF count < Len(items) THEN count ELSE Len(items))

\* retain: the items at these places, which stay in their order
Retained(items, places) ==
    InOrder(items, [j \in places |-> Cardinality({i \in places : i < j}) + 1])

\* What a search should give: as many as there are up to count, none of them
\* below one that was left out.
IsBest(best, items, Score(_), count) ==
    /\ Len(best) = IF count < Len(items) THEN count ELSE Len(items)
    /\ \A i, j \in DOMAIN best : i < j => best[i] # best[j] /\ Score(best[i]) >= Score(best[j])
    /\ \A i \in DOMAIN items : \/ \E j \in DOMAIN best : best[j] = items[i]
                               \/ \A j \in DOMAIN best : Score(best[j]) >= Score(items[i])

=============================================================================
