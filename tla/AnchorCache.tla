---------------------------- MODULE AnchorCache ----------------------------
(* The cache of states at semantic anchors (crates/mivi-kv/src/semantic.rs). *)
(* A state is the number of the call that stored it.                         *)
EXTENDS Integers, Sequences, SequencesExt, FiniteSets, FiniteSetsExt

CONSTANTS
    Budgets,        \* values of max_anchors that are asked for
    MinAnchors,     \* the least budget (4)
    AnchorPrefixes, \* sequences of tokens, to insert and to search for
    OddPos,         \* a position that may be given for a prefix of another length
    MaxInserts      \* bound: insertions

ASSUME AnchorAssumption ==
    /\ Budgets \cup {OddPos, MaxInserts} \subseteq Nat
    /\ MinAnchors \in Nat \ {0}
    /\ AnchorPrefixes \subseteq Seq(Nat)

VARIABLES
    budget,     \* max_anchors, or 0 before the cache exists
    anchors,    \* the anchors, the oldest position first
    inserts,    \* the anchors that were inserted since the last clear
    deepest     \* what the last search was for and what it found

anchorVars == <<budget, anchors, inserts, deepest>>

Unasked == [tokens |-> <<>>, found |-> FALSE, anchor |-> <<>>]

\* new
CreateAnchors ==
    /\ budget = 0
    /\ \E asked \in Budgets : budget' = Max({asked, MinAnchors})
    /\ UNCHANGED <<anchors, inserts, deepest>>

At(pos) == SelectInSeq(anchors, LAMBDA anchor : anchor.pos = pos)

\* The tokens of an anchor at the same position stay those of the old state.
ReplacedState(anchor) ==
    IF At(anchor.pos) # 0 THEN [anchors EXCEPT ![At(anchor.pos)].state = anchor.state]
    ELSE Append(IF Len(anchors) >= budget THEN Tail(anchors) ELSE anchors, anchor)

Replaced(anchor) ==
    IF At(anchor.pos) # 0 THEN [anchors EXCEPT ![At(anchor.pos)] = anchor]
    ELSE Append(IF Len(anchors) >= budget THEN Tail(anchors) ELSE anchors, anchor)

\* insert_anchor; nothing ties the position to the length of the prefix.
InsertAnchor(pos, prefix) ==
    /\ budget > 0 /\ Len(inserts) < MaxInserts
    /\ LET anchor == [pos |-> pos, prefix |-> prefix, state |-> Len(inserts)]
       IN /\ anchors' = Replaced(anchor)
          /\ inserts' = Append(inserts, anchor)
    /\ deepest' = Unasked
    /\ UNCHANGED budget

Matching(tokens) ==
    {anchor \in ToSet(anchors) :
        anchor.pos <= Len(tokens) /\ SubSeq(tokens, 1, anchor.pos) = anchor.prefix}

\* find_deepest_anchor
FindDeepestAnchor(tokens) ==
    /\ budget > 0 /\ deepest = Unasked
    /\ deepest' = IF Matching(tokens) = {} THEN [Unasked EXCEPT !.tokens = tokens]
                  ELSE [tokens |-> tokens, found |-> TRUE,
                        anchor |-> CHOOSE best \in Matching(tokens) :
                                      \A other \in Matching(tokens) : other.pos <= best.pos]
    /\ UNCHANGED <<budget, anchors, inserts>>

\* clear
ClearAnchors ==
    /\ anchors # <<>>
    /\ anchors' = <<>> /\ inserts' = <<>> /\ deepest' = Unasked
    /\ UNCHANGED budget

----------------------------------------------------------------------------
AnchorInit ==
    /\ budget = 0
    /\ anchors = <<>>
    /\ inserts = <<>>
    /\ deepest = Unasked

AnchorNext ==
    \/ CreateAnchors
    \/ \E prefix \in AnchorPrefixes : \E pos \in {Len(prefix), OddPos} : InsertAnchor(pos, prefix)
    \/ \E tokens \in AnchorPrefixes : FindDeepestAnchor(tokens)
    \/ ClearAnchors

AnchorSpec == AnchorInit /\ [][AnchorNext]_anchorVars

----------------------------------------------------------------------------
(* Properties.                                                             *)

\* The insertions that a search for these tokens could be answered with.
Usable(tokens) ==
    {i \in DOMAIN inserts : /\ inserts[i].pos = Len(inserts[i].prefix)
                            /\ IsPrefix(inserts[i].prefix, tokens)}

Overwritten(i) == \E j \in DOMAIN inserts : j > i /\ inserts[j].pos = inserts[i].pos

\* A search never finds a state of other tokens, nor one that a later insertion at
\* its position replaced; and it finds nothing shallower than an insertion it could
\* be answered with, unless that one was replaced or as many other positions as the
\* budget has room for were inserted beside it.
DeepestIsFound ==
    deepest # Unasked =>
        /\ deepest.found =>
              \E i \in Usable(deepest.tokens) : inserts[i] = deepest.anchor /\ ~Overwritten(i)
        /\ \A i \in Usable(deepest.tokens) :
              \/ deepest.found /\ deepest.anchor.pos >= inserts[i].pos
              \/ Overwritten(i)
              \/ Cardinality({inserts[j].pos : j \in DOMAIN inserts} \ {inserts[i].pos}) >= budget

=============================================================================
