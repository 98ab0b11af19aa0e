----------------------------- MODULE ExpertHeat -----------------------------
(***************************************************************************)
(* The heat of the experts and the choice of those to pin                  *)
(* (crates/mivi-model/src/expert_cache.rs).  A heat is a whole number: an  *)
(* activation adds Activation to it and a decay halves it.  The experts    *)
(* are in a hash map, whose order is arbitrary and may change with a new   *)
(* key and with a load.                                                    *)
(***************************************************************************)
EXTENDS Integers, Sequences, SequencesExt, FiniteSets, FiniteSetsExt, Functions, Ranking

CONSTANTS
    Experts,        \* [layer, expert]
    Activation,     \* what an activation adds to the heat
    RankLimit,      \* how many of the hottest experts are ranked for a layer (1024)
    MaxHeatSteps    \* bound: operations

VARIABLES
    heat,       \* ema_heat of the experts that were active
    activations,\* total_activations of each of them
    tokensSeen, \* total_inference_tokens
    order,      \* the order of the map
    heatSteps

heatVars == <<heat, activations, tokensSeen, order, heatSteps>>

ASSUME HeatAssumption ==
    /\ IsFiniteSet(Experts)
    /\ Activation \in Nat /\ RankLimit \in Nat

Orders(experts) == SetToSeqs(experts)

HeatStep == heatSteps < MaxHeatSteps /\ heatSteps' = heatSteps + 1

HeatOf(expert) == heat[expert]

----------------------------------------------------------------------------
(* Operations.                                                             *)

\* entry(..).or_insert(0), and what is added to it
Raised(counts, expert, more) ==
    [other \in DOMAIN counts \cup {expert} |->
        (IF other \in DOMAIN counts THEN counts[other] ELSE 0) + (IF other = expert THEN more ELSE 0)]

\* record_activation
RecordActivation(expert) ==
    /\ HeatStep
    /\ heat' = Raised(heat, expert, Activation)
    /\ activations' = Raised(activations, expert, 1)
    /\ tokensSeen' = tokensSeen + 1
    /\ IF expert \in DOMAIN heat THEN UNCHANGED order
       ELSE order' \in Orders(DOMAIN heat \cup {expert})

\* decay_heat
DecayHeat ==
    /\ HeatStep
    /\ heat' = [expert \in DOMAIN heat |-> heat[expert] \div 2]
    /\ UNCHANGED <<activations, tokensSeen, order>>

\* save_to_file, then load_from_file
Reload ==
    /\ HeatStep
    /\ order' \in Orders(DOMAIN heat)
    /\ UNCHANGED <<heat, activations, tokensSeen>>

\* The order of the map is that of the ranking.
HottestExpertsUnsorted(count) == SubSeq(order, 1, Min({count, Len(order)}))

\* get_hottest_experts
HottestExperts(count) == Best(order, [i \in DOMAIN order |-> HeatOf(order[i])], count)

\* should_pin_expert
PinnedGlobally(count) == ToSet(HottestExperts(count))

PinnedInLayer(layer, count) ==
    LET ranked == HottestExperts(RankLimit)
        ofLayer == Retained(ranked, {i \in DOMAIN ranked : ranked[i].layer = layer})
    IN ToSet(SubSeq(ofLayer, 1, Min({count, Len(ofLayer)})))

----------------------------------------------------------------------------
HeatInit ==
    /\ heat = [expert \in {} |-> 0]
    /\ activations = [expert \in {} |-> 0]
    /\ tokensSeen = 0
    /\ order = <<>>
    /\ heatSteps = 0

HeatNext ==
    \/ \E expert \in Experts : RecordActivation(expert)
    \/ DecayHeat
    \/ Reload

HeatSpec == HeatInit /\ [][HeatNext]_heatVars

----------------------------------------------------------------------------
(* Properties.                                                             *)

\* As many of these as are allowed, none of the others hotter.
Hottest(pinned, among, count) ==
    /\ pinned \subseteq among
    /\ Cardinality(pinned) = Min({count, Cardinality(among)})
    /\ \A expert \in pinned, other \in among \ pinned : heat[other] <= heat[expert]

OfLayer(layer) == {expert \in DOMAIN heat : expert.layer = layer}

\* Whatever the order of the map, no expert that is left out is hotter than one that is
\* pinned, of all experts and of every layer, and no more are pinned than are asked for;
\* nor fewer than there are, as long as no more than RankLimit experts were active.
PinsHottest ==
    \A count \in 0..Cardinality(Experts) :
        /\ Hottest(PinnedGlobally(count), DOMAIN heat, count)
        /\ \A layer \in {expert.layer : expert \in Experts} :
              LET pinned == PinnedInLayer(layer, count)
              IN /\ pinned \subseteq OfLayer(layer)
                 /\ Cardinality(pinned) <= count
                 /\ \A expert \in pinned, other \in OfLayer(layer) \ pinned : heat[other] <= heat[expert]
                 /\ Cardinality(DOMAIN heat) <= RankLimit => Hottest(pinned, OfLayer(layer), count)

\* Every token that was counted is one activation of one expert, so no expert's are lost.
TokensAddUp == tokensSeen = FoldFunction(LAMBDA a, b : a + b, 0, activations)

\* Pinned experts are the hottest, and no activation is lost.
HeatRight == PinsHottest /\ TokensAddUp

=============================================================================
