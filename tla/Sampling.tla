------------------------------ MODULE Sampling ------------------------------
(***************************************************************************)
(* How a token is chosen: the mask of a grammar, penalties, min-p, top-k   *)
(* and top-p (crates/mivi-model/src/grammar.rs, sampler.rs), and the       *)
(* drafts of prompt lookup (pld.rs).                                       *)
(*                                                                         *)
(* A logit is a small natural number, 0 for minus infinity.  Sampling sees *)
(* it as a weight: temperature and softmax keep the order and are left     *)
(* out.  Shares of a whole are in percent.                                 *)
(***************************************************************************)
EXTENDS Naturals, Sequences, SequencesExt, FiniteSetsExt

CONSTANTS
    LogitLists,     \* bound: the logits of a vocabulary, as sequences
    Penalised,      \* bound: the tokens seen recently
    Masks,          \* bound: the tokens a grammar allows
    WordBits,       \* 64 bits of a word of TokenBitMask
    MaskWords,      \* BITMASK_WORDS
    Limits,         \* bound: top_k, min_p and top_p together
    Histories,      \* bound: the tokens so far, as sequences
    Grams,          \* bound: ngram_size
    Drafts,         \* bound: the draft size
    TreeDepth       \* MAX_TREE_DEPTH

ASSUME SamplingAssumption ==
    /\ WordBits \in Nat \ {0}
    /\ MaskWords \in Nat \ {0}
    /\ Grams \subseteq Nat \ {0}
    /\ Drafts \subseteq 1..TreeDepth

VARIABLES
    choice,     \* the last token chosen, and from what
    draft       \* the last draft proposed, and from what

samplingVars == <<choice, draft>>

----------------------------------------------------------------------------
(* TokenBitMask.  Token ids begin with 0, logits with 1.                   *)

Bits == 0..(WordBits - 1)

MaskWord(allowed, w) == {bit \in Bits : w * WordBits + bit \in allowed}

IsAllowed(allowed, id) ==
    id < MaskWords * WordBits /\ id % WordBits \in MaskWord(allowed, id \div WordBits)

\* Passing by the words that allow nothing.
MaskAppliedToUsedWords(logits, allowed) ==
    LET hidden == {w * WordBits + bit : <<w, bit>> \in
                      {place \in (0..(MaskWords - 1)) \X Bits :
                          /\ MaskWord(allowed, place[1]) # {}
                          /\ place[2] \notin MaskWord(allowed, place[1])}}
    IN  [i \in DOMAIN logits |-> IF i - 1 \in hidden THEN 0 ELSE logits[i]]

\* apply_to_logits goes from word to word and lets a full word pass.
MaskApplied(logits, allowed) ==
    LET hidden == {w * WordBits + bit : <<w, bit>> \in
                      {place \in (0..(MaskWords - 1)) \X Bits :
                          place[2] \notin MaskWord(allowed, place[1])}}
    IN  [i \in DOMAIN logits |-> IF i - 1 \in hidden THEN 0 ELSE logits[i]]

----------------------------------------------------------------------------
(* Sampler.                                                                *)

Heaviest(logits) == Max({0} \cup ToSet(logits))

Total(logits) == FoldLeft(LAMBDA sum, l : sum + l, 0, logits)

\* argmax: the first of the greatest, or the first of all.
FirstGreatest(logits) ==
    LET i == SelectInSeq(logits, LAMBDA l : l > 0 /\ l = Heaviest(logits))
    IN  IF i = 0 THEN 1 ELSE i

\* A penalty lowers a logit and leaves minus infinity.
Punished(logits, recent) ==
    [i \in DOMAIN logits |->
        IF i \in recent /\ logits[i] > 1 THEN logits[i] - 1 ELSE logits[i]]

MinP(logits, percent) ==
    [i \in DOMAIN logits |->
        IF logits[i] * 100 < percent * Heaviest(logits) THEN 0 ELSE logits[i]]

\* Tokens as heavy as the last of the k greatest stay.
TopK(logits, k) ==
    IF k >= Len(logits) THEN logits
    ELSE LET cutoff == SortSeq(logits, LAMBDA x, y : x > y)[k]
         IN  [i \in DOMAIN logits |-> IF logits[i] < cutoff THEN 0 ELSE logits[i]]

\* The orders in which sort_unstable_by may leave tokens.
Sorted(set, logits) ==
    {order \in [1..Cardinality(set) -> set] :
        /\ \A i, j \in DOMAIN order : i < j => order[i] # order[j]
        /\ \A i, j \in DOMAIN order : i < j => logits[order[i]] >= logits[order[j]]}

\* Every token above the cutoff is a candidate; the nucleus is the shortest
\* beginning of the order that weighs enough.  With a tiny share no token may be
\* above the cutoff.
Nucleus(logits, percent) ==
    LET n == Len(logits)
        kept == {i \in DOMAIN logits :
                    /\ logits[i] > 0
                    /\ logits[i] * (n - 1) * 100 >= (100 - percent) * Total(logits)}
        Mass(order, m) == Total([i \in 1..m |-> logits[order[i]]])
        enough(order) == {m \in DOMAIN order : Mass(order, m) * 100 >= percent * Total(logits)}
        size(order) == Min(enough(order) \cup {Len(order)})
    IN  IF kept = {} THEN {{FirstGreatest(logits)}}
        ELSE {{order[i] : i \in 1..size(order)} : order \in Sorted(kept, logits)}

\* The tokens a random number may choose.  If all are at minus infinity softmax
\* makes them equal.  Without top-p a number of exactly 0 chooses the first and a
\* sum that was rounded down the last, whatever they weigh.
Chosen(logits, percent) ==
    CASE Heaviest(logits) = 0 -> DOMAIN logits
      [] Heaviest(logits) > 0 /\ percent < 100 -> UNION Nucleus(logits, percent)
      [] OTHER -> {i \in DOMAIN logits : logits[i] > 0} \cup {1, Len(logits)}

Filtered(logits, limits) == TopK(MinP(logits, limits.minP), limits.topK)

Sample(logits, allowed, recent, limits) ==
    LET punished == Punished(MaskApplied(logits, allowed), recent)
    IN  \E token \in IF limits.greedy THEN {FirstGreatest(punished)}
                     ELSE Chosen(Filtered(punished, limits), limits.topP) :
          /\ choice' = [token |-> token, logits |-> logits, allowed |-> allowed,
                        recent |-> recent, limits |-> limits]
          /\ UNCHANGED draft

----------------------------------------------------------------------------
(* TreePldProposer.                                                        *)

\* What follows an earlier occurrence of the last n tokens, up to these.
Continuation(tokens, n, i, depth) ==
    LET query == Len(tokens) - n
    IN  SubSeq(tokens, i + n + 1, Min({i + n + depth, query}))

\* The number of tokens before each occurrence that something follows.
Occurrences(tokens, n) ==
    LET query == Len(tokens) - n
    IN  {i \in 0..(query - n - 1) :
            SubSeq(tokens, i + 1, i + n) = SubSeq(tokens, query + 1, Len(tokens))}

\* The latest continuation and, in a tree, the latest that is another.
ProposeTree(tokens, n, depth, tree) ==
    LET Follows(i) == Continuation(tokens, n, i, depth)
        found == IF Len(tokens) < 2 * n + 1 THEN {} ELSE Occurrences(tokens, n)
        primary == IF found = {} THEN <<>> ELSE Follows(Max(found))
        others == {i \in found : tree /\ Follows(i) # primary}
    IN  [primary |-> primary,
         secondary |-> IF others = {} THEN <<>>
                       ELSE SubSeq(Follows(Max(others)), 1, TreeDepth - 1)]

\* verify_branch
Accepted(branch, verified) ==
    Max({n \in 0..Min({Len(branch), Len(verified)}) : SubSeq(branch, 1, n) = SubSeq(verified, 1, n)})

Propose(tokens, n, depth, tree) ==
    /\ draft' = [tokens |-> tokens, n |-> n, depth |-> depth,
                 tree |-> ProposeTree(tokens, n, depth, tree)]
    /\ UNCHANGED choice

----------------------------------------------------------------------------
Nothing == [logits |-> <<>>, tokens |-> <<>>]

SamplingInit == choice = Nothing /\ draft = Nothing

\* Pure functions: one call is explored from the beginning.
SamplingNext ==
    /\ choice = Nothing /\ draft = Nothing
    /\ \/ \E logits \in LogitLists, allowed \in Masks, recent \in Penalised, limits \in Limits :
              Sample(logits, allowed, recent, limits)
       \/ \E tokens \in Histories, n \in Grams, depth \in Drafts, tree \in BOOLEAN :
              Propose(tokens, n, depth, tree)

----------------------------------------------------------------------------
(* Properties.                                                             *)

Weights == Filtered(Punished(MaskApplied(choice.logits, choice.allowed), choice.recent), choice.limits)

\* Masks end with the last word: a token after it cannot be hidden.
BeyondMask == choice.token > MaskWords * WordBits

\* Sampling from all tokens, the ends of the vocabulary may be hit by chance.
AtAnEnd ==
    ~choice.limits.greedy /\ choice.limits.topP = 100 /\ choice.token \in {1, Len(choice.logits)}

\* A token that a grammar forbids is chosen only if it allows none, if the token
\* lies beyond the mask or at an end of the vocabulary.
MaskHolds ==
    \/ IsAllowed(choice.allowed, choice.token - 1)
    \/ BeyondMask
    \/ AtAnEnd
    \/ Heaviest(MaskApplied(choice.logits, choice.allowed)) = 0

\* The same for the limits of a request: fewer than top_k tokens are heavier, and
\* those weigh less than top_p of the whole.  Nothing is lost by the shortcuts of
\* the code: the tokens that may be chosen weigh top_p.
LimitsHold ==
    LET w == Weights
        heavier == {i \in DOMAIN w : w[i] > w[choice.token]}
        Mass(set) == Total([i \in DOMAIN w |-> IF i \in set THEN w[i] ELSE 0])
    IN  ~choice.limits.greedy /\ ~AtAnEnd /\ Heaviest(w) > 0 =>
            /\ Cardinality(heavier) < choice.limits.topK
            /\ w[choice.token] > 0
            /\ choice.limits.topP < 100 => Mass(heavier) * 100 < choice.limits.topP * Total(w)
            /\ Mass(Chosen(w, choice.limits.topP)) * 100 >= choice.limits.topP * Total(w)

GreedyRight ==
    choice.limits.greedy =>
        LET w == Punished(MaskApplied(choice.logits, choice.allowed), choice.recent)
        IN  \A i \in DOMAIN w : w[i] < w[choice.token] \/ (w[i] = w[choice.token] /\ i >= choice.token)

\* A draft quotes: the last tokens and the draft stand somewhere before these
\* tokens.  Without a draft there is nothing to quote.
DraftQuotes ==
    LET before == SubSeq(draft.tokens, 1, Len(draft.tokens) - draft.n)
        query == SubSeq(draft.tokens, Len(before) + 1, Len(draft.tokens))
        Quoted(s) == \E i \in 0..(Len(before) - Len(s)) : SubSeq(before, i + 1, i + Len(s)) = s
    IN  /\ \A branch \in {draft.tree.primary, draft.tree.secondary} \ {<<>>} : Quoted(query \o branch)
        /\ draft.tree.primary = <<>> => \A t \in ToSet(before) : ~Quoted(Append(query, t))
        /\ draft.tree.primary # <<>> /\ draft.depth < TreeDepth =>
              Accepted(draft.tree.primary, draft.tree.secondary) < draft.depth

\* Masks, limits and drafts do what they promise.
SamplingRight ==
    /\ choice # Nothing => MaskHolds /\ LimitsHold /\ GreedyRight
    /\ draft # Nothing => DraftQuotes

SamplingSpec == SamplingInit /\ [][SamplingNext]_samplingVars

============================================================================
