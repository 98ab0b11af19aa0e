----------------------------- MODULE Tokenizer -----------------------------
(***************************************************************************)
(* The byte-pair tokenizer (crates/mivi-tokenizer/src/bpe.rs and turbo.rs). *)
(* A text is a sequence of characters.  A vocabulary entry is a sequence   *)
(* of characters too, in which a byte is written as its symbol; the entry  *)
(* <<"byte", b>> is the fallback token of the byte b.  A token is given by *)
(* its entry.                                                              *)
(***************************************************************************)
EXTENDS Integers, Sequences, SequencesExt, FiniteSets, FiniteSetsExt, Functions

CONSTANTS
    Texts,          \* texts to encode
    Class,          \* the class of each character
    Utf8,           \* the bytes of each character
    Symbol,         \* bytes_to_unicode: the character each byte is written as
    SpecialTexts,   \* characters that stand for a text like a special token
    Vocabulary,     \* the entries
    MergeRanks,     \* pairs of strings, the lowest rank first
    MaxPiece,       \* MAX_PIECE_BYTES
    MaxMemo,        \* MAX_MEMO_TOKENS
    WordSlot,       \* the slot of the memo cache for a word of each length
    MaxEncodes      \* bound: encodings

VARIABLES
    memo,       \* WordMemoCache: slot -> word, by its hash, and tokens
    encoded,    \* the last text and its tokens
    encodes

tokenizerVars == <<memo, encoded, encodes>>

Unknown == <<"unk">>

\* Every byte has a symbol of its own.
ByteOf(character) == CHOOSE byte \in DOMAIN Symbol : Symbol[byte] = character
IsSymbol(character) == \E byte \in DOMAIN Symbol : Symbol[byte] = character

BytesOfText(text) == FlattenSeq([i \in DOMAIN text |-> Utf8[text[i]]])

InVocabulary(token) == IF token \in Vocabulary THEN token ELSE Unknown

----------------------------------------------------------------------------
(* Pieces: PRE_TOKENIZE_REGEX.  A contraction is a word here.             *)

\* The last place of the run of characters of these classes that starts at i.
RunEnd(text, i, classes) ==
    Max({i - 1} \cup {j \in i..Len(text) : \A k \in i..j : Class[text[k]] \in classes})

Blank == {"space", "newline"}

\* Where each alternative of the expression ends if it is tried at i, in its order.
Alternatives(text, i) ==
    LET At(j, classes) == j <= Len(text) /\ Class[text[j]] \in classes
        skip == IF At(i, {"space", "mark"}) THEN i + 1 ELSE i
        word == IF At(i, {"space", "mark"}) /\ RunEnd(text, i + 1, {"letter"}) > i
                THEN RunEnd(text, skip, {"letter"}) ELSE RunEnd(text, i, {"letter"})
        begin == IF At(i, {"space"}) THEN i + 1 ELSE i
        marks == RunEnd(text, begin, {"mark"})
        blanks == RunEnd(text, i, Blank)
    IN <<word,
         Min({RunEnd(text, i, {"digit"}), i + 2}),
         IF marks >= begin THEN RunEnd(text, marks + 1, {"newline"}) ELSE i - 1,
         Max({i - 1} \cup {j \in i..blanks : Class[text[j]] = "newline"}),
         blanks>>

PieceEnd(text, i) ==
    LET ends == Alternatives(text, i)
        hit == SelectInSeq(ends, LAMBDA end : end >= i)
    IN IF hit = 0 THEN i - 1 ELSE ends[hit]

\* find_iter: a character that no alternative takes is passed over.
Pieces(text) ==
    FoldLeft(LAMBDA found, i :
                 IF i < found.next THEN found
                 ELSE IF PieceEnd(text, i) < i THEN found
                 ELSE [next |-> PieceEnd(text, i) + 1,
                       pieces |-> Append(found.pieces, SubSeq(text, i, PieceEnd(text, i)))],
             [next |-> 1, pieces |-> <<>>], [i \in DOMAIN text |-> i]).pieces

----------------------------------------------------------------------------
(* The merge loop.                                                         *)

Rank(left, right) ==
    IF \E i \in DOMAIN MergeRanks : MergeRanks[i] = <<left, right>>
    THEN CHOOSE i \in DOMAIN MergeRanks : MergeRanks[i] = <<left, right>>
    ELSE Len(MergeRanks) + 1

\* The first of the pairs of the lowest rank is joined, if any pair has a rank.
MergedOnce(symbols) ==
    LET Ranks == [i \in 1..Len(symbols) - 1 |-> Rank(symbols[i], symbols[i + 1])]
        lowest == Min({Len(MergeRanks) + 1} \cup {Ranks[i] : i \in DOMAIN Ranks})
        at == Min({i \in DOMAIN Ranks : Ranks[i] = lowest})
    IN IF lowest > Len(MergeRanks) THEN symbols
       ELSE SubSeq(symbols, 1, at - 1) \o <<symbols[at] \o symbols[at + 1]>>
            \o SubSeq(symbols, at + 2, Len(symbols))

Merged(symbols) == FoldLeft(LAMBDA merged, i : MergedOnce(merged), symbols, symbols)

\* A symbol without an entry falls back to its bytes.
Fallback(symbol) ==
    IF symbol \in Vocabulary THEN <<symbol>>
    ELSE [i \in DOMAIN symbol |-> InVocabulary(<<"byte", ByteOf(symbol[i])>>)]

\* bpe_encode_piece
EncodedPiece(piece) ==
    LET bytes == BytesOfText(piece)
        symbols == [i \in DOMAIN bytes |-> <<Symbol[bytes[i]]>>]
        merged == Merged(symbols)
    IN IF piece \in Vocabulary THEN <<piece>>
       ELSE IF Len(symbols) = 1 THEN <<InVocabulary(symbols[1])>>
       ELSE FlattenSeq([i \in DOMAIN merged |-> Fallback(merged[i])])

----------------------------------------------------------------------------
(* The merger on a linked array (turbo.rs).                                *)

\* A node is the first character of its part of the piece, how many characters it
\* has, and the next node.
Nodes(piece) ==
    LET count == Min({Len(piece), MaxPiece})
    IN [i \in 1..count |-> [first |-> i, length |-> 1, next |-> IF i < count THEN i + 1 ELSE 0]]

Part(piece, node) == SubSeq(piece, node.first, node.first + node.length - 1)

\* The nodes in their order, from the head on.
Linked(nodes) ==
    FoldLeft(LAMBDA passed, i : IF nodes[Last(passed)].next = 0 THEN passed
                                ELSE Append(passed, nodes[Last(passed)].next),
             <<1>>, nodes)

Joined(piece, nodes) ==
    LET pairs == {i \in ToSet(Linked(nodes)) : nodes[i].next # 0}
        RankAt(i) == Rank(Part(piece, nodes[i]), Part(piece, nodes[nodes[i].next]))
        lowest == Min({Len(MergeRanks) + 1} \cup {RankAt(i) : i \in pairs})
        left == Min({i \in pairs : RankAt(i) = lowest})
        right == nodes[left].next
    IN IF lowest > Len(MergeRanks) THEN nodes
       ELSE [nodes EXCEPT ![left].length = @ + nodes[right].length,
                          ![left].next = nodes[right].next]

BytesFallback(part) ==
    IF part \in Vocabulary THEN <<part>>
    ELSE LET bytes == BytesOfText(part)
         IN [i \in DOMAIN bytes |-> InVocabulary(<<"byte", bytes[i]>>)]

\* encode_piece_zero_alloc; what is past MaxPiece characters is lost.
EncodedZeroAlloc(piece) ==
    LET nodes == FoldLeft(LAMBDA linked, i : Joined(piece, linked), Nodes(piece), piece)
        parts == Linked(nodes)
    IN IF piece \in Vocabulary THEN <<piece>>
       ELSE IF Len(piece) = 1 THEN BytesFallback(piece)
       ELSE FlattenSeq([i \in DOMAIN parts |-> BytesFallback(Part(piece, nodes[parts[i]]))])

----------------------------------------------------------------------------
(* Encoding a text.                                                        *)

\* A word is found wherever its slot is taken.
RememberedBySlot(state, piece) ==
    IF WordSlot[Len(piece)] \in DOMAIN state.memo
    THEN [state EXCEPT !.tokens = @ \o state.memo[WordSlot[Len(piece)]].tokens]
    ELSE LET tokens == EncodedPiece(piece)
         IN [memo |-> IF tokens = <<>> \/ Len(tokens) > MaxMemo THEN state.memo
                      ELSE (WordSlot[Len(piece)] :> [word |-> piece, tokens |-> tokens])
                           @@ state.memo,
             tokens |-> state.tokens \o tokens]

\* lookup and insert: a slot holds the word that came last and not too many tokens.
Remembered(state, piece) ==
    IF WordSlot[Len(piece)] \in DOMAIN state.memo /\ state.memo[WordSlot[Len(piece)]].word = piece
    THEN [state EXCEPT !.tokens = @ \o state.memo[WordSlot[Len(piece)]].tokens]
    ELSE LET tokens == EncodedPiece(piece)
         IN [memo |-> IF tokens = <<>> \/ Len(tokens) > MaxMemo THEN state.memo
                      ELSE (WordSlot[Len(piece)] :> [word |-> piece, tokens |-> tokens])
                           @@ state.memo,
             tokens |-> state.tokens \o tokens]

\* encode_regular_text
EncodeRegular(state, text) == FoldLeft(Remembered, state, Pieces(text))

Special(character) == character \in SpecialTexts /\ <<character>> \in Vocabulary

\* encode; a special token that is not in the vocabulary is text like any other.
Encode(text) ==
    /\ encodes < MaxEncodes /\ encodes' = encodes + 1
    /\ LET specials == SelectSeq([i \in DOMAIN text |-> i], LAMBDA i : Special(text[i]))
           cuts == <<0>> \o specials \o <<Len(text) + 1>>
           done == FoldLeft(
               LAMBDA state, c :
                   LET regular == EncodeRegular(state, SubSeq(text, cuts[c] + 1, cuts[c + 1] - 1))
                   IN IF cuts[c + 1] > Len(text) THEN regular
                      ELSE [regular EXCEPT !.tokens = Append(@, <<text[cuts[c + 1]]>>)],
               [memo |-> memo, tokens |-> <<>>], [c \in 1..Len(cuts) - 1 |-> c])
       IN /\ memo' = done.memo
          /\ encoded' = [text |-> text, tokens |-> done.tokens]

\* decode_token_bytes
DecodedBytes(token) ==
    IF token[1] = "byte" THEN <<token[2]>>
    ELSE IF token = Unknown THEN Unknown
    ELSE IF token[1] \in SpecialTexts THEN BytesOfText(token)
    ELSE FlattenSeq([i \in DOMAIN token |->
            IF IsSymbol(token[i]) THEN <<ByteOf(token[i])>> ELSE Utf8[token[i]]])

----------------------------------------------------------------------------
TokenizerInit ==
    /\ memo = [slot \in {} |-> <<>>]
    /\ encoded = [text |-> <<>>, tokens |-> <<>>]
    /\ encodes = 0

TokenizerNext == \E text \in Texts : Encode(text)

----------------------------------------------------------------------------
(* Properties.                                                             *)

\* A piece that is spelled like an entry of the vocabulary which stands for other bytes.
Misread(piece) == piece \in Vocabulary /\ DecodedBytes(piece) # BytesOfText(piece)

\* The tokens of a text are those of its pieces whatever was encoded before, and
\* decoding them gives its bytes again, unless one of them is unknown or a piece is
\* spelled like an entry that stands for other bytes.  Nothing is left out between
\* two pieces.
RoundTrip ==
    LET text == encoded.text
    IN \/ Unknown \in ToSet(encoded.tokens)
       \/ \E i, j \in DOMAIN text : i <= j /\ Misread(SubSeq(text, i, j))
       \/ FlattenSeq([i \in DOMAIN encoded.tokens |-> DecodedBytes(encoded.tokens[i])])
            = BytesOfText(text)

MemoFresh == \A slot \in DOMAIN memo : memo[slot].tokens = EncodedPiece(memo[slot].word)

\* The merger on the linked array finds the tokens of the merge loop, for every piece
\* of at least two characters and at most MaxPiece that are their own symbols.
MergersAgree ==
    LET piece == encoded.text
    IN /\ Len(piece) \in 2..MaxPiece
       /\ \A i \in DOMAIN piece : Utf8[piece[i]] = <<piece[i]>> /\ Symbol[piece[i]] = piece[i]
       => EncodedZeroAlloc(piece) = EncodedPiece(piece)

TokenizerRight == RoundTrip /\ MemoFresh /\ MergersAgree

=============================================================================
