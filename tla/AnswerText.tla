----------------------------- MODULE AnswerText -----------------------------
(***************************************************************************)
(* The text of a generation on its way to a client: the bytes of the       *)
(* tokens are decoded, stop sequences are looked for and withheld          *)
(* (crates/mivi-model/src/model.rs), the callback of the engine sends what *)
(* is released (engine_actor.rs) and the chat endpoint shows what is       *)
(* certainly not a tool call (routes/chat.rs).                             *)
(*                                                                         *)
(* A character is one byte, which stands for itself, or the wide one: a    *)
(* Lead byte and two Cont bytes.  The channel between the engine and the   *)
(* endpoint keeps the order of the words, so that each is dealt with when  *)
(* it is sent.                                                             *)
(***************************************************************************)
EXTENDS Naturals, Sequences, SequencesExt

CONSTANTS
    Lead, Cont,      \* bytes of the wide character
    Wide, Bad,       \* the wide character and U+FFFD
    Tokens,          \* the byte sequences of the vocabulary
    StopLists,       \* the lists of stop sequences a request may bring
    ForcedPrefixes,  \* the outputs a request may force, <<>> for none
    Delimiter,       \* opening_delimiter of the codec
    MaxText         \* bound: the generations end with no more bytes than these

ASSUME TextAssumption ==
    /\ Lead # Cont /\ Wide # Bad
    /\ \A list \in StopLists :
          list \in Seq(ToSet(list)) /\ \A stop \in ToSet(list) : stop # <<>>
    /\ \A text \in Tokens \cup UNION {ToSet(list) : list \in StopLists} :
          text \in Seq(ToSet(text))
    /\ \A text \in ForcedPrefixes \cup {Delimiter} : text \in Seq(ToSet(text))
    /\ Delimiter # <<>>
    /\ MaxText \in Nat

VARIABLES
    stage,      \* of the request
    request,    \* its stop sequences, forced prefix, and whether it has tools
    said,       \* the bytes of generated_ids
    undecoded,  \* Utf8StreamDecoder
    pending,    \* pending_text
    stopped,    \* a stop sequence has ended the generation
    lost,       \* cancelled, or the receiver dropped
    sent,       \* the words sent to the endpoint, joined (assembled)
    shown       \* the content sent to the client

textVars == <<stage, request, said, undecoded, pending, stopped, lost, sent, shown>>

Upto(s, n) == SubSeq(s, 1, n)

After(s, n) == SubSeq(s, n + 1, Len(s))

----------------------------------------------------------------------------
(* Decoding.                                                               *)

\* String::from_utf8_lossy: a maximal part of a character gives one U+FFFD.
Lossy(bytes) ==
    LET IsCont(i) == i <= Len(bytes) /\ bytes[i] = Cont
        text[i \in 1..(Len(bytes) + 1)] ==
            IF i > Len(bytes) THEN <<>> ELSE
            CASE bytes[i] = Lead /\ IsCont(i + 1) /\ IsCont(i + 2) -> <<Wide>> \o text[i + 3]
              [] bytes[i] = Lead /\ IsCont(i + 1) /\ ~IsCont(i + 2) -> <<Bad>> \o text[i + 2]
              [] bytes[i] = Lead /\ ~IsCont(i + 1) -> <<Bad>> \o text[i + 1]
              [] bytes[i] = Cont -> <<Bad>> \o text[i + 1]
              [] OTHER -> <<bytes[i]>> \o text[i + 1]
    IN  text[1]

\* How many bytes feed takes: all up to a Lead that may still be completed.
Decodable(bytes) ==
    LET upto[i \in 0..Len(bytes)] ==
            IF i = Len(bytes) THEN i
            ELSE IF bytes[i + 1] # Lead THEN upto[i + 1]
            ELSE IF i + 3 > Len(bytes) THEN i
            ELSE IF bytes[i + 2] = Cont /\ bytes[i + 3] = Cont THEN upto[i + 3]
            ELSE upto[i + 1]
    IN  upto[0]

----------------------------------------------------------------------------
(* Stop sequences.                                                         *)

Stops == request.stops

\* The length of the first stop sequence of the list that ends the text.
MatchedStop(text) ==
    LET i == SelectInSeq(Stops, LAMBDA stop : IsSuffix(stop, text))
    IN  IF i = 0 THEN 0 ELSE Len(Stops[i])

WithoutStop(text) == Upto(text, Len(text) - MatchedStop(text))

\* Only the prefix of the first sequence that matches is considered.
HoldBackOfFirst(text) ==
    LET lengths(i) == {n \in 1..(Len(Stops[i]) - 1) : IsSuffix(Upto(Stops[i], n), text)}
        i == SelectInSeq(Stops, LAMBDA stop :
                 \E n \in 1..(Len(stop) - 1) : IsSuffix(Upto(stop, n), text))
    IN  IF i = 0 THEN 0 ELSE Max(lengths(i))

\* The longest end of the text that a stop sequence may continue.
HoldBack(text) ==
    Max({0} \cup
        {n \in UNION {1..(Len(Stops[i]) - 1) : i \in DOMAIN Stops} :
            \E i \in DOMAIN Stops :
                n < Len(Stops[i]) /\ IsSuffix(Upto(Stops[i], n), text)})

----------------------------------------------------------------------------
(* The endpoint.                                                           *)

\* Where the opening delimiter begins, 0 without one.
Opening(text) ==
    SelectInSeq([i \in 1..Len(text) |-> i],
                LAMBDA i : IsPrefix(Delimiter, After(text, i - 1)))

\* IncrementalToolText: the text before the opening delimiter, without an end
\* that may be the beginning of one.
Safe(text, atEnd) ==
    LET partial == {n \in 1..(Len(Delimiter) - 1) : IsSuffix(Upto(Delimiter, n), text)}
    IN  CASE Opening(text) > 0 -> Upto(text, Opening(text) - 1)
          [] Opening(text) = 0 /\ atEnd -> text
          [] OTHER -> Upto(text, Len(text) - Max({0} \cup partial))

\* A word arrives.  Once shown, text is not taken back.
ShownOf(text, atEnd) ==
    LET safe == IF request.tools THEN Safe(text, atEnd) ELSE text
    IN  shown \o After(safe, Len(shown))

\* model_stream_callback: nothing is sent any more once the stream is lost.  The
\* forced prefix goes with the first text.
Deliver(text) ==
    LET word == IF sent = <<>> THEN request.forced \o text ELSE text
    IN  IF text = <<>> \/ lost
        THEN UNCHANGED <<sent, shown>>
        ELSE /\ sent' = sent \o word
             /\ shown' = ShownOf(sent \o word, FALSE)

----------------------------------------------------------------------------
Begin ==
    /\ stage = "new"
    /\ stage' = "generating"
    /\ \E list \in StopLists, forced \in ForcedPrefixes, tools \in BOOLEAN :
          request' = [stops |-> list, forced |-> forced, tools |-> tools]
    /\ UNCHANGED <<said, undecoded, pending, stopped, lost, sent, shown>>

\* One round of the generation loop.
Generate(token) ==
    LET fed == undecoded \o token
        n == Decodable(fed)
        text == pending \o Lossy(Upto(fed, n))
        released == Len(text) - HoldBack(text)
    IN  /\ stage = "generating"
        /\ Len(said) + Len(token) <= MaxText
        /\ said' = said \o token
        /\ undecoded' = After(fed, n)
        /\ IF MatchedStop(text) > 0
           THEN /\ Deliver(WithoutStop(text))
                /\ pending' = <<>>
                /\ stopped' = TRUE
                /\ stage' = "flush"
           ELSE /\ Deliver(Upto(text, released))
                /\ pending' = After(text, released)
                /\ stage' = IF lost /\ released > 0 THEN "flush" ELSE "generating"
                /\ UNCHANGED stopped
        /\ UNCHANGED <<request, lost>>

\* The loop ends: an end token, max_tokens, the end of the context, cancelled.
EndOfLoop ==
    /\ stage = "generating"
    /\ stage' = "flush"
    /\ UNCHANGED <<request, said, undecoded, pending, stopped, lost, sent, shown>>

\* What is left is released after the loop, whatever has ended it.
Flush ==
    LET text == pending \o Lossy(undecoded)
    IN  /\ stage = "flush"
        /\ Deliver(WithoutStop(text))
        /\ undecoded' = <<>>
        /\ pending' = <<>>
        /\ stage' = "generated"
        /\ UNCHANGED <<request, said, stopped, lost>>

\* The endpoint has the whole output, and shows what it had withheld.
Finish ==
    /\ stage = "generated"
    /\ ~lost
    /\ shown' = ShownOf(sent, TRUE)
    /\ stage' = "finished"
    /\ UNCHANGED <<request, said, undecoded, pending, stopped, lost, sent>>

\* The client leaves or a deadline passes.
Lose ==
    /\ stage \in {"generating", "flush"}
    /\ lost' = TRUE
    /\ UNCHANGED <<stage, request, said, undecoded, pending, stopped, sent, shown>>

TextInit ==
    /\ stage = "new"
    /\ request = [stops |-> <<>>, forced |-> <<>>, tools |-> FALSE]
    /\ said = <<>>
    /\ undecoded = <<>>
    /\ pending = <<>>
    /\ stopped = FALSE
    /\ lost = FALSE
    /\ sent = <<>>
    /\ shown = <<>>

TextNext ==
    \/ Begin
    \/ \E token \in Tokens : Generate(token)
    \/ EndOfLoop
    \/ Flush
    \/ Finish
    \/ Lose

TextSpec == TextInit /\ [][TextNext]_textVars

----------------------------------------------------------------------------
(* Properties.                                                             *)

\* generated_ids decoded at once, as far as a decoder may release it, and the
\* rest of it.
Decoded == Lossy(Upto(said, Decodable(said)))
Unfinished == Lossy(After(said, Decodable(said)))

\* What was sent without the forced prefix.
Body == After(sent, IF sent = <<>> THEN 0 ELSE Len(request.forced))

\* The result of generate for the same tokens: every stop sequence of the list
\* is taken off in turn.
Blocking ==
    FoldLeft(LAMBDA text, stop :
                 IF IsSuffix(stop, text) THEN Upto(text, Len(text) - Len(stop)) ELSE text,
             Lossy(said), Stops)

\* What is decoded piece by piece and released with a delay is the text of the
\* tokens decoded at once: nothing is lost, doubled or out of order.
InOrder == stage = "generating" /\ ~lost => Body \o pending = Decoded

\* A stop sequence is seen as if it were looked for in the whole text after each
\* token, although all but a short end of the text is gone by then.
StopsSeen == stage = "generating" => MatchedStop(Decoded) = 0

\* Nothing of the stop sequence that ended the text is sent, and nothing else
\* is missing; but the bytes of an unfinished character that came with the last
\* token are sent after it, as U+FFFD.
WholeAtEnd ==
    stage \in {"generated", "finished"} /\ ~lost =>
        Body = IF stopped THEN WithoutStop(Decoded) \o WithoutStop(Unfinished)
               ELSE WithoutStop(Decoded \o Unfinished)

\* A blocking request gets the text a streaming one is sent, unless several
\* stop sequences end it one within the other.
SameAsBlocking ==
    stage \in {"generated", "finished"} /\ ~lost /\ Unfinished = <<>> =>
        /\ IsPrefix(Blocking, Body)
        /\ Len(Stops) < 2 => Blocking = Body

\* The client is shown the text before the opening delimiter of a tool call,
\* never a part of the delimiter, and in the end all of it.
DelimiterHidden ==
    LET before == Safe(sent, TRUE)
    IN  /\ IsPrefix(shown, IF request.tools THEN before ELSE sent)
        /\ stage = "finished" \/ ~request.tools =>
              shown = (IF request.tools THEN before ELSE sent)

\* The text of an answer is right at every moment, however the tokens cut
\* characters, stop sequences and delimiters into pieces.
AnswerTextRight ==
    /\ InOrder
    /\ StopsSeen
    /\ WholeAtEnd
    /\ SameAsBlocking
    /\ DelimiterHidden

============================================================================
