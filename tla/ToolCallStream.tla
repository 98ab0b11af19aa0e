--------------------------- MODULE ToolCallStream ---------------------------
(***************************************************************************)
(* The arguments of a tool call while the model still writes it: for every *)
(* piece of text stream_update of crates/mivi-tools/src/parser.rs renders  *)
(* the arguments that can be read so far, and routes/chat.rs sends what    *)
(* the rendering has grown by.  At the end the calls are read again from   *)
(* the whole text.                                                         *)
(*                                                                         *)
(* The text after the opening delimiter is a sequence of symbols: "q" is a *)
(* quote and "END" the closing delimiter.  A number is read and printed as *)
(* serde_json does it, every digit kept.  Blanks, escapes and literals are *)
(* left out.                                                               *)
(***************************************************************************)
EXTENDS Integers, Sequences, SequencesExt

CONSTANTS
    Letters,
    WholeDigits,     \* digits of the largest number that is read as an integer (20)
    PointDigits,     \* a float of more digits before the point is printed with an exponent (16)
    CallLists        \* bound: the lists of calls the model may want to make

VARIABLES
    wanted,     \* the calls the model is writing
    allowed,    \* tool_choice_allows_name
    written,    \* how much of them it has written
    opened,     \* streamed_tool_call: the delta with id and name was sent
    emitted,    \* the argument deltas of call 0, joined
    others,     \* the calls sent whole
    ending      \* of the answer: new, none, tool_calls, stop, error

streamVars == <<wanted, allowed, written, opened, emitted, others, ending>>

Ahead(s, n) == SubSeq(s, 1, n - 1)

Behind(s, n) == SubSeq(s, n + 1, Len(s))

JoinedBy(sep, seqs) ==
    FoldLeft(LAMBDA all, s : IF all = <<>> THEN s ELSE all \o <<sep>> \o s, <<>>, seqs)

----------------------------------------------------------------------------
(* What the model writes, and what it means.  A call is a name and a       *)
(* sequence of fields; a value is a number, a string or a list of numbers, *)
(* as it is written.                                                       *)

Source(call) ==
    <<call.name, "(">>
        \o JoinedBy(",", [i \in DOMAIN call.fields |->
                             <<call.fields[i].key, "=">> \o call.fields[i].value])
        \o <<")">>

Text(calls) ==
    <<"[">> \o JoinedBy(",", [i \in DOMAIN calls |-> Source(calls[i])]) \o <<"]", "END">>

----------------------------------------------------------------------------
(* Reading a call that is not complete.                                    *)

\* How deep in brackets of these kinds, and whether in quotes, after i symbols.
Nesting(s, openers, closers) ==
    LET at[i \in 0..Len(s)] ==
            IF i = 0 THEN [depth |-> 0, quoted |-> FALSE]
            ELSE LET p == at[i - 1]
                 IN  CASE s[i] = "q" -> [p EXCEPT !.quoted = ~@]
                       [] ~p.quoted /\ s[i] \in openers -> [p EXCEPT !.depth = @ + 1]
                       [] ~p.quoted /\ s[i] \in closers /\ p.depth > 0 ->
                              [p EXCEPT !.depth = @ - 1]
                       [] OTHER -> p
    IN  at

\* The places of a symbol outside of quotes and brackets.
Anywhere(s, symbol) == {i \in DOMAIN s : s[i] = symbol}

Outermost(s, symbol, openers, closers) ==
    LET nesting == Nesting(s, openers, closers)
    IN  {i \in DOMAIN s : s[i] = symbol /\ nesting[i - 1] = [depth |-> 0, quoted |-> FALSE]}

FirstOf(places, otherwise) == IF places = {} THEN otherwise ELSE Min(places)

\* find_call_close: the parenthesis that is not opened in s.
CallClose(s) == FirstOf(Outermost(s, ")", {"("}, {")"}), 0)

TopLevel(s, symbol) == Outermost(s, symbol, {"(", "[", "{"}, {")", "]", "}"})

\* split_top_level_arguments
Segments(s) ==
    LET cuts == SetToSortSeq(TopLevel(s, ",") \cup {0, Len(s) + 1}, <)
    IN  [i \in 1..(Len(cuts) - 1) |-> SubSeq(s, cuts[i] + 1, cuts[i + 1] - 1)]

Numerals == <<"0", "1", "2", "3", "4", "5", "6", "7", "8", "9">>

Digits == ToSet(Numerals)

\* The number these digits write
Count(digits) == FoldLeft(LAMBDA n, digit : 10 * n + CHOOSE d \in 0..9 : Numerals[d + 1] = digit,
                          0, digits)

Decimal(n) == IF n < 10 THEN <<Numerals[n + 1]>> ELSE <<Numerals[n \div 10 + 1], Numerals[(n % 10) + 1]>>

Zeros(n) == [i \in 1..n |-> "0"]

Signed(negative, s) == IF negative THEN <<"-">> \o s ELSE s

\* A number as it is written: sign, digits before and after the point, exponent
NumberOf(s) ==
    LET IsNegative(t) == t # <<>> /\ Head(t) = "-"
        Unsigned(t) == IF IsNegative(t) THEN Tail(t) ELSE t
        digits == Unsigned(s)
        e == FirstOf(Anywhere(digits, "e"), Len(digits) + 1)
        point == FirstOf(Anywhere(Ahead(digits, e), "."), e)
        exponent == Behind(digits, e)
    IN  [negative |-> IsNegative(s), whole |-> Ahead(digits, point),
         hasPoint |-> point < e, fraction |-> SubSeq(digits, point + 1, e - 1),
         hasExponent |-> e <= Len(digits), down |-> IsNegative(exponent), exponent |-> Unsigned(exponent)]

\* How a float is printed: the shortest digits that write it, with a point in or around
\* them as long as that takes few zeros, and else with an exponent
Float(number) ==
    LET all == number.whole \o number.fraction
        counting == {i \in DOMAIN all : all[i] # "0"}
        digits == SubSeq(all, Min(counting), Max(counting))
        n == Len(digits)
        before == Len(number.whole) + 1 - Min(counting)
                      + (IF number.down THEN -1 ELSE 1) * Count(number.exponent)
    IN  IF counting = {} THEN <<"0", ".", "0">>
        ELSE IF n <= before /\ before <= PointDigits THEN digits \o Zeros(before - n) \o <<".", "0">>
        ELSE IF 0 < before /\ before <= PointDigits
             THEN SubSeq(digits, 1, before) \o <<".">> \o Behind(digits, before)
        ELSE IF -5 < before /\ before <= 0 THEN <<"0", ".">> \o Zeros(-before) \o digits
        ELSE <<Head(digits)>> \o (IF n = 1 THEN <<>> ELSE <<".">> \o Tail(digits))
                 \o <<"e">> \o Signed(before < 1, Decimal(IF before < 1 THEN 1 - before ELSE before - 1))

\* An integer that is too long, and minus zero, become floats.
JsonNumber(s) ==
    LET number == NumberOf(s)
        isInteger == /\ ~number.hasPoint /\ ~number.hasExponent
                     /\ Len(number.whole) <= WholeDigits /\ s # <<"-", "0">>
    IN  IF isInteger THEN s ELSE Signed(number.negative, Float(number))

\* serde_json::to_string of a value
Json(value) ==
    CASE Head(value) = "q" -> value
      [] Head(value) = "[" ->
            LET items == Segments(Tail(Front(value)))
            IN  IF items = <<<<>>>> THEN value
                ELSE <<"[">> \o JoinedBy(",", [i \in DOMAIN items |-> JsonNumber(items[i])]) \o <<"]">>
      [] OTHER -> JsonNumber(value)

\* The object; it is left open while more of it may come.
Object(fields, close) ==
    IF fields = <<>>
    THEN IF close THEN <<"{", "}">> ELSE <<>>
    ELSE <<"{">> \o JoinedBy(",", [i \in DOMAIN fields |->
                                      <<fields[i].key, ":">> \o Json(fields[i].value)])
                 \o (IF close THEN <<"}">> ELSE <<>>)

\* serde_json::from_str reads a number.
IsNumber(s) ==
    LET number == NumberOf(s)
        IsDigits(t) == t # <<>> /\ ToSet(t) \subseteq Digits
    IN  /\ IsDigits(number.whole) /\ (Head(number.whole) = "0" => Len(number.whole) = 1)
        /\ number.hasPoint => IsDigits(number.fraction)
        /\ number.hasExponent => IsDigits(number.exponent)

IsList(s) ==
    /\ Len(s) > 1 /\ Head(s) = "[" /\ Last(s) = "]"
    /\ LET items == Segments(Tail(Front(s)))
       IN  items = <<<<>>>> \/ \A i \in DOMAIN items : IsNumber(items[i])

\* parse_complete_python_value succeeds.
IsValue(s) ==
    \/ IsNumber(s)
    \/ Len(s) > 1 /\ Head(s) = "q" /\ Anywhere(s, "q") = {1, Len(s)}
    \/ IsList(s)

FieldOf(segment) ==
    LET equals == FirstOf(TopLevel(segment, "="), 0)
    IN  [key |-> IF equals = 2 THEN Head(segment) ELSE "none",
         value |-> IF equals > 0 THEN Behind(segment, equals) ELSE <<>>]

IsField(segment) == FieldOf(segment).key \in Letters /\ IsValue(FieldOf(segment).value)

\* stream_python_tool_call_update: the arguments of the first call, and whether
\* its name can be read yet.
Update(text) ==
    LET end == FirstOf(Anywhere(text, "END"), Len(text) + 1)
        whole == Ahead(text, end)
        body == IF whole # <<>> /\ Head(whole) = "[" THEN Tail(whole) ELSE whole
        open == FirstOf(Anywhere(body, "("), 0)
        rest == Behind(body, open)
        close == CallClose(rest)
        segments == SelectSeq(Segments(IF close = 0 THEN rest ELSE Ahead(rest, close)),
                              LAMBDA s : s # <<>>)
        fields == SelectSeq(segments, IsField)
    IN  [named |-> open = 2 /\ Head(body) \in Letters,
         arguments |-> Object([i \in DOMAIN fields |-> FieldOf(fields[i])],
                              close # 0 /\ Len(fields) = Len(segments))]

----------------------------------------------------------------------------
(* The chat endpoint.                                                      *)

\* The opening delimiter has been written.
BeginCalls ==
    /\ ending = "new"
    /\ ending' = "none"
    /\ wanted' \in CallLists
    /\ allowed' \in BOOLEAN
    /\ UNCHANGED <<written, opened, emitted, others>>

\* One piece of text arrives.
ReceivePiece(n) ==
    LET update == Update(Ahead(Text(wanted), written + n + 1))
    IN  /\ ending = "none"
        /\ written + n <= Len(Text(wanted))
        /\ written' = written + n
        /\ opened' = (opened \/ (update.named /\ allowed))
        /\ emitted' = IF opened' /\ update.named /\ Len(update.arguments) > Len(emitted)
                      THEN emitted \o Behind(update.arguments, Len(emitted))
                      ELSE emitted
        /\ UNCHANGED <<wanted, allowed, others, ending>>

AllCalls(calls) == [i \in DOMAIN calls |-> i]

\* tool_call_values: the streamed call is not sent again.
NotStreamed(calls) ==
    SelectSeq([i \in DOMAIN calls |-> i], LAMBDA i : ~(opened /\ i = 1))

\* The generation is over, perhaps before the text is complete: then the codec
\* refuses it.  So does the endpoint when a name was not allowed.
EndOfOutput ==
    /\ ending = "none"
    /\ written > 0
    /\ IF written < Len(Text(wanted)) \/ (~allowed /\ wanted # <<>>)
       THEN /\ ending' = "error"
            /\ UNCHANGED others
       ELSE /\ ending' = IF wanted = <<>> THEN "stop" ELSE "tool_calls"
            /\ others' = NotStreamed(wanted)
    /\ UNCHANGED <<wanted, allowed, written, opened, emitted>>

StreamInit ==
    /\ wanted = <<>>
    /\ allowed = FALSE
    /\ written = 0
    /\ opened = FALSE
    /\ emitted = <<>>
    /\ others = <<>>
    /\ ending = "new"

StreamNext ==
    \/ BeginCalls
    \/ \E n \in 1..3 : ReceivePiece(n)
    \/ EndOfOutput

StreamSpec == StreamInit /\ [][StreamNext]_streamVars

----------------------------------------------------------------------------
(* Properties.                                                             *)

\* Whatever can be read of the value before it is whole is printed as a beginning of it:
\* not so of -0.5, where the client has been sent the -0.0 of its first two symbols.
Steady(value) ==
    \A n \in DOMAIN value :
        IsValue(SubSeq(value, 1, n)) => IsPrefix(Json(SubSeq(value, 1, n)), Json(value))

\* However the text of the calls is cut into pieces, the deltas of the first call
\* never contradict its arguments and are whole when the answer ends with
\* tool_calls, if every value of theirs is steady; the other calls are sent once
\* each.  What was sent of a value that is not steady is never corrected.
DeltasAssemble ==
    LET steady == emitted # <<>> => \A i \in DOMAIN wanted[1].fields : Steady(wanted[1].fields[i].value)
    IN  /\ emitted # <<>> /\ steady => IsPrefix(emitted, Object(wanted[1].fields, TRUE))
        /\ ending = "tool_calls" =>
              /\ opened
              /\ others = [i \in 1..(Len(wanted) - 1) |-> i + 1]
              /\ steady => emitted = Object(wanted[1].fields, TRUE)

============================================================================
