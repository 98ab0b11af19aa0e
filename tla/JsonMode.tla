------------------------------ MODULE JsonMode ------------------------------
(***************************************************************************)
(* The JSON answer mode: an automaton for JSON texts                       *)
(* (crates/mivi-model/src/grammar.rs) masks the tokens of the generation   *)
(* (generate_with_json_grammar in model.rs).  The tracker of the server    *)
(* (crates/mivi-server/src/grammar.rs) reads the same text.                *)
(*                                                                         *)
(* Two letters, "t" and "r", stand for the words true, false and null, two *)
(* digits for ten.  The mask judges a token by its entry in the            *)
(* vocabulary, the automaton is fed with its decoded bytes.                *)
(***************************************************************************)
EXTENDS AnswerText

CONSTANTS
    Pieces,      \* the vocabulary, a sequence: of a token, its entry and its bytes
    EndPiece,    \* the token that ends a generation
    MaxNesting,  \* MAX_JSON_STACK_DEPTH
    MaxDraws,    \* bound: max_tokens
    MaxString    \* bound: unescaped characters of a string before its end

ASSUME JsonAssumption ==
    /\ EndPiece \in DOMAIN Pieces
    /\ MaxNesting \in Nat \ {0}
    /\ {MaxDraws, MaxString} \subseteq Nat

VARIABLES
    mode,       \* idle, generating or returned
    braced,     \* the prompt ends with an opening brace
    json,       \* JsonGrammar
    tracker,    \* JsonConstraintState
    output,     \* full_output
    unfed,      \* the bytes in the stream decoder
    draws,      \* tokens generated
    strayed     \* a token was drawn that the automaton had not allowed at its place;
                \* the code keeps no such record

jsonVars == <<mode, braced, json, tracker, output, unfed, draws, strayed>>

Digit == {"0", "1"}

Blank == {" ", "\n"}

----------------------------------------------------------------------------
(* JsonGrammar.                                                            *)

NewGrammar ==
    [stack |-> <<>>, string |-> FALSE, escape |-> FALSE, key |-> FALSE, colon |-> FALSE,
     value |-> TRUE, comma |-> FALSE, started |-> FALSE, completed |-> FALSE,
     error |-> FALSE, primitive |-> "none"]

Failed(g) == [g EXCEPT !.error = TRUE]

Top(g) == IF g.stack = <<>> THEN "nothing" ELSE Last(g.stack)

FinishValue(g) ==
    LET whole == g.stack = <<>> /\ g.started
    IN  [g EXCEPT !.value = FALSE, !.comma = ~whole, !.completed = @ \/ whole]

\* A quotation mark, where none is escaped.
Quote(g) ==
    LET q == [g EXCEPT !.string = ~@, !.started = TRUE]
    IN  CASE ~g.key /\ ~g.value -> Failed(q)
          [] g.string /\ g.key -> [q EXCEPT !.key = FALSE, !.colon = TRUE]
          [] g.string /\ ~g.key /\ g.value -> FinishValue(q)
          [] OTHER -> q

Enter(g, scope) ==
    IF ~g.value \/ Len(g.stack) = MaxNesting THEN Failed(g)
    ELSE [g EXCEPT !.stack = Append(@, scope), !.value = (scope = "array"),
                   !.key = @ \/ scope = "object", !.comma = TRUE, !.started = TRUE]

\* With a missing test for a trailing comma.
CloseAnyObject(g) ==
    IF g.colon \/ g.value \/ Top(g) # "object" THEN Failed(g)
    ELSE FinishValue([g EXCEPT !.stack = Front(@), !.key = FALSE])

CloseObject(g) ==
    IF g.colon \/ g.value \/ (g.key /\ ~g.comma) \/ Top(g) # "object" THEN Failed(g)
    ELSE FinishValue([g EXCEPT !.stack = Front(@), !.key = FALSE])

CloseArray(g) ==
    IF g.colon \/ (g.value /\ ~g.comma) \/ Top(g) # "array" THEN Failed(g)
    ELSE FinishValue([g EXCEPT !.stack = Front(@)])

Colon(g) == IF g.colon THEN [g EXCEPT !.colon = FALSE, !.value = TRUE, !.comma = FALSE] ELSE Failed(g)

\* A comma may follow an opening brace, too: the brace has set expect_comma_or_close.
Comma(g) ==
    IF ~g.comma \/ g.value \/ g.colon THEN Failed(g)
    ELSE [g EXCEPT !.comma = FALSE, !.key = (Top(g) = "object"), !.value = (Top(g) # "object")]

BeginPrimitive(g, c) ==
    LET first == CASE c = "t" -> "word"
                   [] c = "-" -> "sign"
                   [] c = "0" -> "zero"
                   [] OTHER -> "integer"
    IN  IF ~g.value THEN Failed(g)
        ELSE [g EXCEPT !.primitive = first, !.started = TRUE, !.value = FALSE, !.comma = TRUE]

Structure(g, c) ==
    CASE c \in Blank -> g
      [] c = "{" -> Enter(g, "object")
      [] c = "}" -> CloseObject(g)
      [] c = "[" -> Enter(g, "array")
      [] c = "]" -> CloseArray(g)
      [] c = ":" -> Colon(g)
      [] c = "," -> Comma(g)
      [] c \in Digit \cup {"-", "t"} -> BeginPrimitive(g, c)
      [] OTHER -> Failed(g)

\* The steps of a number.
NumberSteps ==
    {<<"sign", "0", "zero">>, <<"sign", "1", "integer">>, <<"exponent", "-", "signed">>}
        \cup {<<from, ".", "point">> : from \in {"zero", "integer"}}
        \cup {<<from, "e", "exponent">> : from \in {"zero", "integer", "fraction"}}
        \cup ({"integer"} \X Digit \X {"integer"})
        \cup ({"point", "fraction"} \X Digit \X {"fraction"})
        \cup ({"exponent", "signed", "power"} \X Digit \X {"power"})

EndOfNumber == {"zero", "integer", "fraction", "power"}

\* A character of a number or a word that has begun, or the one after it.
Primitive(g, c) ==
    LET ended == FinishValue([g EXCEPT !.primitive = "none"])
        steps == {step \in NumberSteps : step[1] = g.primitive /\ step[2] = c}
    IN  CASE g.primitive = "word" /\ c = "r" -> ended
          [] steps # {} -> [g EXCEPT !.primitive = (CHOOSE step \in steps : TRUE)[3]]
          [] g.primitive \in EndOfNumber /\ c \in Blank \cup {",", "}", "]"} -> Structure(ended, c)
          [] OTHER -> Failed(g)

Character(g, c) ==
    CASE g.error -> g
      [] g.completed -> IF c \in Blank THEN g ELSE Failed(g)
      [] g.escape -> [g EXCEPT !.escape = FALSE]
      [] g.string /\ c = "\\" -> [g EXCEPT !.escape = TRUE]
      [] c = "\"" -> Quote(g)
      [] g.string -> g
      [] g.primitive # "none" -> Primitive(g, c)
      [] OTHER -> Structure(g, c)

\* feed does nothing once the automaton has completed or failed.
FeedGrammar(g, chunk) ==
    IF g.completed THEN g ELSE FoldLeft(Character, g, chunk)

CanAccept(g, chunk) ==
    ~g.completed /\ ~g.error /\ chunk # <<>> /\ ~FeedGrammar(g, chunk).error

Mask(g) == {i \in DOMAIN Pieces : CanAccept(g, Pieces[i].entry)}

----------------------------------------------------------------------------
(* JsonConstraintState.                                                    *)

NewTracker == [string |-> FALSE, escape |-> FALSE, braces |-> 0, brackets |-> 0,
               started |-> FALSE, completed |-> FALSE, error |-> FALSE]

Counted(k, c) ==
    LET n == CASE c = "{" -> [k EXCEPT !.braces = @ + 1, !.started = TRUE]
               [] c = "[" -> [k EXCEPT !.brackets = @ + 1, !.started = TRUE]
               [] c = "}" /\ k.braces > 0 -> [k EXCEPT !.braces = @ - 1]
               [] c = "]" /\ k.brackets > 0 -> [k EXCEPT !.brackets = @ - 1]
               [] c = "}" /\ k.braces = 0 -> [k EXCEPT !.error = TRUE]
               [] c = "]" /\ k.brackets = 0 -> [k EXCEPT !.error = TRUE]
               [] OTHER -> k
    IN  IF ~n.error /\ n.started /\ n.braces = 0 /\ n.brackets = 0
        THEN [n EXCEPT !.completed = TRUE] ELSE n

Track(k, chunk) ==
    LET step(j, c) ==
            CASE j.error -> j
              [] j.escape -> [j EXCEPT !.escape = FALSE]
              [] j.string /\ c = "\\" -> [j EXCEPT !.escape = TRUE]
              [] c = "\"" -> [j EXCEPT !.string = ~@]
              [] j.string -> j
              [] OTHER -> Counted(j, c)
    IN  FoldLeft(step, k, chunk)

TrackerComplete(k) ==
    ~k.error /\ k.started /\ k.completed /\ k.braces = 0 /\ k.brackets = 0 /\ ~k.string

----------------------------------------------------------------------------
(* generate_with_json_grammar.                                             *)

BeginJson(brace) ==
    /\ mode = "idle"
    /\ mode' = "generating"
    /\ braced' = brace
    /\ json' = IF brace THEN FeedGrammar(NewGrammar, <<"{">>) ELSE NewGrammar
    /\ tracker' = IF brace THEN Track(NewTracker, <<"{">>) ELSE NewTracker
    /\ UNCHANGED <<output, unfed, draws, strayed>>

\* If the mask is empty softmax makes all tokens equal.  Where top-p is off a random
\* number of exactly 0 picks the first token, and a sum rounded down the last.
Drawable(g) == IF Mask(g) = {} THEN DOMAIN Pieces ELSE Mask(g) \cup {1, Len(Pieces)}

\* What the automaton has been fed with.
Read == (IF braced THEN <<"{">> ELSE <<>>) \o output

\* The characters since the last quotation mark.
Run == Len(Read) - Max({0} \cup {n \in DOMAIN Read : Read[n] = "\""})

\* Bound: strings end after MaxString characters, and once the automaton has
\* failed, which it does for good, one token stands for all.
Explored(i) ==
    /\ json.string /\ ~json.escape /\ Run >= MaxString => "\"" \in ToSet(Pieces[i].bytes)
    /\ json.error => i = 1

\* What feed returns is not looked at.
DrawPiece(i) ==
    LET bytes == unfed \o Pieces[i].bytes
        chunk == Lossy(Upto(bytes, Decodable(bytes)))
    IN  /\ mode = "generating"
        /\ draws < MaxDraws
        /\ Explored(i)
        /\ i \in Drawable(json) \ {EndPiece}
        /\ draws' = draws + 1
        /\ unfed' = After(bytes, Decodable(bytes))
        /\ json' = FeedGrammar(json, chunk)
        /\ tracker' = Track(tracker, chunk)
        /\ output' = output \o chunk
        /\ strayed' = (strayed \/ unfed # <<>> \/ i \notin Mask(json))
        /\ mode' = IF json'.completed THEN "returned" ELSE mode
        /\ UNCHANGED braced

\* The bytes in the decoder are lost.
ReturnJson ==
    /\ mode = "generating"
    /\ draws = MaxDraws \/ EndPiece \in Drawable(json)
    /\ mode' = "returned"
    /\ UNCHANGED <<braced, json, tracker, output, unfed, draws, strayed>>

JsonInit ==
    /\ mode = "idle"
    /\ braced = FALSE
    /\ json = NewGrammar
    /\ tracker = NewTracker
    /\ output = <<>>
    /\ unfed = <<>>
    /\ draws = 0
    /\ strayed = FALSE

JsonNext ==
    \/ \E brace \in BOOLEAN : BeginJson(brace)
    \/ \E i \in DOMAIN Pieces : DrawPiece(i)
    \/ ReturnJson

----------------------------------------------------------------------------
(* A definition of JSON to compare with: a parser that, at a place of a    *)
(* text, gives the places at which a phrase of the grammar may end.  The   *)
(* place after the last but one, OutOf(s), stands for a text that ends too *)
(* early.                                                                  *)

OutOf(s) == Len(s) + 2

Escaped == {"\"", "\\", "t", "r"}

\* RFC 8259, but for nesting
Ends(s) ==
    LET One(chars, i) ==
            CASE i > Len(s) -> {OutOf(s)}
              [] i <= Len(s) /\ s[i] \in chars -> {i + 1}
              [] OTHER -> {}
        parse[phrase \in {"value", "spaced", "blanks", "string", "chars", "number", "digits",
                          "fraction", "exponent", "array", "elements", "object", "members"},
              i \in 1..OutOf(s)] ==
            LET P(name, at) == IF at = OutOf(s) THEN {OutOf(s)} ELSE parse[name, at]
                Then(ends, name) == UNION {P(name, at) : at \in ends}
                And(ends, chars) == UNION {IF at = OutOf(s) THEN {at} ELSE One(chars, at) : at \in ends}
                body == And({i}, {"-"}) \cup {i}
            IN  CASE phrase = "blanks" ->
                       {i} \cup Then(IF i <= Len(s) /\ s[i] \in Blank THEN {i + 1} ELSE {}, "blanks")
                  [] phrase = "spaced" -> Then(Then(Then({i}, "blanks"), "value"), "blanks")
                  [] phrase = "value" ->
                       P("string", i) \cup P("number", i) \cup P("array", i) \cup P("object", i)
                           \cup And(And({i}, {"t"}), {"r"})
                  [] phrase = "string" -> Then(And({i}, {"\""}), "chars")
                  [] phrase = "chars" ->
                       IF i > Len(s) THEN {OutOf(s)}
                       ELSE CASE s[i] = "\"" -> {i + 1}
                              [] s[i] = "\\" ->
                                   IF i + 1 > Len(s) THEN {OutOf(s)}
                                   ELSE IF s[i + 1] \in Escaped THEN P("chars", i + 2)
                                   ELSE {}
                              [] s[i] = "\n" -> {}
                              [] OTHER -> P("chars", i + 1)
                  [] phrase = "number" ->
                       LET whole == And(body, {"0"}) \cup Then(And(body, {"1"}), "digits")
                           decimal == whole \cup Then(whole, "fraction")
                       IN  decimal \cup Then(decimal, "exponent")
                  [] phrase = "digits" ->
                       {i} \cup Then(IF i <= Len(s) /\ s[i] \in Digit THEN {i + 1} ELSE {}, "digits")
                  [] phrase = "fraction" -> Then(And(And({i}, {"."}), Digit), "digits")
                  [] phrase = "exponent" ->
                       LET e == And({i}, {"e"})
                       IN  Then(And(e \cup And(e, {"-"}), Digit), "digits")
                  [] phrase = "array" ->
                       LET inside == And({i}, {"["})
                       IN  And(Then(inside, "blanks") \cup Then(inside, "elements"), {"]"})
                  [] phrase = "elements" ->
                       LET one == P("spaced", i)
                       IN  one \cup Then(And(one, {","}), "elements")
                  [] phrase = "object" ->
                       LET inside == Then(And({i}, {"{"}), "blanks")
                       IN  And(inside \cup Then(inside, "members"), {"}"})
                  [] phrase = "members" ->
                       LET name == Then(Then(Then({i}, "blanks"), "string"), "blanks")
                           one == Then(And(name, {":"}), "spaced")
                       IN  one \cup Then(And(one, {","}), "members")
    IN  parse["spaced", 1]

\* A JSON text, and the beginning of one.
Whole(s) == Len(s) + 1 \in Ends(s)
Beginning(s) == Whole(s) \/ OutOf(s) \in Ends(s)

\* Where each character leaves a reader: out of a string, in one or after a backslash
Quoting(s) ==
    LET at[i \in 0..Len(s)] ==
            IF i = 0 THEN "out"
            ELSE LET before == at[i - 1]
                 IN  CASE before = "out" -> IF s[i] = "\"" THEN "in" ELSE "out"
                       [] before = "escape" -> "in"
                       [] before = "in" ->
                            IF s[i] = "\"" THEN "out" ELSE IF s[i] = "\\" THEN "escape" ELSE "in"
    IN  at

\* What is no JSON and the automaton takes all the same: a comma that is first in an
\* object, a backslash before a character that must not be escaped, a line break in a
\* string.
Departs(s) ==
    LET at == Quoting(s)
    IN  \/ \E i, j \in DOMAIN s : /\ s[i] = "{" /\ at[i - 1] = "out"
                                  /\ i < j /\ s[j] = "," /\ ToSet(SubSeq(s, i + 1, j - 1)) \subseteq Blank
        \/ \E i \in DOMAIN s : \/ at[i - 1] = "escape" /\ s[i] \notin Escaped
                               \/ at[i - 1] = "in" /\ s[i] = "\n"

----------------------------------------------------------------------------
(* Properties.                                                             *)

JsonSpec == JsonInit /\ [][JsonNext]_jsonVars

\* No token that would go on with a JSON text is barred, unless it nests too deep.
NoneBarred ==
    mode = "generating" /\ ~json.error =>
        \A entry \in {Pieces[i].entry : i \in DOMAIN Pieces \ Mask(json)} :
            Len(json.stack) + Len(entry) <= MaxNesting => ~Beginning(Read \o entry)

\* A text the automaton has taken is the beginning of a JSON text, and the automaton
\* has completed when it is whole, but that a number may go on: unless the text departs
\* from JSON in one of three ways.
TakesJson ==
    mode # "idle" /\ ~json.error /\ ~Departs(Read) =>
        /\ Beginning(Read)
        /\ json.completed <=> Whole(Read) /\ Last(Read) \notin Digit

\* What is returned as complete is JSON.
AlwaysJson == mode = "returned" /\ json.completed => Whole(Read)

\* The automaton fails only if a token was drawn that it had not allowed where
\* its text came to stand.
FailsByStraying == json.error => strayed

\* The tracker of the server agrees about objects and arrays.
TrackerAgrees ==
    ~json.error =>
        /\ ~tracker.error
        /\ TrackerComplete(tracker) <=>
              json.completed /\ \E n \in DOMAIN Read :
                  Read[n] \in {"{", "["} /\ ToSet(Upto(Read, n - 1)) \subseteq Blank

\* The mask, the automaton and the tracker agree with the grammar of JSON.
JsonModeRight ==
    /\ NoneBarred
    /\ TakesJson
    /\ FailsByStraying
    /\ TrackerAgrees

==============================================================================
