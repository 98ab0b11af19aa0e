----------------------------- MODULE MCPrompts ------------------------------
(* Prompts and their tokens: templates with every kind of profile in them, *)
(* and a vocabulary with merges, bytes without an entry and entries that   *)
(* are spelled like other texts.                                           *)
EXTENDS Prompts, Tokenizer

Token(name) == <<"<|", name, "|>">>

MCTemplate ==
    <<"if">> \o Token("startoftext") \o Token("pad") \o Token("im_start")
    \o <<"role">> \o Token("im_end")

MCTemplates ==
    {MCTemplate,
     <<"bos_token">> \o Token("im_start") \o Token("im_end") \o <<"<|", "tool_call_start">>,
     MCTemplate \o Token("tool_call_start") \o Token("tool_call_end"),
     <<"<|", "im_start">>}

MCMetadata ==
    [template : MCTemplates, bos : {<<>>, <<"<s>">>}, callStart : {<<>>, <<"<call>">>},
     callEnd : {<<>>, <<"<call>">>, <<"</call>">>}]

MCExplicit ==
    {[kind |-> "delimited", textStart |-> Token("startoftext"), start |-> Token("im_start"),
      end |-> Token("im_end"), callStart |-> <<"<call>">>, callEnd |-> <<"</call>">>,
      instruction |-> Word("Think first")]}

Words(list) == [i \in DOMAIN list |-> Word(list[i])]

\* "x:\",", :, "\\", in the words of a list of tools
MCToolLists ==
    {<<>>,
     Words(<<"quote", "x", "colon", "backslash", "quote", "comma", "quote", "colon", "comma",
             "quote", "backslash", "backslash", "quote", "comma">>)}

Message(role, name, content, messageCalls) ==
    [role |-> role, name |-> name, content |-> content, calls |-> messageCalls]

CallOf(text, object) == [text |-> Word(text), object |-> object]

MCUtterances ==
    {Message("system", <<>>, Words(<<"rules">>), <<>>),
     Message("developer", <<>>, <<>>, <<>>),
     Message("user", Word("Ann"), Words(<<"hi">>), <<>>),
     Message("assistant", <<>>, Words(<<"well">>), <<CallOf("f()", TRUE), CallOf("g()", TRUE)>>),
     Message("assistant", <<>>, <<>>, <<CallOf("h", FALSE)>>),
     Message("assistant", <<>>, Words(<<"yes">>), <<>>),
     Message("tool", <<>>, Words(<<"3">>), <<>>),
     Message("user", <<>>, <<>>, <<CallOf("f()", TRUE)>>),
     Message("critic", <<>>, Words(<<"no">>), <<>>)}

----------------------------------------------------------------------------
MCClass ==
    [character \in {"a", "b", "h", "y"} |-> "letter"]
    @@ ("1" :> "digit") @@ (" " :> "space") @@ ("nl" :> "newline")
    @@ [character \in {".", "<s>", "<t>"} |-> "mark"]

MCUtf8 ==
    [character \in {"a", "b", "1", ".", "<s>", "<t>", "nl"} |-> <<character>>]
    @@ (" " :> <<"sp">>) @@ ("h" :> <<"y", "z">>) @@ ("y" :> <<"y", "x">>)

MCSymbol ==
    [byte \in {"a", "b", "1", ".", "<s>", "<t>", "nl", "x", "y", "z"} |-> byte] @@ ("sp" :> "G")

MCVocabulary ==
    {Unknown, <<"<s>">>, <<"a">>, <<"b">>, <<".">>, <<"a", "b">>, <<"b", "a">>, <<"G", "a">>,
     <<"a", "b", "a">>, <<"G">>, <<"y">>, <<"y", "z">>, <<"byte", "1">>, <<"byte", "x">>,
     <<"nl">>, <<"G", "nl">>}

MCRanks ==
    <<<<<<"b">>, <<"a">>>>, <<<<"a">>, <<"b">>>>, <<<<"a">>, <<"b", "a">>>>,
      <<<<"G">>, <<"a">>>>, <<<<"y">>, <<"z">>>>, <<<<"G">>, <<"nl">>>>>>

MCTexts ==
    UNION {[1..n -> {"a", "h", "y", "1", " ", "<s>"}] : n \in 0..2}
    \cup UNION {[1..n -> {"a", "b"}] : n \in {3, 5}}
    \cup {<<" ", "nl", "a">>, <<".", ".", "nl">>, <<"1", "1", "1", "1">>, <<"a", " ", "a">>,
          <<" ", " ", "b">>, <<"<t>", "a">>, <<"nl", " ", "b">>,
          <<"a", "a", "b", "a", "b", "b">>}

MCSlot == [length \in 1..9 |-> length % 2]

=============================================================================
