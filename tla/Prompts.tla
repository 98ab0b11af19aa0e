------------------------------ MODULE Prompts -------------------------------
(***************************************************************************)
(* The protocol of a model and the prompts it is given:                    *)
(* crates/mivi-server/src/model_profile.rs, which finds the delimiters of  *)
(* a model in its template and renders conversations with them, and        *)
(* format_chatml (crates/mivi-tokenizer/src/chatml.rs).                    *)
(*                                                                         *)
(* A text is a sequence of words and a delimiter is one word; the word of  *)
(* a template token is the tuple of the parts it is spelled with.  Roles   *)
(* are written in small letters.                                           *)
(***************************************************************************)
EXTENDS Naturals, Sequences, SequencesExt, FiniteSets, FiniteSetsExt

CONSTANTS
    Metadata,       \* metadata of models: a template and tokens, <<>> for none
    Explicit,       \* profiles of the configuration
    ToolLists,      \* the tools of a request as compact JSON, <<>> for none
    Utterances,     \* the messages of a conversation
    MaxUtterances   \* bound: messages

VARIABLES
    profile,        \* ModelProfile, and what it was resolved from
    request,        \* the tools, and whether the model is to think
    conversation,   \* the messages
    prompt,         \* the prompt of the conversation
    earlier         \* the prompt before its last message

promptVars == <<profile, request, conversation, prompt, earlier>>

Word(text) == <<text>>

NewLine == Word("newline")

----------------------------------------------------------------------------
(* Profiles.                                                               *)

\* template_token_containing: the first token between <| and |> with the marker in it;
\* the search ends at a <| that is not closed.
TokenContaining(template, marker) ==
    FoldLeft(
        LAMBDA found, i :
            LET ends == {j \in i + 1..Len(template) : template[j] = "|>"}
                token == SubSeq(template, i, Min(ends))
            IN  CASE i < found.next \/ found.token # <<>> \/ template[i] # "<|" -> found
                  [] i >= found.next /\ ends = {} -> [found EXCEPT !.next = Len(template) + 1]
                  [] OTHER -> [next |-> Min(ends) + 1,
                               token |-> IF Contains(token, marker) THEN token ELSE <<>>],
        [next |-> 1, token |-> <<>>], [i \in DOMAIN template |-> i]).token

Either(token, other) == IF token # <<>> THEN token ELSE other

Legacy ==
    [kind |-> "legacy", textStart |-> <<>>, start |-> <<"<|", "im_start", "|>">>,
     end |-> <<"<|", "im_end", "|>">>, callStart |-> Word("<tool_call>"),
     callEnd |-> Word("</tool_call>"), instruction |-> <<>>]

\* config_from_metadata
Derived(metadata) ==
    LET Token(marker) == TokenContaining(metadata.template, marker)
        bos == IF Contains(metadata.template, "bos_token") THEN metadata.bos ELSE <<>>
        textStart == Either(Token("startoftext"), bos)
        callStart == Either(Token("tool_call_start"), metadata.callStart)
        callEnd == Either(Token("tool_call_end"), metadata.callEnd)
        tools == callStart # <<>> /\ callEnd # <<>>
    IN  IF <<>> \in {textStart, Token("im_start"), Token("im_end")} THEN Legacy
        ELSE [kind |-> IF tools THEN "delimited" ELSE "text only",
              textStart |-> textStart, start |-> Token("im_start"), end |-> Token("im_end"),
              callStart |-> IF tools THEN callStart ELSE <<>>,
              callEnd |-> IF tools THEN callEnd ELSE <<>>, instruction |-> <<>>]

\* from_config
UsableProfile(config) ==
    \/ config.kind = "legacy"
    \/ /\ <<>> \notin {config.textStart, config.start, config.end}
       /\ config.start # config.end
       /\ config.kind = "delimited" =>
             /\ <<>> \notin {config.callStart, config.callEnd}
             /\ config.callStart # config.callEnd

----------------------------------------------------------------------------
(* Rendering.  A prompt is refused, or it is a text.                       *)

\* json_with_template_spacing: a character at a time.
Spaced(compact) ==
    FoldLeft(
        LAMBDA done, c :
            IF done.inString
            THEN [text |-> Append(done.text, c),
                  inString |-> done.escaped \/ c # Word("quote"),
                  escaped |-> ~done.escaped /\ c = Word("backslash")]
            ELSE [text |-> done.text \o IF c \in {Word("comma"), Word("colon")}
                                        THEN <<c, Word("space")>> ELSE <<c>>,
                  inString |-> c = Word("quote"), escaped |-> FALSE],
        [text |-> <<>>, inString |-> FALSE, escaped |-> FALSE], compact).text

System(role) == role \in {"system", "developer"}

\* The role that is written: Role of chatml.rs knows four.
Shown(role) ==
    IF System(role) THEN "system"
    ELSE IF profile.kind = "legacy" /\ role \notin {"assistant", "tool"} THEN "user" ELSE role

Header(message) ==
    <<profile.start, Word(Shown(message.role))>>
        \o (IF message.name = <<>> THEN <<>> ELSE <<Word("colon"), message.name>>) \o <<NewLine>>

Footer == <<profile.end, NewLine>>

\* append_native_system_instructions; the text before tells whether a line is open.
NativeInstructions(text) ==
    (IF request.tools = <<>> THEN <<>>
     ELSE (IF text # <<>> /\ Last(text) = NewLine THEN <<>> ELSE <<NewLine>>)
          \o <<Word("List of tools")>> \o Spaced(request.tools))
    \o (IF request.thinking THEN <<NewLine, profile.instruction>> ELSE <<>>)

\* append_tool_and_thinking_instructions
LegacyInstructions ==
    (IF request.tools = <<>> THEN <<>>
     ELSE <<NewLine, Word("List of tools"), NewLine>> \o request.tools
          \o <<NewLine, Word("</tools>"), NewLine, Word("To invoke a tool"), NewLine>>)
    \o (IF request.thinking THEN <<NewLine, Word("Think concisely"), NewLine>> ELSE <<>>)

Instructions(text) ==
    CASE profile.kind = "legacy" -> LegacyInstructions
      [] profile.kind = "delimited" -> NativeInstructions(text)
      [] OTHER -> <<>>

\* A message that has no system message to put the instructions in.
Injected ==
    <<profile.start, Word("system"), NewLine>>
    \o (IF profile.kind = "legacy" THEN <<Word("default prompt")>> ELSE <<>>)
    \o Instructions(<<NewLine>>) \o Footer

\* The legacy profile writes every call with its tags, whoever made it; format_python_tool_calls
\* writes those of an assistant as one list.
WrittenCalls(message) ==
    LET calls == message.calls
        break == IF message.content # <<>> THEN <<NewLine>> ELSE <<>>
        Separated(separator) == [i \in DOMAIN calls |-> IF i = 1 THEN <<calls[i].text>>
                                                     ELSE <<separator, calls[i].text>>]
    IN  CASE calls = <<>> \/ profile.kind = "text only" -> <<>>
          [] profile.kind = "legacy" ->
               FlattenSeq([i \in DOMAIN calls |->
                   (IF i = 1 THEN break ELSE <<NewLine>>)
                   \o <<profile.callStart, calls[i].text, profile.callEnd>>])
          [] profile.kind = "delimited" /\ message.role = "assistant" ->
               break \o <<profile.callStart>> \o FlattenSeq(Separated(Word("comma")))
               \o <<profile.callEnd>>
          [] OTHER -> <<>>

\* injected_tools of the native renderer tells only that tools were listed.
InstructionsGiven == profile.kind = "legacy" \/ request.tools # <<>>

InstructedAtEverySystem(rendered, message) ==
    IF ~System(message.role) THEN rendered
    ELSE [text |-> rendered.text \o Instructions(rendered.text), injected |-> InstructionsGiven]

\* The instructions follow the first system message.
Instructed(rendered, message) ==
    IF ~System(message.role) \/ rendered.injected THEN rendered
    ELSE [text |-> rendered.text \o Instructions(rendered.text),
          injected |-> InstructionsGiven]

\* Legacy messages take their calls into their content before.
WithMessage(rendered, message) ==
    LET begun == [rendered EXCEPT !.text = @ \o Header(message) \o message.content]
        calls == WrittenCalls(message)
        done == IF profile.kind = "legacy"
                THEN Instructed([begun EXCEPT !.text = @ \o calls], message)
                ELSE LET instructed == Instructed(begun, message)
                     IN  [instructed EXCEPT !.text = @ \o calls]
    IN  [done EXCEPT !.text = @ \o Footer]

HasSystem(messages) == \E i \in DOMAIN messages : System(messages[i].role)

\* What a renderer refuses.
Refuses(messages) ==
    CASE profile.kind = "text only" ->
           \/ request.thinking \/ request.tools # <<>>
           \/ \E i \in DOMAIN messages : messages[i].calls # <<>> \/ messages[i].role = "tool"
      [] profile.kind = "delimited" ->
           \/ request.thinking /\ profile.instruction = <<>>
           \/ \E i \in DOMAIN messages :
                 /\ messages[i].role = "assistant"
                 /\ \E j \in DOMAIN messages[i].calls : ~messages[i].calls[j].object
      [] OTHER -> FALSE

\* render_prompt
Rendered(messages) ==
    LET wanted == profile.kind # "text only" /\ (request.tools # <<>> \/ request.thinking)
        before == profile.textStart
        injected == ~HasSystem(messages) /\ wanted
        start == [text |-> (IF before = <<>> THEN <<>> ELSE <<before>>)
                           \o (IF injected THEN Injected ELSE <<>>),
                  injected |-> injected /\ profile.kind = "delimited" /\ request.tools # <<>>]
    IN  IF Refuses(messages) THEN [ok |-> FALSE, text |-> <<>>]
        ELSE [ok |-> TRUE,
              text |-> FoldLeft(WithMessage, start, messages).text
                       \o <<profile.start, Word("assistant"), NewLine>>]

----------------------------------------------------------------------------
NoProfile == [Legacy EXCEPT !.kind = "none"]

NoPrompt == [ok |-> FALSE, text |-> <<>>]

PromptInit ==
    /\ profile = NoProfile
    /\ request = [tools |-> <<>>, thinking |-> FALSE]
    /\ conversation = <<>>
    /\ prompt = NoPrompt
    /\ earlier = NoPrompt

\* resolve: a profile of the configuration goes first; one that cannot be used refuses.
Resolve ==
    /\ profile = NoProfile
    /\ \E config \in Explicit \cup {Derived(metadata) : metadata \in Metadata} :
          UsableProfile(config) /\ profile' = config
    /\ \E tools \in ToolLists, thinking \in BOOLEAN :
          request' = [tools |-> tools, thinking |-> thinking]
    /\ UNCHANGED <<conversation, prompt, earlier>>

\* The conversation goes on, and is rendered as a whole.
Say ==
    /\ profile # NoProfile
    /\ Len(conversation) < MaxUtterances
    /\ \E message \in Utterances : conversation' = Append(conversation, message)
    /\ prompt' = Rendered(conversation')
    /\ earlier' = prompt
    /\ UNCHANGED <<profile, request>>

PromptNext == Resolve \/ Say

----------------------------------------------------------------------------
(* Properties.                                                             *)

Times(word) == Cardinality({i \in DOMAIN prompt.text : prompt.text[i] = word})

PlacesOf(word) == SetToSortSeq({i \in DOMAIN prompt.text : prompt.text[i] = word}, <)

Ours == conversation # <<>> /\ prompt.ok

\* Every message is between its delimiters, and the last one is left open for the answer.
Framed ==
    LET starts == PlacesOf(profile.start)
        ends == PlacesOf(profile.end)
    IN  /\ Len(ends) + 1 = Len(starts)
        /\ Len(ends) - Len(conversation) \in {0, 1}
        /\ \A i \in DOMAIN ends : starts[i] < ends[i] /\ ends[i] < starts[i + 1]
        /\ Last(starts) = Len(prompt.text) - 2

\* The tools are listed once.  The model is told to think once, or in every system message
\* of a native prompt without tools.
InstructedRight ==
    LET systems == Cardinality({i \in DOMAIN conversation : System(conversation[i].role)})
        thought == IF profile.kind = "legacy" THEN Word("Think concisely") ELSE profile.instruction
    IN  /\ Times(Word("List of tools")) = IF request.tools = <<>> THEN 0 ELSE 1
        /\ request.thinking =>
              IF profile.kind = "legacy" \/ request.tools # <<>> THEN Times(thought) = 1
              ELSE Times(thought) = Max({1, systems})

\* A separator outside of a string is followed by a space; nothing else is changed.
SpacedRight ==
    LET json == request.tools
        Escaped(i) == \E n \in 1..i - 1 :
            /\ n % 2 = 1
            /\ \A j \in i - n..i - 1 : json[j] = Word("backslash")
            /\ (i - n - 1 \in DOMAIN json => json[i - n - 1] # Word("backslash"))
        Quotes(i) == {j \in 1..i - 1 : json[j] = Word("quote") /\ ~Escaped(j)}
        Outside(i) == Cardinality(Quotes(i)) % 2 = 0
    IN  Spaced(json) = FlattenSeq([i \in DOMAIN json |->
            IF Outside(i) /\ json[i] \in {Word("comma"), Word("colon")}
            THEN <<json[i], Word("space")>> ELSE <<json[i]>>])

\* What was said is there as it was said, in its order, and so are the calls.
Said ==
    LET told == {conversation[i].content[1] : i \in
                    {j \in DOMAIN conversation : conversation[j].content # <<>>}}
                \cup UNION {{call.text : call \in ToSet(conversation[i].calls)} :
                               i \in DOMAIN conversation}
    IN  SelectSeq(prompt.text, LAMBDA word : word \in told) =
        FlattenSeq([i \in DOMAIN conversation |->
            conversation[i].content
            \o IF profile.kind = "legacy" \/ conversation[i].role = "assistant"
               THEN [j \in DOMAIN conversation[i].calls |-> conversation[i].calls[j].text]
               ELSE <<>>])

\* The prompt of a conversation that goes on begins with the prompt before, and with an
\* answer that has been said as it was generated: what is cached of it can be used again.
\* Only the first system message of a request with instructions changes what comes before.
Extends ==
    LET message == Last(conversation)
        moved == /\ System(message.role) /\ ~HasSystem(Front(conversation))
                 /\ request.tools # <<>> \/ request.thinking
    IN  earlier.ok /\ ~moved =>
            /\ \/ message.role # "assistant" \/ message.name # <<>>
               \/ IsPrefix(earlier.text \o message.content, prompt.text)
            /\ IsPrefix(Front(Front(earlier.text)), prompt.text)

PromptsRight == SpacedRight /\ (Ours => Framed /\ InstructedRight /\ Said /\ Extends)

=============================================================================
