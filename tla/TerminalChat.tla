---------------------------- MODULE TerminalChat ----------------------------
(***************************************************************************)
(* The chat of the command line: the conversation and its slash commands   *)
(* (crates/mivi-cli/src/runners/chat.rs) and the filter that turns the     *)
(* text of the model, token by token, into answer, thoughts and tool calls *)
(* on the terminal (runners/chat_stream.rs).                               *)
(*                                                                         *)
(* Text is a sequence of symbols, in which "h" stands for the letters      *)
(* "hink" and "o" for "ool_cal": the tags are spelled as far as the filter *)
(* tells their beginnings apart.  A prompt is as long as its messages and  *)
(* one more.  Commands that only print or change sampling are left out.    *)
(***************************************************************************)
EXTENDS Naturals, Sequences, SequencesExt

CONSTANTS
    Texts,           \* bound: what the model may have to say in each turn
    LongestToken,    \* bound: symbols handed to the filter at a time
    Personas,        \* the system prompts a user may set
    Sizes,           \* bound: tokens of a line of the user
    MaxContext,      \* max_seq_len
    MaxTokens        \* max_tokens of an answer

ASSUME ChatAssumption ==
    /\ MaxContext \in Nat \ {0}
    /\ MaxTokens \in Nat \ {0}
    /\ Sizes \subseteq Nat
    /\ LongestToken \in Nat

VARIABLES
    turn,       \* prompt, answering, answered or over
    talk,       \* conversation_history
    persona,    \* system_prompt
    known,      \* the length of cached_tokens
    bos,        \* 1 if the model puts a beginning-of-text token before the prompt
    held,       \* the positions the KV cache of the model holds
    filter,     \* stream_filter, and what it has put on the screen
    text,       \* what the model says in this turn
    cuts,       \* the lengths at which its tokens end; the code keeps no such record
    turns       \* the lines entered so far, for the bound

chatVars == <<turn, talk, persona, known, bos, held, filter, text, cuts, turns>>

----------------------------------------------------------------------------
(* StreamFilter.                                                           *)

ThinkOpen == <<"<", "t", "h", ">">>
ThinkClose == <<"<", "/", "t", "h", ">">>
ToolOpen == <<"<", "t", "o", "l", ">">>
ToolClose == <<"<", "/", "t", "o", "l", ">">>

Exit(tag, to) == [tag |-> tag, to |-> to]

\* With the two opening tags the other way round.
ToolsFirst == [normal   |-> <<Exit(ToolOpen, "tool"), Exit(ThinkOpen, "thinking")>>,
               thinking |-> <<Exit(ThinkClose, "normal")>>,
               tool     |-> <<Exit(ToolClose, "normal")>>]

\* The tags each state looks for, in turn.
Exits == [normal   |-> <<Exit(ThinkOpen, "thinking"), Exit(ToolOpen, "tool")>>,
          thinking |-> <<Exit(ThinkClose, "normal")>>,
          tool     |-> <<Exit(ToolClose, "normal")>>]

Beginnings(tag) == {SubSeq(tag, 1, n) : n \in 1..(Len(tag) - 1)}

NoneHeldBack(state) == {}

\* The ends of the buffer that are held back.  The list for the opening tags
\* leaves one out: <tool_call without its bracket.
HeldBack(state) ==
    CASE state = "normal" -> Beginnings(ThinkOpen) \cup (Beginnings(ToolOpen) \ {Front(ToolOpen)})
      [] state = "thinking" -> Beginnings(ThinkClose)
      [] state = "tool" -> Beginnings(ToolClose)

\* Where a tag begins in a text at or after a place, 0 if nowhere.
Find(s, tag, from) ==
    SelectInSeq([i \in DOMAIN s |-> i],
                LAMBDA i : i >= from /\ IsPrefix(tag, SubSeq(s, i, Len(s))))

On(kind, s) == [i \in DOMAIN s |-> <<kind, s[i]>>]

\* Text goes to the screen or into the call that is being read.
Taken(f, s) ==
    IF f.state = "tool" THEN [f EXCEPT !.tool = @ \o s]
    ELSE [f EXCEPT !.screen = @ \o On(f.state, s)]

\* A call is complete.
Rendered(f) ==
    IF f.state = "tool"
    THEN [f EXCEPT !.screen = Append(@, <<"call", f.tool>>), !.tool = <<>>]
    ELSE f

\* One round of the loop in on_token.
Round(f) ==
    LET exits == Exits[f.state]
        i == SelectInSeq(exits, LAMBDA exit : Find(f.buffer, exit.tag, 1) > 0)
    IN  IF i > 0
        THEN LET at == Find(f.buffer, exits[i].tag, 1)
                 done == Rendered(Taken(f, SubSeq(f.buffer, 1, at - 1)))
             IN  [done EXCEPT
                     !.buffer = SubSeq(@, at + Len(exits[i].tag), Len(@)),
                     !.state = exits[i].to]
        ELSE IF \E part \in HeldBack(f.state) : IsSuffix(part, f.buffer)
        THEN [f EXCEPT !.more = FALSE]
        ELSE [Taken(f, f.buffer) EXCEPT !.buffer = <<>>, !.more = FALSE]

OnToken(f, token) ==
    LET fed == [f EXCEPT !.buffer = @ \o token, !.more = TRUE]
    IN  FoldLeft(LAMBDA g, i : IF g.more THEN Round(g) ELSE g, fed,
                 [i \in 1..(Len(fed.buffer) + 1) |-> i])

\* finish: a call that was not closed is rendered only if part of a closing tag
\* was held back.
Finished(f) == IF f.buffer = <<>> THEN f ELSE Rendered(Taken(f, f.buffer))

NewFilter ==
    [state |-> "normal", buffer |-> <<>>, tool |-> <<>>, screen |-> <<>>, more |-> FALSE]

----------------------------------------------------------------------------
(* The conversation.                                                       *)

Message(role, size, content) == [role |-> role, size |-> size, content |-> content]

SystemMessage(p) == IF p = "none" THEN <<>> ELSE <<Message("system", 1, p)>>

\* The length of format_chatml in tokens.
PromptLength(messages) == FoldLeft(LAMBDA n, m : n + m.size, 1, messages)

Crowded(messages) == PromptLength(messages) + MaxTokens >= (MaxContext * 85) \div 100

OldestGoes(messages) == IF Len(messages) > 1 THEN Tail(messages) ELSE messages

\* The oldest message goes, but neither the system prompt nor the last message.
WithoutOldest(messages) ==
    LET i == SelectInSeq(messages, LAMBDA m : m.role # "system")
    IN  IF i = 0 \/ i = Len(messages) THEN messages ELSE RemoveAt(messages, i)

\* The sliding window.
Trimmed(messages) ==
    IF PromptLength(messages) + MaxTokens < MaxContext THEN messages
    ELSE FoldLeft(LAMBDA kept, m : IF Crowded(kept) THEN WithoutOldest(kept) ELSE kept,
                  messages, messages)

\* A line that is no command: the prompt is built again and prefilled from
\* position 0, after the token the model may put before it, which the chat does
\* not count.  What is too long then ends the program.
Say(size) ==
    LET asked == Append(talk, Message("user", size, "line"))
        kept == Trimmed(asked)
    IN  /\ turn = "prompt"
        /\ turns < Len(Texts)
        /\ turns' = turns + 1
        /\ talk' = kept
        /\ known' = IF kept = asked THEN known ELSE 0
        /\ IF PromptLength(kept) + bos > MaxContext
           THEN turn' = "over" /\ held' = 0
           ELSE turn' = "answering" /\ held' = PromptLength(kept) + bos
        /\ filter' = NewFilter
        /\ text' \in Texts[turns']
        /\ cuts' = {}
        /\ UNCHANGED <<persona, bos>>

Fed == Max(cuts \cup {0})

\* A token is drawn and its text handed to the filter.  Unless it completes a
\* stop sequence it is processed as well.
Draw(n) ==
    /\ turn = "answering"
    /\ Cardinality(cuts) < MaxTokens
    /\ held < MaxContext
    /\ Fed + n <= Len(text)
    /\ filter' = OnToken(filter, SubSeq(text, Fed + 1, Fed + n))
    /\ cuts' = cuts \cup {Fed + n}
    /\ \/ turn' = "answered" /\ UNCHANGED held
       \/ held' = held + 1 /\ UNCHANGED turn
    /\ UNCHANGED <<talk, persona, known, bos, text, turns>>

Said == SubSeq(text, 1, Fed)

\* generate_tokens_incremental returns.  The first token is never an end token.
EndTurn ==
    LET answer == Message("assistant", Cardinality(cuts), "answer")
    IN  /\ \/ turn = "answered"
           \/ turn = "answering" /\ (cuts # {} \/ held = MaxContext)
        /\ turn' = "prompt"
        /\ filter' = Finished(filter)
        /\ known' = PromptLength(talk) + Cardinality(cuts)
        /\ talk' = IF ToSet(Said) \subseteq {" "} THEN talk ELSE Append(talk, answer)
        /\ UNCHANGED <<persona, bos, held, text, cuts, turns>>

\* The filter is a local of the round of the loop that has ended.
NextRound == filter' = NewFilter /\ text' = <<>> /\ cuts' = {} /\ UNCHANGED bos

\* What every command that changes the conversation does to the model.
Forgotten == known' = 0 /\ held' = 0

\* /clear and /reset.
ClearHistory ==
    /\ turn = "prompt"
    /\ talk' = SystemMessage(persona)
    /\ Forgotten
    /\ NextRound
    /\ UNCHANGED <<turn, persona, turns>>

\* /system <text>
SetSystem(p) ==
    /\ turn = "prompt"
    /\ persona' = p
    /\ talk' = SystemMessage(p) \o SelectSeq(talk, LAMBDA m : m.role # "system")
    /\ Forgotten
    /\ NextRound
    /\ UNCHANGED <<turn, turns>>

\* /thinking
ToggleThinking ==
    /\ turn = "prompt"
    /\ Forgotten
    /\ NextRound
    /\ UNCHANGED <<turn, talk, persona, turns>>

\* /exit, /quit, exit, quit and the end of the input.
Quit ==
    /\ turn = "prompt"
    /\ turn' = "over"
    /\ NextRound
    /\ UNCHANGED <<talk, persona, known, held, turns>>

ChatInit ==
    /\ turn = "prompt"
    /\ persona = "none"
    /\ talk = <<>>
    /\ known = 0
    /\ bos \in {0, 1}
    /\ held = 0
    /\ filter = NewFilter
    /\ text = <<>>
    /\ cuts = {}
    /\ turns = 0

ChatNext ==
    \/ \E size \in Sizes : Say(size)
    \/ \E n \in 1..LongestToken : Draw(n)
    \/ EndTurn
    \/ ClearHistory
    \/ \E p \in Personas : SetSystem(p)
    \/ ToggleThinking
    \/ Quit

ChatSpec == ChatInit /\ [][ChatNext]_chatVars

----------------------------------------------------------------------------
(* Properties.                                                             *)

\* What a text is, read from left to right as a whole.  A tag counts only where the
\* one before has been closed, and one that opens a call only where Counts says so.
Reading(s, Counts(_)) ==
    LET At(tag, i) == IsPrefix(tag, SubSeq(s, i, Len(s)))
        Unclosed(i) ==
            IF \E part \in Beginnings(ToolClose) : IsSuffix(part, SubSeq(s, i, Len(s)))
            THEN <<<<"call", SubSeq(s, i, Len(s))>>>> ELSE <<>>
        from[state \in {"normal", "thinking", "tool"}, i \in 1..(Len(s) + 1)] ==
            LET close == Find(s, ToolClose, i)
            IN  CASE state = "tool" ->
                       IF close = 0 THEN Unclosed(i)
                       ELSE <<<<"call", SubSeq(s, i, close - 1)>>>>
                                \o from["normal", close + Len(ToolClose)]
                  [] state # "tool" /\ i > Len(s) -> <<>>
                  [] state = "normal" /\ At(ThinkOpen, i) -> from["thinking", i + Len(ThinkOpen)]
                  [] state = "normal" /\ At(ToolOpen, i) /\ Counts(i) -> from["tool", i + Len(ToolOpen)]
                  [] state = "thinking" /\ At(ThinkClose, i) -> from["normal", i + Len(ThinkClose)]
                  [] OTHER -> <<<<state, s[i]>>>> \o from[state, i + 1]
    IN  from["normal", 1]

\* What the filter is meant to make of a text
Meaning(s) == Reading(s, LAMBDA i : TRUE)

\* When an answer has ended the screen shows what the filter is meant to show.
TagsRecognised == turn = "prompt" => filter.screen = Meaning(Said)

\* A tag that opens a call is seen unless a token ended right before its bracket,
\* or a thought opens behind it in the token that completes it.
Seen(s, i) ==
    LET end == i + Len(ToolOpen) - 1
        fed == Min({cut \in cuts \cup {Len(s)} : cut >= end})
    IN  end - 1 \notin cuts /\ Find(SubSeq(s, 1, fed), ThinkOpen, i) = 0

\* What the filter makes of a text that these tokens have cut
Shown(s) == Reading(s, LAMBDA i : Seen(s, i))

\* However the tokens cut the text, what has been printed never has to be taken
\* back, and in the end the screen shows the whole text, each symbol once and in
\* its place, as answer, thought or call, by the tags that are seen.
ScreenRight ==
    /\ turn \in {"answering", "answered"} =>
          \E rest \in {<<>>, ToolClose, ThinkClose} : IsPrefix(filter.screen, Shown(Said \o rest))
    /\ turn = "prompt" => filter.screen = Shown(Said)

\* A prompt ends with the line just entered, begins with the system prompt in
\* effect and leaves room for the answer unless there is nothing left to trim.
PromptRight ==
    turn \in {"answering", "answered"} =>
        /\ Last(talk).role = "user"
        /\ SelectSeq(talk, LAMBDA m : m.role = "system") = SystemMessage(persona)
        /\ persona # "none" => Head(talk).role = "system"
        /\ \/ PromptLength(talk) + MaxTokens < MaxContext
           \/ Len(talk) = Len(SystemMessage(persona)) + 1

\* Between two turns cached_tokens is what the KV cache holds, but for the token
\* that begins it and a last token that was drawn and not processed.
CacheKnown ==
    turn = "prompt" => IF known = 0 THEN held = 0 ELSE known + bos \in {held, held + 1}

\* Terminal, conversation and model agree in every turn.
TerminalChatRight ==
    /\ ScreenRight
    /\ PromptRight
    /\ CacheKnown

============================================================================
