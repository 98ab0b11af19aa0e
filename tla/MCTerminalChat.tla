--------------------------- MODULE MCTerminalChat ---------------------------
(* One turn with tags in every state of the filter, and two plain ones.    *)
EXTENDS TerminalChat

MCTexts ==
    LET plain == {<<"x">>, <<" ", " ">>}
    IN  <<{<<"x">> \o ThinkOpen \o <<"<">> \o ThinkClose,
           <<"<">> \o ToolOpen \o <<"x">> \o ToolClose,
           ThinkOpen \o ThinkClose \o <<"<", "t">>,
           ToolOpen \o <<"x", "<", "/", "t">>,
           ToolOpen \o ThinkOpen, ThinkOpen \o ToolOpen},
          plain, plain>>

============================================================================
