------------------------------ MODULE MCFiles -------------------------------
(* The files of the program: workspaces that the tools change, with a      *)
(* directory or a file outside to which links lead or may come to lead,    *)
(* the documents that the caches and stores save, and the files of models. *)
EXTENDS WorkspaceFiles, SavedFiles, ModelFile

MCTrees ==
    {<<Directory([d |-> 2]), Directory([f |-> 3]), File(<<"old", "old">>)>>,
     <<Directory([d |-> 2, e |-> 3, f |-> 4]), Link(4), Link(5), Directory(Empty), File(<<"outer">>)>>,
     <<Directory(Empty), Directory([f |-> 3]), File(<<"outer">>)>>}

MCPaths == {<<"f">>, <<"d", "f">>, <<"d">>}

MCCacheDocs ==
    {[path |-> "a.kvc", modelHash |-> 7, tokens |-> <<1, 2>>,
      state |-> [pos |-> 2, standalone |-> 5, k |-> <<11, 12>>, v |-> <<21>>,
                 conv |-> <<31>>, hidden |-> <<>>]],
     [path |-> "a.kvc", modelHash |-> 8, tokens |-> <<3>>,
      state |-> [pos |-> 1, standalone |-> 0, k |-> <<13>>, v |-> <<>>,
                 conv |-> <<>>, hidden |-> <<41, 42>>]],
     [path |-> "b.kvc", modelHash |-> 7, tokens |-> <<>>,
      state |-> [pos |-> 0, standalone |-> 0, k |-> <<>>, v |-> <<>>,
                 conv |-> <<>>, hidden |-> <<>>]]}

MCRecordFields ==
    [id |-> "r", type |-> "semantic", title |-> "t", importance |-> "0", fraction |-> "7"]

MCRecordDocs ==
    {[path |-> "r.md", fields |-> MCRecordFields,
      content |-> <<<<"text">>, LineEnd>> \o Fence \o <<LineEnd, <<"text">>>>],
     [path |-> "r.md", fields |-> [MCRecordFields EXCEPT !.title = "u"],
      content |-> <<LineEnd, CarriageReturn, LineEnd>> \o Fence]}

MCJsonDocs ==
    {[path |-> "i.json", entries |-> <<<<"e1">>, <<"e2">>>>], [path |-> "i.json", entries |-> <<>>]}

\* Models of one layer or two, with the names of either family, as the exporter of the fixtures
\* and other tools order them.
MCLayer(kind, l, short, normed) ==
    LET name(long, brief) == <<l, IF short THEN brief ELSE long>>
        vector(s, n) == [name |-> s, dims |-> <<n>>, type |-> "F32"]
        matrix(s, rows, columns) == [name |-> s, dims |-> <<columns, rows>>, type |-> "Q8_0"]
    IN  (IF kind = "ssm"
         THEN <<vector(name("ssm_norm", "attn_norm"), 32),
                matrix(name("ssm_in", "shortconv.in_proj"), 96, 32),
                [name |-> name("ssm_conv", "shortconv.conv"), dims |-> <<3, 32>>, type |-> "F16"],
                matrix(name("ssm_out", "shortconv.out_proj"), 32, 32)>>
         ELSE <<vector(<<l, "attn_norm">>, 32)>>
              \o (IF normed THEN <<vector(<<l, "attn_q_norm">>, 16), vector(<<l, "attn_k_norm">>, 16)>>
                  ELSE <<>>)
              \o <<matrix(<<l, "attn_q">>, 32, 32), matrix(<<l, "attn_k">>, 16, 32),
                   matrix(<<l, "attn_v">>, 16, 32), matrix(<<l, "attn_output">>, 32, 32)>>)
        \o <<vector(<<l, "ffn_norm">>, 32), matrix(<<l, "ffn_gate">>, 64, 32),
             matrix(<<l, "ffn_up">>, 64, 32), matrix(<<l, "ffn_down">>, 32, 64)>>

MCExport(kinds, short, normed, head, align) ==
    LET prefix == IF short THEN "lfm2" ELSE "lfm"
        global(s) == [name |-> <<0, s>>, dims |-> <<32, 3>>, type |-> "Q8_0"]
        norm(s) == [name |-> <<0, s>>, dims |-> <<32>>, type |-> "F32"]
        stated == ("embedding_length" :> 32) @@ ("feed_forward_length" :> 64)
                  @@ ("attention.head_count" :> 2) @@ ("block_count" :> Len(kinds))
    IN  [meta |-> [numbers |-> [k \in {prefix} \X DOMAIN stated |-> stated[k[2]]]
                              @@ [k \in {"lfm2"} \X {"block_count"} |-> 9],
                   kvHeads |-> prefix :> [scalar |-> ~short, values |-> IF short THEN <<0, 1>> ELSE <<1>>],
                   tokens |-> 3, alignment |-> IF align = 32 THEN 0 ELSE align],
         headerBytes |-> 70, alignment |-> align, sound |-> TRUE,
         tensors |->
            <<global("token_embd")>>
            \o (IF head = "first" THEN <<global("output"), norm("output_norm")>> ELSE <<>>)
            \o FlattenSeq([l \in 1..Len(kinds) |-> MCLayer(kinds[l], l, short, normed)])
            \o (IF head = "last" THEN <<norm("output_norm"), global("lm_head")>> ELSE <<>>)
            \o (IF head = "none" THEN <<norm("token_embd_norm")>> ELSE <<>>)]

\* One thing is stated wrongly, or cannot be used.
MCUnsound ==
    LET e == MCExport(<<"ssm", "attention">>, FALSE, FALSE, "none", 32)
        h == MCExport(<<"ssm", "attention">>, FALSE, TRUE, "first", 64)
        number(x, key, n) == [x EXCEPT !.meta.numbers[<<"lfm", key>>] = n, !.sound = FALSE]
    IN  {[e EXCEPT !.meta.tokens = 4, !.sound = FALSE], [e EXCEPT !.meta.tokens = -1, !.sound = FALSE],
         [h EXCEPT !.meta.tokens = 2, !.sound = FALSE],
         [h EXCEPT !.tensors[1].dims = <<32, 2>>, !.sound = FALSE], number(e, "feed_forward_length", 96),
         number(e, "attention.head_count", 3), number(h, "attention.head_count", 1),
         number(e, "embedding_length", -1), number(e, "block_count", 3),
         [e EXCEPT !.tensors[3].type = "IQ1_S", !.sound = FALSE],
         [h EXCEPT !.tensors[7].type = "Q4_0", !.sound = FALSE]}

MCExports ==
    {MCExport(kinds, short, normed, head, align) :
        kinds \in {<<"ssm">>, <<"attention">>, <<"ssm", "attention">>}, short \in BOOLEAN,
        normed \in BOOLEAN, head \in {"first", "last", "none"}, align \in {32, 64}}
    \cup MCUnsound

\* Files of the workspace change as a whole or not at all, as the calls report; of a cache or
\* a list that a crash has cut all is read or nothing, of a record its fields and the beginning
\* of its content, or, cut in its last field, another importance and no content; and a model
\* computes from the bytes that were written for its parameters, wherever the writer has stopped.
FilesWhole == FilesRight /\ SavedFilesRight /\ ModelFileRight

=============================================================================
