---------------------------- MODULE MCGeneration ----------------------------
(* The parts between the tokens of a model and the text of an answer, and  *)
(* the files of the program, each explored by itself: an initial state     *)
(* chooses the part that moves.                                            *)
EXTENDS AnswerText, ToolCallStream, LayerTiles, WeightProducts, JsonMode, Sampling,
        MCTerminalChat, MCFiles

CONSTANTS
    a, b, u, w1, w2,
    Parts           \* the components to explore

VARIABLE part       \* the component that moves

----------------------------------------------------------------------------
(* Bounds.                                                                 *)

MCTokens == {<<a>>, <<b>>, <<a, b>>, <<b, Lead>>, <<Cont>>, <<Lead, Cont, Cont>>}

MCStopLists ==
    {<<>>, <<<<b, a>>>>, <<<<a, b>>, <<b>>>>, <<<<b, b>>, <<a, b, a>>>>,
     <<<<b, b>>, <<a, Wide>>, <<Bad>>>>}

MCForcedPrefixes == {<<>>, <<a, a>>}

MCDelimiter == <<a, a, b>>

MCPlainValues ==
    {<<"1", "1">>, <<"q", ")", ",", "=", "(", "q">>, <<"[", "1", ",", "1", "]">>}

\* Numbers that are printed as they are written, longer, shorter, or quite differently
MCValues ==
    MCPlainValues \cup
    {<<"q", "q">>, <<"-", "1">>, <<"1", ".", "1", "0">>, <<"1", "e", "1">>, <<"0", ".", "0">>,
     <<"-", "0", ".", "5">>, <<"1", "e", "-", "1">>, <<"2", "e", "9">>, <<"1", "1", "1", "0">>,
     <<"1", "e", "-", "9">>, <<"[", "-", "0", ",", "1", "e", "1", "]">>}

MCFields ==
    {<<>>} \cup {<<[key |-> "k", value |-> v]>> : v \in MCValues}
    \cup {<<[key |-> "k", value |-> v], [key |-> "j", value |-> w]>> :
              v \in MCPlainValues, w \in MCValues}
    \cup {<<[key |-> "k", value |-> v], [key |-> "j", value |-> w]>> :
              v \in MCValues, w \in MCPlainValues}

MCCallLists ==
    LET first == {[name |-> "f", fields |-> fields] : fields \in MCFields}
        second == [name |-> "g", fields |-> <<>>]
    IN  {<<>>} \cup {<<call>> : call \in first} \cup {<<call, second>> : call \in first}

MCLayerLists == {<<"ssm", "attention", "ssm">>, <<"attention", "ssm", "attention">>}

MCPrompts == {<<a>>, <<b, a, a>>, <<a, b, b, a>>, <<a, u>>}

MCPieces ==
    LET plain(s) == [entry |-> s, bytes |-> s]
    IN  <<plain(<<"x">>), plain(<<"\"">>), plain(<<"{">>), plain(<<"}">>), plain(<<"[">>),
          plain(<<"]">>), plain(<<":">>), plain(<<",">>), plain(<<"\\">>), plain(<<"0">>),
          plain(<<"1">>), plain(<<"-">>), plain(<<".">>), plain(<<"e">>), plain(<<"t">>),
          plain(<<"t", "r">>), plain(<<" ">>), [entry |-> <<"x">>, bytes |-> <<" ">>],
          [entry |-> <<"x">>, bytes |-> <<Lead>>], plain(<<"\"", ":", "[">>),
          plain(<<"{", "\"">>), plain(<<"\"", "x">>), plain(<<"1", "}">>),
          plain(<<"]", "}">>), plain(<<"x", "x">>), plain(<<"0", ",", "\"">>),
          plain(<<"\n">>)>>

MCLogitLists ==
    [1..3 -> 0..3] \cup {<<2, 1, 3, 1, 2>>, <<3, 3, 1, 3, 0>>, <<1, 1, 1, 1, 1>>}

MCMasks == {0..7, {1, 2}, {3}, {0, 2, 3}}

MCPenalised == {{}, {1}}

MCLimits ==
    {[greedy |-> FALSE, topK |-> k, minP |-> m, topP |-> p] :
        k \in {1, 2, 9}, m \in {0, 60}, p \in {10, 50, 90, 100}}
    \cup {[greedy |-> TRUE, topK |-> 9, minP |-> 0, topP |-> 100]}

MCHistories == UNION {[1..n -> {"a", "b"}] : n \in 0..7}

MCFormats ==
    LET format(elems, bytes, kernel) == [elems |-> elems, bytes |-> bytes, kernel |-> kernel]
    IN  "F32" :> format(1, 4, "f32") @@ "F16" :> format(1, 2, "half")
        @@ "Q8_0" :> format(2, 3, "block") @@ "Q4_K" :> format(4, 5, "block")
        @@ "Q5_0" :> format(2, 5, "none")

\* "IQ1_S" has no block size.
MCProducts ==
    LET BytesOf(type, n) ==
            IF type = "IQ1_S" THEN n ELSE (n \div MCFormats[type].elems) * MCFormats[type].bytes
        Asked(op, type, batch, rows, cols) ==
            {[op |-> op, type |-> type, batch |-> batch, rows |-> rows, cols |-> cols,
              threads |-> threads, vectors |-> vectors, aligned |-> aligned,
              outLen |-> batch * rows + 1, inputLen |-> batch * cols,
              weightLen |-> rows * BytesOf(type, cols)] :
                threads \in IF op = "matvec" THEN {1} ELSE {1, 2, 3},
                vectors \in BOOLEAN,
                aligned \in IF type = "F32" THEN BOOLEAN ELSE {TRUE}}
        Products(ops, types, batches, rowCounts, columns) ==
            UNION {Asked(op, type, batch, rows, cols) :
                op \in ops, type \in types, batch \in batches, rows \in rowCounts, cols \in columns}
        short == Asked("matvec", "Q4_K", 1, 2, 4) \cup Asked("matmul", "Q4_K", 3, 2, 4)
    IN  Products({"matvec"}, DOMAIN MCFormats \cup {"IQ1_S"}, {1}, {0, 1, 5}, {5, 8})
        \cup Products({"matmul"}, DOMAIN MCFormats \cup {"IQ1_S"}, {0, 1, 2, 3, 7}, {0, 5}, {5, 8})
        \cup Products({"matmul"}, {"Q8_0", "Q4_K"}, {8, 11, 16, 27}, {1, 2, 5}, {8})
        \cup Products({"matmul"}, {"F32"}, {9, 19}, {3}, {5})
        \cup {[r EXCEPT !.outLen = @ - 2] : r \in short}
        \cup {[r EXCEPT !.inputLen = @ - 1] : r \in short}
        \cup {[r EXCEPT !.weightLen = @ - 1] : r \in short}

----------------------------------------------------------------------------
\* The choices among tokens: by the sampler and by the JSON of a reply in JSON mode.
ChoicesRight == SamplingRight /\ JsonModeRight

\* What the layers read and write, and the products they are made of.
LayersRight == TilesAgree /\ KernelsRight

----------------------------------------------------------------------------
\* No file of a model, where it is another part that moves
NoModelFile ==
    /\ export = [sound |-> FALSE]
    /\ onDisk = 0
    /\ model = NotLoadedYet
    /\ computed = NotComputed

MCInit ==
    /\ part \in Parts
    /\ TextInit
    /\ StreamInit
    /\ LayerInit
    /\ KernelInit
    /\ JsonInit
    /\ SamplingInit
    /\ ChatInit
    /\ FilesInit
    /\ FilesOnDiskInit
    /\ IF part = "model" THEN ModelFileInit ELSE NoModelFile
    /\ part # "terminal" => bos = 0

generationVars == <<textVars, streamVars, layerVars, kernelVars, jsonVars, samplingVars, chatVars>>

GenerationMoves ==
    /\ \/ /\ part = "text" /\ TextNext
          /\ UNCHANGED <<streamVars, layerVars, kernelVars, jsonVars, samplingVars, chatVars>>
       \/ /\ part = "calls" /\ StreamNext
          /\ UNCHANGED <<textVars, layerVars, kernelVars, jsonVars, samplingVars, chatVars>>
       \/ /\ part = "layers" /\ LayerNext
          /\ UNCHANGED <<textVars, streamVars, kernelVars, jsonVars, samplingVars, chatVars>>
       \/ /\ part = "kernels" /\ KernelNext
          /\ UNCHANGED <<textVars, streamVars, layerVars, jsonVars, samplingVars, chatVars>>
       \/ /\ part = "json" /\ JsonNext
          /\ UNCHANGED <<textVars, streamVars, layerVars, kernelVars, samplingVars, chatVars>>
       \/ /\ part = "sampling" /\ SamplingNext
          /\ UNCHANGED <<textVars, streamVars, layerVars, kernelVars, jsonVars, chatVars>>
       \/ /\ part = "terminal" /\ ChatNext
          /\ UNCHANGED <<textVars, streamVars, layerVars, kernelVars, jsonVars, samplingVars>>
    /\ UNCHANGED <<filesVars, filesOnDiskVars, modelFileVars>>

FilesMove ==
    /\ \/ part = "workspace" /\ FilesNext /\ UNCHANGED <<filesOnDiskVars, modelFileVars>>
       \/ part = "disk" /\ FilesOnDiskNext /\ UNCHANGED <<filesVars, modelFileVars>>
       \/ part = "model" /\ ModelFileNext /\ UNCHANGED <<filesVars, filesOnDiskVars>>
    /\ UNCHANGED generationVars

MCNext == UNCHANGED part /\ (GenerationMoves \/ FilesMove)

\* The calls of the tools differ in nothing but their names.
CallsAlike == Permutations(Calls)

MCSpec == MCInit /\ [][MCNext]_<<part, generationVars, filesVars, filesOnDiskVars, modelFileVars>>

============================================================================
