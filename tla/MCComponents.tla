---------------------------- MODULE MCComponents ----------------------------
(* The components that TLC explores one beside the other in a single run:  *)
(* an initial state chooses the part that moves, and the others rest.      *)
EXTENDS MCPrefixCache, FixtureCapture, FixtureStream, MCStores, MCPrompts, Serving

CONSTANTS
    r1, r2, r3, Nobody

VARIABLES
    part,       \* the component that moves
    queue, job, step, sampler, saved, stream, reply, history,
    handler, outgoing, sse, last

backlogVars ==
    <<queue, job, step, sampler, saved, stream, reply, history, handler, outgoing, sse, last>>

\* Three requests for two permits, with clients that never read.
Backlog == INSTANCE ChatServer WITH
    Requests <- {r1, r2, r3}, Streaming <- {r1}, Seeded <- {}, Tools <- {}, Reading <- {},
    Slots <- 2, QueueCapacity <- 2, StreamCapacity <- 1, EventCapacity <- 1, MaxChunks <- 1,
    sent <- last

BacklogWithinSlots == Backlog!BacklogWithinSlots

----------------------------------------------------------------------------
(* Captured responses of up to four events, among them two calls whose     *)
(* fragments come interleaved.                                             *)
Plain(kind) == [kind |-> kind, content |-> <<>>, fragments |-> <<>>, finish |-> ""]

Delta(content, fragments, finish) ==
    [kind |-> "delta", content |-> content, fragments |-> fragments, finish |-> finish]

Fragment(index, id, name, arguments) ==
    [index |-> index, id |-> id, name |-> name, arguments |-> arguments]

MCFirst == Delta(<<>>, <<Fragment(1, <<"i">>, <<"f">>, <<>>)>>, "")

MCSecond ==
    Delta(<<>>, <<Fragment(1, <<>>, <<>>, <<"a">>), Fragment(0, <<"j">>, <<"g">>, <<"b">>)>>, "")

MCEvents ==
    {Plain(kind) : kind \in {"comment", "error", "malformed", "done"}}
    \cup {MCFirst, MCSecond,
          Delta(<<"x">>, <<>>, ""), Delta(<<>>, <<>>, "stop"), Delta(<<>>, <<>>, "length"),
          Delta(<<>>, <<Fragment(2, <<"i">>, <<"f">>, <<>>)>>, ""),
          Delta(<<"y">>, <<Fragment(1, <<"k">>, <<"f">>, <<>>)>>, "stop")}

MCEventLists ==
    {Append(list, Plain("done")) : list \in UNION {[1..n -> MCEvents] : n \in 0..2}}
    \cup {<<Plain("done"), event>> : event \in MCEvents}
    \cup {<<MCFirst, event, other, Plain("done")>> :
             event \in MCEvents, other \in {MCSecond, Plain("comment")}}

----------------------------------------------------------------------------
\* A server that looks for one of the last three ports, or lets the system choose, and one that
\* would listen beyond the machine.
MCSettings ==
    {[port |-> p, attempts |-> n, loopback |-> TRUE, apiKey |-> FALSE, safelock |-> l] :
        p \in {0, 6, 7}, n \in {0, 3}, l \in BOOLEAN}
    \cup {[port |-> 6, attempts |-> 2, loopback |-> FALSE, apiKey |-> k, safelock |-> TRUE] :
        k \in BOOLEAN}

\* A captured response is read to what was sent, however it is cut into frames; a conversation
\* is rendered so that what was said stays as it was and where it was; and the tokens of a text
\* stand for its bytes.
TextsRight == StreamRight /\ PromptsRight /\ TokenizerRight

----------------------------------------------------------------------------
storesPart == <<layoutVars, contextVars, anchorVars, indexVars, heatVars>>

promptsPart == <<promptVars, tokenizerVars>>

Parts ==
    {"cache", "backlog", "capture", "reader", "cells", "context", "anchors",
     "index", "heat", "prompts", "tokenizer", "serving"}

MCInit ==
    /\ part \in Parts
    /\ Init
    /\ Backlog!Init
    /\ CaptureInit /\ FixtureStreamInit
    /\ LayoutInit /\ ContextInit /\ AnchorInit /\ IndexInit /\ HeatInit
    /\ PromptInit /\ TokenizerInit
    /\ ServingInit
    /\ part # "serving" => settings = CHOOSE s \in Settings : TRUE

\* Two groups of parts rest beside the third.
ServerMoves ==
    /\ \/ part = "cache" /\ Next /\ UNCHANGED <<backlogVars, captureVars, fixtureStreamVars>>
       \/ part = "backlog" /\ Backlog!Next /\ UNCHANGED <<vars, captureVars, fixtureStreamVars>>
       \/ part = "capture" /\ CaptureNext /\ UNCHANGED <<vars, backlogVars, fixtureStreamVars>>
       \/ part = "reader" /\ FixtureStreamNext /\ UNCHANGED <<vars, backlogVars, captureVars>>
    /\ UNCHANGED <<storesPart, promptsPart, servingVars>>

StoresMove ==
    /\ \/ part = "cells" /\ LayoutNext /\ UNCHANGED <<contextVars, anchorVars, indexVars, heatVars>>
       \/ part = "context" /\ ContextNext
          /\ UNCHANGED <<layoutVars, anchorVars, indexVars, heatVars>>
       \/ part = "anchors" /\ AnchorNext
          /\ UNCHANGED <<layoutVars, contextVars, indexVars, heatVars>>
       \/ part = "index" /\ IndexNext
          /\ UNCHANGED <<layoutVars, contextVars, anchorVars, heatVars>>
       \/ part = "heat" /\ HeatNext
          /\ UNCHANGED <<layoutVars, contextVars, anchorVars, indexVars>>
    /\ UNCHANGED <<vars, backlogVars, captureVars, fixtureStreamVars, promptsPart, servingVars>>

PromptsMove ==
    /\ \/ part = "prompts" /\ PromptNext /\ UNCHANGED tokenizerVars
       \/ part = "tokenizer" /\ TokenizerNext /\ UNCHANGED promptVars
    /\ UNCHANGED <<vars, backlogVars, captureVars, fixtureStreamVars, storesPart, servingVars>>

ProcessMoves ==
    /\ part = "serving" /\ ServingNext
    /\ UNCHANGED <<vars, backlogVars, captureVars, fixtureStreamVars, storesPart, promptsPart>>

MCNext ==
    /\ UNCHANGED part
    /\ ServerMoves \/ StoresMove \/ PromptsMove \/ ProcessMoves

MCSpec ==
    /\ MCInit
    /\ [][MCNext]_<<part, vars, backlogVars, captureVars, fixtureStreamVars,
                    storesPart, promptsPart, servingVars>>

============================================================================
