--------------------------- MODULE AnthropicServer ---------------------------
(***************************************************************************)
(* The messages endpoint of crates/mivi-server/src/routes/anthropic.rs in  *)
(* front of the engine thread of EngineActor.  Unlike a chat completion a  *)
(* streamed answer has no task of its own: it is the body of the response, *)
(* and runs only when the connection polls it, that is when the client has *)
(* read what came before.  Its timers, its receiver of the engine's stream *)
(* and its inference permit are all locals of that body.                   *)
(*                                                                         *)
(* Timers carry no clock: one may fire whenever it is polled.  Text is     *)
(* counted, not spelled; what the tool-call codec makes of it is a choice. *)
(***************************************************************************)
EXTENDS Naturals, Sequences, FiniteSets, SequencesExt

CONSTANTS
    Requests, Streaming, Seeded, Nobody,
    QueueCapacity, StreamCapacity, MaxChunks,   \* as in EngineActor
    Tools,           \* the requests with tools
    Slots,           \* max_concurrent_requests
    Mixes            \* bound: the sets of requests that are tried together

ASSUME AnthropicAssumption ==
    /\ Tools \subseteq Requests
    /\ Slots \in Nat \ {0}
    /\ Mixes \subseteq SUBSET Requests

VARIABLES
    queue, job, step, sampler, saved, stream, reply, history,   \* EngineActor
    handler,    \* where the code that serves a request is
    polled,     \* the connection has room and polls the body
    sent        \* the events yielded, a prefix of which the client has read;
                \*   the code keeps no such record

engine == <<queue, job, step, sampler, saved>>
server == <<handler, polled, sent>>
vars == <<engine, stream, reply, history, server>>

E == INSTANCE EngineActor

ASSUME EngineAssumed == E!EngineAssumption

----------------------------------------------------------------------------
\* The handler, until it has a response.
Before == {"admit", "admitting", "ask", "asked", "start"}

\* The body, up to the end of the future in post_generation_stream, which owns
\* the permit.  The events it leaves behind depend on nothing any more.
Body == {"message_start", "chunks", "failed", "encode", "encoding"}

HeldThroughout == Before \cup Body

Holding == {r \in Requests : handler[r] \in HeldThroughout}

Goto(r, to) == handler' = [handler EXCEPT ![r] = to]

EngineRests == UNCHANGED <<engine, stream, reply, history>>

ServerRests == UNCHANGED <<polled, sent>>

----------------------------------------------------------------------------
(* The handler.                                                            *)

\* Requests that are invalid, and those without a permit, get a status at once.
Arrive(r) ==
    /\ handler[r] = "new"
    /\ \/ Goto(r, "rejected")
       \/ Cardinality(Holding) < Slots /\ Goto(r, "admit")
    /\ EngineRests
    /\ ServerRests

\* The commands sent, with the place that awaits the outcome.  The output is
\* counted when the body comes to its end.
Asking == [admit  |-> [kind |-> "encode",   next |-> "admitting"],
           ask    |-> [kind |-> "generate", next |-> "asked"],
           start  |-> [kind |-> "stream",   next |-> "message_start"],
           encode |-> [kind |-> "encode",   next |-> "encoding"]]

Ask(r) ==
    /\ handler[r] \in DOMAIN Asking
    /\ handler[r] \in Before \/ polled[r]
    /\ E!Submit(Asking[handler[r]].kind, r)
    /\ Goto(r, Asking[handler[r]].next)
    /\ ServerRests

\* admit_model_context; a count that was lost reads as zero tokens.
Admitted(r) ==
    /\ handler[r] = "admitting"
    /\ E!TakeReply(r)
    /\ \/ Goto(r, IF r \in Streaming THEN "start" ELSE "ask")
       \/ reply[r] = "value" /\ Goto(r, "over")
    /\ ServerRests

\* A message, or an error of the model or of its tool calls, in one piece.
Respond(r) ==
    /\ handler[r] = "asked"
    /\ E!TakeReply(r)
    /\ Goto(r, "over")
    /\ ServerRests

\* The reply a dropped future waits for is abandoned.
ForgetReply(r) ==
    \/ E!AbandonReply(r)
    \/ reply[r] \notin {"waiting", "none"} /\ E!TakeReply(r)
    \/ reply[r] = "none" /\ EngineRests

\* TimeoutLayer answers 408, or the client leaves before there is a response.
DropHandler(r) ==
    /\ handler[r] \in Before
    /\ ForgetReply(r)
    /\ Goto(r, "over")
    /\ ServerRests

----------------------------------------------------------------------------
(* The body: each poll runs it to the next event.                          *)

StopReasons == {"end_turn", "tool_use"}

\* The connection takes the events and polls again once the client has read.
Yield(r, events) ==
    /\ polled[r]
    /\ polled' = [polled EXCEPT ![r] = FALSE]
    /\ sent' = [sent EXCEPT ![r] = @ \o events]

Preamble(r) ==
    /\ handler[r] = "message_start"
    /\ Yield(r, <<"message_start", "content_block_start">>)
    /\ Goto(r, "chunks")
    /\ EngineRests

\* anthropic_chunk_stream.  With tools the text is assembled and not sent.
ReceiveText(r) ==
    /\ handler[r] = "chunks"
    /\ polled[r]
    /\ E!Receive(r)
    /\ Head(stream[r].buffer) = "text"
    /\ IF r \in Tools THEN UNCHANGED <<polled, sent>> ELSE Yield(r, <<"delta">>)
    /\ UNCHANGED handler

ReceiveError(r) ==
    /\ handler[r] = "chunks"
    /\ E!Receive(r)
    /\ Head(stream[r].buffer) = "error"
    /\ Yield(r, <<"error">>)
    /\ Goto(r, "failed")

DeadlineExpires(r) ==
    /\ handler[r] = "chunks"
    /\ E!Cancel(r)
    /\ Yield(r, <<"error">>)
    /\ Goto(r, "failed")

\* The chunk stream returns None and is dropped with all it owns.
ChunksDropped(r) ==
    /\ stream' = [stream EXCEPT ![r] = E!Dropped(E!Cancelled(@))]
    /\ UNCHANGED <<engine, reply, history>>

Ended(r) == ~stream[r].sender /\ stream[r].buffer = <<>>

StreamEnds(r) ==
    /\ handler[r] = "chunks"
    /\ polled[r]
    /\ Ended(r)
    /\ ChunksDropped(r)
    /\ Goto(r, "encode")
    /\ ServerRests

FailureForgotten == <<"content_block_stop", "end_turn">>

\* What post_generation_stream makes of stream_failed.
AfterFailure == <<"content_block_stop">>

\* The future ends, which releases the permit, and its events are sent.
Close(r, events) ==
    /\ Yield(r, events \o <<"message_stop">>)
    /\ Goto(r, "over")

CloseFailed(r) ==
    /\ handler[r] = "failed"
    /\ ChunksDropped(r)
    /\ Close(r, AfterFailure)

CallsAnyway(verdict, text) ==
    (IF verdict = "invalid" THEN <<"error">> ELSE <<>>) \o
    (IF text THEN <<"delta">> ELSE <<>>) \o
    <<"content_block_stop">> \o
    (IF verdict # "none" THEN <<"tool", "tool_use">> ELSE <<"end_turn">>)

\* The events after a whole generation, for what the codec and the validation
\* say of the output and for what is left of its text.
Finale(verdict, text) ==
    (IF verdict = "invalid" THEN <<"error">> ELSE <<>>) \o
    (IF text THEN <<"delta">> ELSE <<>>) \o
    <<"content_block_stop">> \o
    (IF verdict = "calls" THEN <<"tool", "tool_use">> ELSE <<"end_turn">>)

\* The output has been counted.
CloseWhole(r) ==
    /\ handler[r] = "encoding"
    /\ E!TakeReply(r)
    /\ IF r \in Tools
       THEN \E verdict \in {"none", "calls", "invalid"}, text \in BOOLEAN :
               Close(r, Finale(verdict, text))
       ELSE Close(r, Finale("none", FALSE))

----------------------------------------------------------------------------
(* The client of a stream.                                                 *)

Read(r) ==
    /\ handler[r] \in Body
    /\ ~polled[r]
    /\ polled' = [polled EXCEPT ![r] = TRUE]
    /\ EngineRests
    /\ UNCHANGED <<handler, sent>>

NothingTold(r) == EngineRests

\* The body is dropped: CancellationOnDrop cancels the generation.
DropBody(r) ==
    \/ /\ handler[r] \in {"message_start", "chunks", "failed"}
       /\ ChunksDropped(r)
    \/ handler[r] = "encoding" /\ ForgetReply(r)
    \/ handler[r] = "encode" /\ EngineRests

Leave(r) ==
    /\ handler[r] \in Body
    /\ DropBody(r)
    /\ Goto(r, "over")
    /\ ServerRests

----------------------------------------------------------------------------
Init ==
    /\ E!Init
    /\ \E present \in Mixes :
          handler = [r \in Requests |-> IF r \in present THEN "new" ELSE "rejected"]
    /\ polled = [r \in Requests |-> TRUE]
    /\ sent = [r \in Requests |-> <<>>]

\* What waits for nothing but room, a reply or the client.
Handle(r) ==
    \/ Ask(r)
    \/ Admitted(r)
    \/ Respond(r)
    \/ Preamble(r)
    \/ CloseFailed(r)
    \/ CloseWhole(r)

\* select! over what a poll of the chunk stream may find.
Chunk(r) ==
    \/ ReceiveText(r)
    \/ ReceiveError(r)
    \/ DeadlineExpires(r)
    \/ StreamEnds(r)

Next ==
    \/ E!Engine /\ UNCHANGED server
    \/ \E r \in Requests :
          \/ Arrive(r)
          \/ DropHandler(r)
          \/ Handle(r)
          \/ Chunk(r)
          \/ Read(r)
          \/ Leave(r)

Spec == Init /\ [][Next]_vars

\* The engine thread runs, handlers are polled and may send their commands in
\* turn, and a client reads its stream or leaves.
Fairness ==
    /\ WF_vars(E!Engine /\ UNCHANGED server)
    /\ \A r \in Requests :
          /\ WF_vars(Handle(r))
          /\ WF_vars(Chunk(r))
          /\ WF_vars(Read(r) \/ Leave(r))

FairSpec == Spec /\ Fairness

----------------------------------------------------------------------------
(* Properties.                                                             *)

\* What may come after an event: the preamble, deltas inside the text block, an
\* error, the end of the block, then tool blocks and a stop reason.
MayFollow ==
    [message_start       |-> {"content_block_start"},
     content_block_start |-> {"delta", "error", "content_block_stop"},
     delta               |-> {"delta", "error", "content_block_stop"},
     error               |-> {"delta", "content_block_stop"},
     content_block_stop  |-> {"tool", "end_turn", "message_stop"},
     tool                |-> {"tool_use"},
     end_turn            |-> {"message_stop"},
     tool_use            |-> {"message_stop"},
     message_stop        |-> {}]

Count(r, e) == Cardinality({i \in DOMAIN sent[r] : sent[r][i] = e})

Finished(r) == \E e \in StopReasons : Count(r, e) > 0

\* Whatever the timers, the engine and the codec do, a client reads the events
\* of one message: one error at most, the blocks closed before the end, which
\* has a stop reason if there was no error; after an error it may have one only
\* with tools.
EventsWellFormed ==
    \A r \in Requests :
        LET s == sent[r] IN
        /\ s # <<>> => Head(s) = "message_start"
        /\ \A i \in 1..(Len(s) - 1) : s[i + 1] \in MayFollow[s[i]]
        /\ Count(r, "error") <= 1
        /\ Count(r, "message_stop") > 0 => Finished(r) \/ Count(r, "error") = 1
        /\ Finished(r) => Count(r, "error") = 0 \/ r \in Tools

\* A stop reason is sent only for a generation that came to its end, or
\* panicked, and after all of its text; tool_use only if nothing went wrong.
StopReasonMeansWhole ==
    \A r \in Requests :
        /\ Finished(r) =>
              \/ history[r].outcome = "panicked"
              \/ /\ history[r].outcome = "complete"
                 /\ r \notin Tools => Count(r, "delta") = history[r].sent
        /\ Count(r, "tool_use") > 0 => Count(r, "error") = 0

\* Every request gives its permit back if every client of a stream reads or
\* leaves.
AllReleased == \A r \in Requests : r \in Holding ~> r \notin Holding

\* An answer that reported an error is not finished like a normal one.
NoStopAfterError ==
    \A r \in Requests :
        Count(r, "error") > 0 /\ history[r].outcome # "panicked" => ~Finished(r)

============================================================================
