---------------------------- MODULE EngineActor ----------------------------
(***************************************************************************)
(* The engine thread of crates/mivi-server/src/engine_actor.rs: it owns    *)
(* the model and executes the commands of a bounded queue one at a time.   *)
(* A stream command answers through a bounded channel, the others through  *)
(* a oneshot channel.  Clients hold an EngineHandle; here they do whatever *)
(* a handle allows, in any order.                                          *)
(*                                                                         *)
(* The sampler is one state for all requests.  Its options are modelled by *)
(* the set of requests whose options are in effect, its random generator   *)
(* by the request whose seed it continues, or Nobody.                      *)
(***************************************************************************)
EXTENDS Naturals, Sequences

CONSTANTS
    Requests,
    Streaming,       \* those whose answer is streamed
    Seeded,          \* those that set a seed
    Nobody,          \* no request
    QueueCapacity,   \* channel_capacity, for the command queue
    StreamCapacity,  \* and for the channel of one stream
    MaxChunks        \* bound: the pieces of text one generation delivers

ASSUME EngineAssumption ==
    /\ Streaming \subseteq Requests
    /\ Seeded \subseteq Requests
    /\ Nobody \notin Requests
    /\ QueueCapacity \in Nat \ {0}
    /\ StreamCapacity \in Nat \ {0}
    /\ MaxChunks \in Nat

VARIABLES
    queue,    \* the commands sent and not yet received
    job,      \* the command in execution, or NoJob
    step,     \* how far its handler is
    sampler,  \* Model::sampler
    saved,    \* the SamplingCheckpoint the running handler holds
    stream,   \* the stream channel and cancellation flag of each request
    reply,    \* the oneshot channel of each request
    history   \* what became of each generation; the code keeps no such record

engine == <<queue, job, step, sampler, saved>>
vars == <<engine, stream, reply, history>>

Commands == [kind : {"generate", "stream", "encode"}, req : Requests]

NoJob == [kind |-> "none", req |-> Nobody]

Sampler == [tuning : SUBSET Requests, rng : Requests \cup {Nobody}]

\* generate_with_options or generate_stream_with_options_cancelable.
Answering(r) == IF r \in Streaming THEN "stream" ELSE "generate"

\* The sampler the model is loaded with.
Base == [tuning |-> {}, rng |-> Nobody]

Unused == [buffer |-> <<>>, sender |-> FALSE, receiver |-> FALSE, cancelled |-> FALSE]

Opened == [Unused EXCEPT !.sender = TRUE, !.receiver = TRUE]

\* GenerationCancellation::cancel, and dropping the Receiver.
Cancelled(s) == [s EXCEPT !.cancelled = TRUE]

Dropped(s) == [s EXCEPT !.receiver = FALSE, !.buffer = <<>>]

\* What model_stream_callback checks before it sends.
Abandoned(r) == stream[r].cancelled \/ ~stream[r].receiver

----------------------------------------------------------------------------
(* The operations of EngineHandle.  The send of a command waits for room.  *)

Submit(kind, r) ==
    /\ Len(queue) < QueueCapacity
    /\ queue' = Append(queue, [kind |-> kind, req |-> r])
    /\ IF kind = "stream"
       THEN stream' = [stream EXCEPT ![r] = Opened] /\ UNCHANGED reply
       ELSE reply' = [reply EXCEPT ![r] = "waiting"] /\ UNCHANGED stream
    /\ IF kind = "encode"
       THEN UNCHANGED history
       ELSE /\ history[r].outcome = "new"
            /\ history' = [history EXCEPT ![r].outcome = "asked"]
    /\ UNCHANGED <<job, step, sampler, saved>>

Receive(r) ==
    /\ stream[r].buffer # <<>>
    /\ stream' = [stream EXCEPT ![r].buffer = Tail(@)]
    /\ UNCHANGED <<engine, reply, history>>

Cancel(r) ==
    /\ stream[r].receiver
    /\ stream' = [stream EXCEPT ![r] = Cancelled(@)]
    /\ UNCHANGED <<engine, reply, history>>

\* The receiver is dropped, often with a cancel() just before it.
Close(r) ==
    /\ stream[r].receiver
    /\ \E s \in {stream[r], Cancelled(stream[r])} :
          stream' = [stream EXCEPT ![r] = Dropped(s)]
    /\ UNCHANGED <<engine, reply, history>>

TakeReply(r) ==
    /\ reply[r] \in {"value", "error", "dropped"}
    /\ reply' = [reply EXCEPT ![r] = "none"]
    /\ UNCHANGED <<engine, stream, history>>

\* The future that awaits a reply is dropped: nobody will read it.
AbandonReply(r) ==
    /\ reply[r] = "waiting"
    /\ reply' = [reply EXCEPT ![r] = "abandoned"]
    /\ UNCHANGED <<engine, stream, history>>

Client(r) ==
    \/ \E kind \in {"encode", Answering(r)} : reply[r] = "none" /\ Submit(kind, r)
    \/ Receive(r)
    \/ Cancel(r)
    \/ Close(r)
    \/ TakeReply(r)
    \/ AbandonReply(r)

----------------------------------------------------------------------------
(* The engine thread.                                                      *)

\* apply_generation_options.
Apply(r) ==
    sampler' = [tuning |-> sampler.tuning \cup {r},
                rng |-> IF r \in Seeded THEN r ELSE sampler.rng]

RestoredOptionsOnly == [sampler EXCEPT !.tuning = saved.tuning]

\* SamplingCheckpoint::restore: the generator goes back only after a request
\* with a seed, others advance it for good.
Restored ==
    [tuning |-> saved.tuning,
     rng |-> IF job.req \in Seeded THEN saved.rng ELSE sampler.rng]

\* blocking_recv, and the first lines of each handler.
TakeCommand ==
    /\ step = "idle"
    /\ queue # <<>>
    /\ queue' = Tail(queue)
    /\ job' = Head(queue)
    /\ IF Head(queue).kind = "encode"
       THEN step' = "encode" /\ UNCHANGED <<sampler, saved>>
       ELSE /\ step' = IF Head(queue).kind = "stream" THEN "begin" ELSE "generate"
            /\ saved' = sampler
            /\ Apply(Head(queue).req)
    /\ UNCHANGED <<stream, reply, history>>

Return ==
    /\ step' = "idle"
    /\ job' = NoJob
    /\ saved' = Base
    /\ UNCHANGED queue

Answer(value) ==
    /\ reply' = [reply EXCEPT ![job.req] = IF @ = "waiting" THEN value ELSE @]
    /\ UNCHANGED stream

Encode ==
    /\ step = "encode"
    /\ Answer("value")
    /\ Return
    /\ UNCHANGED <<sampler, history>>

\* handle_generate runs to its end, whether or not somebody still waits.
Generate ==
    /\ step = "generate"
    /\ \E value \in {"value", "error"} :
          /\ Answer(value)
          /\ history' = [history EXCEPT ![job.req].outcome =
                            IF value = "value" THEN "complete" ELSE "failed"]
    /\ sampler' = Restored
    /\ Return

\* handle_generate_stream_applied returns: the sampler is restored and the
\* responder dropped.
ReturnFromStream(outcome) ==
    /\ sampler' = Restored
    /\ stream' = [stream EXCEPT ![job.req].sender = FALSE]
    /\ history' = [history EXCEPT ![job.req].outcome = outcome]
    /\ Return
    /\ UNCHANGED reply

Continue(to) ==
    /\ step' = to
    /\ UNCHANGED <<queue, job, sampler, saved, reply>>

OneTooMany(r) == Len(stream[r].buffer) <= StreamCapacity

HasRoom(r) == Len(stream[r].buffer) < StreamCapacity

\* model_stream_callback is made only for a request somebody still wants.
BeginStream ==
    /\ step = "begin"
    /\ ~Abandoned(job.req)
    /\ Continue("stream")
    /\ UNCHANGED <<stream, history>>

\* An abandoned request ends when the code looks: before it begins, between two
\* model steps, or in the callback.
CutShort ==
    /\ step \in {"begin", "stream"}
    /\ Abandoned(job.req)
    /\ ReturnFromStream("stopped")

NeverLooks(r) == TRUE

Wanted(r) == ~Abandoned(r)

\* The callback gets text, finds the request wanted and starts blocking_send.
Emit ==
    /\ step = "stream"
    /\ Wanted(job.req)
    /\ history[job.req].sent < MaxChunks
    /\ Continue("send")
    /\ UNCHANGED <<stream, history>>

\* blocking_send delivers when there is room.
Put(message) ==
    /\ stream[job.req].receiver
    /\ HasRoom(job.req)
    /\ stream' = [stream EXCEPT ![job.req].buffer = Append(@, message)]
    /\ history' = [history EXCEPT
                      ![job.req].sent = IF message = "text" THEN @ + 1 ELSE @,
                      ![job.req].late = IF stream[job.req].cancelled THEN @ + 1 ELSE @]

SendText ==
    /\ step = "send"
    /\ Put("text")
    /\ Continue("stream")

NeverFails(r) == FALSE

\* blocking_send fails once the receiver is gone.
SendFails(r) == ~stream[r].receiver

SendRefused ==
    /\ step = "send"
    /\ SendFails(job.req)
    /\ ReturnFromStream("stopped")

\* End of sequence, stop sequence, max_tokens or the context limit.
Finish ==
    /\ step = "stream"
    /\ ReturnFromStream("complete")

\* An error of the model, or of a JSON request that wants a stream, is sent on
\* unless the request was cancelled.
FailStream ==
    /\ step \in {"begin", "stream"}
    /\ IF stream[job.req].cancelled
       THEN ReturnFromStream("failed")
       ELSE Continue("report") /\ UNCHANGED <<stream, history>>

SendError ==
    /\ step = "report"
    /\ Put("error")
    /\ Continue("return")

ErrorSent ==
    /\ \/ step = "return"
       \/ step = "report" /\ SendFails(job.req)
    /\ ReturnFromStream("failed")

\* catch_unwind: the handler's locals are dropped, the checkpoint among them.
Panic ==
    /\ step \in {"encode", "generate", "begin", "stream"}
    /\ IF job.kind = "stream"
       THEN stream' = [stream EXCEPT ![job.req].sender = FALSE] /\ UNCHANGED reply
       ELSE Answer("dropped")
    /\ history' = [history EXCEPT ![job.req].outcome =
                      IF job.kind = "encode" THEN @ ELSE "panicked"]
    /\ Return
    /\ UNCHANGED sampler

Engine ==
    \/ TakeCommand
    \/ Encode
    \/ Generate
    \/ BeginStream
    \/ CutShort
    \/ Emit
    \/ SendText
    \/ SendRefused
    \/ Finish
    \/ FailStream
    \/ SendError
    \/ ErrorSent
    \/ Panic

----------------------------------------------------------------------------
Init ==
    /\ queue = <<>>
    /\ job = NoJob
    /\ step = "idle"
    /\ sampler = Base
    /\ saved = Base
    /\ stream = [r \in Requests |-> Unused]
    /\ reply = [r \in Requests |-> "none"]
    /\ history = [r \in Requests |-> [sent |-> 0, late |-> 0, outcome |-> "new"]]

Next == Engine \/ \E r \in Requests : Client(r)

Spec == Init /\ [][Next]_vars

\* The thread runs while it can, and a client reads its stream or drops it.
Fairness ==
    /\ WF_vars(Engine)
    /\ \A r \in Requests : WF_vars(Receive(r) \/ Close(r))

FairSpec == Spec /\ Fairness

----------------------------------------------------------------------------
(* Properties.                                                             *)

\* The shape of the engine's state.
TypeOK ==
    /\ queue \in Seq(Commands)
    /\ Len(queue) <= QueueCapacity
    /\ job \in Commands \cup {NoJob}
    /\ step \in {"idle", "encode", "generate", "begin", "stream", "send", "report", "return"}
    /\ sampler \in Sampler
    /\ saved \in Sampler
    /\ stream \in [Requests -> [buffer : Seq({"text", "error"}), sender : BOOLEAN,
                                receiver : BOOLEAN, cancelled : BOOLEAN]]
    /\ \A r \in Requests : Len(stream[r].buffer) <= StreamCapacity
    /\ reply \in [Requests -> {"none", "waiting", "value", "error", "dropped", "abandoned"}]
    /\ history \in [Requests -> [sent : Nat, late : Nat,
                       outcome : {"new", "asked", "complete", "failed", "stopped", "panicked"}]]

\* A request samples with its own options and seed, and leaves none behind,
\* whichever way it ends.
RequestScoped ==
    /\ step \in {"idle", "encode"} => sampler = Base
    /\ step \notin {"idle", "encode"} =>
          sampler = [tuning |-> {job.req},
                     rng |-> IF job.req \in Seeded THEN job.req ELSE Nobody]

\* So it is as long as no generation has panicked: errors, cancellations,
\* closed streams and lost clients all restore the sampler.
ScopedUntilPanic ==
    (\A r \in Requests : history[r].outcome # "panicked") => RequestScoped

\* After cancel() at most one more message, the one whose send had begun,
\* reaches the stream.
OneLateMessage == \A r \in Requests : history[r].late <= 1

\* Whoever waits for the engine is answered: a stream ends, a reply comes or
\* its sender is dropped, whatever the other clients do.
AllAnswered ==
    \A r \in Requests :
        /\ reply[r] = "waiting" ~> reply[r] # "waiting"
        /\ stream[r].sender ~> ~stream[r].sender

============================================================================
