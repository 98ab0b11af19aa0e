----------------------------- MODULE ChatServer -----------------------------
(***************************************************************************)
(* The chat completion endpoint of crates/mivi-server/src/routes/chat.rs   *)
(* in front of the engine thread of EngineActor.  A request takes an       *)
(* inference permit, has its prompt counted, then either awaits one reply  *)
(* or hands the permit to a task that turns the engine's stream into       *)
(* server-sent events for a client that may read, stall or leave.          *)
(*                                                                         *)
(* Timers carry no clock: one may fire whenever it is armed.  Text is      *)
(* counted, not spelled; what the tool-call codec makes of it is a choice. *)
(***************************************************************************)
EXTENDS Naturals, Sequences, FiniteSets, SequencesExt

CONSTANTS
    Requests, Streaming, Seeded, Nobody,
    QueueCapacity, StreamCapacity, MaxChunks,   \* as in EngineActor
    Tools,           \* the requests that may call tools
    Reading,         \* the requests whose client reads until it leaves
    Slots,           \* max_concurrent_requests
    EventCapacity    \* channel_capacity, for the channel of events

ASSUME ServerAssumption ==
    /\ Tools \subseteq Requests
    /\ Reading \subseteq Requests
    /\ Slots \in Nat \ {0}
    /\ EventCapacity \in Nat \ {0}

VARIABLES
    queue, job, step, sampler, saved, stream, reply, history,   \* EngineActor
    handler,    \* where the code that serves a request is
    outgoing,   \* the event it is sending
    sse,        \* the channel of events: unread ones, and whether it is open
    sent        \* the last event sent, the pieces of text sent and the finish
                \*   reason, without keep-alives; read by no action

engine == <<queue, job, step, sampler, saved>>
server == <<handler, outgoing, sse, sent>>
vars == <<engine, stream, reply, history, server>>

E == INSTANCE EngineActor

ASSUME EngineAssumed == E!EngineAssumption

----------------------------------------------------------------------------
(* Permits.  The permit is a local of the handler, then of its task: who   *)
(* holds one shows in where it is.                                         *)

Before == {"admit", "admitting", "ask", "asked"}

Selecting == {"select"}

Sending == {"open", "text", "update", "alive", "fail", "flush", "calls", "finish", "done"}

Computing == {"start", "completion", "counting", "judge"}

\* The permit would be released when the response starts, were it not moved
\* into the task.
HeldByHandler == Before

HeldThroughout == Before \cup Selecting \cup Sending \cup Computing

Holding == {r \in Requests : handler[r] \in HeldThroughout}

Goto(r, to) == handler' = [handler EXCEPT ![r] = to]

\* Steps of the server that leave the engine's side alone.
EngineRests == UNCHANGED <<engine, stream, reply, history>>

----------------------------------------------------------------------------
(* Admission, and requests that are answered in one piece.                 *)

Unadmitted(r) == IF r \in Streaming THEN "open" ELSE "ask"

\* The engine counts the prompt before it is asked to answer it.
AfterPermit(r) == "admit"

\* try_acquire_inference_slot never waits: no permit means status 429.
Arrive(r) ==
    /\ handler[r] = "new"
    /\ Goto(r, IF Cardinality(Holding) >= Slots THEN "rejected" ELSE AfterPermit(r))
    /\ EngineRests
    /\ UNCHANGED <<outgoing, sse, sent>>

\* The commands a handler sends, with the place it awaits the outcome.
Asking == [admit      |-> [kind |-> "encode",   next |-> "admitting"],
           ask        |-> [kind |-> "generate", next |-> "asked"],
           start      |-> [kind |-> "stream",   next |-> "select"],
           completion |-> [kind |-> "encode",   next |-> "counting"]]

Ask(r) ==
    /\ handler[r] \in DOMAIN Asking
    /\ E!Submit(Asking[handler[r]].kind, r)
    /\ Goto(r, Asking[handler[r]].next)
    /\ UNCHANGED <<outgoing, sse, sent>>

\* admit_model_context: a prompt too long for the context is refused.  A lost
\* count reads as zero tokens.
Admitted(r) ==
    /\ handler[r] = "admitting"
    /\ E!TakeReply(r)
    /\ \/ Goto(r, IF r \in Streaming THEN "open" ELSE "ask")
       \/ reply[r] = "value" /\ Goto(r, "over")
    /\ UNCHANGED <<outgoing, sse, sent>>

\* handle_chat_blocking responds: a completion or an error.
Respond(r) ==
    /\ handler[r] = "asked"
    /\ E!TakeReply(r)
    /\ Goto(r, "over")
    /\ UNCHANGED <<outgoing, sse, sent>>

DropUnnoticed(r) ==
    /\ handler[r] \in Before
    /\ reply' = [reply EXCEPT ![r] = "none"]
    /\ Goto(r, "over")
    /\ UNCHANGED <<engine, stream, history, outgoing, sse, sent>>

\* The handler's future is dropped before it has a response: TimeoutLayer
\* answers 408, or the client has left.  The engine learns nothing of it.
DropHandler(r) ==
    /\ handler[r] \in Before
    /\ \/ reply[r] \notin {"waiting", "none"} /\ E!TakeReply(r)
       \/ E!AbandonReply(r)
       \/ reply[r] = "none" /\ EngineRests
    /\ Goto(r, "over")
    /\ UNCHANGED <<outgoing, sse, sent>>

----------------------------------------------------------------------------
(* The streaming task.                                                     *)

Reasons == {"stop", "tool_calls", "error"}

Room(r) == sse[r].open /\ sse[r].unread < EventCapacity

\* tx.send of an event succeeds.
SendEvent(r, e) ==
    /\ Room(r)
    /\ sse' = [sse EXCEPT ![r].unread = @ + 1]
    /\ sent' = IF e = "alive" THEN sent
               ELSE [sent EXCEPT ![r].last = e,
                                 ![r].texts = IF e = "text" THEN @ + 1 ELSE @,
                                 ![r].reason = IF e \in Reasons THEN e ELSE @]

\* The first event announces the role; then the body starts.
SendRole(r) ==
    /\ handler[r] = "open"
    /\ SendEvent(r, "role")
    /\ Goto(r, "start")
    /\ EngineRests
    /\ UNCHANGED outgoing

\* Either deadline: cancel the generation, report, leave the loop.
DeadlineExpires(r) ==
    /\ handler[r] = "select"
    /\ E!Cancel(r)
    /\ Goto(r, "fail")
    /\ UNCHANGED <<outgoing, sse, sent>>

\* tx.closed(): cancel the generation and drop the stream.  The finishing
\* events then fail at once.
ClientGone(r) ==
    /\ handler[r] = "select"
    /\ ~sse[r].open
    /\ stream' = [stream EXCEPT ![r] = E!Dropped(E!Cancelled(@))]
    /\ Goto(r, "over")
    /\ UNCHANGED <<engine, reply, history, outgoing, sse, sent>>

\* Where the loop goes after a piece of text has been passed on or held back:
\* with tools, the codec may report a piece of a call, or an error.
AfterText(r) == IF r \in Tools THEN {"select", "update", "fail"} ELSE {"select"}

\* With tools, text that may be the start of a call is held back.
ReceiveText(r) ==
    /\ handler[r] = "select"
    /\ E!Receive(r)
    /\ Head(stream[r].buffer) = "text"
    /\ \E to \in {"text"} \cup (IF r \in Tools THEN AfterText(r) ELSE {}) : Goto(r, to)
    /\ UNCHANGED <<outgoing, sse, sent>>

ErrorTakenForEnd == "completion"

AfterError == "fail"

ReceiveError(r) ==
    /\ handler[r] = "select"
    /\ E!Receive(r)
    /\ Head(stream[r].buffer) = "error"
    /\ Goto(r, AfterError)
    /\ UNCHANGED <<outgoing, sse, sent>>

BeforeItEnds(r) == TRUE

\* recv() yields None once the sender is gone and the buffer empty.
Ended(r) == ~stream[r].sender /\ stream[r].buffer = <<>>

StreamEnds(r) ==
    /\ handler[r] = "select"
    /\ Ended(r)
    /\ Goto(r, "completion")
    /\ EngineRests
    /\ UNCHANGED <<outgoing, sse, sent>>

KeepAlive(r) ==
    /\ handler[r] = "select"
    /\ Goto(r, "alive")
    /\ EngineRests
    /\ UNCHANGED <<outgoing, sse, sent>>

\* The events of the loop; none of them is raced with a timer.
SendInLoop(r) ==
    /\ handler[r] \in {"text", "update", "alive"}
    /\ SendEvent(r, handler[r])
    /\ \E to \in IF handler[r] = "text" THEN AfterText(r) ELSE {"select"} : Goto(r, to)
    /\ EngineRests
    /\ UNCHANGED outgoing

Finishing(r, reason) ==
    /\ Goto(r, "finish")
    /\ outgoing' = [outgoing EXCEPT ![r] = reason]

NothingDropped(s) == s

\* The body of the task returns "error", which drops the stream's receiver.
LeftBehind(s) == E!Dropped(s)

NormalStop == "stop"

FailureReason == "error"

\* The error event, if the client is still there.
SendFailure(r) ==
    /\ handler[r] = "fail"
    /\ SendEvent(r, "failure")
    /\ Finishing(r, FailureReason)
    /\ stream' = [stream EXCEPT ![r] = LeftBehind(@)]
    /\ UNCHANGED <<engine, reply, history>>

\* The output has been counted, for the usage metrics.
Counted(r) ==
    /\ handler[r] = "counting"
    /\ E!TakeReply(r)
    /\ Goto(r, IF r \in Tools THEN "flush" ELSE "judge")
    /\ UNCHANGED <<outgoing, sse, sent>>

\* Held-back text that was no call after all is sent late.
Flush(r) ==
    /\ handler[r] = "flush"
    /\ \/ SendEvent(r, "text")
       \/ UNCHANGED <<sse, sent>>
    /\ Goto(r, "judge")
    /\ EngineRests
    /\ UNCHANGED outgoing

\* The whole output is parsed and validated against the tools.  Without tools
\* there is nothing that could fail.
Judge(r) ==
    /\ handler[r] = "judge"
    /\ \/ Finishing(r, "stop")
       \/ /\ r \in Tools
          /\ \E to \in {"fail", "calls"} : Goto(r, to)
          /\ UNCHANGED outgoing
    /\ EngineRests
    /\ UNCHANGED <<sse, sent>>

\* A call already streamed in full needs no further event.
SendCalls(r) ==
    /\ handler[r] = "calls"
    /\ \/ SendEvent(r, "update")
       \/ UNCHANGED <<sse, sent>>
    /\ Finishing(r, "tool_calls")
    /\ EngineRests

SendFinish(r) ==
    /\ handler[r] = "finish"
    /\ SendEvent(r, outgoing[r])
    /\ Goto(r, "done")
    /\ EngineRests
    /\ UNCHANGED outgoing

SendDone(r) ==
    /\ handler[r] = "done"
    /\ SendEvent(r, "[DONE]")
    /\ Goto(r, "over")
    /\ EngineRests
    /\ UNCHANGED outgoing

\* tx.send fails: the task ends, and all it owns is dropped.
SendEventFails(r) ==
    /\ handler[r] \in Sending
    /\ ~sse[r].open
    /\ stream' = [stream EXCEPT ![r] =
          IF handler[r] \in {"open", "finish", "done"} THEN @
          ELSE IF handler[r] = "fail" THEN E!Dropped(@)
          ELSE E!Dropped(E!Cancelled(@))]
    /\ Goto(r, "over")
    /\ UNCHANGED <<engine, reply, history, outgoing, sse, sent>>

----------------------------------------------------------------------------
(* The client of a stream.                                                 *)

Streamed(r) == handler[r] \in (HeldThroughout \ Before)

Read(r) ==
    /\ sse[r].open
    /\ sse[r].unread > 0
    /\ sse' = [sse EXCEPT ![r].unread = @ - 1]
    /\ EngineRests
    /\ UNCHANGED <<handler, outgoing, sent>>

Leave(r) ==
    /\ Streamed(r)
    /\ sse[r].open
    /\ sse' = [sse EXCEPT ![r] = [open |-> FALSE, unread |-> 0]]
    /\ EngineRests
    /\ UNCHANGED <<handler, outgoing, sent>>

----------------------------------------------------------------------------
Init ==
    /\ E!Init
    /\ handler = [r \in Requests |-> "new"]
    /\ outgoing = [r \in Requests |-> "stop"]
    /\ sse = [r \in Requests |-> [open |-> TRUE, unread |-> 0]]
    /\ sent = [r \in Requests |-> [last |-> "none", texts |-> 0, reason |-> "none"]]

\* The steps of a handler that wait for nothing but room or a reply.
Handle(r) ==
    \/ Ask(r)
    \/ Admitted(r)
    \/ Respond(r)
    \/ SendRole(r)
    \/ SendInLoop(r)
    \/ SendFailure(r)
    \/ Counted(r)
    \/ Flush(r)
    \/ Judge(r)
    \/ SendCalls(r)
    \/ SendFinish(r)
    \/ SendDone(r)
    \/ SendEventFails(r)
    \/ ClientGone(r)

Serve(r) ==
    \/ Arrive(r)
    \/ DropHandler(r)
    \/ DeadlineExpires(r)
    \/ ReceiveText(r)
    \/ ReceiveError(r)
    \/ StreamEnds(r)
    \/ KeepAlive(r)
    \/ Handle(r)

Next ==
    \/ E!Engine /\ UNCHANGED server
    \/ \E r \in Requests : Serve(r) \/ Read(r) \/ Leave(r)

Spec == Init /\ [][Next]_vars

\* The engine thread runs; the runtime polls every task, and lets each send its
\* commands in turn; select! does not prefer the keep-alive timer for ever; a
\* reading client goes on reading.
Fairness ==
    /\ WF_vars(E!Engine /\ UNCHANGED server)
    /\ \A r \in Requests :
          /\ WF_vars(Handle(r))
          /\ SF_vars(ReceiveText(r) \/ ReceiveError(r) \/ StreamEnds(r))
    /\ \A r \in Reading : WF_vars(Read(r))

FairSpec == Spec /\ Fairness

\* And a deadline that goes on being armed expires.
TimedSpec == FairSpec /\ \A r \in Requests : SF_vars(DeadlineExpires(r))

----------------------------------------------------------------------------
(* Properties.                                                             *)

Places == HeldThroughout \cup {"new", "rejected", "over"}

\* The shape of the server's state, and no more permits than there are slots.
TypeOK ==
    /\ handler \in [Requests -> Places]
    /\ Cardinality(Holding) <= Slots
    /\ outgoing \in [Requests -> Reasons]
    /\ sse \in [Requests -> [open : BOOLEAN, unread : 0..EventCapacity]]
    /\ sent \in [Requests ->
          [last : {"none", "role", "text", "update", "failure", "[DONE]"} \cup Reasons,
           texts : Nat, reason : {"none"} \cup Reasons]]

\* What may come after an event of a stream: content after the role, nothing
\* after a failure but the finish reason "error", which comes nowhere else, and
\* [DONE] after the finish reason.
MayFollow(e) ==
    CASE e = "none" -> {"role"}
      [] e \in {"role", "text", "update"} -> {"text", "update", "failure", "stop", "tool_calls"}
      [] e = "failure" -> {"error"}
      [] e \in Reasons -> {"[DONE]"}
      [] OTHER -> {}

\* Whatever the timers, the engine and the codec do, what a client reads is a
\* well-formed stream.
EventsWellFormed ==
    [][\A r \in Requests :
          sent'[r] # sent[r] => sent'[r].last \in MayFollow(sent[r].last)]_vars

\* What a finish reason other than "error" claims.
Whole(r) ==
    /\ history[r].outcome = "complete"
    /\ r \notin Tools => sent[r].texts = history[r].sent

Claimed(r) == sent[r].reason \in {"stop", "tool_calls"}

\* A client that is told "stop" or "tool_calls" has all the text of a
\* generation that came to its end.
StopMeansWhole == \A r \in Requests : Claimed(r) => Whole(r)

\* So it is unless the generation panicked.
StopMeansWholeOrPanic ==
    \A r \in Requests : Claimed(r) => Whole(r) \/ history[r].outcome = "panicked"

\* A stream the engine still has to work for belongs to a request that holds a
\* permit: the rest have been cancelled or have lost their receiver.
InEngine(r) ==
    \E c \in {job} \cup ToSet(queue) : c = [kind |-> "stream", req |-> r]

WantedStreamsHoldPermits ==
    \A r \in Requests : InEngine(r) /\ ~E!Abandoned(r) => r \in Holding

\* The generations that wait behind the engine never exceed the permits, though
\* one goes on after its handler was dropped and the permit given away: the
\* next request has its prompt counted by the engine first, behind all of them.
Backlog == {c \in {job} \cup ToSet(queue) : c.kind \in {"generate", "stream"}}

BacklogWithinSlots == Cardinality(Backlog) <= Slots

\* The server uses the engine only through its handle.
ImplementsEngine == E!Spec

\* Every request comes to an end and gives its permit back.
AllReleased == \A r \in Requests : r \in Holding ~> r \notin Holding

\* A stream ends by its deadline, whatever its client does.
DeadlineEndsStream ==
    \A r \in Streaming : handler[r] = "select" ~> handler[r] = "over"

============================================================================
