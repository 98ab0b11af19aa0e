------------------------- MODULE EngineActorProofs -------------------------
(***************************************************************************)
(* Theorems about the engine thread for any number of requests, any        *)
(* capacities and any behaviour of the clients.                            *)
(***************************************************************************)
EXTENDS EngineActor, SequenceTheorems, TLAPS

----------------------------------------------------------------------------
(* Types.                                                                  *)

Streams == [buffer : Seq({"text", "error"}), sender : BOOLEAN,
            receiver : BOOLEAN, cancelled : BOOLEAN]

Replies == {"none", "waiting", "value", "error", "dropped", "abandoned"}

Outcomes == {"new", "asked", "complete", "failed", "stopped", "panicked"}

Histories == [sent : Nat, late : Nat, outcome : Outcomes]

StreamSteps == {"begin", "stream", "send", "report", "return"}

\* The thread is in the handler of the command it executes.
JobMatchesStep ==
    \/ job = NoJob /\ step = "idle"
    \/ job \in Commands /\ job.kind = "encode" /\ step = "encode"
    \/ job \in Commands /\ job.kind = "generate" /\ step = "generate"
    \/ job \in Commands /\ job.kind = "stream" /\ step \in StreamSteps

TypeInv ==
    /\ queue \in Seq(Commands)
    /\ Len(queue) <= QueueCapacity
    /\ JobMatchesStep
    /\ sampler \in Sampler
    /\ saved \in Sampler
    /\ stream \in [Requests -> Streams]
    /\ \A r \in Requests : Len(stream[r].buffer) <= StreamCapacity
    /\ reply \in [Requests -> Replies]
    /\ history \in [Requests -> Histories]

\* The channels of a request, each within its capacity.
StreamsFit ==
    /\ stream \in [Requests -> Streams]
    /\ \A r \in Requests : Len(stream[r].buffer) <= StreamCapacity

\* Changing one field of one stream changes nothing else.
LEMMA StreamChange ==
    ASSUME StreamsFit, NEW r \in Requests, NEW s \in Streams,
           Len(s.buffer) <= StreamCapacity,
           stream' = [stream EXCEPT ![r] = s]
    PROVE  StreamsFit'
BY DEF StreamsFit

\* The initial states have the types.
LEMMA InitialTypes == Init => TypeInv
<1>1. /\ <<>> \in Seq(Commands) /\ Len(<<>>) = 0
      /\ <<>> \in Seq({"text", "error"})
  BY EmptySeq
<1>2. Unused \in Streams /\ Unused.buffer = <<>>
  BY <1>1 DEF Unused, Streams
<1> QED
  BY <1>1, <1>2, EngineAssumption
  DEF Init, TypeInv, JobMatchesStep, Base, Sampler, Replies, Histories, Outcomes

\* What a handle can do.
LEMMA ClientTypes ==
    ASSUME TypeInv, NEW r \in Requests, Client(r)
    PROVE  TypeInv'
<1> USE DEF TypeInv
<1>0. StreamsFit /\ stream[r] \in Streams /\ Len(stream[r].buffer) <= StreamCapacity
  BY DEF StreamsFit
<1>e. <<>> \in Seq({"text", "error"}) /\ Len(<<>>) = 0
  BY EmptySeq
<1>s. SUFFICES StreamsFit' /\ UNCHANGED <<job, step, sampler, saved>>
               /\ queue' \in Seq(Commands) /\ Len(queue') <= QueueCapacity
               /\ reply' \in [Requests -> Replies] /\ history' \in [Requests -> Histories]
  BY DEF StreamsFit, JobMatchesStep
<1>1. ASSUME NEW kind \in {"encode", Answering(r)}, Submit(kind, r)
      PROVE  StreamsFit' /\ UNCHANGED <<job, step, sampler, saved>>
             /\ queue' \in Seq(Commands) /\ Len(queue') <= QueueCapacity
             /\ reply' \in [Requests -> Replies] /\ history' \in [Requests -> Histories]
  <2>1. [kind |-> kind, req |-> r] \in Commands
    BY DEF Commands, Answering
  <2>2. queue' \in Seq(Commands) /\ Len(queue') = Len(queue) + 1
    BY <1>1, <2>1 DEF Submit
  <2>3. Len(queue') <= QueueCapacity
    BY <1>1, <2>2, LenProperties, EngineAssumption DEF Submit
  <2>4. StreamsFit'
    <3>1. Opened \in Streams /\ Opened.buffer = <<>>
      BY <1>e DEF Opened, Unused, Streams
    <3>2. CASE kind = "stream"
      BY <1>0, <1>1, <1>e, <3>1, <3>2, StreamChange, EngineAssumption DEF Submit
    <3>3. CASE kind # "stream"
      BY <1>0, <1>1, <3>3 DEF Submit, StreamsFit
    <3> QED BY <3>2, <3>3
  <2>5. reply' \in [Requests -> Replies]
    BY <1>1 DEF Submit, Replies
  <2>6. history' \in [Requests -> Histories]
    <3>1. /\ history[r] \in Histories
          /\ [history[r] EXCEPT !.outcome = "asked"] \in Histories
      BY DEF Histories, Outcomes
    <3>2. \/ history' = history
          \/ history' = [history EXCEPT ![r] = [history[r] EXCEPT !.outcome = "asked"]]
      BY <1>1 DEF Submit
    <3> QED BY <3>1, <3>2
  <2> QED BY <1>1, <2>2, <2>3, <2>4, <2>5, <2>6 DEF Submit
<1>2. CASE Receive(r)
  <2>1. Tail(stream[r].buffer) \in Seq({"text", "error"})
        /\ Len(Tail(stream[r].buffer)) <= StreamCapacity
    BY <1>0, <1>2, HeadTailProperties, LenProperties, EngineAssumption DEF Receive, Streams
  <2>2. [stream[r] EXCEPT !.buffer = Tail(@)] \in Streams
    BY <1>0, <2>1 DEF Streams
  <2>3. StreamsFit'
    BY <1>0, <1>2, <2>1, <2>2, StreamChange DEF Receive, Streams
  <2> QED BY <1>2, <2>3 DEF Receive, engine
<1>3. CASE Cancel(r)
  <2>1. Cancelled(stream[r]) \in Streams /\ Cancelled(stream[r]).buffer = stream[r].buffer
    BY <1>0 DEF Streams, Cancelled
  <2>2. StreamsFit'
    BY <1>0, <1>3, <2>1, StreamChange DEF Cancel
  <2> QED BY <1>3, <2>2 DEF Cancel, engine
<1>4. CASE Close(r)
  <2>1. PICK s \in {stream[r], Cancelled(stream[r])} : stream' = [stream EXCEPT ![r] = Dropped(s)]
    BY <1>4 DEF Close
  <2>2. s \in Streams
    BY <1>0 DEF Streams, Cancelled
  <2>3. Dropped(s) \in Streams /\ Dropped(s).buffer = <<>>
    BY <1>e, <2>2 DEF Streams, Dropped
  <2>4. StreamsFit'
    <3>1. Len(Dropped(s).buffer) <= StreamCapacity
      BY <1>e, <2>3, EngineAssumption
    <3> QED BY <1>0, <2>1, <2>3, <3>1, StreamChange
  <2>5. UNCHANGED <<queue, job, step, sampler, saved, reply, history>>
    BY <1>4 DEF Close, engine
  <2> QED BY <2>4, <2>5
<1>5. CASE TakeReply(r)
  BY <1>0, <1>5 DEF TakeReply, engine, Replies, StreamsFit
<1>6. CASE AbandonReply(r)
  BY <1>0, <1>6 DEF AbandonReply, engine, Replies, StreamsFit
<1> QED BY <1>1, <1>2, <1>3, <1>4, <1>5, <1>6 DEF Client

\* Reading the command off the queue.
LEMMA TakeCommandTypes ==
    ASSUME TypeInv, TakeCommand
    PROVE  TypeInv'
<1> USE DEF TypeInv
<1>1. /\ Head(queue) \in Commands
      /\ Tail(queue) \in Seq(Commands)
      /\ Len(Tail(queue)) <= QueueCapacity
  BY HeadTailProperties, LenProperties, EngineAssumption DEF TakeCommand
<1>2. queue' \in Seq(Commands) /\ Len(queue') <= QueueCapacity
  BY <1>1 DEF TakeCommand
<1>3. JobMatchesStep'
  BY <1>1 DEF TakeCommand, JobMatchesStep, Commands, StreamSteps
<1>4. Head(queue).req \in Requests
  BY <1>1 DEF Commands
<1>5. sampler' \in Sampler /\ saved' \in Sampler
  BY <1>4 DEF TakeCommand, Apply, Sampler
<1> QED BY <1>2, <1>3, <1>5 DEF TakeCommand

\* The steps of a handler: they leave the queue alone, and what they do to the
\* shared state is one of a few things.
LEMMA HandlerTypes ==
    ASSUME TypeInv, Engine, ~TakeCommand
    PROVE  TypeInv'
<1> USE DEF TypeInv
<1>0. step # "idle" /\ job \in Commands /\ job.req \in Requests
  BY DEF Engine, Encode, Generate, BeginStream, CutShort, Emit, SendText, SendRefused,
         Finish, FailStream, SendError, ErrorSent, Panic, JobMatchesStep, NoJob, Commands
<1>1. queue' = queue
  BY DEF Engine, Encode, Generate, BeginStream, CutShort, Emit, SendText, SendRefused,
         Finish, FailStream, SendError, ErrorSent, Panic, Return, Continue, ReturnFromStream
<1>2. JobMatchesStep'
  BY <1>0 DEF Engine, Encode, Generate, BeginStream, CutShort, Emit, SendText, SendRefused,
         Finish, FailStream, SendError, ErrorSent, Panic, Return, Continue,
         ReturnFromStream, JobMatchesStep, StreamSteps
<1>3. sampler' \in Sampler /\ saved' \in Sampler
  <2>1. Restored \in Sampler /\ Base \in Sampler
    BY DEF Restored, Base, Sampler
  <2>2. /\ sampler' \in {sampler, Restored}
        /\ saved' \in {saved, Base}
    BY DEF Engine, Encode, Generate, BeginStream, CutShort, Emit, SendText, SendRefused,
         Finish, FailStream, SendError, ErrorSent, Panic, Return, Continue, ReturnFromStream
  <2> QED BY <2>1, <2>2
<1>4. StreamsFit'
  <2>0. StreamsFit /\ stream[job.req] \in Streams
        /\ Len(stream[job.req].buffer) <= StreamCapacity
    BY <1>0 DEF StreamsFit
  <2>1. ASSUME NEW message \in {"text", "error"}, Put(message) PROVE StreamsFit'
    <3>1. /\ Append(stream[job.req].buffer, message) \in Seq({"text", "error"})
          /\ Len(Append(stream[job.req].buffer, message)) <= StreamCapacity
      BY <2>0, <2>1, LenProperties, EngineAssumption DEF Put, HasRoom, Streams
    <3>2. [stream[job.req] EXCEPT !.buffer = Append(@, message)] \in Streams
      BY <2>0, <3>1 DEF Streams
    <3> QED BY <1>0, <2>0, <2>1, <3>1, <3>2, StreamChange DEF Put, Streams
  <2>2. CASE stream' = [stream EXCEPT ![job.req].sender = FALSE]
    <3>1. [stream[job.req] EXCEPT !.sender = FALSE] \in Streams
      BY <2>0 DEF Streams
    <3> QED BY <1>0, <2>0, <2>2, <3>1, StreamChange DEF Streams
  <2>3. CASE UNCHANGED stream
    BY <2>0, <2>3 DEF StreamsFit
  <2>4. \/ \E message \in {"text", "error"} : Put(message)
        \/ stream' = [stream EXCEPT ![job.req].sender = FALSE]
        \/ UNCHANGED stream
    BY DEF Engine, Encode, Generate, BeginStream, CutShort, Emit, SendText, SendRefused,
         Finish, FailStream, SendError, ErrorSent, Panic, Answer, Continue, ReturnFromStream
  <2> QED BY <2>1, <2>2, <2>3, <2>4
<1>5. reply' \in [Requests -> Replies]
  <2>1. \/ UNCHANGED reply
        \/ \E value \in {"value", "error", "dropped"} : Answer(value)
    BY DEF Engine, Encode, Generate, BeginStream, CutShort, Emit, SendText, SendRefused,
         Finish, FailStream, SendError, ErrorSent, Panic, Continue, ReturnFromStream
  <2> QED BY <2>1, <1>0 DEF Answer, Replies
<1>6. history' \in [Requests -> Histories]
  <2>0. history[job.req] \in Histories /\ history[job.req].outcome \in Outcomes
    BY <1>0 DEF Histories
  <2>1. CASE Panic
    <3>1. PICK o \in Outcomes : history' = [history EXCEPT ![job.req].outcome = o]
      BY <2>0, <2>1 DEF Panic, Outcomes
    <3> QED BY <1>0, <2>0, <3>1 DEF Histories
  <2>2. ASSUME NEW o \in Outcomes, history' = [history EXCEPT ![job.req].outcome = o]
        PROVE  history' \in [Requests -> Histories]
    BY <1>0, <2>0, <2>2 DEF Histories
  <2>3. ASSUME NEW message \in {"text", "error"}, Put(message)
        PROVE  history' \in [Requests -> Histories]
    <3> DEFINE h == [history[job.req] EXCEPT
                        !.sent = IF message = "text" THEN @ + 1 ELSE @,
                        !.late = IF stream[job.req].cancelled THEN @ + 1 ELSE @]
    <3>1. h \in Histories
      <4> DEFINE sent == IF message = "text" THEN history[job.req].sent + 1
                                             ELSE history[job.req].sent
                 late == IF stream[job.req].cancelled THEN history[job.req].late + 1
                                                      ELSE history[job.req].late
      <4>1. h = [history[job.req] EXCEPT !.sent = sent, !.late = late]
        BY <2>0 DEF Histories
      <4>2. sent \in Nat /\ late \in Nat
        BY <2>0 DEF Histories
      <4> HIDE DEF sent, late, h
      <4> QED BY <2>0, <4>1, <4>2 DEF Histories
    <3>2. history' = [history EXCEPT ![job.req] = h]
      <4>1. history' = [history EXCEPT
                ![job.req].sent = IF message = "text" THEN @ + 1 ELSE @,
                ![job.req].late = IF stream[job.req].cancelled THEN @ + 1 ELSE @]
        BY <2>3 DEF Put
      <4>2. history \in [Requests -> Histories]
        OBVIOUS
      <4> QED BY <1>0, <2>0, <4>1, <4>2 DEF Histories
    <3> QED BY <1>0, <3>1, <3>2
  <2>4. \/ Panic
        \/ UNCHANGED history
        \/ \E o \in Outcomes : history' = [history EXCEPT ![job.req].outcome = o]
        \/ \E message \in {"text", "error"} : Put(message)
    <3>1. CASE Generate
      BY <3>1 DEF Generate, Outcomes
    <3>2. CASE CutShort \/ SendRefused \/ Finish \/ FailStream \/ ErrorSent
      BY <3>2 DEF CutShort, SendRefused, Finish, FailStream, ErrorSent, ReturnFromStream, Outcomes
    <3> QED BY <3>1, <3>2 DEF Engine, Encode, BeginStream, Emit, SendText, SendError
  <2> QED BY <2>1, <2>2, <2>3, <2>4
<1> QED BY <1>1, <1>2, <1>3, <1>4, <1>5, <1>6 DEF StreamsFit

\* Every step keeps the types.
LEMMA TypesPreserved ==
    ASSUME TypeInv, [Next]_vars
    PROVE  TypeInv'
<1>1. CASE UNCHANGED vars
  BY <1>1 DEF vars, engine, TypeInv, JobMatchesStep
<1> QED BY <1>1, ClientTypes, TakeCommandTypes, HandlerTypes DEF Next

----------------------------------------------------------------------------
(* Pending generations.  A request asks for its generation once, so while  *)
(* its command is queued or in execution no other command can decide its   *)
(* outcome: what a panic wrote there stays.                                *)

\* The command in execution, then the queue.
Command(i) == IF i = 0 THEN job ELSE queue[i]

IsGeneration(command) == command.kind \in {"generate", "stream"}

PendingInv ==
    \A i \in 0 .. Len(queue) : IsGeneration(Command(i)) =>
        /\ history[Command(i).req].outcome = "asked"
        /\ \A j \in 0 .. Len(queue) :
              IsGeneration(Command(j)) /\ Command(j).req = Command(i).req => j = i

OutcomesKept == \A r \in Requests : history'[r].outcome = history[r].outcome

\* What a handler's step does to the commands and the outcomes.
Returned ==
    /\ step' = "idle" /\ job' = NoJob /\ queue' = queue
    /\ \A r \in Requests :
          \/ history'[r].outcome = history[r].outcome
          \/ r = job.req /\ IsGeneration(job)

Continued ==
    /\ job' = job /\ queue' = queue
    /\ OutcomesKept

\* A step of a handler returns or continues.
LEMMA HandlerOutcomes ==
    ASSUME TypeInv, Engine, ~TakeCommand
    PROVE  Returned \/ Continued
<1>0. /\ job \in Commands /\ job.req \in Requests
      /\ history \in [Requests -> Histories]
      /\ step = "encode" <=> job.kind = "encode"
      /\ step = "generate" <=> job.kind = "generate"
      /\ step \in StreamSteps <=> job.kind = "stream"
  BY DEF Engine, Encode, Generate, BeginStream, CutShort, Emit, SendText, SendRefused,
         Finish, FailStream, SendError, ErrorSent, Panic, TypeInv, JobMatchesStep, NoJob,
         Commands, StreamSteps
<1>1. ASSUME NEW o \in Outcomes, ReturnFromStream(o), step \in StreamSteps
      PROVE  Returned
  BY <1>0, <1>1 DEF ReturnFromStream, Return, Returned, IsGeneration, Histories
<1>2. ASSUME NEW message, Put(message)
      PROVE  OutcomesKept
  BY <1>0, <1>2 DEF Put, OutcomesKept, Histories
<1>3. CASE CutShort \/ SendRefused \/ Finish \/ ErrorSent
  BY <1>1, <1>3 DEF CutShort, SendRefused, Finish, ErrorSent, Outcomes, StreamSteps
<1>4. CASE FailStream
  BY <1>0, <1>1, <1>4 DEF FailStream, Continue, Outcomes, StreamSteps, Continued, OutcomesKept
<1>5. CASE BeginStream \/ Emit
  BY <1>5 DEF BeginStream, Emit, Continue, Continued, OutcomesKept
<1>6. CASE SendText \/ SendError
  BY <1>2, <1>6 DEF SendText, SendError, Continue, Continued
<1>7. CASE Encode
  BY <1>7 DEF Encode, Return, Returned
<1>8. CASE Generate
  BY <1>0, <1>8 DEF Generate, Return, Returned, IsGeneration, Histories
<1>9. CASE Panic
  BY <1>0, <1>9 DEF Panic, Return, Returned, IsGeneration, Histories, Commands
<1> QED BY <1>3, <1>4, <1>5, <1>6, <1>7, <1>8, <1>9 DEF Engine

\* Every step keeps what is pending consistent.
LEMMA PendingPreserved ==
    ASSUME TypeInv, PendingInv, [Next]_vars
    PROVE  PendingInv'
<1>0. /\ Len(queue) \in Nat
      /\ \A i \in 1 .. Len(queue) : queue[i] \in Commands
      /\ \A i \in 0 .. Len(queue) : IsGeneration(Command(i)) => Command(i).req \in Requests
      /\ history \in [Requests -> Histories]
  <2>1. /\ Len(queue) \in Nat
        /\ \A i \in 1 .. Len(queue) : queue[i] \in Commands
    BY LenProperties, ElementOfSeq DEF TypeInv
  <2>2. IsGeneration(job) => job.req \in Requests
    BY DEF TypeInv, JobMatchesStep, Commands, NoJob, IsGeneration
  <2> QED BY <2>1, <2>2 DEF TypeInv, Command, Commands
<1>1. ASSUME UNCHANGED <<queue, job>>, OutcomesKept
      PROVE  PendingInv'
  BY <1>0, <1>1 DEF PendingInv, Command, OutcomesKept
<1>2. ASSUME Returned
      PROVE  PendingInv'
  <2>1. ~IsGeneration(Command(0)')
    BY <1>2 DEF Returned, Command, IsGeneration, NoJob
  <2>2. \A i \in 1 .. Len(queue) : Command(i)' = Command(i)
    BY <1>2 DEF Returned, Command
  <2>3. \A i \in 1 .. Len(queue) :
          IsGeneration(Command(i)) => history'[Command(i).req].outcome = "asked"
    BY <1>0, <1>2 DEF PendingInv, Returned, Command
  <2> QED BY <1>0, <1>2, <2>1, <2>2, <2>3 DEF PendingInv, Returned
<1>3. CASE TakeCommand
  <2>1. /\ queue # <<>> /\ Len(queue') = Len(queue) - 1
        /\ \A i \in 1 .. Len(queue') : queue'[i] = queue[i + 1]
        /\ job' = queue[1]
    BY <1>3, HeadTailProperties DEF TakeCommand, TypeInv
  <2>2. \A i \in 0 .. Len(queue') : Command(i)' = Command(i + 1)
    BY <1>0, <2>1 DEF Command
  <2>3. history' = history
    BY <1>3 DEF TakeCommand
  <2>4. \A i \in 0 .. Len(queue') : i + 1 \in 0 .. Len(queue)
    BY <1>0, <2>1
  <2> QED BY <1>0, <2>1, <2>2, <2>3, <2>4 DEF PendingInv
<1>4. ASSUME NEW r \in Requests, NEW kind \in {"encode", Answering(r)}, Submit(kind, r)
      PROVE  PendingInv'
  <2> DEFINE new == [kind |-> kind, req |-> r]
  <2>l. PICK last \in Nat : last = Len(queue) + 1
    BY <1>0
  <2>1. /\ Len(queue') = Len(queue) + 1
        /\ \A i \in 1 .. Len(queue) : queue'[i] = queue[i]
        /\ queue'[Len(queue) + 1] = new
    BY <1>0, <1>4 DEF Submit, TypeInv
  <2>2. /\ \A i \in 0 .. Len(queue) : Command(i)' = Command(i)
        /\ Command(last)' = new
    <3>1. job' = job
      BY <1>4 DEF Submit
    <3>2. \A i \in 0 .. Len(queue) : i = 0 \/ i \in 1 .. Len(queue)
      BY <1>0
    <3>3. last # 0
      BY <1>0, <2>l
    <3> HIDE DEF new
    <3> QED BY <2>1, <2>l, <3>1, <3>2, <3>3 DEF Command
  <2>n. \A i \in 0 .. Len(queue') : i \in 0 .. Len(queue) \/ i = last
    BY <1>0, <2>l, <2>1
  <2>3. CASE kind = "encode"
    <3>1. history' = history /\ ~IsGeneration(new)
      BY <1>4, <2>3 DEF Submit, IsGeneration
    <3>2. \A i \in 0 .. Len(queue') : IsGeneration(Command(i)') =>
             i \in 0 .. Len(queue) /\ Command(i)' = Command(i)
      BY <2>2, <2>n, <3>1
    <3> QED BY <3>1, <3>2 DEF PendingInv
  <2>4. CASE kind # "encode"
    <3>1. /\ history[r].outcome = "new"
          /\ history'[r].outcome = "asked"
          /\ \A q \in Requests \ {r} : history'[q].outcome = history[q].outcome
      BY <1>0, <1>4, <2>4 DEF Submit, Histories
    <3>2. \A i \in 0 .. Len(queue) : IsGeneration(Command(i)) => Command(i).req # r
      BY <3>1 DEF PendingInv
    <3>3. \A i \in 0 .. Len(queue) : IsGeneration(Command(i)) =>
             history'[Command(i).req].outcome = "asked"
      BY <1>0, <3>1, <3>2 DEF PendingInv
    <3> HIDE DEF new
    <3>4. new.req = r
      BY DEF new
    <3>5. SUFFICES ASSUME NEW i \in 0 .. Len(queue'), IsGeneration(Command(i)')
                   PROVE  /\ history'[Command(i)'.req].outcome = "asked"
                          /\ \A j \in 0 .. Len(queue') :
                                IsGeneration(Command(j)') /\ Command(j)'.req = Command(i)'.req
                                => j = i
      BY DEF PendingInv
    <3>6. CASE i \in 0 .. Len(queue)
      BY <2>2, <2>n, <3>2, <3>3, <3>4, <3>5, <3>6 DEF PendingInv
    <3>7. CASE i = last
      BY <2>2, <2>n, <3>1, <3>2, <3>4, <3>5, <3>7
    <3> QED BY <2>n, <3>6, <3>7
  <2> QED BY <2>3, <2>4
<1>5. ASSUME NEW r \in Requests, Receive(r) \/ Cancel(r) \/ Close(r) \/ TakeReply(r) \/ AbandonReply(r)
      PROVE  PendingInv'
  BY <1>1, <1>5 DEF Receive, Cancel, Close, TakeReply, AbandonReply, engine, OutcomesKept
<1>6. CASE UNCHANGED vars
  BY <1>1, <1>6 DEF vars, engine, OutcomesKept
<1>7. CASE Engine /\ ~TakeCommand
  BY <1>1, <1>2, <1>7, HandlerOutcomes DEF Continued
<1> QED BY <1>3, <1>4, <1>5, <1>6, <1>7 DEF Next, Client

----------------------------------------------------------------------------
(* The sampler.  The checkpoint of a running handler is the sampler the    *)
(* model was loaded with, so restoring it undoes all the request did.      *)

NoPanic == \A r \in Requests : history[r].outcome # "panicked"

SamplerInv ==
    NoPanic => /\ RequestScoped
               /\ step \notin {"idle", "encode"} => saved = Base

\* A panic is never forgotten.
LEMMA PanicsStay ==
    ASSUME TypeInv, PendingInv, [Next]_vars, NoPanic'
    PROVE  NoPanic
<1>1. SUFFICES ASSUME NEW r \in Requests, history[r].outcome = "panicked"
               PROVE  history'[r].outcome = "panicked"
  BY DEF NoPanic
<1>2. CASE Engine /\ ~TakeCommand
  <2>1. IsGeneration(job) => history[job.req].outcome = "asked"
    BY LenProperties DEF TypeInv, PendingInv, Command
  <2> QED BY <1>1, <1>2, <2>1, HandlerOutcomes DEF Returned, Continued, OutcomesKept
<1>3. CASE TakeCommand \/ UNCHANGED vars
  BY <1>1, <1>3 DEF TakeCommand, vars
<1>4. ASSUME NEW q \in Requests, Client(q)
      PROVE  history'[r].outcome = "panicked"
  BY <1>1, <1>4 DEF Client, Submit, Receive, Cancel, Close, TakeReply, AbandonReply,
                    TypeInv, Histories
<1> QED BY <1>2, <1>3, <1>4 DEF Next

\* Every step keeps the sampler's invariant.
LEMMA SamplerPreserved ==
    ASSUME TypeInv, PendingInv, SamplerInv, [Next]_vars
    PROVE  SamplerInv'
<1>1. SUFFICES ASSUME NoPanic'
               PROVE  RequestScoped' /\ (step' \notin {"idle", "encode"} => saved' = Base)
  BY DEF SamplerInv
<1>2. RequestScoped /\ (step \notin {"idle", "encode"} => saved = Base)
  BY <1>1, PanicsStay DEF SamplerInv
<1>3. ASSUME step' = "idle", job' = NoJob, sampler' = Restored, step \notin {"idle", "encode"}
      PROVE  RequestScoped'
  BY <1>2, <1>3 DEF RequestScoped, Restored, Base
<1>4. ASSUME UNCHANGED <<sampler, saved, job>>,
             step \notin {"idle", "encode"}, step' \notin {"idle", "encode"}
      PROVE  RequestScoped' /\ saved' = Base
  BY <1>2, <1>4 DEF RequestScoped
<1>5. ASSUME UNCHANGED <<sampler, saved, job, step>>
      PROVE  RequestScoped' /\ (step' \notin {"idle", "encode"} => saved' = Base)
  BY <1>2, <1>5 DEF RequestScoped
<1>6. CASE TakeCommand
  <2>1. Head(queue) \in Commands
    BY <1>6, HeadTailProperties DEF TakeCommand, TypeInv
  <2>2. sampler = Base
    BY <1>2, <1>6 DEF TakeCommand, RequestScoped
  <2> QED BY <1>6, <2>1, <2>2 DEF TakeCommand, RequestScoped, Apply, Base
<1>7. CASE Encode
  BY <1>2, <1>7 DEF Encode, Return, RequestScoped
<1>8. CASE Generate
  BY <1>3, <1>8 DEF Generate, Return
<1>9. CASE CutShort \/ SendRefused \/ Finish \/ ErrorSent
  BY <1>3, <1>9 DEF CutShort, SendRefused, Finish, ErrorSent, ReturnFromStream, Return
<1>10. CASE FailStream
  BY <1>3, <1>4, <1>10 DEF FailStream, ReturnFromStream, Return, Continue
<1>11. CASE BeginStream \/ Emit \/ SendText \/ SendError
  BY <1>4, <1>11 DEF BeginStream, Emit, SendText, SendError, Continue
<1>12. CASE Panic
  <2>1. job.kind = "encode"
    <3>1. SUFFICES ASSUME job.kind # "encode" PROVE FALSE
      OBVIOUS
    <3>2. job.req \in Requests
      BY <1>12 DEF Panic, TypeInv, JobMatchesStep, Commands
    <3> QED BY <1>1, <1>12, <3>1, <3>2 DEF Panic, NoPanic, TypeInv, Histories
  <2>2. step = "encode"
    BY <1>12, <2>1 DEF Panic, TypeInv, JobMatchesStep, NoJob
  <2> QED BY <1>2, <1>12, <2>2 DEF Panic, Return, RequestScoped
<1>13. ASSUME NEW r \in Requests, Client(r)
       PROVE  RequestScoped' /\ (step' \notin {"idle", "encode"} => saved' = Base)
  BY <1>5, <1>13 DEF Client, Submit, Receive, Cancel, Close, TakeReply, AbandonReply, engine
<1>14. CASE UNCHANGED vars
  BY <1>5, <1>14 DEF vars, engine
<1> QED BY <1>6, <1>7, <1>8, <1>9, <1>10, <1>11, <1>12, <1>13, <1>14 DEF Next, Engine

----------------------------------------------------------------------------
(* Late messages.  A message counted late leaves its stream cancelled, and *)
(* a handler starts to send only after it has seen the stream wanted.      *)

LateInv ==
    /\ \A r \in Requests :
          /\ history[r].late \in {0, 1}
          /\ history[r].late = 1 => stream[r].cancelled
          /\ history[r].outcome = "new" => history[r].late = 0
    /\ step \in {"send", "report"} => history[job.req].late = 0

\* Every step keeps the invariant of late messages.
LEMMA LatePreserved ==
    ASSUME TypeInv, PendingInv, LateInv, [Next]_vars
    PROVE  LateInv'
<1>0. /\ history \in [Requests -> Histories]
      /\ stream \in [Requests -> Streams]
      /\ step \in StreamSteps => /\ job.req \in Requests
                                /\ history[job.req].outcome = "asked"
  <2>1. step \in StreamSteps => job.req \in Requests /\ job.kind = "stream"
    BY DEF TypeInv, JobMatchesStep, StreamSteps, NoJob, Commands
  <2>2. 0 \in 0 .. Len(queue)
    BY LenProperties DEF TypeInv
  <2> QED BY <2>1, <2>2 DEF TypeInv, PendingInv, Command, IsGeneration
\* Nothing is delivered, no flag goes down and nobody starts to send.
<1>1. ASSUME \A r \in Requests :
                /\ history'[r].late = history[r].late
                /\ stream[r].cancelled => stream'[r].cancelled
                /\ history'[r].outcome = "new" => history[r].outcome = "new",
             step' \in {"send", "report"} => history'[job'.req].late = 0
      PROVE  LateInv'
  BY <1>1 DEF LateInv
<1>2. ASSUME UNCHANGED <<stream, history>>, step' \notin {"send", "report"}
      PROVE  LateInv'
  BY <1>1, <1>2
<1>3. ASSUME NEW o \in Outcomes \ {"new"}, ReturnFromStream(o), step \in StreamSteps
      PROVE  LateInv'
  BY <1>0, <1>1, <1>3 DEF ReturnFromStream, Return, Histories, Streams
<1>4. CASE TakeCommand \/ BeginStream
  BY <1>2, <1>4 DEF TakeCommand, BeginStream, Continue
<1>5. CASE Encode
  BY <1>2, <1>5 DEF Encode, Answer, Return
<1>6. CASE Generate
  <2>1. UNCHANGED stream /\ step' = "idle"
    BY <1>6 DEF Generate, Answer, Return
  <2>2. \A r \in Requests :
           /\ history'[r].late = history[r].late
           /\ history'[r].outcome = "new" => history[r].outcome = "new"
    BY <1>0, <1>6 DEF Generate, Histories
  <2> QED BY <1>1, <2>1, <2>2
<1>7. CASE CutShort \/ SendRefused \/ Finish \/ ErrorSent
  BY <1>3, <1>7 DEF CutShort, SendRefused, Finish, ErrorSent, Outcomes, StreamSteps
<1>8. ASSUME step \in {"begin", "stream"}, ~stream[job.req].cancelled,
             UNCHANGED <<stream, history, job>>
      PROVE  LateInv'
  BY <1>0, <1>1, <1>8 DEF LateInv, StreamSteps
<1>9. CASE Emit
  BY <1>8, <1>9 DEF Emit, Wanted, Abandoned, Continue
<1>10. CASE FailStream
  BY <1>3, <1>8, <1>10 DEF FailStream, Continue, Outcomes, StreamSteps
<1>11. CASE SendText \/ SendError
  <2>1. PICK message \in {"text", "error"} : Put(message)
    BY <1>11 DEF SendText, SendError
  <2>2. step \in {"send", "report"} /\ step' \notin {"send", "report"}
    BY <1>11 DEF SendText, SendError, Continue
  <2>3. job.req \in Requests /\ history[job.req].outcome = "asked" /\ history[job.req].late = 0
    BY <1>0, <2>2 DEF LateInv, StreamSteps
  <2>4. \A r \in Requests : stream'[r].cancelled = stream[r].cancelled
    BY <1>0, <2>1, <2>3 DEF Put, Streams
  <2>5. \A r \in Requests : history'[r].outcome = history[r].outcome
    BY <1>0, <2>1, <2>3 DEF Put, Histories
  <2>6. history'[job.req].late = IF stream[job.req].cancelled THEN 1 ELSE 0
    BY <1>0, <2>1, <2>3 DEF Put, Histories
  <2>7. \A r \in Requests \ {job.req} : history'[r].late = history[r].late
    BY <1>0, <2>1, <2>3 DEF Put, Histories
  <2> QED BY <2>2, <2>3, <2>4, <2>5, <2>6, <2>7 DEF LateInv
<1>12. CASE Panic
  <2>1. \A r \in Requests :
           /\ history'[r].late = history[r].late
           /\ history'[r].outcome = "new" => history[r].outcome = "new"
    BY <1>0, <1>12 DEF Panic, Histories
  <2>2. \A r \in Requests : stream'[r].cancelled = stream[r].cancelled
    <3>1. \/ UNCHANGED stream
          \/ /\ stream' = [stream EXCEPT ![job.req].sender = FALSE]
             /\ job.req \in Requests
      BY <1>12 DEF Panic, Answer, TypeInv, JobMatchesStep, NoJob, Commands
    <3> QED BY <1>0, <3>1 DEF Streams
  <2> QED BY <1>1, <1>12, <2>1, <2>2 DEF Panic, Return
<1>13. ASSUME NEW r \in Requests, NEW kind \in {"encode", Answering(r)}, Submit(kind, r)
       PROVE  LateInv'
  <2>1. CASE kind = "encode"
    BY <1>1, <1>13, <2>1 DEF Submit, LateInv
  <2>2. CASE kind # "encode"
    <3>1. /\ history[r].outcome = "new"
          /\ \A q \in Requests : history'[q].late = history[q].late
          /\ \A q \in Requests : history'[q].outcome = "new" => history[q].outcome = "new"
          /\ \A q \in Requests \ {r} : stream'[q] = stream[q]
      <4>1. /\ history[r].outcome = "new"
            /\ history' = [history EXCEPT ![r].outcome = "asked"]
            /\ \/ UNCHANGED stream
               \/ stream' = [stream EXCEPT ![r] = Opened]
        BY <1>13, <2>2 DEF Submit
      <4> QED BY <1>0, <4>1 DEF Histories
    <3>2. UNCHANGED <<job, step>>
      BY <1>13 DEF Submit
    <3> QED BY <1>0, <3>1, <3>2 DEF LateInv, StreamSteps
  <2> QED BY <2>1, <2>2
<1>14. ASSUME NEW r \in Requests, Receive(r) \/ Cancel(r) \/ Close(r) \/ TakeReply(r) \/ AbandonReply(r)
       PROVE  LateInv'
  <2>1. UNCHANGED <<job, step, history>>
    BY <1>14 DEF Receive, Cancel, Close, TakeReply, AbandonReply, engine
  <2>2. \A q \in Requests : stream[q].cancelled => stream'[q].cancelled
    <3>1. CASE Receive(r)
      BY <1>0, <3>1 DEF Receive, Streams
    <3>2. CASE Cancel(r)
      BY <1>0, <3>2 DEF Cancel, Cancelled, Streams
    <3>3. CASE Close(r)
      BY <1>0, <3>3 DEF Close, Cancelled, Dropped, Streams
    <3> QED BY <1>14, <3>1, <3>2, <3>3 DEF TakeReply, AbandonReply
  <2> QED BY <1>1, <2>1, <2>2 DEF LateInv
<1>15. CASE UNCHANGED vars
  BY <1>15 DEF vars, engine, LateInv
<1> QED BY <1>4, <1>5, <1>6, <1>7, <1>9, <1>10, <1>11, <1>12, <1>13, <1>14, <1>15 DEF Next, Engine, Client

----------------------------------------------------------------------------
(* Who waits.  A command is in the queue or in execution exactly as long   *)
(* as somebody may be told of its outcome.                                 *)

AnswersByReply(command) == command.kind \in {"encode", "generate"}

PendingReply(r) ==
    \E i \in 0 .. Len(queue) : AnswersByReply(Command(i)) /\ Command(i).req = r

PendingGeneration(r) ==
    \E i \in 0 .. Len(queue) : Command(i) = [kind |-> Answering(r), req |-> r]

\* Each command that answers once has a reply channel of its own.
ReplyInv ==
    /\ \A i \in 0 .. Len(queue) : AnswersByReply(Command(i)) =>
          /\ reply[Command(i).req] \in {"waiting", "abandoned"}
          /\ \A j \in 0 .. Len(queue) :
                AnswersByReply(Command(j)) /\ Command(j).req = Command(i).req => j = i
    /\ \A r \in Requests : reply[r] = "waiting" => PendingReply(r)

\* A generation is pending while its outcome is open, a stream while its
\* responder lives.
GenerationInv ==
    /\ \A i \in 0 .. Len(queue) :
          IsGeneration(Command(i)) => Command(i).kind = Answering(Command(i).req)
    /\ \A r \in Requests :
          /\ history[r].outcome = "asked" => PendingGeneration(r)
          /\ stream[r].sender <=> r \in Streaming /\ PendingGeneration(r)
          /\ history[r].outcome = "new" => history[r].sent = 0

----------------------------------------------------------------------------
(* What a stream still owes a client that has taken n pieces of its text   *)
(* and no error, and wants the rest.                                       *)

Messages == {"text", "error"}

AllText(s) == \A i \in 1 .. Len(s) : s[i] = "text"

EndsInError(s) == s # <<>> /\ s[Len(s)] = "error"

\* The error has been sent.
Reported(r) == history[r].outcome = "failed" \/ (step = "return" /\ job.req = r)

Owed(r, n) ==
    LET buffer == stream[r].buffer IN
    /\ stream[r].receiver /\ ~stream[r].cancelled
    /\ history[r].outcome \in {"asked", "complete", "failed", "panicked"}
    /\ IF Reported(r)
       THEN EndsInError(buffer)
       ELSE n + Len(buffer) = history[r].sent /\ AllText(buffer)

----------------------------------------------------------------------------
(* What one step does to the commands, the channels and the outcomes.      *)

Closed == Outcomes \ {"new", "asked"}

\* The command in execution is answered once.
AnswersOnce ==
    /\ AnswersByReply(job)
    /\ job' = NoJob
    /\ \E value \in {"value", "error", "dropped"} :
          reply' = [reply EXCEPT ![job.req] = IF @ = "waiting" THEN value ELSE @]
    /\ UNCHANGED stream
    /\ IF job.kind = "encode"
       THEN UNCHANGED history
       ELSE \E o \in Closed : history' = [history EXCEPT ![job.req].outcome = o]

\* The stream in execution comes to its end.
EndsStream ==
    /\ job.kind = "stream"
    /\ job' = NoJob
    /\ UNCHANGED reply
    /\ stream' = [stream EXCEPT ![job.req].sender = FALSE]
    /\ \E o \in Closed : history' = [history EXCEPT ![job.req].outcome = o]

GoesOn ==
    /\ job.kind = "stream"
    /\ UNCHANGED <<job, reply>>
    /\ UNCHANGED <<stream, history>> \/ \E message \in {"text", "error"} : Put(message)

\* A handler's step is one of the three, and leaves the queue alone.
LEMMA HandlerEffects ==
    ASSUME TypeInv, Engine, ~TakeCommand
    PROVE  /\ queue' = queue
           /\ job \in Commands /\ job.req \in Requests
           /\ AnswersOnce \/ EndsStream \/ GoesOn
<1>0. /\ job \in Commands /\ job.req \in Requests
      /\ history \in [Requests -> Histories]
      /\ step = "encode" <=> job.kind = "encode"
      /\ step = "generate" <=> job.kind = "generate"
      /\ step \in StreamSteps <=> job.kind = "stream"
  BY DEF Engine, Encode, Generate, BeginStream, CutShort, Emit, SendText, SendRefused,
         Finish, FailStream, SendError, ErrorSent, Panic, TypeInv, JobMatchesStep, NoJob,
         Commands, StreamSteps
<1>1. ASSUME NEW o \in Closed, ReturnFromStream(o), step \in StreamSteps
      PROVE  queue' = queue /\ EndsStream
  BY <1>0, <1>1 DEF ReturnFromStream, Return, EndsStream
<1>2. CASE CutShort \/ SendRefused \/ Finish \/ ErrorSent
  BY <1>0, <1>1, <1>2 DEF CutShort, SendRefused, Finish, ErrorSent, Outcomes, Closed, StreamSteps
<1>3. CASE FailStream
  BY <1>0, <1>1, <1>3 DEF FailStream, Continue, Outcomes, Closed, StreamSteps, GoesOn
<1>4. CASE BeginStream \/ Emit \/ SendText \/ SendError
  BY <1>0, <1>4 DEF BeginStream, Emit, SendText, SendError, Continue, StreamSteps, GoesOn
<1>5. CASE Encode
  BY <1>0, <1>5 DEF Encode, Answer, Return, AnswersOnce, AnswersByReply
<1>6. CASE Generate
  <2>1. PICK value \in {"value", "error"} :
           /\ Answer(value)
           /\ history' = [history EXCEPT ![job.req].outcome =
                            IF value = "value" THEN "complete" ELSE "failed"]
    BY <1>6 DEF Generate
  <2>2. job.kind = "generate" /\ job' = NoJob /\ queue' = queue
    BY <1>0, <1>6 DEF Generate, Return
  <2>3. \E o \in Closed : history' = [history EXCEPT ![job.req].outcome = o]
    <3>1. (IF value = "value" THEN "complete" ELSE "failed") \in Closed
      BY DEF Closed, Outcomes
    <3> QED BY <2>1, <3>1
  <2> QED BY <1>0, <2>1, <2>2, <2>3 DEF Answer, AnswersOnce, AnswersByReply
<1>7. CASE Panic
  <2>1. queue' = queue /\ job' = NoJob
    BY <1>7 DEF Panic, Return
  <2>2. CASE job.kind = "stream"
    BY <1>0, <1>7, <2>1, <2>2 DEF Panic, EndsStream, Closed, Outcomes
  <2>3. CASE job.kind = "generate"
    BY <1>0, <1>7, <2>1, <2>3 DEF Panic, Answer, AnswersOnce, AnswersByReply, Closed, Outcomes
  <2>4. CASE job.kind = "encode"
    <3>1. history' = history
      BY <1>0, <1>7, <2>4 DEF Panic, Histories
    <3> QED BY <1>0, <1>7, <2>1, <2>4, <3>1 DEF Panic, Answer, AnswersOnce, AnswersByReply
  <2> QED BY <1>0, <2>2, <2>3, <2>4 DEF Commands
<1> QED BY <1>0, <1>2, <1>3, <1>4, <1>5, <1>6, <1>7 DEF Engine

\* Reading a command moves every command one place forward.
LEMMA TakeCommandShifts ==
    ASSUME TypeInv, TakeCommand
    PROVE  /\ Len(queue) \in Nat \ {0} /\ Len(queue') = Len(queue) - 1
           /\ \A i \in 0 .. Len(queue') : Command(i)' = Command(i + 1)
           /\ Command(0) = NoJob
           /\ UNCHANGED <<stream, reply, history>>
<1>1. /\ Len(queue) \in Nat \ {0} /\ Len(queue') = Len(queue) - 1
      /\ \A i \in 1 .. Len(queue') : queue'[i] = queue[i + 1]
      /\ job' = queue[1]
  BY HeadTailProperties, EmptySeq, LenProperties DEF TakeCommand, TypeInv
<1>2. job = NoJob
  BY DEF TakeCommand, TypeInv, JobMatchesStep, StreamSteps
<1> QED BY <1>1, <1>2 DEF Command, TakeCommand

\* Submitting a command adds it behind the others.
LEMMA SubmitAppends ==
    ASSUME TypeInv, NEW r \in Requests, NEW kind \in {"encode", Answering(r)}, Submit(kind, r)
    PROVE  /\ Len(queue) \in Nat /\ Len(queue') = Len(queue) + 1
           /\ \A i \in 0 .. Len(queue) : Command(i)' = Command(i)
           /\ \A last : last = Len(queue) + 1 => Command(last)' = [kind |-> kind, req |-> r]
<1>1. /\ Len(queue) \in Nat /\ Len(queue') = Len(queue) + 1
      /\ \A i \in 1 .. Len(queue) : queue'[i] = queue[i]
      /\ queue'[Len(queue) + 1] = [kind |-> kind, req |-> r]
      /\ job' = job
  BY LenProperties DEF Submit, TypeInv
<1>2. \A i \in 0 .. Len(queue) : i = 0 \/ i \in 1 .. Len(queue)
  BY <1>1
<1>3. Len(queue) + 1 # 0
  BY <1>1
<1> QED BY <1>1, <1>2, <1>3 DEF Command

\* The commands behind the one in execution stay in a handler's step.
LEMMA HandlerCommands ==
    ASSUME TypeInv, queue' = queue
    PROVE  /\ Len(queue) \in Nat /\ Len(queue') = Len(queue)
           /\ \A i \in 1 .. Len(queue) : Command(i)' = Command(i)
           /\ Command(0) = job /\ Command(0)' = job'
BY LenProperties DEF TypeInv, Command

----------------------------------------------------------------------------
(* Every step keeps who waits for what.                                    *)

\* A reply channel is set up before its command is queued, and told once.
LEMMA RepliesPreserved ==
    ASSUME TypeInv, ReplyInv, [Next]_vars
    PROVE  ReplyInv'
<1>0. /\ reply \in [Requests -> Replies]
      /\ Len(queue) \in Nat
      /\ \A i \in 0 .. Len(queue) : AnswersByReply(Command(i)) => Command(i).req \in Requests
  <2>1. \A i \in 1 .. Len(queue) : queue[i] \in Commands
    BY ElementOfSeq DEF TypeInv
  <2>2. AnswersByReply(job) => job.req \in Requests
    BY DEF TypeInv, JobMatchesStep, Commands, NoJob, AnswersByReply
  <2> QED BY <2>1, <2>2, LenProperties DEF TypeInv, Command, Commands
\* Nothing of it changes.
<1>1. ASSUME UNCHANGED <<queue, job>>,
             \A r \in Requests : /\ reply[r] \in {"waiting", "abandoned"} =>
                                       reply'[r] \in {"waiting", "abandoned"}
                                 /\ reply'[r] = "waiting" => reply[r] = "waiting"
      PROVE  ReplyInv'
  BY <1>0, <1>1 DEF ReplyInv, PendingReply, Command
<1>2. CASE TakeCommand
  <2>1. \A i \in 0 .. Len(queue') : i + 1 \in 0 .. Len(queue)
    BY <1>0, <1>2, TakeCommandShifts
  <2>2. ~AnswersByReply(Command(0))
    BY <1>2, TakeCommandShifts DEF AnswersByReply, NoJob
  <2>3. \A i \in 0 .. Len(queue) : i = 0 \/ (i - 1 \in 0 .. Len(queue') /\ (i - 1) + 1 = i)
    BY <1>0, <1>2, TakeCommandShifts
  <2>4. ASSUME NEW r \in Requests, PendingReply(r) PROVE PendingReply(r)'
    <3>1. PICK i \in 0 .. Len(queue) : AnswersByReply(Command(i)) /\ Command(i).req = r
      BY <2>4 DEF PendingReply
    <3>2. i - 1 \in 0 .. Len(queue') /\ Command(i - 1)' = Command(i)
      BY <1>2, <2>2, <2>3, <3>1, TakeCommandShifts
    <3>3. PICK k \in Int : k = i - 1
      BY <1>0
    <3> QED BY <3>1, <3>2, <3>3 DEF PendingReply
  <2> QED BY <1>0, <1>2, <2>1, <2>4, TakeCommandShifts DEF ReplyInv
<1>3. CASE Engine /\ ~TakeCommand
  <2>1. CASE AnswersOnce
    <3>1. PICK value \in {"value", "error", "dropped"} :
             reply' = [reply EXCEPT ![job.req] = IF @ = "waiting" THEN value ELSE @]
      BY <2>1 DEF AnswersOnce
    <3>2. /\ \A r \in Requests \ {job.req} : reply'[r] = reply[r]
          /\ reply'[job.req] # "waiting"
      BY <1>0, <1>3, <3>1, HandlerEffects
    <3>3. ~AnswersByReply(Command(0)')
      BY <1>3, <2>1, HandlerEffects, HandlerCommands DEF AnswersOnce, AnswersByReply, NoJob
    <3>4. \A i \in 1 .. Len(queue) :
             AnswersByReply(Command(i)) => Command(i).req # job.req
      BY <1>0, <1>3, <2>1, HandlerEffects, HandlerCommands DEF AnswersOnce, ReplyInv
    <3>5. \A i \in 0 .. Len(queue) : i = 0 \/ i \in 1 .. Len(queue)
      BY <1>0
    <3>6. \A i \in 0 .. Len(queue') : AnswersByReply(Command(i)') =>
             i \in 1 .. Len(queue) /\ Command(i)' = Command(i)
      BY <1>3, <3>3, <3>5, HandlerEffects, HandlerCommands
    <3>7. ASSUME NEW r \in Requests, reply'[r] = "waiting" PROVE PendingReply(r)'
      <4>1. reply[r] = "waiting" /\ r # job.req
        BY <3>2, <3>7
      <4>2. PICK i \in 0 .. Len(queue) : AnswersByReply(Command(i)) /\ Command(i).req = r
        BY <4>1 DEF ReplyInv, PendingReply
      <4>3. i \in 1 .. Len(queue)
        BY <1>3, <3>5, <4>1, <4>2, HandlerEffects, HandlerCommands
      <4> QED BY <1>3, <4>2, <4>3, HandlerEffects, HandlerCommands DEF PendingReply
    <3>8. \A i \in 1 .. Len(queue) : i \in 0 .. Len(queue)
      BY <1>0
    <3> QED BY <1>0, <3>2, <3>4, <3>6, <3>7, <3>8 DEF ReplyInv
  <2>2. CASE EndsStream
    <3>1. ~AnswersByReply(Command(0)) /\ ~AnswersByReply(Command(0)')
      BY <1>3, <2>2, HandlerEffects, HandlerCommands DEF EndsStream, AnswersByReply, NoJob
    <3>2. \A i \in 0 .. Len(queue) : i = 0 \/ Command(i)' = Command(i)
      BY <1>0, <1>3, HandlerEffects, HandlerCommands
    <3>3. reply' = reply /\ Len(queue') = Len(queue)
      BY <1>3, <2>2, HandlerEffects, HandlerCommands DEF EndsStream
    <3> QED BY <3>1, <3>2, <3>3 DEF ReplyInv, PendingReply
  <2>3. CASE GoesOn
    BY <1>1, <1>3, <2>3, HandlerEffects DEF GoesOn
  <2> QED BY <1>3, <2>1, <2>2, <2>3, HandlerEffects
<1>4. ASSUME NEW r \in Requests, NEW kind \in {"encode", Answering(r)},
             reply[r] = "none", Submit(kind, r)
      PROVE  ReplyInv'
  <2>1. \A i \in 0 .. Len(queue') : i \in 0 .. Len(queue) \/ i = Len(queue) + 1
    BY <1>0, <1>4, SubmitAppends
  <2>2. \A i \in 0 .. Len(queue) : i \in 0 .. Len(queue')
    BY <1>0, <1>4, SubmitAppends
  <2>3. \A i \in 0 .. Len(queue) : AnswersByReply(Command(i)) => Command(i).req # r
    BY <1>4 DEF ReplyInv
  <2>4. PICK last \in Nat : last = Len(queue) + 1 /\ last \in 0 .. Len(queue')
    BY <1>0, <1>4, SubmitAppends
  <2>5. Command(last)' = [kind |-> kind, req |-> r]
    BY <1>4, <2>4, SubmitAppends
  <2>6. \A q \in Requests : PendingReply(q) => PendingReply(q)'
    BY <1>4, <2>2, SubmitAppends DEF PendingReply
  <2>7. CASE kind = "stream"
    <3>1. reply' = reply
      BY <1>4, <2>7 DEF Submit
    <3>2. \A i \in 0 .. Len(queue') : AnswersByReply(Command(i)') =>
             i \in 0 .. Len(queue) /\ Command(i)' = Command(i)
      BY <1>4, <2>1, <2>4, <2>5, <2>7, SubmitAppends DEF AnswersByReply
    <3> QED BY <2>6, <3>1, <3>2 DEF ReplyInv
  <2>8. CASE kind # "stream"
    <3>1. reply'[r] = "waiting" /\ \A q \in Requests \ {r} : reply'[q] = reply[q]
      BY <1>0, <1>4, <2>8 DEF Submit
    <3>2. PendingReply(r)'
      BY <2>4, <2>5, <2>8 DEF PendingReply, AnswersByReply, Answering
    <3>3. SUFFICES ASSUME NEW i \in 0 .. Len(queue'), AnswersByReply(Command(i)')
                   PROVE  /\ reply'[Command(i)'.req] \in {"waiting", "abandoned"}
                          /\ \A j \in 0 .. Len(queue') :
                                AnswersByReply(Command(j)') /\ Command(j)'.req = Command(i)'.req
                                => j = i
      BY <2>6, <3>1, <3>2 DEF ReplyInv
    <3>4. CASE i \in 0 .. Len(queue)
      <4>1. Command(i)' = Command(i) /\ Command(i).req \in Requests \ {r}
        BY <1>0, <1>4, <2>3, <3>3, <3>4, SubmitAppends
      <4>2. \A j \in 0 .. Len(queue') : Command(j)'.req = Command(i)'.req =>
               j \in 0 .. Len(queue) /\ Command(j)' = Command(j)
        BY <1>4, <2>1, <2>4, <2>5, <4>1, SubmitAppends
      <4> QED BY <3>1, <3>3, <3>4, <4>1, <4>2 DEF ReplyInv
    <3>5. CASE i = last
      BY <1>4, <2>1, <2>3, <2>4, <2>5, <3>1, <3>5, SubmitAppends
    <3> QED BY <2>1, <2>4, <3>4, <3>5
  <2> QED BY <2>7, <2>8
<1>5. ASSUME NEW r \in Requests, Receive(r) \/ Cancel(r) \/ Close(r) \/ TakeReply(r) \/ AbandonReply(r)
      PROVE  ReplyInv'
  BY <1>0, <1>1, <1>5 DEF Receive, Cancel, Close, TakeReply, AbandonReply, engine
<1>6. CASE UNCHANGED vars
  BY <1>1, <1>6 DEF vars, engine
<1> QED BY <1>2, <1>3, <1>4, <1>5, <1>6 DEF Next, Client

\* What is pending after a step, when the commands have changed.
LEMMA GenerationsShift ==
    ASSUME TypeInv, TakeCommand, NEW r
    PROVE  PendingGeneration(r)' <=> PendingGeneration(r)
<1>1. /\ \A i \in 0 .. Len(queue') : i + 1 \in 0 .. Len(queue)
      /\ \A i \in 0 .. Len(queue) : i = 0 \/ (i - 1 \in 0 .. Len(queue') /\ (i - 1) + 1 = i)
  BY TakeCommandShifts
<1>2. Command(0) # [kind |-> Answering(r), req |-> r]
  BY TakeCommandShifts DEF NoJob, Answering
<1>3. ASSUME PendingGeneration(r)' PROVE PendingGeneration(r)
  <2>1. PICK i \in 0 .. Len(queue') : Command(i)' = [kind |-> Answering(r), req |-> r]
    BY <1>3 DEF PendingGeneration
  <2> QED BY <1>1, <2>1, TakeCommandShifts DEF PendingGeneration
<1>4. ASSUME PendingGeneration(r) PROVE PendingGeneration(r)'
  <2>1. PICK i \in 0 .. Len(queue) : Command(i) = [kind |-> Answering(r), req |-> r]
    BY <1>4 DEF PendingGeneration
  <2>2. PICK k \in Int : k = i - 1
    OBVIOUS
  <2>3. k \in 0 .. Len(queue') /\ Command(k)' = Command(i)
    BY <1>1, <1>2, <2>1, <2>2, TakeCommandShifts
  <2> QED BY <2>1, <2>3 DEF PendingGeneration
<1> QED BY <1>3, <1>4

\* When a handler returns, the generation it was for is pending no more, and the
\* others are.
LEMMA GenerationsReturn ==
    ASSUME TypeInv, PendingInv, job' = NoJob, queue' = queue, NEW r \in Requests
    PROVE  IF IsGeneration(job) /\ job.req = r
           THEN ~PendingGeneration(r)'
           ELSE PendingGeneration(r)' <=> PendingGeneration(r)
<1>1. /\ \A i \in 0 .. Len(queue) : i = 0 \/ i \in 1 .. Len(queue)
      /\ \A i \in 1 .. Len(queue) : i \in 0 .. Len(queue) /\ i # 0
      /\ 0 \in 0 .. Len(queue)
  BY HandlerCommands
<1>2. ~PendingGeneration(r)' \/ \E i \in 1 .. Len(queue) :
                                   Command(i) = [kind |-> Answering(r), req |-> r]
  BY <1>1, HandlerCommands DEF PendingGeneration, NoJob, Answering
<1>3. CASE IsGeneration(job) /\ job.req = r
  BY <1>1, <1>2, <1>3, HandlerCommands DEF PendingInv, IsGeneration, Answering
<1>4. CASE ~(IsGeneration(job) /\ job.req = r)
  <2>1. Command(0) # [kind |-> Answering(r), req |-> r]
    BY <1>4, HandlerCommands DEF IsGeneration, Answering
  <2>2. PendingGeneration(r) => PendingGeneration(r)'
    BY <1>1, <2>1, HandlerCommands DEF PendingGeneration
  <2> QED BY <1>1, <1>2, <1>4, <2>2 DEF PendingGeneration
<1> QED BY <1>3, <1>4

\* Every step keeps a generation pending as long as its outcome is open.
LEMMA GenerationsPreserved ==
    ASSUME TypeInv, PendingInv, GenerationInv, [Next]_vars
    PROVE  GenerationInv'
<1>0. /\ history \in [Requests -> Histories]
      /\ stream \in [Requests -> Streams]
      /\ Len(queue) \in Nat
      /\ 0 \in 0 .. Len(queue)
      /\ IsGeneration(job) =>
            /\ job.kind = Answering(job.req)
            /\ history[job.req].outcome = "asked"
  BY LenProperties DEF TypeInv, GenerationInv, PendingInv, Command
<1>1. ASSUME UNCHANGED <<queue, job>>,
             \A r \in Requests : /\ history'[r].outcome = history[r].outcome
                                 /\ history'[r].outcome = "new" => history'[r].sent = history[r].sent
                                 /\ stream'[r].sender = stream[r].sender
      PROVE  GenerationInv'
  BY <1>1 DEF GenerationInv, PendingGeneration, Command
<1>2. CASE TakeCommand
  <2>1. \A i \in 0 .. Len(queue') : i + 1 \in 0 .. Len(queue)
    BY <1>0, <1>2, TakeCommandShifts
  <2> QED BY <1>2, <2>1, GenerationsShift, TakeCommandShifts DEF GenerationInv
\* The first conjunct, when a handler returns.
<1>3. ASSUME job' = NoJob, queue' = queue
      PROVE  \A i \in 0 .. Len(queue') :
                IsGeneration(Command(i)') => Command(i)'.kind = Answering(Command(i)'.req)
  <2>1. \A i \in 0 .. Len(queue) : i = 0 \/ i \in 1 .. Len(queue)
    BY <1>0
  <2>2. ~IsGeneration(NoJob)
    BY DEF IsGeneration, NoJob
  <2> QED BY <1>3, <2>1, <2>2, HandlerCommands DEF GenerationInv
<1>4. CASE Engine /\ ~TakeCommand
  <2>0. queue' = queue /\ job \in Commands /\ job.req \in Requests
    BY <1>4, HandlerEffects
  <2>1. CASE AnswersOnce
    <3>1. stream' = stream /\ job' = NoJob /\ job.kind # "stream"
      BY <2>1 DEF AnswersOnce, AnswersByReply
    <3>2. CASE job.kind = "encode"
      <4>1. history' = history /\ ~IsGeneration(job)
        BY <2>1, <3>2 DEF AnswersOnce, IsGeneration
      <4> QED BY <1>3, <2>0, <3>1, <4>1, GenerationsReturn DEF GenerationInv
    <3>3. CASE job.kind = "generate"
      <4>1. PICK o \in Closed : history' = [history EXCEPT ![job.req].outcome = o]
        BY <2>1, <3>3 DEF AnswersOnce
      <4>2. IsGeneration(job) /\ job.req \notin Streaming
        BY <1>0, <3>3 DEF IsGeneration, Answering
      <4>3. /\ history'[job.req].outcome \notin {"new", "asked"}
            /\ \A r \in Requests \ {job.req} : history'[r] = history[r]
        BY <1>0, <2>0, <4>1 DEF Closed, Histories
      <4> QED BY <1>3, <2>0, <3>1, <4>2, <4>3, GenerationsReturn DEF GenerationInv
    <3> QED BY <2>1, <3>2, <3>3 DEF AnswersOnce, AnswersByReply
  <2>2. CASE EndsStream
    <3>1. PICK o \in Closed : history' = [history EXCEPT ![job.req].outcome = o]
      BY <2>2 DEF EndsStream
    <3>2. /\ history'[job.req].outcome \notin {"new", "asked"}
          /\ \A r \in Requests \ {job.req} : history'[r] = history[r]
      BY <1>0, <2>0, <3>1 DEF Closed, Histories
    <3>3. /\ ~stream'[job.req].sender
          /\ \A r \in Requests \ {job.req} : stream'[r] = stream[r]
      BY <1>0, <2>0, <2>2 DEF EndsStream, Streams
    <3>4. IsGeneration(job) /\ job' = NoJob
      BY <2>2 DEF EndsStream, IsGeneration
    <3> QED BY <1>3, <2>0, <3>2, <3>3, <3>4, GenerationsReturn DEF GenerationInv
  <2>3. CASE GoesOn
    <3>1. IsGeneration(job) /\ job' = job
      BY <2>3 DEF GoesOn, IsGeneration
    <3>2. CASE UNCHANGED <<stream, history>>
      BY <1>1, <2>0, <3>1, <3>2
    <3>3. ASSUME NEW message, Put(message) PROVE GenerationInv'
      <4>1. \A r \in Requests :
               /\ history'[r].outcome = history[r].outcome
               /\ r # job.req => history'[r] = history[r]
        BY <1>0, <2>0, <3>3 DEF Put, Histories
      <4>2. \A r \in Requests : stream'[r].sender = stream[r].sender
        BY <1>0, <2>0, <3>3 DEF Put, Streams
      <4> QED BY <1>0, <1>1, <2>0, <3>1, <4>1, <4>2
    <3> QED BY <2>3, <3>2, <3>3 DEF GoesOn
  <2> QED BY <1>4, <2>1, <2>2, <2>3, HandlerEffects
<1>5. ASSUME NEW r \in Requests, NEW kind \in {"encode", Answering(r)}, Submit(kind, r)
      PROVE  GenerationInv'
  <2>1. \A i \in 0 .. Len(queue') : i \in 0 .. Len(queue) \/ i = Len(queue) + 1
    BY <1>0, <1>5, SubmitAppends
  <2>2. \A i \in 0 .. Len(queue) : i \in 0 .. Len(queue')
    BY <1>0, <1>5, SubmitAppends
  <2>3. PICK last \in Nat : last = Len(queue) + 1 /\ last \in 0 .. Len(queue')
    BY <1>0, <1>5, SubmitAppends
  <2>4. Command(last)' = [kind |-> kind, req |-> r]
    BY <1>5, <2>3, SubmitAppends
  <2>5. ASSUME NEW i \in 0 .. Len(queue'), IsGeneration(Command(i)')
        PROVE  Command(i)'.kind = Answering(Command(i)'.req)
    <3>1. CASE i \in 0 .. Len(queue)
      BY <1>5, <2>5, <3>1, SubmitAppends DEF GenerationInv
    <3>2. CASE i = last
      BY <2>4, <2>5, <3>2 DEF IsGeneration
    <3> QED BY <2>1, <2>3, <3>1, <3>2
  <2>6. ASSUME NEW q \in Requests
        PROVE  /\ PendingGeneration(q) => PendingGeneration(q)'
               /\ q # r \/ kind = "encode" => (PendingGeneration(q)' => PendingGeneration(q))
    <3>1. PendingGeneration(q) => PendingGeneration(q)'
      BY <1>5, <2>2, SubmitAppends DEF PendingGeneration
    <3>2. ASSUME q # r \/ kind = "encode", PendingGeneration(q)' PROVE PendingGeneration(q)
      <4>1. PICK i \in 0 .. Len(queue') : Command(i)' = [kind |-> Answering(q), req |-> q]
        BY <3>2 DEF PendingGeneration
      <4>2. i # last
        BY <2>4, <3>2, <4>1 DEF Answering
      <4> QED BY <1>5, <2>1, <2>3, <4>1, <4>2, SubmitAppends DEF PendingGeneration
    <3> QED BY <3>1, <3>2
  <2>7. CASE kind = "encode"
    <3>1. UNCHANGED <<stream, history>>
      BY <1>5, <2>7 DEF Submit
    <3> QED BY <2>5, <2>6, <2>7, <3>1 DEF GenerationInv
  <2>8. CASE kind # "encode"
    <3>1. kind = Answering(r)
      BY <2>8
    <3>2. PendingGeneration(r)'
      BY <2>3, <2>4, <3>1 DEF PendingGeneration
    <3>3. /\ history'[r].outcome = "asked"
          /\ \A q \in Requests \ {r} : history'[q] = history[q]
      BY <1>0, <1>5, <2>8 DEF Submit, Histories
    <3>4. \A q \in Requests \ {r} : stream'[q] = stream[q]
      BY <1>0, <1>5 DEF Submit
    <3>5. stream'[r].sender <=> r \in Streaming
      <4>1. CASE kind = "stream"
        BY <1>0, <1>5, <3>1, <4>1 DEF Submit, Answering, Opened, Unused
      <4>2. CASE kind # "stream"
        BY <1>5, <3>1, <4>2 DEF Submit, Answering, GenerationInv
      <4> QED BY <4>1, <4>2
    <3> QED BY <2>5, <2>6, <3>2, <3>3, <3>4, <3>5 DEF GenerationInv
  <2> QED BY <2>7, <2>8
<1>6. ASSUME NEW r \in Requests, Receive(r) \/ Cancel(r) \/ Close(r) \/ TakeReply(r) \/ AbandonReply(r)
      PROVE  GenerationInv'
  <2>1. UNCHANGED <<queue, job, history>>
    BY <1>6 DEF Receive, Cancel, Close, TakeReply, AbandonReply, engine
  <2>2. \A q \in Requests : stream'[q].sender = stream[q].sender
    <3>1. CASE Receive(r)
      BY <1>0, <3>1 DEF Receive, Streams
    <3>2. CASE Cancel(r)
      BY <1>0, <3>2 DEF Cancel, Cancelled, Streams
    <3>3. CASE Close(r)
      BY <1>0, <3>3 DEF Close, Cancelled, Dropped, Streams
    <3> QED BY <1>6, <3>1, <3>2, <3>3 DEF TakeReply, AbandonReply
  <2> QED BY <1>1, <2>1, <2>2
<1>7. CASE UNCHANGED vars
  BY <1>1, <1>7 DEF vars, engine
<1> QED BY <1>2, <1>4, <1>5, <1>6, <1>7 DEF Next, Client

----------------------------------------------------------------------------
(* What those who use the engine may rely on.                              *)

\* A step of the engine answers who waits, and touches no generation but an
\* open one.
LEMMA EngineFrame ==
    ASSUME TypeInv, PendingInv, Engine, NEW r \in Requests
    PROVE  /\ \/ reply'[r] = reply[r]
              \/ reply[r] = "waiting" /\ reply'[r] \in {"value", "error", "dropped"}
           /\ stream'[r].receiver = stream[r].receiver
           /\ stream'[r].cancelled = stream[r].cancelled
           /\ IF history[r].outcome = "asked"
              THEN history'[r].outcome # "new"
              ELSE history'[r] = history[r] /\ stream'[r] = stream[r]
<1>0. /\ history \in [Requests -> Histories]
      /\ stream \in [Requests -> Streams]
      /\ reply \in [Requests -> Replies]
      /\ IsGeneration(job) => history[job.req].outcome = "asked"
  BY LenProperties DEF TypeInv, PendingInv, Command
<1>1. CASE TakeCommand
  BY <1>0, <1>1 DEF TakeCommand
<1>2. CASE ~TakeCommand
  <2>0. job \in Commands /\ job.req \in Requests
    BY <1>2, HandlerEffects
  <2>1. CASE AnswersOnce
    <3>1. stream' = stream
      BY <2>1 DEF AnswersOnce
    <3>2. \/ reply'[r] = reply[r]
          \/ reply[r] = "waiting" /\ reply'[r] \in {"value", "error", "dropped"}
      BY <1>0, <2>0, <2>1 DEF AnswersOnce
    <3>3. CASE job.kind = "encode"
      BY <2>1, <3>1, <3>2, <3>3 DEF AnswersOnce
    <3>4. CASE job.kind = "generate"
      <4>1. PICK o \in Closed : history' = [history EXCEPT ![job.req].outcome = o]
        BY <2>1, <3>4 DEF AnswersOnce
      <4>2. history[job.req].outcome = "asked"
        BY <1>0, <3>4 DEF IsGeneration
      <4> QED BY <1>0, <2>0, <3>1, <3>2, <4>1, <4>2 DEF Closed, Histories
    <3> QED BY <2>1, <3>3, <3>4 DEF AnswersOnce, AnswersByReply
  <2>2. CASE EndsStream
    <3>1. PICK o \in Closed : history' = [history EXCEPT ![job.req].outcome = o]
      BY <2>2 DEF EndsStream
    <3>2. history[job.req].outcome = "asked" /\ reply' = reply
      BY <1>0, <2>2 DEF IsGeneration, EndsStream
    <3>3. /\ stream'[r].receiver = stream[r].receiver
          /\ stream'[r].cancelled = stream[r].cancelled
          /\ r # job.req => stream'[r] = stream[r]
      BY <1>0, <2>0, <2>2 DEF EndsStream, Streams
    <3> QED BY <1>0, <2>0, <3>1, <3>2, <3>3 DEF Closed, Histories
  <2>3. CASE GoesOn
    <3>1. history[job.req].outcome = "asked" /\ reply' = reply
      BY <1>0, <2>3 DEF IsGeneration, GoesOn
    <3>2. CASE UNCHANGED <<stream, history>>
      BY <3>1, <3>2
    <3>3. ASSUME NEW message, Put(message)
          PROVE  /\ stream'[r].receiver = stream[r].receiver
                 /\ stream'[r].cancelled = stream[r].cancelled
                 /\ history'[r].outcome = history[r].outcome
                 /\ r # job.req => stream'[r] = stream[r] /\ history'[r] = history[r]
      <4>1. /\ stream'[r].receiver = stream[r].receiver
            /\ stream'[r].cancelled = stream[r].cancelled
            /\ r # job.req => stream'[r] = stream[r]
        BY <1>0, <2>0, <3>3 DEF Put, Streams
      <4>2. /\ history'[r].outcome = history[r].outcome
            /\ r # job.req => history'[r] = history[r]
        BY <1>0, <2>0, <3>3 DEF Put, Histories
      <4> QED BY <4>1, <4>2
    <3> QED BY <2>3, <3>1, <3>2, <3>3 DEF GoesOn
  <2> QED BY <1>2, <2>1, <2>2, <2>3, HandlerEffects
<1> QED BY <1>1, <1>2

\* Putting a message into a buffer.
LEMMA BufferAppend ==
    ASSUME NEW s \in Seq(Messages), NEW m \in Messages
    PROVE  /\ Len(s) \in Nat /\ Len(Append(s, m)) = Len(s) + 1
           /\ AllText(s) /\ m = "text" => AllText(Append(s, m))
           /\ m = "error" => EndsInError(Append(s, m))
BY LenProperties DEF AllText, EndsInError

\* Taking a piece of text out of one.
LEMMA BufferTail ==
    ASSUME NEW s \in Seq(Messages), s # <<>>
    PROVE  /\ Len(s) \in Nat /\ Len(Tail(s)) = Len(s) - 1
           /\ AllText(s) => AllText(Tail(s))
           /\ EndsInError(s) /\ Head(s) # "error" => EndsInError(Tail(s))
<1>1. /\ Len(s) \in Nat \ {0} /\ Len(Tail(s)) = Len(s) - 1
      /\ \A i \in 1 .. Len(s) - 1 : Tail(s)[i] = s[i + 1]
      /\ Head(s) = s[1] /\ Tail(s) \in Seq(Messages)
  BY HeadTailProperties, EmptySeq, LenProperties
<1>2. AllText(s) => AllText(Tail(s))
  BY <1>1 DEF AllText
<1>3. ASSUME EndsInError(s), Head(s) # "error" PROVE EndsInError(Tail(s))
  <2>1. Len(s) # 1
    BY <1>1, <1>3 DEF EndsInError
  <2>2. Len(s) - 1 \in 1 .. Len(s) - 1 /\ (Len(s) - 1) + 1 = Len(s)
    BY <1>1, <2>1
  <2>3. Tail(s)[Len(Tail(s))] = "error"
    BY <1>1, <1>3, <2>2 DEF EndsInError
  <2>4. Tail(s) # <<>>
    <3>1. Len(Tail(s)) # 0 /\ Len(<<>>) = 0
      BY <1>1, <2>1
    <3> QED BY <3>1
  <2> QED BY <2>3, <2>4 DEF EndsInError
<1> QED BY <1>1, <1>2, <1>3

\* Whatever the engine does, it goes on to owe a stream what is left of the text.
LEMMA OwedKept ==
    ASSUME TypeInv, PendingInv, GenerationInv, Engine,
           NEW r \in Streaming, NEW n \in Nat, Owed(r, n)
    PROVE  Owed(r, n)'
<1>0. /\ history \in [Requests -> Histories]
      /\ stream \in [Requests -> Streams]
      /\ r \in Requests
      /\ stream[r].buffer \in Seq({"text", "error"})
      /\ ~Abandoned(r)
      /\ IsGeneration(job) => history[job.req].outcome = "asked" /\ job.kind = Answering(job.req)
  BY LenProperties, EngineAssumption
  DEF TypeInv, PendingInv, GenerationInv, Command, Streams, Owed, Abandoned
<1>s. ASSUME stream'[r] = stream[r], history'[r] = history[r], Reported(r)' <=> Reported(r)
      PROVE  Owed(r, n)'
  BY <1>s DEF Owed
<1>1. CASE TakeCommand
  BY <1>s, <1>1 DEF TakeCommand, Reported
<1>2. CASE ~TakeCommand /\ job.req # r
  <2>1. stream'[r] = stream[r] /\ history'[r] = history[r]
    <3>1. CASE AnswersOnce
      BY <1>0, <1>2, <3>1, HandlerEffects DEF AnswersOnce
    <3>2. CASE EndsStream
      BY <1>0, <1>2, <3>2, HandlerEffects DEF EndsStream
    <3>3. CASE GoesOn
      BY <1>0, <1>2, <3>3, HandlerEffects DEF GoesOn, Put
    <3> QED BY <1>2, <3>1, <3>2, <3>3, HandlerEffects
  <2>2. job'.req # r
    BY <1>0, <1>2, HandlerEffects, EngineAssumption DEF AnswersOnce, EndsStream, GoesOn, NoJob
  <2> QED BY <1>s, <1>2, <2>1, <2>2 DEF Reported
<1>3. CASE ~TakeCommand /\ job.req = r /\ job.kind # "stream"
  <2>1. job.kind = "encode" /\ AnswersOnce
    BY <1>0, <1>3, HandlerEffects DEF EndsStream, GoesOn, Commands, IsGeneration, Answering
  <2>2. UNCHANGED <<stream, history>> /\ job' = NoJob
    BY <2>1 DEF AnswersOnce
  <2>3. step # "return"
    BY <2>1 DEF TypeInv, JobMatchesStep, NoJob
  <2> QED BY <1>0, <1>s, <2>2, <2>3, EngineAssumption DEF Reported, NoJob
<1>4. CASE ~TakeCommand /\ job.req = r /\ job.kind = "stream"
  <2>0. /\ history[r].outcome = "asked" /\ step \in StreamSteps
        /\ Reported(r) <=> step = "return"
    BY <1>0, <1>4 DEF IsGeneration, Reported, TypeInv, JobMatchesStep, NoJob
  \* The handler returns with this outcome.
  <2>1. ASSUME NEW o \in {"complete", "failed", "panicked"},
               stream' = [stream EXCEPT ![r].sender = FALSE],
               history' = [history EXCEPT ![r].outcome = o],
               job' = NoJob, (o = "failed") <=> (step = "return")
        PROVE  Owed(r, n)'
    <3>1. /\ stream'[r].receiver = stream[r].receiver
          /\ stream'[r].cancelled = stream[r].cancelled
          /\ stream'[r].buffer = stream[r].buffer
      BY <1>0, <2>1 DEF Streams
    <3>2. history'[r].outcome = o /\ history'[r].sent = history[r].sent
      BY <1>0, <2>1 DEF Histories
    <3>3. Reported(r)' <=> Reported(r)
      BY <1>0, <2>0, <2>1, <3>2, EngineAssumption DEF Reported, NoJob
    <3> QED BY <3>1, <3>2, <3>3 DEF Owed
  <2>2. CASE BeginStream
    BY <1>s, <2>0, <2>2 DEF BeginStream, Continue, Reported
  <2>3. CASE Emit
    BY <1>s, <2>0, <2>3 DEF Emit, Continue, Reported
  <2>4. CASE CutShort
    BY <1>0, <1>4, <2>4 DEF CutShort
  <2>5. CASE SendRefused
    BY <1>0, <1>4, <2>5 DEF SendRefused, SendFails, Abandoned
  <2>6. CASE Finish
    BY <1>4, <2>1, <2>6 DEF Finish, ReturnFromStream, Return
  <2>7. CASE FailStream
    <3>1. Continue("report") /\ UNCHANGED <<stream, history>> /\ step # "return"
      BY <1>0, <1>4, <2>7 DEF FailStream, Abandoned
    <3> QED BY <1>s, <2>0, <3>1 DEF Continue, Reported
  <2>8. CASE ErrorSent
    BY <1>0, <1>4, <2>1, <2>8 DEF ErrorSent, SendFails, Abandoned, ReturnFromStream, Return
  <2>9. CASE Panic
    <3>1. /\ stream' = [stream EXCEPT ![r].sender = FALSE]
          /\ history' = [history EXCEPT ![r].outcome = "panicked"]
          /\ job' = NoJob /\ step # "return"
      BY <1>4, <2>9 DEF Panic, Return
    <3> QED BY <2>1, <3>1
  <2>10. ASSUME NEW message, Put(message)
         PROVE  /\ stream'[r].receiver = stream[r].receiver
                /\ stream'[r].cancelled = stream[r].cancelled
                /\ stream'[r].buffer = Append(stream[r].buffer, message)
                /\ history'[r].outcome = "asked"
                /\ history'[r].sent = IF message = "text" THEN history[r].sent + 1
                                                          ELSE history[r].sent
    <3>1. /\ stream'[r].receiver = stream[r].receiver
          /\ stream'[r].cancelled = stream[r].cancelled
          /\ stream'[r].buffer = Append(stream[r].buffer, message)
      BY <1>0, <1>4, <2>10 DEF Put, Streams
    <3>2. /\ history'[r].outcome = "asked"
          /\ history'[r].sent = IF message = "text" THEN history[r].sent + 1
                                                    ELSE history[r].sent
      BY <1>0, <1>4, <2>0, <2>10 DEF Put, Histories
    <3> QED BY <3>1, <3>2
  <2>11. CASE SendText
    <3>1. Put("text") /\ step = "send" /\ step' = "stream"
      BY <2>11 DEF SendText, Continue
    <3>2. /\ ~Reported(r) /\ ~Reported(r)'
          /\ n + Len(stream[r].buffer) = history[r].sent
          /\ AllText(stream[r].buffer)
      BY <2>0, <2>10, <3>1 DEF Reported, Owed
    <3>3. /\ Len(stream'[r].buffer) = Len(stream[r].buffer) + 1
          /\ AllText(stream'[r].buffer)
          /\ Len(stream[r].buffer) \in Nat
      BY <1>0, <2>10, <3>1, <3>2, BufferAppend DEF Messages
    <3>4. n + Len(stream'[r].buffer) = history'[r].sent
      BY <2>10, <3>1, <3>2, <3>3
    <3> QED BY <2>10, <3>1, <3>2, <3>3, <3>4 DEF Owed
  <2>12. CASE SendError
    <3>1. Put("error") /\ step' = "return" /\ job' = job
      BY <2>12 DEF SendError, Continue
    <3>2. Reported(r)'
      BY <1>4, <3>1 DEF Reported
    <3>3. EndsInError(stream'[r].buffer)
      BY <1>0, <2>10, <3>1, BufferAppend DEF Messages
    <3> QED BY <2>10, <3>1, <3>2, <3>3 DEF Owed
  <2>13. ~Encode /\ ~Generate
    BY <2>0 DEF Encode, Generate, StreamSteps
  <2> QED
    BY <1>4, <2>2, <2>3, <2>4, <2>5, <2>6, <2>7, <2>8, <2>9, <2>11, <2>12, <2>13 DEF Engine
<1> QED BY <1>1, <1>2, <1>3, <1>4

\* A new stream owes all of its text.
LEMMA OwedAtFirst ==
    ASSUME TypeInv, PendingInv, GenerationInv, NEW r \in Requests, Submit("stream", r)
    PROVE  Owed(r, 0)'
<1>1. /\ history \in [Requests -> Histories]
      /\ stream \in [Requests -> Streams]
      /\ history[r].outcome = "new" /\ history[r].sent = 0
  BY DEF TypeInv, Submit, GenerationInv
<1>2. ~(step = "return" /\ job.req = r)
  <2>1. IsGeneration(job) => history[job.req].outcome = "asked"
    BY LenProperties DEF TypeInv, PendingInv, Command
  <2> QED BY <1>1, <2>1 DEF TypeInv, JobMatchesStep, IsGeneration
<1>3. /\ stream'[r] = Opened
      /\ history'[r].outcome = "asked" /\ history'[r].sent = 0
      /\ UNCHANGED <<job, step>>
  BY <1>1 DEF Submit, Histories
<1>4. /\ Opened.receiver /\ ~Opened.cancelled /\ Opened.buffer = <<>>
      /\ Len(<<>>) = 0 /\ AllText(<<>>)
  BY EmptySeq DEF Opened, Unused, AllText
<1> QED BY <1>2, <1>3, <1>4 DEF Owed, Reported

\* Each piece of text taken is owed no more.
LEMMA OwedTaken ==
    ASSUME TypeInv, NEW r \in Requests, NEW n \in Nat, Owed(r, n),
           Receive(r), Head(stream[r].buffer) = "text"
    PROVE  Owed(r, n + 1)'
<1>0. /\ history \in [Requests -> Histories]
      /\ stream \in [Requests -> Streams]
      /\ stream[r].buffer \in Seq(Messages) /\ stream[r].buffer # <<>>
      /\ history[r].sent \in Nat
  BY DEF TypeInv, Streams, Receive, Histories, Messages
<1>1. /\ stream'[r] = [stream[r] EXCEPT !.buffer = Tail(@)]
      /\ Reported(r)' <=> Reported(r)
      /\ history' = history
  BY <1>0 DEF Receive, engine, Reported
<1>2. /\ stream'[r].receiver = stream[r].receiver
      /\ stream'[r].cancelled = stream[r].cancelled
      /\ stream'[r].buffer = Tail(stream[r].buffer)
  BY <1>0, <1>1 DEF Streams
<1>3. (n + 1) + Len(Tail(stream[r].buffer)) = n + Len(stream[r].buffer)
  <2>1. Len(stream[r].buffer) \in Nat /\ Len(Tail(stream[r].buffer)) = Len(stream[r].buffer) - 1
    BY <1>0, BufferTail
  <2>2. \A left \in Nat : \A rest : rest = left - 1 => (n + 1) + rest = n + left
    OBVIOUS
  <2> QED BY <2>1, <2>2, Zenon
<1> QED BY <1>0, <1>1, <1>2, <1>3, BufferTail DEF Owed

\* A stream that has ended has delivered the whole text, unless it was told of
\* an error.
LEMMA OwedAtLast ==
    ASSUME TypeInv, GenerationInv, NEW r \in Streaming, NEW n \in Nat, Owed(r, n),
           ~stream[r].sender, stream[r].buffer = <<>>
    PROVE  history[r].outcome \in {"complete", "panicked"} /\ history[r].sent = n
<1>1. ~Reported(r) /\ r \in Requests
  BY EngineAssumption DEF Owed, EndsInError
<1>2. history[r].outcome # "asked"
  BY <1>1 DEF GenerationInv
<1>3. history[r].outcome # "failed"
  BY <1>1 DEF Reported
<1>4. n + 0 = history[r].sent
  BY <1>1, EmptySeq DEF Owed
<1> QED BY <1>2, <1>3, <1>4 DEF Owed

----------------------------------------------------------------------------
(* The theorems.                                                           *)

EngineInv ==
    /\ TypeInv
    /\ PendingInv
    /\ ReplyInv
    /\ GenerationInv
    /\ SamplerInv
    /\ LateInv

\* The initial states satisfy the invariant.
LEMMA InitialInv == Init => EngineInv
<1> SUFFICES ASSUME Init PROVE EngineInv
  OBVIOUS
<1>1. TypeInv
  BY InitialTypes
<1>2. PendingInv
  BY DEF Init, PendingInv, Command, IsGeneration, NoJob
<1>3. SamplerInv
  BY DEF Init, SamplerInv, RequestScoped
<1>4. LateInv
  BY DEF Init, LateInv
<1>5. ReplyInv
  BY EmptySeq DEF Init, ReplyInv, Command, AnswersByReply, NoJob
<1>6. GenerationInv
  BY EmptySeq, EngineAssumption
  DEF Init, GenerationInv, PendingGeneration, Command, IsGeneration, NoJob, Unused, Answering
<1> QED BY <1>1, <1>2, <1>3, <1>4, <1>5, <1>6 DEF EngineInv

\* The types, what is pending, the sampler and the late messages keep together in every step
\* of the engine thread and of its clients (EngineActor::run, EngineHandle).
THEOREM EngineInductive == Spec => []EngineInv
<1>1. Init => EngineInv
  BY InitialInv
<1>2. EngineInv /\ [Next]_vars => EngineInv'
  BY TypesPreserved, PendingPreserved, RepliesPreserved, GenerationsPreserved,
     SamplerPreserved, LatePreserved
  DEF EngineInv
<1> QED BY <1>1, <1>2, PTL DEF Spec

\* Nobody waits for an answer that nobody will give: while a reply is awaited or
\* the responder of a stream lives, a command for it is queued or in execution.
WaitsForACommand ==
    \A r \in Requests :
        /\ reply[r] = "waiting" => PendingReply(r)
        /\ stream[r].sender => PendingGeneration(r)

\* EngineHandle, EngineActor::run: a waiting client always has its command before
\* the engine, whatever panics, is cancelled or is abandoned.
THEOREM NobodyWaitsInVain == Spec => []WaitsForACommand
<1>1. EngineInv => WaitsForACommand
  BY DEF EngineInv, ReplyInv, GenerationInv, WaitsForACommand
<1> QED BY <1>1, EngineInductive, PTL

\* Queue, channels and handler keep their types and their capacities.
THEOREM EngineTypeCorrect == Spec => []TypeOK
<1>1. EngineInv => TypeOK
  BY DEF EngineInv, TypeInv, TypeOK, JobMatchesStep, StreamSteps, Streams, Replies,
         Histories, Outcomes, NoJob
<1> QED BY <1>1, EngineInductive, PTL

\* SamplingCheckpoint: unless a generation has panicked, each one samples with
\* its own options and leaves the sampler as it was loaded, whatever the other
\* clients send, cancel or abandon meanwhile.
THEOREM SamplerIsScoped == Spec => []ScopedUntilPanic
<1>1. EngineInv => ScopedUntilPanic
  BY DEF EngineInv, SamplerInv, ScopedUntilPanic, NoPanic
<1> QED BY <1>1, EngineInductive, PTL

\* model_stream_callback: at most one message reaches a stream after cancel().
THEOREM AtMostOneLateMessage == Spec => []OneLateMessage
<1>1. EngineInv => OneLateMessage
  <2> SUFFICES ASSUME LateInv, NEW r \in Requests PROVE history[r].late <= 1
    BY DEF EngineInv, OneLateMessage
  <2>1. history[r].late \in {0, 1}
    BY DEF LateInv
  <2> QED BY <2>1
<1> QED BY <1>1, EngineInductive, PTL

=============================================================================
