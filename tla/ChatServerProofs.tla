-------------------------- MODULE ChatServerProofs --------------------------
(***************************************************************************)
(* Theorems about the chat endpoint in front of the engine thread, for any *)
(* number of requests, permits and capacities, whatever the codec, the     *)
(* timers and the clients do.                                              *)
(***************************************************************************)
EXTENDS ChatServer, FiniteSetTheorems, SequenceTheorems, TLAPS

\* The theorems about the engine, whose definitions are those of E.
P == INSTANCE EngineActorProofs

\* What EngineActor assumes of its constants.
LEMMA Assumed ==
    /\ P!EngineAssumption
    /\ Streaming \subseteq Requests /\ Nobody \notin Requests
BY EngineAssumed DEF E!EngineAssumption, P!EngineAssumption

\* The engine's steps go by either name.
LEMMA SameEngine == E!Engine <=> P!Engine
<1>1. E!TakeCommand <=> P!TakeCommand
  BY DEF E!TakeCommand, P!TakeCommand, E!Apply, P!Apply
<1>2. E!Encode <=> P!Encode
  BY DEF E!Encode, P!Encode, E!Answer, P!Answer, E!Return, P!Return, E!NoJob, P!NoJob,
         E!Base, P!Base
<1>3. E!Generate <=> P!Generate
  BY DEF E!Generate, P!Generate, E!Answer, P!Answer, E!Return, P!Return, E!NoJob, P!NoJob,
         E!Base, P!Base, E!Restored, P!Restored
<1> USE DEF E!Continue, P!Continue, E!Abandoned, P!Abandoned, E!ReturnFromStream, P!ReturnFromStream,
            E!Return, P!Return, E!NoJob, P!NoJob, E!Base, P!Base, E!Restored, P!Restored
<1>4. E!BeginStream <=> P!BeginStream
  BY DEF E!BeginStream, P!BeginStream
<1>5. E!CutShort <=> P!CutShort
  BY DEF E!CutShort, P!CutShort
<1>6. E!Emit <=> P!Emit
  BY DEF E!Emit, P!Emit, E!Wanted, P!Wanted
<1>7. E!SendText <=> P!SendText
  BY DEF E!SendText, P!SendText, E!Put, P!Put, E!HasRoom, P!HasRoom
<1>8. E!SendRefused <=> P!SendRefused
  BY DEF E!SendRefused, P!SendRefused, E!SendFails, P!SendFails
<1>9. E!Finish <=> P!Finish
  BY DEF E!Finish, P!Finish
<1>10. E!FailStream <=> P!FailStream
  BY DEF E!FailStream, P!FailStream
<1>11. E!SendError <=> P!SendError
  BY DEF E!SendError, P!SendError, E!Put, P!Put, E!HasRoom, P!HasRoom
<1>12. E!ErrorSent <=> P!ErrorSent
  BY DEF E!ErrorSent, P!ErrorSent, E!SendFails, P!SendFails
<1>13. E!Panic <=> P!Panic
  BY DEF E!Panic, P!Panic, E!Answer, P!Answer
<1> QED
  BY <1>1, <1>2, <1>3, <1>4, <1>5, <1>6, <1>7, <1>8, <1>9, <1>10, <1>11, <1>12, <1>13
  DEF E!Engine, P!Engine

----------------------------------------------------------------------------
(* The inductive invariant: what holds of a request at each place of its   *)
(* handler.                                                                *)

Unasked == {"new", "rejected", "admit", "admitting", "ask", "open", "start"}

Loop == {"select", "text", "update", "alive"}

Judging == {"completion", "counting", "flush", "judge", "calls"}

\* Where a reply is awaited.
Awaiting == {"admitting", "asked", "counting"}

Marks == {"none", "role", "text", "update", "failure", "[DONE]"} \cup Reasons

Sent == [last : Marks, texts : Nat, reason : {"none"} \cup Reasons]

Channels == [open : BOOLEAN, unread : 0..EventCapacity]

ServerType ==
    /\ handler \in [Requests -> Places]
    /\ outgoing \in [Requests -> Reasons]
    /\ sse \in [Requests -> Channels]
    /\ sent \in [Requests -> Sent]

\* Only a handler that awaits a reply has one, or had one when it was dropped.
ReplyPlace(r) ==
    reply[r] \in IF handler[r] \in Awaiting THEN {"waiting", "value", "error", "dropped"}
                 ELSE IF handler[r] = "over" THEN {"none", "abandoned"}
                 ELSE {"none"}

\* Each request asks for one generation of its own kind.
KindPlace(r) ==
    /\ handler[r] \in Unasked =>
          stream[r] = E!Unused /\ history[r].outcome = "new" /\ sent[r].texts = 0
    /\ handler[r] \in {"ask", "asked"} => r \notin Streaming
    /\ handler[r] \in Selecting \cup Sending \cup Computing => r \in Streaming

\* The piece of text a task has received and not yet sent.
HeldBack(r) == IF handler[r] = "text" THEN 1 ELSE 0

\* The stream owes the client what it has not been sent.
Follows(r) ==
    \E n \in Nat : P!Owed(r, n) /\ (r \notin Tools => n = sent[r].texts + HeldBack(r))

\* A generation that came to its end or panicked, all of whose text has been sent.
AllSent(r) ==
    /\ history[r].outcome \in {"complete", "panicked"}
    /\ r \notin Tools => sent[r].texts = history[r].sent

StreamPlace(r) ==
    /\ handler[r] \in Loop => Follows(r)
    /\ handler[r] = "fail" => stream[r].receiver
    /\ handler[r] \in Judging => stream[r].receiver /\ AllSent(r)
    /\ handler[r] \in {"flush", "calls"} => r \in Tools
    /\ handler[r] = "finish" =>
          IF outgoing[r] = "error" THEN ~stream[r].receiver ELSE AllSent(r)
    /\ Claimed(r) => AllSent(r) /\ handler[r] \in {"done", "over"}
    /\ handler[r] \in {"done", "over"} /\ history[r].outcome = "asked" =>
          E!Abandoned(r) \/ r \notin Streaming

\* How far the events of a stream have come.
EventPlace(r) ==
    /\ handler[r] \in {"new", "rejected", "open"} \cup Before => sent[r].last = "none"
    /\ handler[r] \in {"start", "fail"} \cup Loop \cup Judging =>
          sent[r].last \in {"role", "text", "update"}
    /\ handler[r] = "finish" =>
          IF outgoing[r] = "error" THEN sent[r].last = "failure"
          ELSE sent[r].last \in {"role", "text", "update"}
    /\ handler[r] = "done" => sent[r].last \in Reasons

RequestInv(r) == ReplyPlace(r) /\ KindPlace(r) /\ StreamPlace(r) /\ EventPlace(r)

----------------------------------------------------------------------------
(* The steps of a handler.                                                 *)

\* Sending an event changes its request's channel and record.
LEMMA SendEffects ==
    ASSUME ServerType, NEW r \in Requests, NEW e \in Marks \cup {"alive"}, SendEvent(r, e)
    PROVE  /\ sse' \in [Requests -> Channels]
           /\ sent' \in [Requests -> Sent]
           /\ \A q \in Requests \ {r} : sent'[q] = sent[q] /\ sse'[q] = sse[q]
           /\ sent'[r].last = IF e = "alive" THEN sent[r].last ELSE e
           /\ sent'[r].texts = IF e = "text" THEN sent[r].texts + 1 ELSE sent[r].texts
           /\ sent'[r].reason = IF e \in Reasons THEN e ELSE sent[r].reason
<1>0. sse[r] \in Channels /\ sent[r] \in Sent
  BY DEF ServerType
<1>1. /\ sse' \in [Requests -> Channels]
      /\ \A q \in Requests \ {r} : sse'[q] = sse[q]
  <2>1. [sse[r] EXCEPT !.unread = @ + 1] \in Channels
    BY <1>0, ServerAssumption DEF SendEvent, Room, Channels
  <2>2. sse' = [sse EXCEPT ![r] = [sse[r] EXCEPT !.unread = @ + 1]]
    BY DEF SendEvent, ServerType
  <2> QED BY <2>1, <2>2 DEF ServerType
<1>2. CASE e = "alive"
  BY <1>0, <1>1, <1>2 DEF SendEvent, ServerType, Reasons
<1>3. CASE e # "alive"
  <2> DEFINE texts == IF e = "text" THEN sent[r].texts + 1 ELSE sent[r].texts
             reason == IF e \in Reasons THEN e ELSE sent[r].reason
             record == [sent[r] EXCEPT !.last = e, !.texts = texts, !.reason = reason]
  <2>1. texts \in Nat /\ reason \in {"none"} \cup Reasons /\ e \in Marks
    BY <1>0, <1>3 DEF Sent
  <2>2. sent' = [sent EXCEPT ![r].last = e,
                             ![r].texts = IF e = "text" THEN @ + 1 ELSE @,
                             ![r].reason = IF e \in Reasons THEN e ELSE @]
    BY <1>3 DEF SendEvent
  <2>3. sent' = [sent EXCEPT ![r] = record]
    BY <1>0, <2>2 DEF ServerType, Sent
  <2> HIDE DEF texts, reason
  <2>4. /\ record \in Sent
        /\ record.last = e /\ record.texts = texts /\ record.reason = reason
    BY <1>0, <2>1 DEF Sent
  <2> HIDE DEF record
  <2>5. sent' \in [Requests -> Sent]
    BY <2>3, <2>4 DEF ServerType
  <2>6. sent'[r] = record /\ \A q \in Requests \ {r} : sent'[q] = sent[q]
    BY <2>3 DEF ServerType
  <2> QED BY <1>1, <1>3, <2>4, <2>5, <2>6 DEF texts, reason
<1> QED BY <1>2, <1>3

\* What a handler asks of the engine concerns its own request.
OnlyFor(q) ==
    /\ UNCHANGED <<job, step, sampler, saved>>
    /\ \A r \in Requests \ {q} :
          reply'[r] = reply[r] /\ stream'[r] = stream[r] /\ history'[r] = history[r]

\* Every operation of a handle, and dropping a stream, is of this kind.
LEMMA UsesConcernOne ==
    ASSUME P!TypeInv, NEW q \in Requests,
           \/ \E kind \in {"encode", "generate", "stream"} : E!Submit(kind, q)
           \/ E!TakeReply(q) \/ E!AbandonReply(q) \/ E!Receive(q) \/ E!Cancel(q)
           \/ EngineRests
           \/ /\ \E s : stream' = [stream EXCEPT ![q] = s]
              /\ UNCHANGED <<engine, reply, history>>
    PROVE  OnlyFor(q)
<1> USE DEF P!TypeInv, OnlyFor
<1>1. ASSUME NEW kind \in {"encode", "generate", "stream"}, E!Submit(kind, q)
      PROVE  OnlyFor(q)
  BY <1>1 DEF E!Submit
<1>2. CASE E!TakeReply(q) \/ E!AbandonReply(q)
  BY <1>2 DEF E!TakeReply, E!AbandonReply, E!engine
<1>3. CASE E!Receive(q) \/ E!Cancel(q)
  BY <1>3 DEF E!Receive, E!Cancel, E!engine
<1>4. CASE EngineRests
  BY <1>4 DEF EngineRests, engine
<1>5. CASE (\E s : stream' = [stream EXCEPT ![q] = s]) /\ UNCHANGED <<engine, reply, history>>
  BY <1>5 DEF engine
<1> QED BY <1>1, <1>2, <1>3, <1>4, <1>5

\* The server's state of the other requests.
OnlyServes(q) ==
    \A r \in Requests \ {q} :
        /\ handler'[r] = handler[r] /\ outgoing'[r] = outgoing[r] /\ sent'[r] = sent[r]

\* The kinds of the commands a handler sends.
LEMMA AskingKinds ==
    ASSUME NEW r, Ask(r)
    PROVE  \/ /\ handler[r] = "admit" /\ E!Submit("encode", r) /\ Goto(r, "admitting")
           \/ /\ handler[r] = "ask" /\ E!Submit("generate", r) /\ Goto(r, "asked")
           \/ /\ handler[r] = "start" /\ E!Submit("stream", r) /\ Goto(r, "select")
           \/ /\ handler[r] = "completion" /\ E!Submit("encode", r) /\ Goto(r, "counting")
BY DEF Ask, Asking

\* A step of a request's handler or of its client leaves the others alone.
LEMMA ServerEffects ==
    ASSUME P!TypeInv, ServerType, NEW q \in Requests, Serve(q) \/ Read(q) \/ Leave(q)
    PROVE  ServerType' /\ OnlyFor(q) /\ OnlyServes(q)
<1> USE DEF ServerType, OnlyServes, Goto
<1> DEFINE Effects == ServerType' /\ OnlyFor(q) /\ OnlyServes(q)
<1>p. /\ {"admit", "rejected", "admitting", "asked", "select", "counting", "over", "open", "ask",
          "start", "fail", "text", "update", "completion", "alive", "finish", "flush", "judge",
          "calls", "done"} \subseteq Places
      /\ Reasons = {"stop", "tool_calls", "error"}
  BY DEF Places, HeldThroughout, Before, Selecting, Sending, Computing, Reasons
<1>1. CASE Arrive(q)
  BY <1>1, <1>p, UsesConcernOne DEF Arrive, AfterPermit
<1>2. CASE Ask(q)
  <2>1. OnlyFor(q) /\ UNCHANGED <<outgoing, sse, sent>>
    BY <1>2, AskingKinds, UsesConcernOne DEF Ask
  <2>2. \E to \in Places : Goto(q, to)
    BY <1>2, <1>p, AskingKinds
  <2> QED BY <2>1, <2>2
<1>3. CASE Admitted(q)
  BY <1>3, <1>p, UsesConcernOne DEF Admitted
<1>4. CASE Respond(q)
  BY <1>4, <1>p, UsesConcernOne DEF Respond
<1>5. CASE DropHandler(q)
  BY <1>5, <1>p, UsesConcernOne DEF DropHandler
<1>6. CASE DeadlineExpires(q)
  BY <1>6, <1>p, UsesConcernOne DEF DeadlineExpires
<1>7. CASE ClientGone(q)
  BY <1>7, <1>p, UsesConcernOne DEF ClientGone
<1>8. CASE ReceiveText(q)
  BY <1>8, <1>p, UsesConcernOne DEF ReceiveText, AfterText
<1>9. CASE ReceiveError(q)
  BY <1>9, <1>p, UsesConcernOne DEF ReceiveError, AfterError
<1>10. CASE StreamEnds(q) \/ KeepAlive(q)
  BY <1>10, <1>p, UsesConcernOne DEF StreamEnds, KeepAlive
<1>11. CASE Counted(q)
  BY <1>11, <1>p, UsesConcernOne DEF Counted
<1>12. CASE Judge(q)
  BY <1>12, <1>p, UsesConcernOne DEF Judge, Finishing
<1>13. ASSUME NEW e \in Marks \cup {"alive"}, SendEvent(q, e), NEW to \in Places, Goto(q, to),
              OnlyFor(q),
              UNCHANGED outgoing \/ \E reason \in Reasons : outgoing' = [outgoing EXCEPT ![q] = reason]
       PROVE  Effects
  BY <1>13, SendEffects
<1>14. CASE SendRole(q)
  BY <1>13, <1>14, <1>p, UsesConcernOne DEF SendRole, Marks
<1>15. CASE SendInLoop(q)
  BY <1>13, <1>15, <1>p, UsesConcernOne DEF SendInLoop, Marks, AfterText
<1>16. CASE SendFailure(q)
  BY <1>13, <1>16, <1>p, UsesConcernOne DEF SendFailure, Marks, Finishing, FailureReason
<1>17. CASE Flush(q)
  <2>1. OnlyFor(q) /\ UNCHANGED outgoing /\ Goto(q, "judge")
    BY <1>17, UsesConcernOne DEF Flush
  <2>2. CASE SendEvent(q, "text")
    BY <1>13, <1>p, <2>1, <2>2 DEF Marks
  <2>3. CASE UNCHANGED <<sse, sent>>
    BY <1>p, <2>1, <2>3
  <2> QED BY <1>17, <2>2, <2>3 DEF Flush
<1>18. CASE SendCalls(q)
  <2>1. OnlyFor(q) /\ Goto(q, "finish") /\ outgoing' = [outgoing EXCEPT ![q] = "tool_calls"]
    BY <1>18, UsesConcernOne DEF SendCalls, Finishing
  <2>2. CASE SendEvent(q, "update")
    BY <1>13, <1>p, <2>1, <2>2 DEF Marks
  <2>3. CASE UNCHANGED <<sse, sent>>
    BY <1>p, <2>1, <2>3
  <2> QED BY <1>18, <2>2, <2>3 DEF SendCalls
<1>19. CASE SendFinish(q)
  BY <1>13, <1>19, <1>p, UsesConcernOne DEF SendFinish, Marks
<1>20. CASE SendDone(q)
  BY <1>13, <1>20, <1>p, UsesConcernOne DEF SendDone, Marks
<1>21. CASE SendEventFails(q)
  BY <1>21, <1>p, UsesConcernOne DEF SendEventFails
<1>22. CASE Read(q)
  <2>1. sse' \in [Requests -> Channels]
    BY <1>22, ServerAssumption DEF Read, Channels
  <2> QED BY <1>22, <2>1, UsesConcernOne DEF Read
<1>23. CASE Leave(q)
  <2>1. sse' \in [Requests -> Channels]
    BY <1>23, ServerAssumption DEF Leave, Channels
  <2> QED BY <1>23, <2>1, UsesConcernOne DEF Leave
<1> QED
  BY <1>1, <1>2, <1>3, <1>4, <1>5, <1>6, <1>7, <1>8, <1>9, <1>10, <1>11, <1>12, <1>14, <1>15,
     <1>16, <1>17, <1>18, <1>19, <1>20, <1>21, <1>22, <1>23
  DEF Serve, Handle

----------------------------------------------------------------------------
(* The server uses the engine through its handle.                          *)

\* The operations of a handle go by either name.
LEMMA SameHandle ==
    ASSUME NEW r
    PROVE  /\ \A kind \in {"encode", "generate", "stream"} :
                 E!Submit(kind, r) <=> P!Submit(kind, r)
           /\ E!Receive(r) <=> P!Receive(r)
           /\ E!Cancel(r) <=> P!Cancel(r)
           /\ E!TakeReply(r) <=> P!TakeReply(r)
           /\ E!AbandonReply(r) <=> P!AbandonReply(r)
           /\ E!Client(r) <=> P!Client(r)
           /\ E!Abandoned(r) <=> P!Abandoned(r)
           /\ E!Unused = P!Unused
<1>1. \A kind : E!Submit(kind, r) <=> P!Submit(kind, r)
  BY DEF E!Submit, P!Submit, E!Opened, P!Opened, E!Unused, P!Unused
<1>2. /\ E!Receive(r) <=> P!Receive(r)
      /\ E!Cancel(r) <=> P!Cancel(r)
      /\ E!TakeReply(r) <=> P!TakeReply(r)
      /\ E!AbandonReply(r) <=> P!AbandonReply(r)
  BY DEF E!Receive, P!Receive, E!Cancel, P!Cancel, E!Cancelled, P!Cancelled,
         E!TakeReply, P!TakeReply, E!AbandonReply, P!AbandonReply, E!engine, P!engine
<1>3. E!Close(r) <=> P!Close(r)
  BY DEF E!Close, P!Close, E!Cancelled, P!Cancelled, E!Dropped, P!Dropped, E!engine, P!engine
<1>4. E!Client(r) <=> P!Client(r)
  <2>1. E!Answering(r) = P!Answering(r)
    BY DEF E!Answering, P!Answering
  <2> QED BY <1>1, <1>2, <1>3, <2>1 DEF E!Client, P!Client
<1>5. (E!Abandoned(r) <=> P!Abandoned(r)) /\ E!Unused = P!Unused
  BY DEF E!Abandoned, P!Abandoned, E!Unused, P!Unused
<1> QED BY <1>1, <1>2, <1>4, <1>5

\* So do its states and steps.
LEMMA SameNext ==
    /\ E!Init <=> P!Init
    /\ E!Next <=> P!Next
    /\ UNCHANGED E!vars <=> UNCHANGED P!vars
    /\ UNCHANGED E!vars <=> EngineRests
<1>1. E!Init <=> P!Init
  BY DEF E!Init, P!Init, E!NoJob, P!NoJob, E!Base, P!Base, E!Unused, P!Unused
<1>2. E!Next <=> P!Next
  BY SameEngine, SameHandle DEF E!Next, P!Next
<1>3. /\ UNCHANGED E!vars <=> UNCHANGED P!vars
      /\ UNCHANGED E!vars <=> EngineRests
  BY DEF E!vars, P!vars, E!engine, P!engine, EngineRests, engine
<1> QED BY <1>1, <1>2, <1>3

\* A handler, or the client of a stream, does what the engine's handle allows.
LEMMA ServerUsesHandle ==
    ASSUME P!TypeInv, ServerType, NEW r \in Requests, RequestInv(r),
           Serve(r) \/ Read(r) \/ Leave(r)
    PROVE  P!Client(r) \/ EngineRests
<1>0. SUFFICES E!Client(r) \/ EngineRests
  BY SameHandle
<1>1. CASE Arrive(r) \/ StreamEnds(r) \/ KeepAlive(r) \/ Read(r) \/ Leave(r)
  BY <1>1 DEF Arrive, StreamEnds, KeepAlive, Read, Leave
<1>2. CASE Ask(r)
  <2>1. handler[r] \in {"admit", "ask", "start", "completion"} => reply[r] = "none"
    BY DEF RequestInv, ReplyPlace, Awaiting
  <2>2. /\ handler[r] = "ask" => r \notin Streaming
        /\ handler[r] = "start" => r \in Streaming
    BY DEF RequestInv, KindPlace, Computing
  <2> QED BY <1>2, <2>1, <2>2, AskingKinds DEF E!Client, E!Answering
<1>3. CASE Admitted(r) \/ Respond(r) \/ Counted(r) \/ DropHandler(r)
  BY <1>3 DEF Admitted, Respond, Counted, DropHandler, E!Client
<1>4. CASE DeadlineExpires(r) \/ ReceiveText(r) \/ ReceiveError(r)
  BY <1>4 DEF DeadlineExpires, ReceiveText, ReceiveError, E!Client
<1>5. CASE SendRole(r) \/ SendInLoop(r) \/ Flush(r) \/ Judge(r) \/ SendCalls(r)
           \/ SendFinish(r) \/ SendDone(r)
  BY <1>5 DEF SendRole, SendInLoop, Flush, Judge, SendCalls, SendFinish, SendDone
\* Where the stream is dropped, its receiver is there to be dropped.
<1>6. handler[r] \in Loop \cup Judging \cup {"fail"} => stream[r].receiver
  BY DEF RequestInv, StreamPlace, Follows, P!Owed
<1>7. ASSUME NEW s \in {stream[r], E!Cancelled(stream[r])},
             stream' = [stream EXCEPT ![r] = E!Dropped(s)],
             UNCHANGED <<engine, reply, history>>,
             handler[r] \in Loop \cup Judging \cup {"fail"}
      PROVE  E!Client(r)
  BY <1>6, <1>7 DEF E!Client, E!Close, E!engine, engine
<1>8. CASE ClientGone(r)
  BY <1>7, <1>8 DEF ClientGone, Loop
<1>9. CASE SendFailure(r)
  BY <1>7, <1>9 DEF SendFailure, LeftBehind
<1>10. CASE SendEventFails(r)
  <2>1. CASE handler[r] \in {"open", "finish", "done"}
    <3>1. stream' = stream
      BY <1>10, <2>1 DEF SendEventFails, P!TypeInv
    <3> QED BY <1>10, <3>1 DEF SendEventFails, EngineRests
  <2>2. CASE handler[r] \notin {"open", "finish", "done"}
    BY <1>7, <1>10, <2>2 DEF SendEventFails, Sending, Loop, Judging
  <2> QED BY <2>1, <2>2
<1> QED
  BY <1>1, <1>2, <1>3, <1>4, <1>5, <1>8, <1>9, <1>10 DEF Serve, Handle

----------------------------------------------------------------------------
(* Each step keeps what holds of a request.                                *)

\* What a stream owes changes with it, its outcome and the engine's step alone.
LEMMA SameStream ==
    ASSUME NEW r, stream'[r] = stream[r], history'[r] = history[r], UNCHANGED <<job, step>>
    PROVE  /\ \A n : P!Owed(r, n)' <=> P!Owed(r, n)
           /\ E!Abandoned(r)' <=> E!Abandoned(r)
BY DEF P!Owed, P!Reported, E!Abandoned

\* A step for one request keeps what holds of the others.
LEMMA OthersKept ==
    ASSUME NEW q \in Requests, OnlyFor(q), OnlyServes(q), NEW r \in Requests \ {q}, RequestInv(r)
    PROVE  RequestInv(r)'
<1>1. /\ reply'[r] = reply[r] /\ stream'[r] = stream[r] /\ history'[r] = history[r]
      /\ handler'[r] = handler[r] /\ outgoing'[r] = outgoing[r] /\ sent'[r] = sent[r]
      /\ \A n : P!Owed(r, n)' <=> P!Owed(r, n)
      /\ E!Abandoned(r)' <=> E!Abandoned(r)
  BY SameStream DEF OnlyFor, OnlyServes
<1> QED
  BY <1>1 DEF RequestInv, ReplyPlace, KindPlace, StreamPlace, EventPlace, Follows, HeldBack,
              AllSent, Claimed

\* So does a step of the engine, for all of them.
LEMMA EngineKeeps ==
    ASSUME P!EngineInv, P!Engine, ServerType, UNCHANGED server, NEW r \in Requests, RequestInv(r)
    PROVE  RequestInv(r)'
<1>0. P!TypeInv /\ P!PendingInv /\ P!GenerationInv
  BY DEF P!EngineInv
<1>1. /\ \/ reply'[r] = reply[r]
         \/ reply[r] = "waiting" /\ reply'[r] \in {"value", "error", "dropped"}
      /\ stream'[r].receiver = stream[r].receiver
      /\ stream'[r].cancelled = stream[r].cancelled
      /\ IF history[r].outcome = "asked"
         THEN history'[r].outcome # "new"
         ELSE history'[r] = history[r] /\ stream'[r] = stream[r]
  BY <1>0, Assumed, P!EngineFrame
<1>2. handler'[r] = handler[r] /\ outgoing'[r] = outgoing[r] /\ sent'[r] = sent[r]
  BY DEF server
<1>3. ReplyPlace(r)'
  BY <1>1, <1>2 DEF RequestInv, ReplyPlace, Awaiting
<1>4. KindPlace(r)' /\ EventPlace(r)'
  BY <1>1, <1>2 DEF RequestInv, KindPlace, EventPlace
<1>5. AllSent(r) => AllSent(r)'
  BY <1>1, <1>2 DEF AllSent
<1>6. E!Abandoned(r)' <=> E!Abandoned(r)
  BY <1>1 DEF E!Abandoned
<1>7. ASSUME handler[r] \in Loop PROVE Follows(r)'
  <2>1. r \in Streaming
    BY <1>7 DEF RequestInv, KindPlace, Loop, Selecting, Sending
  <2>2. PICK n \in Nat : P!Owed(r, n) /\ (r \notin Tools => n = sent[r].texts + HeldBack(r))
    BY <1>7 DEF RequestInv, StreamPlace, Follows
  <2>3. P!Owed(r, n)'
    BY <1>0, <2>1, <2>2, Assumed, P!OwedKept
  <2> QED BY <1>2, <2>2, <2>3 DEF Follows, HeldBack
<1>8. StreamPlace(r)'
  <2>1. history'[r].outcome = "asked" => history[r].outcome = "asked"
    BY <1>1
  <2> QED
    BY <1>1, <1>2, <1>5, <1>6, <1>7, <2>1 DEF RequestInv, StreamPlace, Claimed
<1> QED BY <1>3, <1>4, <1>8 DEF RequestInv

\* And so does a step of the request's own handler or client.
LEMMA OwnKept ==
    ASSUME P!EngineInv, ServerType, NEW r \in Requests, RequestInv(r),
           Serve(r) \/ Read(r) \/ Leave(r)
    PROVE  RequestInv(r)'
<1>0. /\ P!TypeInv /\ P!PendingInv /\ P!GenerationInv
      /\ handler \in [Requests -> Places] /\ outgoing \in [Requests -> Reasons]
      /\ sent \in [Requests -> Sent] /\ reply \in [Requests -> P!Replies]
      /\ stream \in [Requests -> P!Streams] /\ history \in [Requests -> P!Histories]
      /\ sent[r].texts \in Nat
  BY DEF P!EngineInv, P!TypeInv, ServerType, Sent
<1>p. /\ Reasons = {"stop", "tool_calls", "error"} /\ Selecting = {"select"}
      /\ Before = {"admit", "admitting", "ask", "asked"}
      /\ Sending = {"open", "text", "update", "alive", "fail", "flush", "calls", "finish", "done"}
      /\ Computing = {"start", "completion", "counting", "judge"}
  BY DEF Reasons, Selecting, Before, Sending, Computing
<1> DEFINE SameChannels == /\ stream'[r] = stream[r] /\ history'[r] = history[r]
                           /\ \A n : P!Owed(r, n)' <=> P!Owed(r, n)
                           /\ E!Abandoned(r)' <=> E!Abandoned(r)
<1>q. EngineRests => SameChannels /\ reply'[r] = reply[r]
  BY SameStream DEF EngineRests, engine
<1>t. E!TakeReply(r) \/ E!AbandonReply(r) =>
         SameChannels /\ reply'[r] = IF E!TakeReply(r) THEN "none" ELSE "abandoned"
  BY <1>0, SameStream DEF E!TakeReply, E!AbandonReply, E!engine
<1>e. ASSUME NEW e \in Marks \cup {"alive"}, SendEvent(r, e)
      PROVE  /\ sent'[r].last = IF e = "alive" THEN sent[r].last ELSE e
             /\ sent'[r].texts = IF e = "text" THEN sent[r].texts + 1 ELSE sent[r].texts
             /\ sent'[r].reason = IF e \in Reasons THEN e ELSE sent[r].reason
  BY <1>e, SendEffects
<1> HIDE DEF SameChannels
<1> USE DEF Goto, RequestInv, ReplyPlace, KindPlace, StreamPlace, EventPlace,
            Unasked, Loop, Judging, Awaiting, Claimed
<1>1. CASE Arrive(r)
  BY <1>0, <1>p, <1>q, <1>1 DEF Arrive, AfterPermit, SameChannels
<1>2. CASE KeepAlive(r)
  BY <1>0, <1>p, <1>q, <1>2 DEF KeepAlive, SameChannels, Follows, HeldBack
<1>3. CASE Read(r) \/ Leave(r)
  BY <1>0, <1>q, <1>3 DEF Read, Leave, SameChannels, Follows, HeldBack, AllSent
<1>4. CASE Admitted(r) \/ Respond(r) \/ DropHandler(r)
  BY <1>0, <1>p, <1>q, <1>t, <1>4 DEF Admitted, Respond, DropHandler, SameChannels
<1>5. CASE Counted(r)
  BY <1>0, <1>p, <1>t, <1>5 DEF Counted, SameChannels, AllSent
<1>6. CASE Judge(r)
  BY <1>0, <1>p, <1>q, <1>6 DEF Judge, Finishing, SameChannels, AllSent
<1>7. CASE SendRole(r)
  BY <1>0, <1>p, <1>q, <1>e, <1>7 DEF SendRole, Marks, SameChannels
<1>8. CASE SendInLoop(r)
  <2>1. /\ SameChannels /\ reply'[r] = reply[r] /\ outgoing' = outgoing
        /\ handler'[r] \in IF handler[r] = "text" THEN AfterText(r) ELSE {"select"}
    BY <1>0, <1>q, <1>8 DEF SendInLoop, AfterText
  <2>2. /\ sent'[r].last \in {sent[r].last, "text", "update"}
        /\ sent'[r].texts = IF handler[r] = "text" THEN sent[r].texts + 1 ELSE sent[r].texts
        /\ sent'[r].reason = sent[r].reason
    BY <1>p, <1>e, <1>8 DEF SendInLoop, Marks
  <2>3. PICK n \in Nat : P!Owed(r, n) /\ (r \notin Tools => n = sent[r].texts + HeldBack(r))
    BY <1>8 DEF SendInLoop, Follows
  <2>4. stream[r].receiver
    BY <2>3 DEF P!Owed
  <2>5. r \notin Tools => n = sent'[r].texts + HeldBack(r)'
    <3>1. r \notin Tools => handler'[r] = "select"
      BY <1>8, <2>1 DEF SendInLoop, AfterText
    <3>2. CASE handler[r] = "text"
      BY <1>0, <2>2, <2>3, <3>1, <3>2 DEF HeldBack
    <3>3. CASE handler[r] # "text"
      BY <1>0, <2>2, <2>3, <3>1, <3>3 DEF HeldBack
    <3> QED BY <3>2, <3>3
  <2>6. Follows(r)'
    BY <2>1, <2>3, <2>5 DEF SameChannels, Follows
  <2> QED BY <1>0, <1>p, <1>8, <2>1, <2>2, <2>4, <2>6 DEF SendInLoop, AfterText, SameChannels
<1>9. CASE Flush(r)
  BY <1>0, <1>p, <1>q, <1>e, <1>9 DEF Flush, Marks, SameChannels, AllSent
<1>10. CASE SendCalls(r)
  BY <1>0, <1>p, <1>q, <1>e, <1>10 DEF SendCalls, Finishing, Marks, SameChannels, AllSent
<1>11. CASE SendFinish(r)
  BY <1>0, <1>p, <1>q, <1>e, <1>11 DEF SendFinish, Marks, SameChannels, AllSent, E!Abandoned
<1>12. CASE SendDone(r)
  BY <1>0, <1>p, <1>q, <1>e, <1>12 DEF SendDone, Marks, SameChannels, AllSent
<1>13. CASE Ask(r)
  <2>1. UNCHANGED <<outgoing, sent, job, step>>
    BY <1>13, AskingKinds DEF Ask, E!Submit
  <2>2. ASSUME E!Submit("encode", r)
        PROVE  SameChannels /\ reply'[r] = "waiting" /\ history' = history
    BY <1>0, <2>1, <2>2, SameStream DEF E!Submit, SameChannels
  <2>3. CASE handler[r] = "admit" /\ E!Submit("encode", r) /\ Goto(r, "admitting")
    BY <1>0, <1>p, <2>1, <2>2, <2>3 DEF SameChannels
  <2>4. CASE handler[r] = "completion" /\ E!Submit("encode", r) /\ Goto(r, "counting")
    BY <1>0, <1>p, <2>1, <2>2, <2>4 DEF SameChannels, AllSent
  <2>5. CASE handler[r] = "ask" /\ E!Submit("generate", r) /\ Goto(r, "asked")
    <3>1. /\ stream'[r] = stream[r] /\ reply'[r] = "waiting" /\ handler'[r] = "asked"
      BY <1>0, <2>5 DEF E!Submit
    <3> QED BY <1>p, <2>1, <2>5, <3>1
  <2>6. CASE handler[r] = "start" /\ E!Submit("stream", r) /\ Goto(r, "select")
    <3>1. reply'[r] = reply[r] /\ handler'[r] = "select"
      BY <1>0, <2>6 DEF E!Submit
    <3>2. P!Owed(r, 0)'
      BY <1>0, <2>6, Assumed, SameHandle, P!OwedAtFirst
    <3>3. Follows(r)'
      BY <2>1, <2>6, <3>1, <3>2 DEF Follows, HeldBack
    <3> QED BY <1>p, <2>1, <2>6, <3>1, <3>3
  <2> QED BY <1>13, <2>3, <2>4, <2>5, <2>6, AskingKinds
<1>14. CASE StreamEnds(r)
  <2>1. PICK n \in Nat : P!Owed(r, n) /\ (r \notin Tools => n = sent[r].texts)
    BY <1>0, <1>14 DEF StreamEnds, Follows, HeldBack
  <2>2. r \in Streaming
    BY <1>p, <1>14 DEF StreamEnds
  <2>3. history[r].outcome \in {"complete", "panicked"} /\ history[r].sent = n
    BY <1>0, <1>14, <2>1, <2>2, Assumed, P!OwedAtLast DEF StreamEnds, Ended
  <2>4. AllSent(r) /\ stream[r].receiver
    BY <2>1, <2>3 DEF AllSent, P!Owed
  <2> QED BY <1>0, <1>p, <1>q, <1>14, <2>4 DEF StreamEnds, SameChannels, AllSent
<1>15. CASE ReceiveText(r)
  <2>1. PICK n \in Nat : P!Owed(r, n) /\ (r \notin Tools => n = sent[r].texts)
    BY <1>0, <1>15 DEF ReceiveText, Follows, HeldBack
  <2>2. P!Owed(r, n + 1)' /\ n + 1 \in Nat
    BY <1>0, <1>15, <2>1, Assumed, SameHandle, P!OwedTaken DEF ReceiveText
  <2>3. /\ handler[r] = "select"
        /\ handler'[r] \in {"text", "select", "update", "fail"}
        /\ r \notin Tools => handler'[r] = "text"
        /\ reply' = reply /\ history' = history
        /\ UNCHANGED <<outgoing, sent>>
    BY <1>0, <1>15 DEF ReceiveText, E!Receive, AfterText
  <2>4. Follows(r)' /\ stream'[r].receiver
    BY <2>1, <2>2, <2>3 DEF Follows, HeldBack, P!Owed
  <2> QED BY <1>p, <2>3, <2>4
<1>16. CASE ReceiveError(r) \/ DeadlineExpires(r)
  <2>1. stream'[r].receiver
    <3>1. stream[r].receiver
      BY <1>16 DEF ReceiveError, DeadlineExpires, Follows, P!Owed
    <3>2. \/ stream' = [stream EXCEPT ![r].buffer = Tail(@)]
          \/ stream' = [stream EXCEPT ![r] = [@ EXCEPT !.cancelled = TRUE]]
      BY <1>16 DEF ReceiveError, DeadlineExpires, E!Receive, E!Cancel, E!Cancelled
    <3> QED BY <1>0, <3>1, <3>2 DEF P!Streams
  <2>2. /\ handler[r] = "select" /\ handler'[r] = "fail"
        /\ reply' = reply /\ history' = history
        /\ UNCHANGED <<outgoing, sent>>
    BY <1>0, <1>16 DEF ReceiveError, DeadlineExpires, E!Receive, E!Cancel, AfterError
  <2> QED BY <1>p, <2>1, <2>2
\* The receiver is dropped, and the handler goes on or ends.
<1>17. ASSUME NEW s, stream' = [stream EXCEPT ![r] = E!Dropped(s)], s \in P!Streams
       PROVE  ~stream'[r].receiver /\ E!Abandoned(r)'
  BY <1>0, <1>17 DEF E!Dropped, E!Abandoned, P!Streams
<1>18. stream[r] \in P!Streams /\ E!Cancelled(stream[r]) \in P!Streams
  BY <1>0 DEF E!Cancelled, P!Streams
<1>19. CASE SendFailure(r)
  <2>1. ~stream'[r].receiver
    BY <1>17, <1>18, <1>19 DEF SendFailure, LeftBehind
  <2>2. /\ handler[r] = "fail" /\ handler'[r] = "finish" /\ outgoing'[r] = "error"
        /\ reply' = reply /\ history' = history
    BY <1>0, <1>19 DEF SendFailure, Finishing, FailureReason
  <2>3. sent'[r].last = "failure" /\ sent'[r].reason = sent[r].reason
    BY <1>e, <1>p, <1>19 DEF SendFailure, Marks
  <2> QED BY <1>p, <2>1, <2>2, <2>3
<1>20. CASE ClientGone(r)
  <2>1. E!Abandoned(r)'
    BY <1>17, <1>18, <1>20 DEF ClientGone
  <2> QED BY <1>0, <1>p, <1>20, <2>1 DEF ClientGone
<1>21. CASE SendEventFails(r)
  <2>1. /\ handler[r] \in Sending /\ handler'[r] = "over"
        /\ reply' = reply /\ history' = history /\ UNCHANGED <<outgoing, sent, job, step>>
    BY <1>0, <1>21 DEF SendEventFails, engine
  <2>2. CASE handler[r] \in {"open", "finish", "done"}
    <3>1. stream'[r] = stream[r]
      BY <1>0, <1>21, <2>2 DEF SendEventFails
    <3>2. E!Abandoned(r)' <=> E!Abandoned(r)
      BY <3>1 DEF E!Abandoned
    <3> QED BY <1>0, <1>p, <2>1, <2>2, <3>1, <3>2 DEF AllSent, E!Abandoned
  <2>3. CASE handler[r] \notin {"open", "finish", "done"}
    <3>1. E!Abandoned(r)'
      BY <1>17, <1>18, <1>21, <2>3 DEF SendEventFails
    <3> QED BY <1>p, <2>1, <2>3, <3>1 DEF AllSent
  <2> QED BY <2>2, <2>3
<1> QED
  BY <1>1, <1>2, <1>3, <1>4, <1>5, <1>6, <1>7, <1>8, <1>9, <1>10, <1>11, <1>12, <1>13, <1>14,
     <1>15, <1>16, <1>19, <1>20, <1>21
  DEF Serve, Handle

----------------------------------------------------------------------------
(* The invariant is inductive.                                             *)

ServerInv ==
    /\ P!EngineInv
    /\ ServerType
    /\ \A r \in Requests : RequestInv(r)

\* Nothing has been asked, awaited or sent at the start.
LEMMA InitialServerInv == Init => ServerInv
<1> SUFFICES ASSUME Init PROVE ServerInv
  OBVIOUS
<1>1. P!EngineInv
  BY SameNext, Assumed, P!InitialInv DEF Init
<1>2. ServerType
  <2>1. /\ [open |-> TRUE, unread |-> 0] \in Channels
        /\ [last |-> "none", texts |-> 0, reason |-> "none"] \in Sent
        /\ "new" \in Places /\ "stop" \in Reasons
    BY ServerAssumption DEF Channels, Sent, Marks, Places, Reasons
  <2> QED BY <2>1 DEF Init, ServerType
<1>3. ASSUME NEW r \in Requests PROVE RequestInv(r)
  <2>1. /\ handler[r] = "new" /\ reply[r] = "none" /\ stream[r] = E!Unused
        /\ history[r].outcome = "new" /\ sent[r] = [last |-> "none", texts |-> 0, reason |-> "none"]
    BY DEF Init, E!Init
  <2> QED
    BY <2>1 DEF RequestInv, ReplyPlace, KindPlace, StreamPlace, EventPlace, Unasked, Loop, Judging,
                Awaiting, Claimed, Selecting, Sending, Computing
<1> QED BY <1>1, <1>2, <1>3 DEF ServerInv

\* A step of the server is one the engine takes, or that a handle allows.
LEMMA EveryStepUsesHandle ==
    ASSUME ServerInv, [Next]_vars
    PROVE  [E!Next]_E!vars
<1>1. CASE E!Engine
  BY <1>1 DEF E!Next
<1>2. ASSUME NEW r \in Requests, Serve(r) \/ Read(r) \/ Leave(r)
      PROVE  [E!Next]_E!vars
  BY <1>2, ServerUsesHandle, SameHandle, SameNext DEF ServerInv, E!Next, P!EngineInv
<1>3. CASE UNCHANGED vars
  BY <1>3 DEF vars, engine, E!vars, E!engine
<1> QED BY <1>1, <1>2, <1>3 DEF Next

\* The engine keeps its invariant in every step it may take.
LEMMA EngineInvKept ==
    ASSUME P!EngineInv, [E!Next]_E!vars
    PROVE  P!EngineInv'
<1>1. [P!Next]_P!vars
  BY SameNext
<1> QED
  BY <1>1, Assumed, P!TypesPreserved, P!PendingPreserved, P!RepliesPreserved,
     P!GenerationsPreserved, P!SamplerPreserved, P!LatePreserved
  DEF P!EngineInv

\* Every step keeps the invariant.
LEMMA ServerInvKept ==
    ASSUME ServerInv, [Next]_vars
    PROVE  ServerInv'
<1>1. P!EngineInv'
  BY EveryStepUsesHandle, EngineInvKept DEF ServerInv
<1>2. CASE E!Engine /\ UNCHANGED server
  BY <1>1, <1>2, SameEngine, EngineKeeps DEF ServerInv, ServerType, server
<1>3. ASSUME NEW q \in Requests, Serve(q) \/ Read(q) \/ Leave(q)
      PROVE  ServerInv'
  <2>1. ServerType' /\ OnlyFor(q) /\ OnlyServes(q)
    BY <1>3, ServerEffects DEF ServerInv, P!EngineInv
  <2>2. ASSUME NEW r \in Requests PROVE RequestInv(r)'
    BY <1>3, <2>1, OwnKept, OthersKept DEF ServerInv
  <2> QED BY <1>1, <2>1, <2>2 DEF ServerInv
<1>4. CASE UNCHANGED vars
  <2>1. UNCHANGED <<handler, outgoing, sse, sent, reply, stream, history, job, step>>
    BY <1>4 DEF vars, engine, server
  <2>2. ServerType'
    BY <2>1 DEF ServerInv, ServerType
  <2>3. ASSUME NEW r \in Requests PROVE RequestInv(r)'
    <3>1. /\ \A n : P!Owed(r, n)' <=> P!Owed(r, n)
          /\ E!Abandoned(r)' <=> E!Abandoned(r)
      BY <2>1, SameStream
    <3> QED
      BY <2>1, <3>1 DEF ServerInv, RequestInv, ReplyPlace, KindPlace, StreamPlace, EventPlace,
                        Follows, HeldBack, AllSent, Claimed
  <2> QED BY <1>1, <2>2, <2>3 DEF ServerInv
<1> QED BY <1>2, <1>3, <1>4 DEF Next

----------------------------------------------------------------------------
(* Permits.                                                                *)

\* No more than the permits there are.
Limited(S) == IsFiniteSet(S) /\ Cardinality(S) <= Slots

\* Nor is any part of it.
LEMMA LimitedSubset ==
    ASSUME NEW S, Limited(S), NEW T, T \subseteq S
    PROVE  Limited(T)
<1>1. /\ IsFiniteSet(T) /\ Cardinality(T) <= Cardinality(S)
      /\ Cardinality(T) \in Nat /\ Cardinality(S) \in Nat
  BY FS_Subset, FS_CardinalityType DEF Limited
<1> QED BY <1>1, ServerAssumption DEF Limited

\* A step that does not let a request in gives out no permit.
LEMMA OnlyArrivalsAdmit ==
    ASSUME ServerInv, NEW q \in Requests, Serve(q) \/ Read(q) \/ Leave(q), ~Arrive(q)
    PROVE  Holding' \subseteq Holding
<1>1. Serve(q) => handler[q] \in HeldThroughout
  BY DEF Serve, Handle, Ask, Asking, Admitted, Respond, DropHandler, DeadlineExpires, ReceiveText,
     ReceiveError, StreamEnds, KeepAlive, Counted, Judge, SendEventFails, ClientGone, SendRole,
     SendInLoop, SendFailure, Flush, SendCalls, SendFinish, SendDone,
     HeldThroughout, Before, Selecting, Sending, Computing
<1>2. OnlyServes(q) /\ (Read(q) \/ Leave(q) => handler' = handler)
  BY ServerEffects DEF ServerInv, P!EngineInv, Read, Leave
<1> QED BY <1>1, <1>2 DEF Holding, OnlyServes

\* Every step keeps the permits within the slots.
LEMMA PermitsKept ==
    ASSUME ServerInv, Limited(Holding), [Next]_vars
    PROVE  Limited(Holding')
<1>1. ASSUME Holding' \subseteq Holding PROVE Limited(Holding')
  BY <1>1, LimitedSubset
<1>2. ASSUME NEW q \in Requests, Arrive(q)
      PROVE  Limited(Holding')
  <2>1. \A r \in Requests \ {q} : handler'[r] = handler[r]
    BY <1>2, ServerEffects DEF ServerInv, P!EngineInv, OnlyServes, Serve
  <2>2. CASE Cardinality(Holding) >= Slots
    <3>1. handler'[q] = "rejected" /\ "rejected" \notin HeldThroughout
      BY <1>2, <2>2 DEF Arrive, Goto, ServerInv, ServerType, HeldThroughout, Before, Selecting,
                        Sending, Computing
    <3> QED BY <1>1, <2>1, <3>1 DEF Holding
  <2>3. CASE ~(Cardinality(Holding) >= Slots)
    <3>1. /\ Cardinality(Holding) \in Nat
          /\ IsFiniteSet(Holding \cup {q})
          /\ Cardinality(Holding \cup {q}) <= Cardinality(Holding) + 1
      BY FS_CardinalityType, FS_AddElement DEF Limited
    <3>2. Limited(Holding \cup {q})
      <4>1. Cardinality(Holding \cup {q}) \in Nat
        BY <3>1, FS_CardinalityType
      <4> QED BY <2>3, <3>1, <4>1, ServerAssumption DEF Limited
    <3>3. Holding' \subseteq Holding \cup {q}
      BY <2>1 DEF Holding
    <3> QED BY <3>2, <3>3, LimitedSubset
  <2> QED BY <2>2, <2>3
<1>3. CASE UNCHANGED handler
  BY <1>1, <1>3 DEF Holding
<1> QED BY <1>1, <1>2, <1>3, OnlyArrivalsAdmit DEF Next, vars, server

----------------------------------------------------------------------------
(* The backlog of generations.                                             *)

EncodeFor(r) == [kind |-> "encode", req |-> r]

\* A request may ask for its generation once its prompt has been counted: here,
\* by the commands before place i of the engine's line.
MayAsk(r, i) ==
    \/ handler[r] \in {"ask", "open", "start"}
    \/ /\ handler[r] = "admitting"
       /\ \A j \in i .. Len(queue) : P!Command(j) # EncodeFor(r)

\* The requests whose generation waits at place i of that line or behind it, or
\* who may ask for one once what comes before has been executed.
Abreast(i) ==
    {r \in Requests :
        \/ MayAsk(r, i)
        \/ \E j \in i .. Len(queue) : P!IsGeneration(P!Command(j)) /\ P!Command(j).req = r}

BacklogInv == \A i \in 0 .. Len(queue) + 1 : Limited(Abreast(i))

\* A step of a handler adds nobody to a line the engine has not yet reached.
LEMMA AbreastServed ==
    ASSUME ServerInv, NEW q \in Requests, Serve(q) \/ Read(q) \/ Leave(q), queue' = queue,
           NEW i \in Nat
    PROVE  Abreast(i)' \subseteq Abreast(i)
<1>1. OnlyServes(q) /\ job' = job
  BY ServerEffects DEF ServerInv, P!EngineInv, OnlyFor
<1>2. \A j : P!Command(j)' = P!Command(j)
  BY <1>1 DEF P!Command
<1>3. Len(queue) \in Nat
  BY LenProperties DEF ServerInv, P!EngineInv, P!TypeInv
<1>4. MayAsk(q, i)' => MayAsk(q, i)
  <2>1. CASE Admitted(q)
    <3>1. handler[q] = "admitting" /\ reply[q] \in {"value", "error", "dropped"}
      BY <2>1 DEF Admitted, E!TakeReply
    <3>2. \A j \in 0 .. Len(queue) : P!Command(j) # EncodeFor(q)
      BY <3>1 DEF ServerInv, P!EngineInv, P!ReplyInv, P!AnswersByReply, EncodeFor
    <3>3. \A j \in i .. Len(queue) : j \in 0 .. Len(queue)
      BY <1>3
    <3> QED BY <3>1, <3>2, <3>3 DEF MayAsk
  <2>2. CASE SendRole(q)
    BY <2>2 DEF SendRole, MayAsk
  <2>3. CASE Read(q) \/ Leave(q)
    BY <1>2, <2>3 DEF Read, Leave, MayAsk
  <2>4. ~Ask(q)
    <3>1. SUFFICES ASSUME Ask(q) PROVE FALSE
      OBVIOUS
    <3>2. PICK kind \in {"encode", "generate", "stream"} : E!Submit(kind, q)
      BY <3>1, AskingKinds
    <3>3. queue \in Seq(P!Commands) /\ [kind |-> kind, req |-> q] \in P!Commands
      BY DEF ServerInv, P!EngineInv, P!TypeInv, P!Commands
    <3>4. Len(queue') = Len(queue) + 1
      BY <3>2, <3>3 DEF E!Submit
    <3> QED BY <1>3, <3>4
  <2>5. CASE Serve(q) /\ ~Admitted(q) /\ ~SendRole(q)
    <3> SUFFICES handler'[q] \notin {"admitting", "ask", "open", "start"}
      BY DEF MayAsk
    <3>0. \A to : Goto(q, to) => handler'[q] = to
      BY DEF Goto, ServerInv, ServerType
    <3>1. CASE Arrive(q) \/ Respond(q) \/ DropHandler(q) \/ DeadlineExpires(q)
      BY <3>0, <3>1 DEF Arrive, AfterPermit, Respond, DropHandler, DeadlineExpires
    <3>2. CASE ReceiveText(q) \/ ReceiveError(q) \/ StreamEnds(q) \/ KeepAlive(q)
      BY <3>0, <3>2 DEF ReceiveText, AfterText, ReceiveError, AfterError, StreamEnds, KeepAlive
    <3>3. CASE SendInLoop(q) \/ Counted(q) \/ Judge(q)
      BY <3>0, <3>3 DEF SendInLoop, AfterText, Counted, Judge, Finishing
    <3>4. CASE SendEventFails(q) \/ ClientGone(q) \/ SendFailure(q) \/ Flush(q) \/ SendCalls(q)
               \/ SendFinish(q) \/ SendDone(q)
      BY <3>0, <3>4 DEF SendEventFails, ClientGone, SendFailure, Flush, SendCalls, Finishing,
                        SendFinish, SendDone
    <3> QED BY <2>4, <2>5, <3>1, <3>2, <3>3, <3>4 DEF Serve, Handle
  <2> QED BY <2>1, <2>2, <2>3, <2>5
<1>5. \A r \in Requests \ {q} : MayAsk(r, i)' => MayAsk(r, i)
  BY <1>1, <1>2 DEF OnlyServes, MayAsk
<1> QED BY <1>2, <1>4, <1>5 DEF Abreast

\* A handler that submits a command holds a permit, and a request that asks for
\* its generation was in the line already.
LEMMA AbreastAsked ==
    ASSUME ServerInv, NEW q \in Requests, Ask(q), NEW i \in 0 .. Len(queue') + 1
    PROVE  Abreast(i)' \subseteq Holding' \/ (i \in 0 .. Len(queue) /\ Abreast(i)' \subseteq Abreast(i))
<1>0. /\ Len(queue) \in Nat /\ handler \in [Requests -> Places] /\ P!TypeInv
      /\ handler[q] = "ask" => q \notin Streaming
      /\ handler[q] = "start" => q \in Streaming
  BY LenProperties
  DEF ServerInv, ServerType, P!EngineInv, P!TypeInv, RequestInv, KindPlace, Computing
<1>1. PICK kind \in {"encode", P!Answering(q)} : P!Submit(kind, q)
  BY <1>0, AskingKinds, SameHandle DEF P!Answering
<1>2. PICK last \in Nat : last = Len(queue) + 1
  BY <1>0
<1>3. /\ Len(queue') = last
      /\ \A j \in 0 .. Len(queue) : P!Command(j)' = P!Command(j)
      /\ P!Command(last)' = [kind |-> kind, req |-> q]
  BY <1>0, <1>1, <1>2, Assumed, P!SubmitAppends
<1>4. /\ \A r \in Requests \ {q} : handler'[r] = handler[r]
      /\ handler'[q] \in {"admitting", "asked", "select", "counting"}
      /\ handler[q] \in {"ask", "start"} \/ kind = "encode"
  <2>1. OnlyServes(q)
    BY ServerEffects DEF ServerInv, P!EngineInv, Serve, Handle
  <2>2. /\ handler'[q] \in {"admitting", "asked", "select", "counting"}
        /\ handler[q] \in {"ask", "start"} \/ E!Submit("encode", q)
    BY <1>0, AskingKinds DEF Goto
  <2>3. E!Submit("encode", q) => kind = "encode"
    <3>1. ASSUME E!Submit("encode", q) PROVE kind = "encode"
      <4>1. queue' = Append(queue, [kind |-> "encode", req |-> q])
        BY <3>1 DEF E!Submit
      <4>2. queue'[last] = [kind |-> "encode", req |-> q]
        BY <1>0, <1>2, <4>1 DEF P!TypeInv
      <4>3. P!Command(last)' = queue'[last]
        BY <1>0, <1>2 DEF P!Command
      <4> QED BY <1>3, <4>2, <4>3
    <3> QED BY <3>1
  <2> QED BY <2>1, <2>2, <2>3 DEF OnlyServes
<1>5. \A j \in i .. Len(queue) : j \in 0 .. Len(queue) /\ j \in i .. Len(queue')
  BY <1>0, <1>2, <1>3
<1>6. CASE i \in 0 .. Len(queue)
  <2>1. last \in i .. Len(queue')
    BY <1>0, <1>2, <1>3, <1>6
  <2>2. ASSUME NEW r \in Requests, MayAsk(r, i)' PROVE MayAsk(r, i)
    <3>1. CASE r = q
      <4>1. handler'[q] = "admitting" /\ kind # "encode"
        BY <1>3, <1>4, <2>1, <2>2, <3>1 DEF MayAsk, EncodeFor
      <4> QED BY <1>4, <3>1, <4>1 DEF MayAsk
    <3>2. CASE r # q
      BY <1>3, <1>4, <1>5, <2>2, <3>2 DEF MayAsk, EncodeFor
    <3> QED BY <3>1, <3>2
  <2>3. ASSUME NEW r \in Requests, NEW j \in i .. Len(queue'),
               P!IsGeneration(P!Command(j)'), P!Command(j)'.req = r
        PROVE  r \in Abreast(i)
    <3>1. CASE j = last
      <4>1. r = q /\ kind # "encode"
        BY <1>3, <2>3, <3>1 DEF P!IsGeneration
      <4> QED BY <1>4, <4>1 DEF Abreast, MayAsk
    <3>2. CASE j # last
      <4>1. j \in i .. Len(queue) /\ P!Command(j)' = P!Command(j)
        BY <1>0, <1>2, <1>3, <1>5, <3>2
      <4> QED BY <2>3, <4>1 DEF Abreast
    <3> QED BY <3>1, <3>2
  <2>4. Abreast(i)' \subseteq Abreast(i)
    BY <2>2, <2>3 DEF Abreast
  <2> QED BY <1>6, <2>4
<1>7. CASE i \notin 0 .. Len(queue)
  <2>1. \A j \in i .. Len(queue') : j = last
    BY <1>0, <1>2, <1>3, <1>7
  <2>2. \A r \in Requests : MayAsk(r, i)' => r \in Holding'
    BY DEF MayAsk, Holding, HeldThroughout, Before, Sending, Computing
  <2>3. q \in Holding'
    BY <1>4 DEF Holding, HeldThroughout, Before, Selecting, Computing
  <2> QED BY <1>3, <2>1, <2>2, <2>3 DEF Abreast
<1> QED BY <1>6, <1>7

\* When the engine takes a command or returns from one, every place in its line
\* becomes the one before.
LEMMA AbreastMoved ==
    ASSUME ServerInv, P!Engine, UNCHANGED handler, NEW i \in 0 .. Len(queue') + 1
    PROVE  \E k \in 0 .. Len(queue) + 1 : Abreast(i)' \subseteq Abreast(k)
<1>0. P!TypeInv /\ Len(queue) \in Nat
  BY LenProperties DEF ServerInv, P!EngineInv, P!TypeInv
<1>1. CASE P!TakeCommand
  <2>1. /\ Len(queue') = Len(queue) - 1
        /\ \A j \in 0 .. Len(queue') : P!Command(j)' = P!Command(j + 1)
    BY <1>0, <1>1, Assumed, P!TakeCommandShifts
  <2>2. PICK k \in 0 .. Len(queue) + 1 : k = i + 1
    BY <1>0, <2>1
  <2>3. \A j \in i .. Len(queue') : j + 1 \in k .. Len(queue) /\ P!Command(j)' = P!Command(j + 1)
    BY <1>0, <2>1, <2>2
  <2>4. \A j \in k .. Len(queue) :
           \E m \in i .. Len(queue') : P!Command(m)' = P!Command(j)
    <3>1. SUFFICES ASSUME NEW j \in k .. Len(queue)
                   PROVE  \E m \in i .. Len(queue') : P!Command(m)' = P!Command(j)
      OBVIOUS
    <3>2. PICK m \in Int : m = j - 1
      BY <1>0, <2>2
    <3>3. m \in i .. Len(queue') /\ m \in 0 .. Len(queue') /\ m + 1 = j
      BY <1>0, <2>1, <2>2, <3>2
    <3> QED BY <2>1, <3>3
  <2>5. \A r \in Requests : MayAsk(r, i)' => MayAsk(r, k)
    BY <2>4 DEF MayAsk, EncodeFor
  <2>6. Abreast(i)' \subseteq Abreast(k)
    BY <2>3, <2>5 DEF Abreast
  <2> QED BY <2>6
<1>2. CASE ~P!TakeCommand
  <2>1. /\ queue' = queue
        /\ job' \in {job, P!NoJob}
    BY <1>0, <1>2, Assumed, P!HandlerEffects DEF P!AnswersOnce, P!EndsStream, P!GoesOn
  <2>2. /\ Len(queue') = Len(queue)
        /\ \A j \in 1 .. Len(queue) : P!Command(j)' = P!Command(j)
        /\ P!Command(0) = job /\ P!Command(0)' = job'
    BY <1>0, <2>1, Assumed, P!HandlerCommands
  <2>3. CASE job' = job \/ i # 0
    <3>1. \A j \in i .. Len(queue) : P!Command(j)' = P!Command(j)
      <4>1. \A j \in i .. Len(queue) : j \in 1 .. Len(queue) \/ (j = 0 /\ i = 0)
        BY <1>0
      <4> QED BY <2>2, <2>3, <4>1
    <3>2. Abreast(i)' \subseteq Abreast(i)
      BY <2>2, <3>1 DEF Abreast, MayAsk, EncodeFor
    <3> QED BY <2>2, <3>2
  <2>4. CASE job' = P!NoJob /\ i = 0
    <3>1. \A j \in 1 .. Len(queue) : j \in 0 .. Len(queue)
      BY <1>0
    <3>2. \A j \in 0 .. Len(queue) : j = 0 \/ j \in 1 .. Len(queue)
      BY <1>0
    <3>3. ~P!IsGeneration(P!Command(0)')
      BY <2>2, <2>4 DEF P!IsGeneration, P!NoJob
    <3>4. \A r \in Requests : MayAsk(r, i)' => MayAsk(r, 1)
      BY <2>2, <2>4, <3>1 DEF MayAsk, EncodeFor
    <3>5. Abreast(i)' \subseteq Abreast(1)
      BY <2>2, <2>4, <3>2, <3>3, <3>4 DEF Abreast
    <3>6. 1 \in 0 .. Len(queue) + 1
      BY <1>0
    <3> QED BY <3>5, <3>6
  <2> QED BY <2>1, <2>3, <2>4
<1> QED BY <1>1, <1>2

\* Every step keeps the line within the slots.
LEMMA BacklogKept ==
    ASSUME ServerInv, Limited(Holding'), BacklogInv, [Next]_vars
    PROVE  BacklogInv'
<1>0. Len(queue) \in Nat
  BY LenProperties DEF ServerInv, P!EngineInv, P!TypeInv
<1>1. CASE E!Engine /\ UNCHANGED server
  <2>1. UNCHANGED handler
    BY <1>1 DEF server
  <2> QED BY <1>1, <2>1, SameEngine, AbreastMoved, LimitedSubset DEF BacklogInv
<1>2. ASSUME NEW q \in Requests, Ask(q)
      PROVE  BacklogInv'
  <2>1. \A i \in 0 .. Len(queue) : i \in 0 .. Len(queue) + 1
    BY <1>0
  <2> QED BY <1>2, <2>1, AbreastAsked, LimitedSubset DEF BacklogInv
<1>3. ASSUME NEW q \in Requests, Serve(q) \/ Read(q) \/ Leave(q), ~Ask(q)
      PROVE  BacklogInv'
  <2>1. queue' = queue
    BY <1>3 DEF Serve, Handle, Arrive, Admitted, Respond, DropHandler, DeadlineExpires, ReceiveText,
       ReceiveError, StreamEnds, KeepAlive, Counted, Judge, SendEventFails, ClientGone, SendRole,
       SendInLoop, SendFailure, Flush, SendCalls, SendFinish, SendDone, Read, Leave,
       E!TakeReply, E!AbandonReply, E!Cancel, E!Receive, E!engine, EngineRests, engine
  <2>2. \A i \in 0 .. Len(queue) + 1 : i \in Nat
    BY <1>0
  <2> QED BY <1>3, <2>1, <2>2, AbreastServed, LimitedSubset DEF BacklogInv
<1>4. CASE UNCHANGED vars
  <2>1. UNCHANGED <<handler, queue, job>>
    BY <1>4 DEF vars, engine, server
  <2>2. \A i : Abreast(i)' = Abreast(i)
    BY <2>1 DEF Abreast, MayAsk, P!Command
  <2> QED BY <2>1, <2>2 DEF BacklogInv
<1> QED BY <1>1, <1>2, <1>3, <1>4 DEF Next

----------------------------------------------------------------------------
(* The theorems.                                                           *)

\* What holds of a request at each place of its handler keeps together with the
\* engine's invariant in every step of handlers, clients and engine
\* (routes/chat.rs, engine_actor.rs).
THEOREM ServerInductive == Spec => []ServerInv
<1>1. Init => ServerInv
  BY InitialServerInv
<1>2. ServerInv /\ [Next]_vars => ServerInv'
  BY ServerInvKept
<1> QED BY <1>1, <1>2, PTL DEF Spec

\* The endpoint drives the engine only by what its handle allows: one reply
\* awaited at a time, a stream dropped or cancelled only while it is held.
THEOREM EngineImplemented == Spec => ImplementsEngine
<1>1. Init => E!Init
  BY DEF Init
<1>2. ServerInv /\ [Next]_vars => [E!Next]_E!vars
  BY EveryStepUsesHandle
<1> QED BY <1>1, <1>2, ServerInductive, PTL DEF Spec, ImplementsEngine, E!Spec

\* stream_chat_completion: a client that is told "stop" or "tool_calls" has all
\* the text of a generation that came to its end, unless that one panicked.
THEOREM StopIsWhole == Spec => []StopMeansWholeOrPanic
<1>1. ServerInv => StopMeansWholeOrPanic
  BY DEF ServerInv, RequestInv, StreamPlace, AllSent, StopMeansWholeOrPanic, Whole
<1> QED BY <1>1, ServerInductive, PTL

\* A stream the engine still works for, and nobody has given up, belongs to a
\* request that holds a permit (the permit moved into the streaming task).
THEOREM WantedStreamsAdmitted == Spec => []WantedStreamsHoldPermits
<1>1. ASSUME ServerInv, NEW r \in Requests, InEngine(r), ~E!Abandoned(r)
      PROVE  r \in Holding
  <2>1. PICK c \in {job} \cup ToSet(queue) : c = [kind |-> "stream", req |-> r]
    BY <1>1 DEF InEngine
  <2>2. PICK i \in 0 .. Len(queue) : P!Command(i) = c
    BY <1>1, LenProperties DEF ToSet, P!Command, ServerInv, P!EngineInv, P!TypeInv
  <2>3. history[r].outcome = "asked" /\ r \in Streaming
    BY <1>1, <2>1, <2>2
    DEF ServerInv, P!EngineInv, P!PendingInv, P!GenerationInv, P!IsGeneration, P!Answering
  <2>4. handler[r] \in Places \ (Unasked \cup {"over"})
    BY <1>1, <2>3
    DEF ServerInv, ServerType, RequestInv, KindPlace, StreamPlace
  <2> QED BY <2>4 DEF Places, Unasked, Holding
<1>2. ServerInv => WantedStreamsHoldPermits
  BY <1>1 DEF WantedStreamsHoldPermits
<1> QED BY <1>2, ServerInductive, PTL

\* Every event a client reads may follow the one before it: content after the
\* role, the reason "error" after a failure alone, [DONE] at the end.
THEOREM EventsAreWellFormed == Spec => EventsWellFormed
<1> DEFINE Good(r) == sent'[r] # sent[r] => sent'[r].last \in MayFollow(sent[r].last)
<1>p. /\ Reasons = {"stop", "tool_calls", "error"} /\ Selecting = {"select"}
      /\ Before = {"admit", "admitting", "ask", "asked"}
      /\ Loop = {"select", "text", "update", "alive"}
      /\ Judging = {"completion", "counting", "flush", "judge", "calls"}
  BY DEF Reasons, Selecting, Before, Loop, Judging
<1>1. ASSUME ServerInv, NEW q \in Requests, Serve(q) \/ Read(q) \/ Leave(q)
      PROVE  Good(q)
  <2>0. /\ EventPlace(q) /\ ServerType /\ outgoing[q] \in Reasons
        /\ sent \in [Requests -> Sent]
    BY <1>1 DEF ServerInv, RequestInv, ServerType
  <2>1. ASSUME NEW e \in Marks \cup {"alive"}, SendEvent(q, e),
               e = "alive" \/ e \in MayFollow(sent[q].last)
        PROVE  Good(q)
    <3>1. CASE e = "alive"
      BY <2>1, <3>1 DEF SendEvent
    <3>2. CASE e # "alive"
      BY <2>0, <2>1, <3>2, SendEffects
    <3> QED BY <3>1, <3>2
  <2>2. CASE SendRole(q)
    BY <1>p, <2>0, <2>1, <2>2 DEF SendRole, EventPlace, MayFollow, Marks
  <2>3. CASE SendInLoop(q)
    BY <1>p, <2>0, <2>1, <2>3 DEF SendInLoop, EventPlace, MayFollow, Marks
  <2>4. CASE SendFailure(q)
    BY <1>p, <2>0, <2>1, <2>4 DEF SendFailure, EventPlace, MayFollow, Marks
  <2>5. CASE Flush(q)
    BY <1>p, <2>0, <2>1, <2>5 DEF Flush, EventPlace, MayFollow, Marks
  <2>6. CASE SendCalls(q)
    BY <1>p, <2>0, <2>1, <2>6 DEF SendCalls, EventPlace, MayFollow, Marks
  <2>7. CASE SendFinish(q)
    BY <1>p, <2>0, <2>1, <2>7 DEF SendFinish, EventPlace, MayFollow, Marks
  <2>8. CASE SendDone(q)
    BY <1>p, <2>0, <2>1, <2>8 DEF SendDone, EventPlace, MayFollow, Marks
  <2>9. \/ SendRole(q) \/ SendInLoop(q) \/ SendFailure(q) \/ Flush(q) \/ SendCalls(q)
        \/ SendFinish(q) \/ SendDone(q) \/ UNCHANGED sent
    BY <1>1 DEF Serve, Handle, Arrive, Ask, Admitted, Respond, DropHandler, DeadlineExpires,
                ReceiveText, ReceiveError, StreamEnds, KeepAlive, Counted, Judge, SendEventFails,
                ClientGone, Read, Leave
  <2> QED BY <2>2, <2>3, <2>4, <2>5, <2>6, <2>7, <2>8, <2>9
<1>2. ASSUME ServerInv, [Next]_vars, NEW r \in Requests PROVE Good(r)
  <2>1. ASSUME NEW q \in Requests, Serve(q) \/ Read(q) \/ Leave(q) PROVE Good(r)
    <3>1. q # r => sent'[r] = sent[r]
      BY <1>2, <2>1, ServerEffects DEF ServerInv, P!EngineInv, OnlyServes
    <3> QED BY <1>1, <1>2, <2>1, <3>1
  <2>2. CASE UNCHANGED sent
    BY <2>2
  <2> QED BY <1>2, <2>1, <2>2 DEF Next, server, vars
<1>3. ServerInv /\ [Next]_vars =>
         [\A r \in Requests : sent'[r] # sent[r] => sent'[r].last \in MayFollow(sent[r].last)]_vars
  BY <1>2
<1> QED BY <1>3, ServerInductive, PTL DEF Spec, EventsWellFormed

\* Every place, event and channel is one the code has, and never more permits
\* are out than there are slots (try_acquire_inference_slot).
THEOREM ServerTypeCorrect == Spec => []TypeOK
<1>1. Init => Limited(Holding)
  <2>1. Init => Holding = {}
    BY DEF Init, Holding, HeldThroughout, Before, Selecting, Sending, Computing
  <2> QED BY <2>1, FS_EmptySet, ServerAssumption DEF Limited
<1>2. ServerInv /\ Limited(Holding) /\ [Next]_vars => Limited(Holding)'
  BY PermitsKept
<1>3. ServerInv /\ Limited(Holding) => TypeOK
  BY DEF ServerInv, ServerType, Limited, TypeOK, Channels, Sent, Marks
<1> QED BY <1>1, <1>2, <1>3, ServerInductive, PTL DEF Spec

\* The generations that wait behind the engine never exceed the permits, though a
\* handler may be dropped and its permit given away while its generation goes on.
THEOREM BacklogIsBounded == Spec => []BacklogWithinSlots
<1>1. Init => Limited(Holding) /\ BacklogInv
  <2>1. SUFFICES ASSUME Init PROVE Limited(Holding) /\ BacklogInv
    OBVIOUS
  <2>2. Limited({})
    BY FS_EmptySet, ServerAssumption DEF Limited
  <2>3. Holding = {}
    BY <2>1 DEF Init, Holding, HeldThroughout, Before, Selecting, Sending, Computing
  <2>4. ASSUME NEW i \in 0 .. Len(queue) + 1 PROVE Abreast(i) = {}
    <3>1. Len(queue) = 0 /\ job = P!NoJob
      BY <2>1, EmptySeq DEF Init, E!Init, E!NoJob, P!NoJob
    <3>2. \A j \in i .. Len(queue) : P!Command(j) = P!NoJob
      BY <3>1 DEF P!Command
    <3> QED BY <2>1, <3>2 DEF Init, Abreast, MayAsk, P!IsGeneration, P!NoJob
  <2> QED BY <2>2, <2>3, <2>4 DEF BacklogInv
<1>2. ServerInv /\ Limited(Holding) /\ BacklogInv /\ [Next]_vars => Limited(Holding)' /\ BacklogInv'
  BY PermitsKept, BacklogKept
<1>3. ASSUME ServerInv, BacklogInv PROVE BacklogWithinSlots
  <2>0. Len(queue) \in Nat /\ P!TypeInv
    BY <1>3, LenProperties DEF ServerInv, P!EngineInv, P!TypeInv
  <2>1. Limited(Abreast(0))
    <3>1. 0 \in 0 .. Len(queue) + 1
      BY <2>0
    <3> QED BY <1>3, <3>1 DEF BacklogInv
  <2>2. \A c \in Backlog : \E i \in 0 .. Len(queue) : P!Command(i) = c /\ P!IsGeneration(c)
    BY <2>0 DEF Backlog, ToSet, P!Command, P!IsGeneration, P!TypeInv
  <2>3. \A c \in Backlog : c.req \in Abreast(0)
    <3>1. SUFFICES ASSUME NEW c \in Backlog PROVE c.req \in Abreast(0)
      OBVIOUS
    <3>2. PICK i \in 0 .. Len(queue) : P!Command(i) = c /\ P!IsGeneration(c)
      BY <2>2
    <3>3. c.req \in Requests
      <4>1. i = 0 \/ i \in 1 .. Len(queue)
        BY <2>0
      <4>2. CASE i = 0
        BY <2>0, <3>2, <4>2
        DEF P!Command, P!IsGeneration, P!TypeInv, P!JobMatchesStep, P!Commands, P!NoJob
      <4>3. CASE i \in 1 .. Len(queue)
        <5>1. queue[i] \in P!Commands
          BY <2>0, <4>3, ElementOfSeq DEF P!TypeInv
        <5>2. c = queue[i]
          BY <2>0, <3>2, <4>3 DEF P!Command
        <5> QED BY <5>1, <5>2 DEF P!Commands
      <4> QED BY <4>1, <4>2, <4>3
    <3> QED BY <3>2, <3>3 DEF Abreast
  <2>4. \A c, d \in Backlog : c.req = d.req => c = d
    BY <1>3, <2>2 DEF ServerInv, P!EngineInv, P!PendingInv
  <2> DEFINE f == [c \in Backlog |-> c.req]
  <2>5. f \in Injection(Backlog, Abreast(0))
    BY <2>3, <2>4 DEF Injection, IsInjective
  <2>6. /\ IsFiniteSet(Backlog) /\ Cardinality(Backlog) <= Cardinality(Abreast(0))
        /\ Cardinality(Backlog) \in Nat /\ Cardinality(Abreast(0)) \in Nat
    <3> HIDE DEF f
    <3> QED BY <2>1, <2>5, FS_Injection, FS_CardinalityType DEF Limited
  <2> QED BY <2>1, <2>6, ServerAssumption DEF Limited, BacklogWithinSlots
<1> QED BY <1>1, <1>2, <1>3, ServerInductive, PTL DEF Spec

=============================================================================
