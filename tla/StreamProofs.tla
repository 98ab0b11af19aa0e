---------------------------- MODULE StreamProofs ----------------------------
(* Theorems about the text of an answer (AnswerText) and about the record  *)
(* of a captured one (FixtureCapture), for any constants.                  *)
EXTENDS AnswerText, FixtureCapture, SequenceTheorems, WellFoundedInduction, TLAPS

----------------------------------------------------------------------------
(* The inductive invariant.                                                *)

\* What the model records of one generation
Model == [sequence : Nat, pieces : Nat,
          outcome : {"none", "complete", "cancelled", "stopped", "error"}]

\* The recorder of the model holds the record of at most one generation.
Models == {model \in Seq(Model) : Len(model) <= 1}

\* How a generation ended, as the engine records it
Terminals ==
    {"none", "unobserved", "not started", "returned", "cancelled", "receiver closed", "error"}

\* The record of one request
Records == [sequence : Nat, terminal : Terminals, incomplete : BOOLEAN, model : Models]

\* The session that engine, endpoint and collector share
Sessions == [started : Nat, armed : Nat, partial : Records, finished : Seq(Records),
             incomplete : BOOLEAN, permit : BOOLEAN,
             waiter : {"none", "waiting", "notified", "ready"}]

\* Where a handler is before its generation is queued
Early == {"arrived", "admitted", "counting", "counted"}

\* The engine thread and its queue
Engines == [at : {"idle", "encode", "begin", "generate", "settle", "panicked", "ended"},
            queue : {<<>>, <<"encode">>, <<"stream">>}, sequence : Nat, record : Records,
            pieces : Nat]

\* The handler of the request, and the task it spawns
Routers == [at : Early \cup {"none", "relaying", "recounting", "judging", "logging", "failing",
                             "ending", "over"},
            cancelled : BOOLEAN]

\* The stream from the engine to the handler
Channels == [sender : BOOLEAN, receiver : BOOLEAN, pieces : Nat, error : BOOLEAN]

\* The response as the collector reads it
Bodies == [refused : BOOLEAN, pieces : Nat, error : BOOLEAN, done : BOOLEAN]

\* Where the collector is when it asks for nothing more
Closed == {"closed", "joined", "unjoined"}

\* The collector
Clients == [at : Closed \cup {"arm", "reading", "waiting", "take", "parked", "expired",
                              "partial", "assess"},
            sequence : Nat, record : Records,
            stream : {"none", "whole", "error", "refused", "deadline"},
            observed : BOOLEAN, gone : BOOLEAN, complete : BOOLEAN]

\* The types of a capture
CaptureTypeOK ==
    /\ session \in Sessions
    /\ recorder \in Models
    /\ engine \in Engines
    /\ router \in Routers
    /\ channel \in Channels
    /\ body \in Bodies
    /\ client \in Clients

\* No generation is to begin any more.
Spent ==
    /\ router.at \notin Early
    /\ engine.queue # <<"stream">>
    /\ engine.at # "begin"

\* Nor does one run, or leave anything.
Past ==
    /\ Spent
    /\ engine.at \notin {"generate", "settle"}
    /\ recorder = <<>>
    /\ session.armed = 0
    /\ session.partial = None

\* Nothing of an earlier request is left in the session.
Clean == Past /\ session.finished = <<>>

\* The engine counts tokens, or is to.
Encoding == engine.queue = <<"encode">> \/ engine.at = "encode"

\* The commands of a request reach the engine one after the other, each when the
\* one before it has been run.
CommandsInOrder ==
    /\ engine.at \in {"encode", "begin", "generate"} => engine.queue = <<>>
    /\ engine.at = "settle" => engine.queue # <<"stream">>
    /\ Encoding => router.at \in {"counting", "recounting"} \/ (router.at = "over" /\ ~body.done)
    /\ router.at \in {"counting", "recounting"} => Encoding
    /\ router.at \in Early => engine.at \in {"idle", "panicked", "encode"}
    /\ engine.queue = <<"stream">> \/ engine.at \in {"begin", "generate"} =>
          channel.sender /\ router.at \notin Early

\* Before a generation nothing of it is anywhere.
NothingBefore ==
    ~Spent =>
        /\ channel.pieces = 0 /\ body.pieces = 0
        /\ recorder = <<>> /\ session.partial = None /\ session.finished = <<>>

\* All that was generated has been relayed, and the engine has no more to do for it
\* than to count it.
Drained ==
    /\ ~channel.sender /\ channel.pieces = 0 /\ ~channel.error
    /\ \/ router.at = "recounting"
       \/ engine.queue = <<>> /\ engine.at \in {"idle", "panicked", "ended"}

\* A stream ends without an error only when all has been relayed.
EndIsHonest ==
    /\ body.done => router.at = "over"
    /\ \/ router.at \in {"recounting", "judging", "logging"}
       \/ (router.at = "ending" \/ body.done) /\ ~body.error
       => Drained

\* What the model has recorded of a whole generation is what was sent.
HonestModel(model) ==
    model # <<>> =>
        /\ model[1].sequence = client.sequence
        /\ model[1].outcome = "complete" => model[1].pieces = channel.pieces + body.pieces

\* A record is of the request that is served, and there is one of it at most.
SessionHonest ==
    /\ client.sequence = session.started
    /\ session.armed \in {0, client.sequence}
    /\ session.partial # None =>
          /\ session.partial.sequence = client.sequence /\ client.sequence # 0
          /\ session.partial.model = <<>>
          /\ session.armed = 0 /\ Spent
    /\ session.finished # <<>> =>
          /\ Past /\ Len(session.finished) = 1
          /\ session.finished[1].sequence = client.sequence /\ client.sequence # 0
          /\ HonestModel(session.finished[1].model)

\* The engine records the request that is served, and what it records is what it sends.
EngineHonest ==
    /\ engine.at \in {"begin", "generate", "settle"} => engine.sequence \in {0, client.sequence}
    /\ engine.record # None =>
          /\ engine.sequence # 0 /\ engine.record.model = <<>>
          /\ engine.at \in {"generate", "settle"} => engine.record.sequence = engine.sequence
    /\ engine.at = "begin" => engine.record = None
    /\ engine.at \in {"generate", "settle"} /\ engine.record = None => recorder = <<>>
    /\ recorder # <<>> =>
          /\ engine.at \in {"generate", "settle", "panicked"} /\ engine.sequence # 0 /\ Spent
          /\ HonestModel(recorder)
          /\ engine.at = "generate" => /\ recorder[1].outcome = "none"
                                       /\ recorder[1].pieces = channel.pieces + body.pieces

\* The client goes on to another request only from a clean state.
ClientHonest ==
    /\ client.at = "arm" => client.complete \/ router.at = "none"
    /\ router.at = "none" => engine.queue = <<>> /\ engine.at \in {"idle", "ended"}
    /\ engine.at = "ended" => client.at \in Closed
    /\ client.complete => Complete(client.record) /\ client.at \in Closed \cup {"arm"}
    /\ client.stream = "whole" => body.done /\ ~body.error
    /\ client.at \notin Closed \cup {"arm"} => client.sequence # 0
    /\ HonestModel(client.record.model)
    /\ client.observed \/ client.record.model = <<>>
    /\ client.at = "arm" \/ client.observed => Clean
    /\ client.at = "partial" => session.incomplete
    /\ client.at = "assess" => client.observed \/ session.incomplete
    /\ client.at \in Closed => session.incomplete \/ Clean

\* The collector sleeps only while there is something to wait for.
WaiterAwake ==
    client.at = "parked" /\ session.waiter = "waiting" =>
        ~session.incomplete /\ session.finished = <<>>

\* The inductive invariant of a capture
CaptureInv ==
    /\ CaptureTypeOK
    /\ CommandsInOrder
    /\ NothingBefore
    /\ EndIsHonest
    /\ SessionHonest
    /\ EngineHonest
    /\ ClientHonest
    /\ WaiterAwake

----------------------------------------------------------------------------
(* The steps.                                                              *)

\* A sequence that is not empty and not longer than one has one element.
LEMMA OneElement ==
    ASSUME NEW S, NEW s \in Seq(S), s # <<>>, Len(s) <= 1
    PROVE  Len(s) = 1
<1>1. Len(s) \in Nat \ {0}
  BY EmptySeq
<1> QED BY <1>1

\* A recorder holds nothing or one model.
LEMMA ModelsAre ==
    /\ <<>> \in Models
    /\ \A model \in Models : model # <<>> => model[1] \in Model
    /\ \A new \in Model : <<new>> \in Models /\ <<new>> # <<>> /\ <<new>>[1] = new
BY DEF Models

\* A piece of which nobody wants to hear ends a generation.
LEMMA ModelStopped ==
    ASSUME NEW model \in Model
    PROVE  LET new == [model EXCEPT !.pieces = @ + 1, !.outcome = "stopped"]
           IN  /\ new \in Model /\ new.sequence = model.sequence
               /\ new.outcome = "stopped" /\ new.pieces = model.pieces + 1
<1>1. \A pieces \in Nat :
          LET new == [model EXCEPT !.pieces = pieces, !.outcome = "stopped"]
          IN  /\ new \in Model /\ new.sequence = model.sequence
              /\ new.outcome = "stopped" /\ new.pieces = pieces
  BY DEF Model
<1>2. model.pieces + 1 \in Nat
  BY DEF Model
<1> QED BY <1>1, <1>2

\* A queue to which a command is added when it is empty holds that command.
LEMMA QueueFilled ==
    /\ Append(<<>>, "encode") = <<"encode">>
    /\ Append(<<>>, "stream") = <<"stream">>
    /\ Len(<<"encode">>) = 1 /\ Len(<<"stream">>) = 1
    /\ <<"encode">> # <<>> /\ <<"stream">> # <<>>
    /\ <<"encode">> # <<"stream">>
    /\ <<"encode">>[1] = "encode" /\ <<"stream">>[1] = "stream"
    /\ Head(<<"encode">>) = "encode" /\ Head(<<"stream">>) = "stream"
    /\ Tail(<<"encode">>) = <<>> /\ Tail(<<"stream">>) = <<>>
OBVIOUS



\* What stands for no record is one.
LEMMA NoneIsRecord == None \in Records /\ None.sequence = 0 /\ None.model = <<>>
<1>1. None.model \in Models /\ None.model = <<>>
  BY ModelsAre DEF None
<1>2. None.sequence = 0 /\ None.terminal \in Terminals /\ None.incomplete \in BOOLEAN
  BY DEF None, Terminals
<1>3. None = [sequence |-> None.sequence, terminal |-> None.terminal,
              incomplete |-> None.incomplete, model |-> None.model]
  BY DEF None
<1> QED BY <1>1, <1>2, <1>3 DEF Records

----------------------------------------------------------------------------
(* What the operations of a session do to it.                              *)

\* A loss is marked, wakes who waits, and changes nothing else.
LEMMA LossyMarks ==
    ASSUME NEW s \in Sessions
    PROVE  /\ MarkIncomplete(s) \in Sessions /\ MarkIncomplete(s).incomplete
           /\ MarkIncomplete(s).waiter # "waiting"
           /\ MarkIncomplete(s).started = s.started /\ MarkIncomplete(s).armed = s.armed
           /\ MarkIncomplete(s).partial = s.partial /\ MarkIncomplete(s).finished = s.finished
<1> DEFINE marked == [s EXCEPT !.incomplete = TRUE]
<1>1. /\ marked \in Sessions /\ marked.incomplete /\ marked.waiter = s.waiter
      /\ marked.started = s.started /\ marked.armed = s.armed
      /\ marked.partial = s.partial /\ marked.finished = s.finished
  BY DEF Sessions
<1>2. MarkIncomplete(s) = IF marked.waiter = "waiting" THEN [marked EXCEPT !.waiter = "notified"]
                 ELSE [marked EXCEPT !.permit = TRUE]
  BY DEF MarkIncomplete, Notified
<1> HIDE DEF marked
<1>3. CASE marked.waiter = "waiting"
  BY <1>1, <1>2, <1>3 DEF Sessions
<1>4. CASE marked.waiter # "waiting"
  BY <1>1, <1>2, <1>4 DEF Sessions
<1> QED BY <1>3, <1>4

\* What is notified changes only for who waits.
LEMMA NotifiedWakes ==
    ASSUME NEW s \in Sessions
    PROVE  /\ Notified(s) \in Sessions /\ Notified(s).waiter # "waiting"
           /\ Notified(s).incomplete = s.incomplete
           /\ Notified(s).started = s.started /\ Notified(s).armed = s.armed
           /\ Notified(s).partial = s.partial /\ Notified(s).finished = s.finished
<1>1. CASE s.waiter = "waiting"
  BY <1>1 DEF Notified, Sessions
<1>2. CASE s.waiter # "waiting"
  BY <1>2 DEF Notified, Sessions
<1> QED BY <1>1, <1>2

\* To seal a record is to mark it as the session is marked.
LEMMA SealedIs ==
    ASSUME NEW s \in Sessions, NEW record \in Records
    PROVE  /\ Sealed(s, record) \in Records /\ Sealed(s, record).sequence = record.sequence
           /\ Sealed(s, record).model = record.model
           /\ Sealed(s, record).terminal = record.terminal
BY DEF Sealed, Sessions, Records

\* Who leaves off waiting passes a notification on.
LEMMA UnregisteredIs ==
    ASSUME NEW s \in Sessions
    PROVE  /\ Unregistered(s) \in Sessions /\ Unregistered(s).waiter = "none"
           /\ Unregistered(s).incomplete = s.incomplete
           /\ Unregistered(s).started = s.started /\ Unregistered(s).armed = s.armed
           /\ Unregistered(s).partial = s.partial /\ Unregistered(s).finished = s.finished
BY DEF Unregistered, Sessions

\* The one record of a session is found by its number.
LEMMA FinishedIsFound ==
    ASSUME NEW s \in Sessions, NEW sequence \in Nat, Len(s.finished) <= 1
    PROVE  /\ FinishedAt(s, sequence) \in {0, 1}
           /\ FinishedAt(s, sequence) = 1 <=>
                 s.finished # <<>> /\ s.finished[1].sequence = sequence
<1> DEFINE I == {i \in 1..Len(s.finished) : s.finished[i].sequence = sequence}
<1>1. FinishedAt(s, sequence) = IF I # {} THEN Min(I) ELSE 0
  BY DEF FinishedAt, SelectInSeq
<1>2. s.finished \in Seq(Records) /\ Len(s.finished) \in Nat
  BY DEF Sessions
<1>3. CASE s.finished # <<>> /\ s.finished[1].sequence = sequence
  <2>1. Len(s.finished) = 1
    BY <1>2, <1>3, OneElement
  <2>2. I = {1}
    BY <1>3, <2>1
  <2>3. Min({1}) = 1
    BY DEF Min
  <2> QED BY <1>1, <1>3, <2>2, <2>3
<1>4. CASE ~(s.finished # <<>> /\ s.finished[1].sequence = sequence)
  <2>1. I = {}
    <3>1. s.finished = <<>> => Len(s.finished) = 0
      OBVIOUS
    <3>2. \A i \in 1..Len(s.finished) : i = 1 /\ s.finished # <<>>
      BY <1>2, <3>1
    <3> QED BY <1>4, <3>2
  <2> QED BY <1>1, <1>4, <2>1
<1> QED BY <1>3, <1>4

\* Without its one record a session has none.
LEMMA RemovedOnly ==
    ASSUME NEW records \in Seq(Records), Len(records) = 1
    PROVE  RemoveAt(records, 1) = <<>>
<1>1. SubSeq(records, 1, 1 - 1) = <<>> /\ SubSeq(records, 1 + 1, Len(records)) = <<>>
  OBVIOUS
<1>2. <<>> \o <<>> = <<>>
  OBVIOUS
<1> QED BY <1>1, <1>2 DEF RemoveAt

\* To a session without records one is added.
LEMMA RecordAdded ==
    ASSUME NEW record \in Records
    PROVE  /\ Append(<<>>, record) \in Seq(Records)
           /\ Len(Append(<<>>, record)) = 1 /\ Append(<<>>, record)[1] = record
OBVIOUS

----------------------------------------------------------------------------
(* The engine thread.                                                      *)

\* Taking the lock changes nothing else.
LEMMA TakeLockKeeps ==
    CaptureInv /\ (\E actor \in {"engine", "router", "client"} : TakeLock(actor)) => CaptureInv'
<1> SUFFICES ASSUME CaptureInv, NEW actor, TakeLock(actor) PROVE CaptureInv'
  OBVIOUS
<1> USE DEF TakeLock
<1>1. CaptureTypeOK' /\ CommandsInOrder' /\ NothingBefore' /\ EndIsHonest' /\ WaiterAwake'
  BY DEF CaptureInv, CaptureTypeOK, CommandsInOrder, Encoding, NothingBefore, Spent, EndIsHonest,
         Drained, WaiterAwake
<1>2. SessionHonest' /\ EngineHonest' /\ ClientHonest'
  BY DEF CaptureInv, SessionHonest, EngineHonest, ClientHonest, HonestModel, Spent, Past, Clean,
         Complete
<1> QED BY <1>1, <1>2 DEF CaptureInv

\* The engine takes a command, and learns what is armed unless the session is locked.
LEMMA TakeCommandKeeps == CaptureInv /\ TakeCommand => CaptureInv'
<1> SUFFICES ASSUME CaptureInv, TakeCommand PROVE CaptureInv'
  OBVIOUS
<1>1. /\ session \in Sessions /\ recorder \in Models /\ engine \in Engines /\ router \in Routers
      /\ channel \in Channels /\ body \in Bodies /\ client \in Clients
      /\ CommandsInOrder /\ NothingBefore /\ EndIsHonest /\ SessionHonest /\ EngineHonest
      /\ ClientHonest /\ WaiterAwake
  BY DEF CaptureInv, CaptureTypeOK
<1>2. /\ engine.at = "idle" /\ engine.queue \in {<<"encode">>, <<"stream">>}
      /\ session.armed \in {0, client.sequence}
  BY <1>1 DEF TakeCommand, Engines, SessionHonest
<1>3. /\ session' \in Sessions
      /\ session'.started = session.started /\ session'.armed = session.armed
      /\ session'.partial = session.partial /\ session'.finished = session.finished
      /\ session.incomplete => session'.incomplete
      /\ session'.waiter = "waiting" => session' = session
  BY <1>1, LossyMarks DEF TakeCommand
<1>4. /\ engine' \in Engines /\ engine'.queue = <<>> /\ engine'.record = None
      /\ engine'.sequence \in {0, client.sequence}
      /\ engine'.at = IF engine.queue = <<"stream">> THEN "begin" ELSE "encode"
  <2> DEFINE to == IF engine.queue = <<"stream">> THEN "begin" ELSE "encode"
  <2>1. PICK sequence \in {0, session.armed} :
            engine' = [engine EXCEPT !.queue = <<>>, !.at = to, !.record = None,
                                     !.sequence = sequence]
    <3> DEFINE head == IF Head(engine.queue) = "stream" THEN "begin" ELSE "encode"
               taken(tail, at) == [engine EXCEPT !.queue = tail, !.at = at, !.record = None]
    <3>1. Tail(engine.queue) = <<>> /\ head = to
      BY <1>2, QueueFilled
    <3>2. PICK sequence \in {0, session.armed} :
              engine' = [taken(Tail(engine.queue), head) EXCEPT !.sequence = sequence]
      BY DEF TakeCommand
    <3>3. engine' = [taken(<<>>, to) EXCEPT !.sequence = sequence]
      BY <3>1, <3>2
    <3> HIDE DEF to
    <3> QED BY <3>3, <1>1 DEF Engines
  <2>2. sequence \in Nat /\ to \in {"begin", "encode"}
    BY <1>1, <1>2 DEF Sessions
  <2> HIDE DEF to
  <2>3. /\ engine'.queue = <<>> /\ engine'.record = None /\ engine'.sequence = sequence
        /\ engine'.at = to /\ engine' \in Engines
    BY <1>1, <2>1, <2>2, NoneIsRecord DEF Engines
  <2> QED BY <1>2, <2>1, <2>3 DEF to
<1>5. UNCHANGED <<recorder, router, channel, body, client>>
  BY DEF TakeCommand
<1>6. <<>> # <<"encode">> /\ <<>> # <<"stream">> /\ <<"encode">> # <<"stream">>
  BY QueueFilled
<1>7. CaptureTypeOK'
  BY <1>1, <1>2, <1>3, <1>4, <1>5, <1>6 DEF CaptureTypeOK
<1>8. CommandsInOrder'
  BY <1>1, <1>2, <1>3, <1>4, <1>5, <1>6 DEF CommandsInOrder, Encoding, Early
<1>9. NothingBefore'
  BY <1>1, <1>2, <1>3, <1>4, <1>5, <1>6 DEF NothingBefore, Spent, Early
<1>10. EndIsHonest'
  BY <1>1, <1>2, <1>3, <1>4, <1>5, <1>6 DEF EndIsHonest, Drained, Early
<1>11. SessionHonest'
  BY <1>1, <1>2, <1>3, <1>4, <1>5, <1>6 DEF SessionHonest, HonestModel, Spent, Past, Early
<1>12. EngineHonest'
  BY <1>1, <1>2, <1>3, <1>4, <1>5, <1>6 DEF EngineHonest, HonestModel, Spent, Early
<1>13. ClientHonest'
  BY <1>1, <1>2, <1>3, <1>4, <1>5, <1>6 DEF ClientHonest, HonestModel, Spent, Past, Clean,
     Complete, Early
<1>14. WaiterAwake'
  BY <1>1, <1>2, <1>3, <1>4, <1>5, <1>6 DEF WaiterAwake
<1> QED BY <1>7, <1>8, <1>9, <1>10, <1>11, <1>12, <1>13, <1>14 DEF CaptureInv

\* A text has been counted, and the router goes on.
LEMMA RunEncodeKeeps == CaptureInv /\ RunEncode => CaptureInv'
<1> SUFFICES ASSUME CaptureInv, RunEncode PROVE CaptureInv'
  OBVIOUS
<1>1. /\ session \in Sessions /\ recorder \in Models /\ engine \in Engines /\ router \in Routers
      /\ channel \in Channels /\ body \in Bodies /\ client \in Clients
      /\ CommandsInOrder /\ NothingBefore /\ EndIsHonest /\ SessionHonest /\ EngineHonest
      /\ ClientHonest /\ WaiterAwake
  BY DEF CaptureInv, CaptureTypeOK
<1>2. engine.at = "encode" /\ engine.queue = <<>>
  BY <1>1 DEF RunEncode, CommandsInOrder
<1>3. /\ engine' \in Engines /\ engine'.at \in {"idle", "panicked"} /\ engine'.queue = engine.queue
      /\ engine'.sequence = engine.sequence /\ engine'.record = engine.record
  BY <1>1 DEF RunEncode, EngineAt, Engines
<1>4. /\ router' \in Routers
      /\ router.at = "counting" => router'.at = "counted"
      /\ router.at = "recounting" => router'.at = "judging"
      /\ router.at \notin {"counting", "recounting"} => router'.at = router.at
  BY <1>1 DEF RunEncode, Routers, Early
<1>5. UNCHANGED <<session, recorder, channel, body, client>>
  BY DEF RunEncode
<1>6. CaptureTypeOK'
  BY <1>1, <1>2, <1>3, <1>4, <1>5 DEF CaptureTypeOK
<1>7. CommandsInOrder'
  BY <1>1, <1>2, <1>3, <1>4, <1>5 DEF CommandsInOrder, Encoding, Early
<1>8. NothingBefore'
  BY <1>1, <1>2, <1>3, <1>4, <1>5 DEF NothingBefore, Spent, Early
<1>9. EndIsHonest'
  BY <1>1, <1>2, <1>3, <1>4, <1>5 DEF EndIsHonest, Drained
<1>10. SessionHonest'
  BY <1>1, <1>2, <1>3, <1>4, <1>5 DEF SessionHonest, HonestModel, Spent, Past, Early
<1>11. EngineHonest'
  BY <1>1, <1>2, <1>3, <1>4, <1>5 DEF EngineHonest, HonestModel, Spent, Early
<1>12. ClientHonest'
  BY <1>1, <1>2, <1>3, <1>4, <1>5 DEF ClientHonest, HonestModel, Spent, Past, Clean, Complete,
     Early
<1>13. WaiterAwake'
  BY <1>1, <1>2, <1>3, <1>4, <1>5 DEF WaiterAwake
<1> QED BY <1>6, <1>7, <1>8, <1>9, <1>10, <1>11, <1>12, <1>13 DEF CaptureInv

\* The record and the capture inside the model begin for the armed request, or it is marked lost.
LEMMA BeginCaptureKeeps == CaptureInv /\ BeginCapture => CaptureInv'
<1> SUFFICES ASSUME CaptureInv, BeginCapture PROVE CaptureInv'
  OBVIOUS
<1>1. /\ session \in Sessions /\ recorder \in Models /\ engine \in Engines /\ router \in Routers
      /\ channel \in Channels /\ body \in Bodies /\ client \in Clients
      /\ CommandsInOrder /\ NothingBefore /\ EndIsHonest /\ SessionHonest /\ EngineHonest
      /\ ClientHonest /\ WaiterAwake
  BY DEF CaptureInv, CaptureTypeOK
<1>2. /\ engine.at = "begin" /\ engine.sequence = client.sequence /\ client.sequence # 0
      /\ engine.record = None /\ recorder = <<>>
      /\ session.partial = None /\ session.finished = <<>>
      /\ channel.pieces = 0 /\ body.pieces = 0
  BY <1>1 DEF BeginCapture, EngineHonest, NothingBefore, Spent
<1>3. /\ engine.queue = <<>> /\ channel.sender /\ router.at \notin Early
      /\ router.at \notin {"none", "counting", "recounting", "judging", "logging"}
      /\ router.at = "ending" \/ body.done => body.error
      /\ client.at \notin Closed \cup {"arm"} \/ session.incomplete
      /\ ~client.observed /\ client.at # "arm"
  BY <1>1, <1>2 DEF CommandsInOrder, Encoding, EndIsHonest, Drained, ClientHonest, Past, Spent,
                    Clean, Early, Closed
<1>4. UNCHANGED <<router, channel, body, client>>
  BY DEF BeginCapture
<1> DEFINE fresh == [sequence |-> engine.sequence, pieces |-> 0, outcome |-> "none"]
           blank == [None EXCEPT !.sequence = engine.sequence, !.terminal = "unobserved"]
           opened == Sealed(session, blank)
           begun == [session EXCEPT !.armed = 0, !.partial = opened]
\* The session opens a record, and the model a capture.
<1>5. /\ opened \in Records /\ opened.sequence = client.sequence /\ opened.model = <<>>
      /\ fresh \in Model
      /\ fresh.sequence = client.sequence /\ fresh.pieces = 0 /\ fresh.outcome = "none"
  <2>1. engine.sequence \in Nat
    BY <1>1 DEF Engines
  <2>2. blank \in Records /\ blank.sequence = engine.sequence /\ blank.model = <<>>
    BY <2>1, NoneIsRecord DEF Records, Terminals
  <2>3. opened \in Records /\ opened.sequence = client.sequence /\ opened.model = <<>>
    <3> HIDE DEF blank
    <3> QED BY <1>1, <1>2, <2>2, SealedIs
  <2>4. /\ fresh \in Model
        /\ fresh.sequence = client.sequence /\ fresh.pieces = 0 /\ fresh.outcome = "none"
    BY <1>2, <2>1 DEF Model
  <2> QED BY <2>3, <2>4
\* Either that is what happens, or the session is marked.
<1>6. \/ /\ session' = begun /\ recorder' = <<fresh>>
         /\ engine' = [engine EXCEPT !.at = "generate",
                                     !.record = [opened EXCEPT !.incomplete = @ \/ FALSE]]
      \/ /\ session' = MarkIncomplete(session) /\ UNCHANGED recorder
         /\ engine' = [engine EXCEPT !.at = "generate"]
  <2>1. CASE session.armed = engine.sequence
    <3>1. Begun(session, engine.sequence) = begun
      BY <2>1 DEF Begun
    <3>2. begun.partial = opened
      BY <1>1 DEF Sessions
    <3> HIDE DEF opened, fresh, begun
    <3>3. begun.partial.sequence = engine.sequence
      BY <1>2, <1>5, <3>2
    <3> QED BY <1>2, <3>1, <3>2, <3>3 DEF BeginCapture, EngineAt, fresh
  <2>2. CASE session.armed # engine.sequence
    <3>1. Begun(session, engine.sequence) = MarkIncomplete(session)
      BY <2>2 DEF Begun
    <3>2. MarkIncomplete(session).partial.sequence # engine.sequence
      BY <1>1, <1>2, LossyMarks, NoneIsRecord
    <3> QED BY <3>1, <3>2 DEF BeginCapture, EngineAt
  <2> QED BY <2>1, <2>2
<1>7. /\ session' \in Sessions /\ session'.started = session.started
      /\ session'.finished = session.finished /\ session'.armed \in {0, session.armed}
      /\ session.incomplete => session'.incomplete
      /\ session'.waiter = "waiting" =>
            session.waiter = "waiting" /\ session'.incomplete = session.incomplete
      /\ \/ session'.partial = None
         \/ /\ session'.partial.sequence = client.sequence /\ session'.partial.model = <<>>
            /\ session'.armed = 0
  <2>1. CASE session' = begun
    <3> HIDE DEF opened
    <3> QED BY <1>1, <1>5, <2>1 DEF Sessions
  <2>2. CASE session' = MarkIncomplete(session)
    BY <1>1, <1>2, <2>2, LossyMarks
  <2> QED BY <1>6, <2>1, <2>2
<1>8. /\ engine' \in Engines /\ engine'.at = "generate" /\ engine'.queue = <<>>
      /\ engine'.sequence = client.sequence
      /\ engine'.record # None =>
            engine'.record.sequence = client.sequence /\ engine'.record.model = <<>>
      /\ recorder' \in Models
      /\ recorder' # <<>> =>
            /\ engine'.record # None
            /\ recorder'[1].sequence = client.sequence /\ recorder'[1].pieces = 0
            /\ recorder'[1].outcome = "none"
  <2>1. CASE recorder' = <<fresh>> /\ engine' = [engine EXCEPT !.at = "generate",
                                          !.record = [opened EXCEPT !.incomplete = @ \/ FALSE]]
    <3> DEFINE record == [opened EXCEPT !.incomplete = @ \/ FALSE]
    <3> HIDE DEF opened, fresh
    <3>1. record \in Records /\ record.sequence = client.sequence /\ record.model = <<>>
      BY <1>5 DEF Records
    <3>2. record # None
      BY <1>2, <3>1, NoneIsRecord
    <3> HIDE DEF record
    <3>3. engine' = [engine EXCEPT !.at = "generate", !.record = record]
      BY <2>1 DEF record
    <3>4. /\ engine' \in Engines /\ engine'.at = "generate" /\ engine'.queue = <<>>
          /\ engine'.sequence = client.sequence /\ engine'.record = record
      BY <1>1, <1>2, <1>3, <3>1, <3>3 DEF Engines
    <3>5. recorder' \in Models /\ recorder'[1] = fresh
      BY <1>5, <2>1, ModelsAre
    <3> QED BY <1>5, <3>1, <3>2, <3>4, <3>5
  <2>2. CASE UNCHANGED recorder /\ engine' = [engine EXCEPT !.at = "generate"]
    BY <1>1, <1>2, <1>3, <2>2 DEF Engines
  <2> QED BY <1>6, <2>1, <2>2
<1> HIDE DEF fresh, opened, begun
<1>9. CaptureTypeOK'
  BY <1>1, <1>4, <1>7, <1>8 DEF CaptureTypeOK
<1>10. CommandsInOrder'
  BY <1>1, <1>3, <1>4, <1>8, QueueFilled DEF CommandsInOrder, Encoding
<1>11. Spent'
  BY <1>3, <1>4, <1>8, QueueFilled DEF Spent
<1>12. NothingBefore' /\ EndIsHonest'
  BY <1>1, <1>3, <1>4, <1>11 DEF NothingBefore, EndIsHonest
<1>13. SessionHonest'
  BY <1>1, <1>2, <1>4, <1>7, <1>11 DEF SessionHonest
<1>14. EngineHonest'
  BY <1>1, <1>2, <1>4, <1>8, <1>11 DEF EngineHonest, HonestModel
<1>15. ClientHonest'
  BY <1>1, <1>3, <1>4, <1>7, <1>8 DEF ClientHonest, HonestModel, Complete
<1>16. WaiterAwake'
  BY <1>1, <1>4, <1>7 DEF WaiterAwake
<1> QED BY <1>9, <1>10, <1>12, <1>13, <1>14, <1>15, <1>16 DEF CaptureInv

\* A generation that is not observed begins.
LEMMA BeginPlainKeeps == CaptureInv /\ BeginPlain => CaptureInv'
<1> SUFFICES ASSUME CaptureInv, BeginPlain PROVE CaptureInv'
  OBVIOUS
<1>1. /\ session \in Sessions /\ recorder \in Models /\ engine \in Engines /\ router \in Routers
      /\ channel \in Channels /\ body \in Bodies /\ client \in Clients
      /\ CommandsInOrder /\ NothingBefore /\ EndIsHonest /\ SessionHonest /\ EngineHonest
      /\ ClientHonest /\ WaiterAwake
  BY DEF CaptureInv, CaptureTypeOK
<1>2. CaptureTypeOK'
  BY <1>1 DEF BeginPlain, EngineAt, Early, CaptureTypeOK, Engines
<1>3. CommandsInOrder'
  BY <1>1 DEF BeginPlain, EngineAt, Early, CommandsInOrder, Encoding, Engines
<1>4. NothingBefore'
  BY <1>1 DEF BeginPlain, EngineAt, Early, NothingBefore, Spent, Engines
<1>5. EndIsHonest'
  BY <1>1 DEF BeginPlain, EngineAt, Early, EndIsHonest, Drained, Engines
<1>6. SessionHonest'
  BY <1>1 DEF BeginPlain, EngineAt, Early, SessionHonest, HonestModel, Spent, Past, Engines
<1>7. EngineHonest'
  BY <1>1 DEF BeginPlain, EngineAt, Early, EngineHonest, HonestModel, Spent, Engines
<1>8. ClientHonest'
  BY <1>1 DEF BeginPlain, EngineAt, Early, ClientHonest, HonestModel, Spent, Past, Clean,
     Complete, Engines
<1>9. WaiterAwake'
  BY <1>1 DEF BeginPlain, EngineAt, Early, WaiterAwake
<1> QED BY <1>2, <1>3, <1>4, <1>5, <1>6, <1>7, <1>8, <1>9 DEF CaptureInv

\* A piece is counted in the capture and in the channel alike, unless the generation stops.
LEMMA ProduceKeeps == CaptureInv /\ Produce => CaptureInv'
<1> SUFFICES ASSUME CaptureInv, Produce PROVE CaptureInv'
  OBVIOUS
<1>0. /\ session \in Sessions /\ recorder \in Models /\ engine \in Engines /\ router \in Routers
      /\ channel \in Channels /\ body \in Bodies /\ client \in Clients
      /\ CommandsInOrder /\ NothingBefore /\ EndIsHonest /\ SessionHonest /\ EngineHonest
      /\ ClientHonest /\ WaiterAwake
  BY DEF CaptureInv, CaptureTypeOK
<1>1. /\ engine.at = "generate" /\ engine.queue = <<>> /\ channel.sender /\ router.at \notin Early
      /\ router.at \notin {"none", "counting", "recounting", "judging", "logging"}
      /\ router.at = "ending" \/ body.done => body.error
      /\ client.at \notin Closed \cup {"arm"} \/ session.incomplete
      /\ session.finished = <<>> /\ ~client.observed /\ client.at # "arm"
  BY <1>0 DEF Produce, CommandsInOrder, Encoding, EndIsHonest, Drained, SessionHonest, ClientHonest,
         Past, Clean, Early, Closed
<1>2. /\ engine' \in Engines
      /\ engine'.at \in {"generate", "settle"} 
      /\ engine'.queue = engine.queue /\ engine'.sequence = engine.sequence
      /\ engine'.record = engine.record
  <2>1. CASE Unwanted
    <3>1. engine' = [engine EXCEPT !.at = "settle", !.pieces = 0]
      BY <2>1 DEF Produce
    <3> QED BY <1>0, <3>1 DEF Engines
  <2>2. CASE ~Unwanted
    BY <1>0, <2>2 DEF Produce, Engines
  <2> QED BY <2>1, <2>2
<1>3. /\ channel' \in Channels
      /\ engine'.at = "generate" => channel'.sender /\ channel'.pieces = channel.pieces + 1
  <2>1. CASE Unwanted
    BY <1>0, <2>1 DEF Produce, Channels, Engines
  <2>2. CASE ~Unwanted
    BY <1>0, <2>2, <1>1 DEF Produce, Channels
  <2> QED BY <2>1, <2>2
<1>4. /\ recorder' \in Models
      /\ recorder' = <<>> <=> recorder = <<>>
      /\ recorder # <<>> =>
            /\ recorder'[1].sequence = recorder[1].sequence
            /\ recorder'[1].outcome # "complete"
            /\ engine'.at = "generate" => /\ recorder'[1].outcome = "none"
                                          /\ recorder'[1].pieces = recorder[1].pieces + 1
  <2>1. CASE recorder = <<>>
    BY <1>0, <2>1, ModelsAre DEF Produce
  <2>2. CASE recorder # <<>>
    <3>1. recorder[1] \in Model
      BY <1>0, <2>2, ModelsAre
    <3>2. recorder[1].outcome = "none"
      BY <1>0, <2>2, <1>1 DEF EngineHonest
    <3>3. PICK new \in Model :
              /\ recorder' = <<new>> /\ new.sequence = recorder[1].sequence
              /\ new.outcome = (IF Unwanted THEN "stopped" ELSE "none")
              /\ new.pieces = recorder[1].pieces + 1
      <4>1. CASE Unwanted
        <5> DEFINE new == [recorder[1] EXCEPT !.pieces = @ + 1, !.outcome = "stopped"]
        <5>1. recorder' = <<new>>
          BY <1>0, <4>1, <2>2 DEF Produce
        <5>2. new \in Model /\ new.sequence = recorder[1].sequence
              /\ new.outcome = "stopped" /\ new.pieces = recorder[1].pieces + 1
          BY <3>1, ModelStopped
        <5> QED BY <4>1, <5>1, <5>2
      <4>2. CASE ~Unwanted
        BY <1>0, <4>2, <3>1, <3>2, <2>2 DEF Produce, Model
      <4> QED BY <4>1, <4>2
    <3>4. engine'.at = "generate" => ~Unwanted
      BY <1>0 DEF Produce, Engines
    <3> QED BY <2>2, <3>3, <3>4, ModelsAre
  <2> QED BY <2>1, <2>2
<1>5. UNCHANGED <<session, router, body, client>>
  BY <1>0 DEF Produce
<1>6. CaptureTypeOK'
  BY <1>0, <1>2, <1>3, <1>4, <1>5 DEF CaptureTypeOK
<1>7. CommandsInOrder'
  BY <1>0, <1>1, <1>2, <1>3, <1>5 DEF CommandsInOrder, Encoding
<1>8. NothingBefore'
  BY <1>0, <1>1, <1>2, <1>5 DEF NothingBefore, Spent
<1>9. EndIsHonest'
  BY <1>0, <1>1, <1>5 DEF EndIsHonest
<1>10. SessionHonest'
  BY <1>0, <1>1, <1>2, <1>5 DEF SessionHonest, Spent
<1>11. EngineHonest'
  <2>1. recorder # <<>> => recorder[1].pieces = channel.pieces + body.pieces
    BY <1>0, <1>1 DEF EngineHonest
  <2>2. recorder' # <<>> => HonestModel(recorder)
    BY <1>0, <1>4 DEF EngineHonest
  <2>3. recorder' # <<>> /\ engine'.at = "generate" =>
            recorder'[1].pieces = channel'.pieces + body'.pieces
    <3>1. recorder # <<>> => recorder[1].pieces \in Nat
      BY <1>0, ModelsAre DEF Model
    <3>2. channel.pieces \in Nat /\ body.pieces \in Nat
      BY <1>0 DEF Channels, Bodies
    <3> QED BY <2>1, <3>1, <3>2, <1>3, <1>4, <1>5
  <2> QED BY <1>0, <2>2, <2>3, <1>1, <1>2, <1>4, <1>5 DEF EngineHonest, HonestModel, Spent
<1>12. ClientHonest'
  <2>1. client.record.model = <<>>
    BY <1>0, <1>1 DEF ClientHonest
  <2> QED BY <1>0, <2>1, <1>1, <1>2, <1>5 DEF ClientHonest, HonestModel, Complete
<1>13. WaiterAwake'
  BY <1>0, <1>5 DEF WaiterAwake
<1> QED BY <1>6, <1>7, <1>8, <1>9, <1>10, <1>11, <1>12, <1>13 DEF CaptureInv

\* The generation returns, and its outcome is recorded.
LEMMA EndGenerationKeeps == CaptureInv /\ EndGeneration => CaptureInv'
<1> SUFFICES ASSUME CaptureInv, EndGeneration PROVE CaptureInv'
  OBVIOUS
<1>1. /\ session \in Sessions /\ recorder \in Models /\ engine \in Engines /\ router \in Routers
      /\ channel \in Channels /\ body \in Bodies /\ client \in Clients
      /\ CommandsInOrder /\ NothingBefore /\ EndIsHonest /\ SessionHonest /\ EngineHonest
      /\ ClientHonest /\ WaiterAwake
  BY DEF CaptureInv, CaptureTypeOK
<1>2. /\ engine.at = "generate" /\ engine.queue = <<>> /\ channel.sender /\ router.at \notin Early
      /\ router.at \notin {"none", "counting", "recounting", "judging", "logging"}
      /\ router.at = "ending" \/ body.done => body.error
      /\ client.at \notin Closed \cup {"arm"} \/ session.incomplete
      /\ session.finished = <<>> /\ ~client.observed /\ client.at # "arm"
  BY <1>1 DEF EndGeneration, CommandsInOrder, Encoding, EndIsHonest, Drained, SessionHonest,
              ClientHonest, Past, Clean, Early, Closed
<1>3. /\ engine' \in Engines /\ engine'.at = "settle" /\ engine'.queue = engine.queue
      /\ engine'.sequence = engine.sequence /\ engine'.record = engine.record
  <2>1. engine' = [engine EXCEPT !.at = "settle", !.pieces = 0]
    BY DEF EndGeneration
  <2> QED BY <1>1, <2>1 DEF Engines
<1>4. channel' \in Channels /\ channel'.pieces = channel.pieces
  <2>1. \/ channel' = [channel EXCEPT !.sender = FALSE]
        \/ channel' = [channel EXCEPT !.sender = FALSE, !.error = ~router.cancelled]
    BY DEF EndGeneration
  <2> QED BY <1>1, <2>1 DEF Channels
<1>5. /\ recorder' \in Models
      /\ recorder' = <<>> <=> recorder = <<>>
      /\ recorder # <<>> => /\ recorder'[1].sequence = recorder[1].sequence
                            /\ recorder'[1].pieces = recorder[1].pieces
  <2>1. CASE recorder' = recorder
    BY <1>1, <2>1
  <2>2. CASE \E outcome \in {"complete", "cancelled", "error"} : Recorded(outcome)
    <3>1. PICK outcome \in {"complete", "cancelled", "error"} : Recorded(outcome)
      BY <2>2
    <3>2. CASE recorder = <<>>
      BY <1>1, <3>1, <3>2 DEF Recorded
    <3>3. CASE recorder # <<>>
      <4> DEFINE new == [recorder[1] EXCEPT !.outcome = outcome]
      <4>1. recorder' = <<new>>
        BY <3>1, <3>3 DEF Recorded
      <4>2. recorder[1] \in Model
        BY <1>1, <3>3, ModelsAre
      <4>3. new \in Model /\ new.sequence = recorder[1].sequence /\ new.pieces = recorder[1].pieces
        BY <4>2 DEF Model
      <4> QED BY <3>3, <4>1, <4>3, ModelsAre
    <3> QED BY <3>2, <3>3
  <2> QED BY <2>1, <2>2 DEF EndGeneration
<1>6. UNCHANGED <<session, router, body, client>>
  BY DEF EndGeneration
<1>7. CaptureTypeOK'
  BY <1>1, <1>2, <1>3, <1>4, <1>5, <1>6 DEF CaptureTypeOK
<1>8. CommandsInOrder'
  BY <1>1, <1>2, <1>3, <1>4, <1>5, <1>6 DEF CommandsInOrder, Encoding
<1>9. NothingBefore'
  BY <1>1, <1>2, <1>3, <1>4, <1>5, <1>6 DEF NothingBefore, Spent
<1>10. EndIsHonest'
  BY <1>1, <1>2, <1>3, <1>4, <1>5, <1>6 DEF EndIsHonest, Drained
<1>11. SessionHonest'
  BY <1>1, <1>2, <1>3, <1>4, <1>5, <1>6 DEF SessionHonest, HonestModel, Spent, Past
<1>12. EngineHonest'
  BY <1>1, <1>2, <1>3, <1>4, <1>5, <1>6 DEF EngineHonest, HonestModel, Spent
<1>13. ClientHonest'
  BY <1>1, <1>2, <1>3, <1>4, <1>5, <1>6 DEF ClientHonest, HonestModel, Spent, Past, Clean,
     Complete
<1>14. WaiterAwake'
  BY <1>1, <1>2, <1>3, <1>4, <1>5, <1>6 DEF WaiterAwake
<1> QED BY <1>7, <1>8, <1>9, <1>10, <1>11, <1>12, <1>13, <1>14 DEF CaptureInv

\* A panic loses the record, and leaves the capture in the model for the loop to clear.
LEMMA PanicKeeps == CaptureInv /\ Panic => CaptureInv'
<1> SUFFICES ASSUME CaptureInv, Panic PROVE CaptureInv'
  OBVIOUS
<1>1. /\ session \in Sessions /\ recorder \in Models /\ engine \in Engines /\ router \in Routers
      /\ channel \in Channels /\ body \in Bodies /\ client \in Clients
      /\ CommandsInOrder /\ NothingBefore /\ EndIsHonest /\ SessionHonest /\ EngineHonest
      /\ ClientHonest /\ WaiterAwake
  BY DEF CaptureInv, CaptureTypeOK
<1>2. /\ engine.at = "generate" /\ engine.queue = <<>> /\ channel.sender /\ router.at \notin Early
      /\ router.at \notin {"none", "counting", "recounting", "judging", "logging"}
      /\ router.at = "ending" \/ body.done => body.error
      /\ client.at \notin Closed \cup {"arm"} \/ session.incomplete
      /\ session.finished = <<>> /\ ~client.observed /\ client.at # "arm"
  BY <1>1 DEF Panic, CommandsInOrder, Encoding, EndIsHonest, Drained, SessionHonest,
              ClientHonest, Past, Clean, Early, Closed
<1>3. /\ engine' \in Engines /\ engine'.at = "panicked" /\ engine'.queue = engine.queue
      /\ engine'.sequence = engine.sequence /\ engine'.record = None
  <2>1. engine' = [engine EXCEPT !.at = "panicked", !.pieces = 0, !.record = None]
    BY DEF Panic
  <2> QED BY <1>1, <2>1, NoneIsRecord DEF Engines
<1>4. channel' \in Channels /\ channel'.pieces = channel.pieces
  BY <1>1 DEF Panic, Channels
<1>5. UNCHANGED <<session, recorder, router, body, client>>
  BY DEF Panic
<1>6. CaptureTypeOK'
  BY <1>1, <1>2, <1>3, <1>4, <1>5 DEF CaptureTypeOK
<1>7. CommandsInOrder'
  BY <1>1, <1>2, <1>3, <1>4, <1>5 DEF CommandsInOrder, Encoding
<1>8. NothingBefore'
  BY <1>1, <1>2, <1>3, <1>4, <1>5 DEF NothingBefore, Spent
<1>9. EndIsHonest'
  BY <1>1, <1>2, <1>3, <1>4, <1>5 DEF EndIsHonest, Drained
<1>10. SessionHonest'
  BY <1>1, <1>2, <1>3, <1>4, <1>5 DEF SessionHonest, HonestModel, Spent, Past
<1>11. EngineHonest'
  BY <1>1, <1>2, <1>3, <1>4, <1>5 DEF EngineHonest, HonestModel, Spent
<1>12. ClientHonest'
  BY <1>1, <1>2, <1>3, <1>4, <1>5 DEF ClientHonest, HonestModel, Spent, Past, Clean, Complete
<1>13. WaiterAwake'
  BY <1>1, <1>2, <1>3, <1>4, <1>5 DEF WaiterAwake
<1> QED BY <1>6, <1>7, <1>8, <1>9, <1>10, <1>11, <1>12, <1>13 DEF CaptureInv

\* The word for the end of a generation.
LEMMA TerminalIsOne ==
    ASSUME NEW capture \in Models
    PROVE  Terminal(capture) \in Terminals
<1>1. CASE capture = <<>>
  BY <1>1 DEF Terminal, Terminals
<1>2. CASE capture # <<>> /\ router.cancelled
  BY <1>2 DEF Terminal, Terminals
<1>3. CASE capture # <<>> /\ ~router.cancelled
  <2>1. capture[1].outcome \in {"none", "complete", "cancelled", "stopped", "error"}
    BY <1>3, ModelsAre DEF Model
  <2> DEFINE words == [none |-> "not started", complete |-> "returned",
                       cancelled |-> "cancelled", stopped |-> "receiver closed",
                       error |-> "error"]
  <2>2. Terminal(capture) = words[capture[1].outcome]
    BY <1>3 DEF Terminal
  <2>3. \A outcome \in {"none", "complete", "cancelled", "stopped", "error"} :
            words[outcome] \in Terminals
    <3>1. /\ words.none = "not started" /\ words.complete = "returned"
          /\ words.cancelled = "cancelled" /\ words.stopped = "receiver closed"
          /\ words.error = "error"
      OBVIOUS
    <3> HIDE DEF words
    <3> QED BY <3>1 DEF Terminals
  <2> QED BY <2>1, <2>2, <2>3
<1> QED BY <1>1, <1>2, <1>3

\* What storing a record leaves: the record alone, or a mark.
LEMMA StoredOrMarked ==
    ASSUME NEW s \in Sessions, NEW record \in Records, s.finished = <<>>
    PROVE  LET new == Stored(s, record)
           IN  /\ new \in Sessions /\ new.started = s.started /\ new.waiter # "waiting"
               /\ s.incomplete => new.incomplete
               /\ \/ /\ new.armed = s.armed /\ new.partial = s.partial /\ new.finished = <<>>
                     /\ new.incomplete
                  \/ /\ new.armed = 0 /\ new.partial = None
                     /\ Len(new.finished) = 1
                     /\ new.finished[1].sequence = record.sequence
                     /\ new.finished[1].model = record.model
<1>1. CASE Stored(s, record) = MarkIncomplete(s)
  BY <1>1, LossyMarks
<1>2. CASE Stored(s, record) # MarkIncomplete(s)
  <2> DEFINE kept == Sealed(s, record)
             stored == [s EXCEPT !.partial = None, !.armed = 0,
                                 !.finished = Append(<<>>, kept)]
  <2>1. Stored(s, record) = Notified(stored)
    BY <1>2 DEF Stored
  <2>2. kept \in Records /\ kept.sequence = record.sequence /\ kept.model = record.model
    BY SealedIs
  <2> HIDE DEF kept
  <2>3. /\ Append(<<>>, kept) \in Seq(Records) /\ Len(Append(<<>>, kept)) = 1
        /\ Append(<<>>, kept)[1] = kept
    BY <2>2, RecordAdded
  <2>4. PICK list : list = Append(<<>>, kept)
    OBVIOUS
  <2>5. /\ stored \in Sessions /\ stored.started = s.started /\ stored.incomplete = s.incomplete
        /\ stored.armed = 0 /\ stored.partial = None /\ stored.finished = list
    <3>1. stored = [s EXCEPT !.partial = None, !.armed = 0, !.finished = list]
      BY <2>4
    <3>2. list \in Seq(Records)
      BY <2>3, <2>4
    <3> HIDE DEF stored
    <3> QED BY <3>1, <3>2, NoneIsRecord DEF Sessions
  <2> HIDE DEF stored
  <2> QED BY <2>1, <2>2, <2>3, <2>4, <2>5, NotifiedWakes
<1> QED BY <1>1, <1>2

\* The record is stored with what the model has captured, or the session is marked.
LEMMA SettleKeeps == CaptureInv /\ Settle => CaptureInv'
<1> SUFFICES ASSUME CaptureInv, Settle PROVE CaptureInv'
  OBVIOUS
<1>1. /\ session \in Sessions /\ recorder \in Models /\ engine \in Engines /\ router \in Routers
      /\ channel \in Channels /\ body \in Bodies /\ client \in Clients
      /\ CommandsInOrder /\ NothingBefore /\ EndIsHonest /\ SessionHonest /\ EngineHonest
      /\ ClientHonest /\ WaiterAwake
  BY DEF CaptureInv, CaptureTypeOK
<1>2. /\ engine.at = "settle" /\ engine.sequence = client.sequence /\ client.sequence # 0
      /\ engine.record # None /\ engine.record.sequence = client.sequence
      /\ HonestModel(recorder)
  <2>1. engine.at = "settle" /\ engine.record # None
    BY DEF Settle
  <2> QED BY <1>1, <2>1 DEF EngineHonest, HonestModel
<1>3. /\ router.at \notin Early /\ engine.queue # <<"stream">> /\ ~Past
      /\ session.finished = <<>> /\ ~client.observed /\ client.at # "arm" /\ router.at # "none"
      /\ client.at \notin Closed \/ session.incomplete
  BY <1>1, <1>2 DEF CommandsInOrder, SessionHonest, ClientHonest, Past, Clean, Early
<1> DEFINE record == [engine.record EXCEPT !.model = recorder, !.terminal = Terminal(recorder),
                                           !.incomplete = @ \/ recorder = <<>>]
           marked == IF recorder = <<>> THEN MarkIncomplete(session) ELSE session
<1>4. record \in Records /\ record.sequence = client.sequence /\ record.model = recorder
  <2>1. PICK terminal \in Terminals : terminal = Terminal(recorder)
    BY <1>1, TerminalIsOne
  <2>2. engine.record \in Records
    BY <1>1 DEF Engines
  <2>3. record = [engine.record EXCEPT !.model = recorder, !.terminal = terminal,
                                       !.incomplete = @ \/ recorder = <<>>]
    BY <2>1
  <2> QED BY <1>1, <1>2, <2>2, <2>3 DEF Records
<1>5. /\ marked \in Sessions /\ marked.started = session.started /\ marked.armed = session.armed
      /\ marked.partial = session.partial /\ marked.finished = <<>>
      /\ session.incomplete => marked.incomplete
  BY <1>1, <1>3, LossyMarks
<1> HIDE DEF record, marked
<1>6. /\ session' \in Sessions /\ session'.started = session.started
      /\ session'.waiter # "waiting"
      /\ session.incomplete => session'.incomplete
      /\ \/ /\ session'.armed = session.armed /\ session'.partial = session.partial
            /\ session'.finished = <<>>
         \/ /\ session'.armed = 0 /\ session'.partial = None /\ Len(session'.finished) = 1
            /\ session'.finished[1].sequence = client.sequence
            /\ session'.finished[1].model = recorder
  <2>1. CASE session' = MarkIncomplete(session)
    BY <1>1, <1>3, <2>1, LossyMarks
  <2>2. CASE session' = Stored(marked, record)
    BY <1>4, <1>5, <2>2, StoredOrMarked
  <2> QED BY <2>1, <2>2 DEF Settle, marked, record
<1>7. /\ engine' \in Engines /\ engine'.at = "idle" /\ engine'.queue = engine.queue
      /\ engine'.sequence = engine.sequence /\ engine'.record = engine.record
      /\ recorder' = <<>> /\ recorder' \in Models
      /\ UNCHANGED <<router, channel, body, client>>
  BY <1>1, ModelsAre DEF Settle, EngineAt, Engines
<1>8. CaptureTypeOK'
  BY <1>1, <1>6, <1>7 DEF CaptureTypeOK
<1>9. CommandsInOrder'
  BY <1>1, <1>2, <1>3, <1>7 DEF CommandsInOrder, Encoding
<1>10. Spent'
  BY <1>3, <1>7 DEF Spent
<1>11. NothingBefore' /\ EndIsHonest'
  BY <1>1, <1>2, <1>7, <1>10 DEF NothingBefore, EndIsHonest, Drained
<1>12. SessionHonest'
  BY <1>1, <1>2, <1>6, <1>7, <1>10 DEF SessionHonest, HonestModel, Past
<1>13. EngineHonest'
  BY <1>1, <1>2, <1>7 DEF EngineHonest
<1>14. ClientHonest'
  BY <1>1, <1>2, <1>3, <1>6, <1>7 DEF ClientHonest, HonestModel, Complete
<1>15. WaiterAwake'
  BY <1>6 DEF WaiterAwake
<1> QED BY <1>8, <1>9, <1>11, <1>12, <1>13, <1>14, <1>15 DEF CaptureInv

\* What has begun without a record, or panicked, ends unobserved.
LEMMA AbandonKeeps == CaptureInv /\ Abandon => CaptureInv'
<1> SUFFICES ASSUME CaptureInv, Abandon PROVE CaptureInv'
  OBVIOUS
<1>1. /\ session \in Sessions /\ recorder \in Models /\ engine \in Engines /\ router \in Routers
      /\ channel \in Channels /\ body \in Bodies /\ client \in Clients
      /\ CommandsInOrder /\ NothingBefore /\ EndIsHonest /\ SessionHonest /\ EngineHonest
      /\ ClientHonest /\ WaiterAwake
  BY DEF CaptureInv, CaptureTypeOK
<1>2. /\ engine.at \in {"settle", "panicked"} /\ engine.sequence # 0 /\ recorder' = <<>>
      /\ engine.at = "settle" => router.at \notin Early /\ engine.queue # <<"stream">>
      /\ engine.at = "settle" => engine.record = None
  BY <1>1 DEF Abandon, EngineHonest, CommandsInOrder
<1>3. /\ engine' \in Engines /\ engine'.at = "idle" /\ engine'.queue = engine.queue
      /\ engine'.sequence = engine.sequence /\ engine'.record = engine.record
      /\ UNCHANGED <<router, channel, body, client>>
  BY <1>1 DEF Abandon, EngineAt, Engines
\* The record of the generation is kept as it is, or there is none.
<1>4. /\ session' \in Sessions /\ session'.started = session.started
      /\ session'.waiter # "waiting" /\ session'.incomplete
      /\ \/ /\ session'.armed = session.armed /\ session'.partial = session.partial
            /\ session'.finished = session.finished
         \/ /\ session.partial # None /\ session.finished = <<>>
            /\ session'.armed = 0 /\ session'.partial = None /\ Len(session'.finished) = 1
            /\ session'.finished[1].sequence = client.sequence
            /\ session'.finished[1].model = <<>>
  <2>1. CASE session' = MarkIncomplete(session)
    BY <1>1, <2>1, LossyMarks
  <2>2. CASE session' = Abandoned(session, engine.sequence)
                /\ session.partial.sequence # engine.sequence
    BY <1>1, <2>2, LossyMarks DEF Abandoned
  <2>3. CASE session' = Abandoned(session, engine.sequence)
                /\ session.partial.sequence = engine.sequence
    <3>1. session.partial # None /\ session.finished = <<>>
      BY <1>1, <1>2, <2>3, NoneIsRecord DEF SessionHonest, Past
    <3>2. Len(session.finished) < MaxRecords
      BY <3>1, EmptySeq, CaptureAssumption
    <3> DEFINE kept == [session.partial EXCEPT !.incomplete = TRUE]
               list == Append(<<>>, kept)
               stored == [session EXCEPT !.partial = None, !.armed = 0, !.finished = list]
    <3>3. session' = MarkIncomplete(stored)
      BY <2>3, <3>1, <3>2 DEF Abandoned
    <3>4. kept \in Records /\ kept.sequence = client.sequence /\ kept.model = <<>>
      BY <1>1, <3>1 DEF Sessions, Records, SessionHonest
    <3> HIDE DEF kept
    <3>5. list \in Seq(Records) /\ Len(list) = 1 /\ list[1] = kept
      BY <3>4, RecordAdded
    <3> HIDE DEF list
    <3>6. /\ stored \in Sessions /\ stored.started = session.started
          /\ stored.armed = 0 /\ stored.partial = None /\ stored.finished = list
      BY <1>1, <3>5, NoneIsRecord DEF Sessions
    <3> HIDE DEF stored
    <3> QED BY <3>1, <3>3, <3>4, <3>5, <3>6, LossyMarks
  <2> QED BY <2>1, <2>2, <2>3 DEF Abandon
<1>5. session.partial # None => Spent /\ Spent'
  BY <1>1, <1>3 DEF SessionHonest, Spent
<1>6. Past => Past'
  <2>1. Spent => Spent'
    BY <1>3 DEF Spent
  <2> QED BY <2>1, <1>2, <1>3, <1>4 DEF Past
<1>7. session'.partial = session.partial \/ session'.partial = None
  BY <1>4
<1>8. CaptureTypeOK'
  BY <1>1, <1>2, <1>3, <1>4, ModelsAre DEF CaptureTypeOK
<1>9. CommandsInOrder'
  BY <1>1, <1>2, <1>3 DEF CommandsInOrder, Encoding, Early
<1>10. NothingBefore'
  BY <1>1, <1>2, <1>3, <1>4, <1>5 DEF NothingBefore, Spent
<1>11. EndIsHonest'
  BY <1>1, <1>3 DEF EndIsHonest, Drained
<1>12. SessionHonest'
  <2>1. CASE session'.finished = session.finished
    BY <1>1, <1>3, <1>4, <1>5, <1>6, <2>1, EmptySeq DEF SessionHonest, HonestModel
  <2>2. CASE session'.finished # session.finished
    <3>1. Past'
      BY <1>2, <1>3, <1>4, <1>5, <2>2 DEF Past
    <3> QED BY <1>1, <1>3, <1>4, <2>2, <3>1 DEF SessionHonest, HonestModel
  <2> QED BY <2>1, <2>2
<1>13. EngineHonest'
  BY <1>1, <1>2, <1>3 DEF EngineHonest
<1>14. ClientHonest'
  <2>1. Clean => Clean'
    BY <1>4, <1>6 DEF Clean, Past
  <2> QED BY <1>1, <1>2, <1>3, <1>4, <2>1 DEF ClientHonest, HonestModel, Complete
<1>15. WaiterAwake'
  BY <1>4 DEF WaiterAwake
<1> QED BY <1>8, <1>9, <1>10, <1>11, <1>12, <1>13, <1>14, <1>15 DEF CaptureInv

\* A generation that is not observed leaves nothing.
LEMMA AbandonNothingKeeps == CaptureInv /\ AbandonNothing => CaptureInv'
<1> SUFFICES ASSUME CaptureInv, AbandonNothing PROVE CaptureInv'
  OBVIOUS
<1>1. /\ session \in Sessions /\ recorder \in Models /\ engine \in Engines /\ router \in Routers
      /\ channel \in Channels /\ body \in Bodies /\ client \in Clients
      /\ CommandsInOrder /\ NothingBefore /\ EndIsHonest /\ SessionHonest /\ EngineHonest
      /\ ClientHonest /\ WaiterAwake
  BY DEF CaptureInv, CaptureTypeOK
<1>2. CaptureTypeOK'
  BY <1>1 DEF AbandonNothing, EngineAt, Early, CaptureTypeOK, Engines
<1>3. CommandsInOrder'
  BY <1>1 DEF AbandonNothing, EngineAt, Early, CommandsInOrder, Encoding, Engines
<1>4. NothingBefore'
  BY <1>1 DEF AbandonNothing, EngineAt, Early, NothingBefore, Spent, Engines
<1>5. EndIsHonest'
  BY <1>1 DEF AbandonNothing, EngineAt, Early, EndIsHonest, Drained, Engines
<1>6. SessionHonest'
  BY <1>1 DEF AbandonNothing, EngineAt, Early, SessionHonest, HonestModel, Spent, Past, Engines
<1>7. EngineHonest'
  BY <1>1 DEF AbandonNothing, EngineAt, Early, EngineHonest, HonestModel, Spent, Engines
<1>8. ClientHonest'
  BY <1>1 DEF AbandonNothing, EngineAt, Early, ClientHonest, HonestModel, Spent, Past, Clean,
     Complete, Engines
<1>9. WaiterAwake'
  BY <1>1 DEF AbandonNothing, EngineAt, Early, WaiterAwake
<1> QED BY <1>2, <1>3, <1>4, <1>5, <1>6, <1>7, <1>8, <1>9 DEF CaptureInv

----------------------------------------------------------------------------
(* The router.                                                             *)

\* The router asks whether what it serves is captured.
LEMMA IsActiveKeeps == CaptureInv /\ IsActive => CaptureInv'
<1> SUFFICES ASSUME CaptureInv, IsActive PROVE CaptureInv'
  OBVIOUS
<1>1. /\ session \in Sessions /\ recorder \in Models /\ engine \in Engines /\ router \in Routers
      /\ channel \in Channels /\ body \in Bodies /\ client \in Clients
      /\ CommandsInOrder /\ NothingBefore /\ EndIsHonest /\ SessionHonest /\ EngineHonest
      /\ ClientHonest /\ WaiterAwake
  BY DEF CaptureInv, CaptureTypeOK
<1>2. /\ session' \in Sessions
      /\ session'.started = session.started /\ session'.armed = session.armed
      /\ session'.partial = session.partial /\ session'.finished = session.finished
      /\ session.incomplete => session'.incomplete
      /\ session'.waiter = "waiting" => session' = session
  BY <1>1, LossyMarks DEF IsActive, Asked
<1>3. /\ router' \in Routers /\ router.at = "arrived" /\ router'.at = "admitted"
      /\ UNCHANGED <<recorder, engine, channel, body, client>>
  BY <1>1 DEF IsActive, Asked, Routers, Early
<1>4. CaptureTypeOK'
  BY <1>1, <1>2, <1>3 DEF CaptureTypeOK
<1>5. CommandsInOrder'
  BY <1>1, <1>2, <1>3 DEF CommandsInOrder, Encoding, Early
<1>6. NothingBefore'
  BY <1>1, <1>2, <1>3 DEF NothingBefore, Spent, Early
<1>7. EndIsHonest'
  BY <1>1, <1>2, <1>3 DEF EndIsHonest, Drained, Early
<1>8. SessionHonest'
  BY <1>1, <1>2, <1>3 DEF SessionHonest, HonestModel, Spent, Past, Early
<1>9. EngineHonest'
  BY <1>1, <1>2, <1>3 DEF EngineHonest, HonestModel, Spent, Early
<1>10. ClientHonest'
  BY <1>1, <1>2, <1>3 DEF ClientHonest, HonestModel, Spent, Past, Clean, Complete, Early
<1>11. WaiterAwake'
  BY <1>1, <1>2, <1>3 DEF WaiterAwake
<1> QED BY <1>4, <1>5, <1>6, <1>7, <1>8, <1>9, <1>10, <1>11 DEF CaptureInv

\* A request is refused before it generates.
LEMMA RefuseKeeps == CaptureInv /\ Refuse => CaptureInv'
<1> SUFFICES ASSUME CaptureInv, Refuse PROVE CaptureInv'
  OBVIOUS
<1>1. /\ session \in Sessions /\ recorder \in Models /\ engine \in Engines /\ router \in Routers
      /\ channel \in Channels /\ body \in Bodies /\ client \in Clients
      /\ CommandsInOrder /\ NothingBefore /\ EndIsHonest /\ SessionHonest /\ EngineHonest
      /\ ClientHonest /\ WaiterAwake
  BY DEF CaptureInv, CaptureTypeOK
<1>2. CaptureTypeOK'
  BY <1>1 DEF Refuse, Early, CaptureTypeOK, Routers, Bodies
<1>3. CommandsInOrder'
  BY <1>1 DEF Refuse, Early, CommandsInOrder, Encoding, Routers, Bodies
<1>4. NothingBefore'
  BY <1>1 DEF Refuse, Early, NothingBefore, Spent, Routers, Bodies
<1>5. EndIsHonest'
  BY <1>1 DEF Refuse, Early, EndIsHonest, Drained, Routers, Bodies
<1>6. SessionHonest'
  BY <1>1 DEF Refuse, Early, SessionHonest, HonestModel, Spent, Past, Routers, Bodies
<1>7. EngineHonest'
  BY <1>1 DEF Refuse, Early, EngineHonest, HonestModel, Spent, Routers, Bodies
<1>8. ClientHonest'
  BY <1>1 DEF Refuse, Early, ClientHonest, HonestModel, Spent, Past, Clean, Complete, Routers,
     Bodies
<1>9. WaiterAwake'
  BY <1>1 DEF Refuse, Early, WaiterAwake
<1> QED BY <1>2, <1>3, <1>4, <1>5, <1>6, <1>7, <1>8, <1>9 DEF CaptureInv

\* The prompt is sent to be counted.
LEMMA CountKeeps == CaptureInv /\ Count => CaptureInv'
<1> SUFFICES ASSUME CaptureInv, Count PROVE CaptureInv'
  OBVIOUS
<1>1. /\ session \in Sessions /\ recorder \in Models /\ engine \in Engines /\ router \in Routers
      /\ channel \in Channels /\ body \in Bodies /\ client \in Clients
      /\ CommandsInOrder /\ NothingBefore /\ EndIsHonest /\ SessionHonest /\ EngineHonest
      /\ ClientHonest /\ WaiterAwake
  BY DEF CaptureInv, CaptureTypeOK
<1>2. /\ router.at = "admitted" /\ engine.queue = <<>> /\ engine.at \in {"idle", "panicked"}
  BY <1>1 DEF Count, Submit, CommandsInOrder, Encoding, Early, Engines
<1>3. /\ engine' \in Engines /\ engine'.at = engine.at /\ engine'.queue = <<"encode">>
      /\ engine'.sequence = engine.sequence /\ engine'.record = engine.record
  <2>1. engine' = [engine EXCEPT !.queue = <<"encode">>]
    BY <1>2, QueueFilled DEF Count, Submit
  <2> QED BY <1>1, <2>1 DEF Engines
<1>4. router' \in Routers /\ router'.at = "counting"
  BY <1>1 DEF Count, Submit, Routers, Early
<1>5. UNCHANGED <<session, recorder, channel, body, client>>
  BY DEF Count, Submit
<1>6. CaptureTypeOK'
  BY <1>1, <1>2, <1>3, <1>4, <1>5 DEF CaptureTypeOK
<1>7. CommandsInOrder'
  BY <1>1, <1>2, <1>3, <1>4, <1>5 DEF CommandsInOrder, Encoding, Early
<1>8. NothingBefore'
  BY <1>1, <1>2, <1>3, <1>4, <1>5 DEF NothingBefore, Spent, Early
<1>9. EndIsHonest'
  BY <1>1, <1>2, <1>3, <1>4, <1>5 DEF EndIsHonest, Drained, Early
<1>10. SessionHonest'
  BY <1>1, <1>2, <1>3, <1>4, <1>5 DEF SessionHonest, HonestModel, Spent, Past, Early
<1>11. EngineHonest'
  BY <1>1, <1>2, <1>3, <1>4, <1>5 DEF EngineHonest, HonestModel, Spent, Early
<1>12. ClientHonest'
  BY <1>1, <1>2, <1>3, <1>4, <1>5 DEF ClientHonest, HonestModel, Spent, Past, Clean, Complete,
     Early
<1>13. WaiterAwake'
  BY <1>1, <1>2, <1>3, <1>4, <1>5 DEF WaiterAwake
<1> QED BY <1>6, <1>7, <1>8, <1>9, <1>10, <1>11, <1>12, <1>13 DEF CaptureInv

\* The generation is sent to the engine, which is free for it.
LEMMA StartKeeps == CaptureInv /\ Start => CaptureInv'
<1> SUFFICES ASSUME CaptureInv, Start PROVE CaptureInv'
  OBVIOUS
<1>1. /\ session \in Sessions /\ recorder \in Models /\ engine \in Engines /\ router \in Routers
      /\ channel \in Channels /\ body \in Bodies /\ client \in Clients
      /\ CommandsInOrder /\ NothingBefore /\ EndIsHonest /\ SessionHonest /\ EngineHonest
      /\ ClientHonest /\ WaiterAwake
  BY DEF CaptureInv, CaptureTypeOK
<1>2. /\ router.at = "counted" /\ engine.queue = <<>> /\ engine.at \in {"idle", "panicked"}
  BY <1>1 DEF Start, Submit, CommandsInOrder, Encoding, Early, Engines
<1>3. /\ engine' \in Engines /\ engine'.at = engine.at /\ engine'.queue = <<"stream">>
      /\ engine'.sequence = engine.sequence /\ engine'.record = engine.record
  <2>1. engine' = [engine EXCEPT !.queue = <<"stream">>]
    BY <1>2, QueueFilled DEF Start, Submit
  <2> QED BY <1>1, <2>1 DEF Engines
<1>4. router' \in Routers /\ router'.at = "relaying"
  BY <1>1 DEF Start, Submit, Routers
<1>5. channel' \in Channels /\ channel'.sender /\ channel'.pieces = channel.pieces
  BY <1>1 DEF Start, Channels
<1>6. UNCHANGED <<session, recorder, body, client>>
  BY DEF Start, Submit
<1>7. CaptureTypeOK'
  BY <1>1, <1>2, <1>3, <1>4, <1>5, <1>6 DEF CaptureTypeOK
<1>8. CommandsInOrder'
  BY <1>1, <1>2, <1>3, <1>4, <1>5, <1>6 DEF CommandsInOrder, Encoding, Early
<1>9. NothingBefore'
  BY <1>1, <1>2, <1>3, <1>4, <1>5, <1>6 DEF NothingBefore, Spent, Early
<1>10. EndIsHonest'
  BY <1>1, <1>2, <1>3, <1>4, <1>5, <1>6 DEF EndIsHonest, Drained, Early
<1>11. SessionHonest'
  BY <1>1, <1>2, <1>3, <1>4, <1>5, <1>6 DEF SessionHonest, HonestModel, Spent, Past, Early
<1>12. EngineHonest'
  BY <1>1, <1>2, <1>3, <1>4, <1>5, <1>6 DEF EngineHonest, HonestModel, Spent, Early
<1>13. ClientHonest'
  BY <1>1, <1>2, <1>3, <1>4, <1>5, <1>6 DEF ClientHonest, HonestModel, Spent, Past, Clean,
     Complete, Early
<1>14. WaiterAwake'
  BY <1>1, <1>2, <1>3, <1>4, <1>5, <1>6 DEF WaiterAwake
<1> QED BY <1>7, <1>8, <1>9, <1>10, <1>11, <1>12, <1>13, <1>14 DEF CaptureInv

\* A piece goes from the channel to the body; their sum stays.
LEMMA RelayKeeps == CaptureInv /\ Relay => CaptureInv'
<1> SUFFICES ASSUME CaptureInv, Relay PROVE CaptureInv'
  OBVIOUS
<1>1. /\ session \in Sessions /\ recorder \in Models /\ engine \in Engines /\ router \in Routers
      /\ channel \in Channels /\ body \in Bodies /\ client \in Clients
      /\ CommandsInOrder /\ NothingBefore /\ EndIsHonest /\ SessionHonest /\ EngineHonest
      /\ ClientHonest /\ WaiterAwake
  BY DEF CaptureInv, CaptureTypeOK
<1>2. CaptureTypeOK'
  BY <1>1 DEF Relay, CaptureTypeOK, Channels, Bodies
<1>3. CommandsInOrder'
  BY <1>1 DEF Relay, CommandsInOrder, Encoding, Channels, Bodies
<1>4. NothingBefore'
  BY <1>1 DEF Relay, NothingBefore, Spent, Channels, Bodies
<1>5. EndIsHonest'
  BY <1>1 DEF Relay, EndIsHonest, Drained, Channels, Bodies
<1>6. SessionHonest'
  BY <1>1 DEF Relay, SessionHonest, HonestModel, Spent, Past, Channels, Bodies
<1>7. EngineHonest'
  BY <1>1 DEF Relay, EngineHonest, HonestModel, Spent, Channels, Bodies
<1>8. ClientHonest'
  BY <1>1 DEF Relay, ClientHonest, HonestModel, Spent, Past, Clean, Complete, Channels, Bodies
<1>9. WaiterAwake'
  BY <1>1 DEF Relay, WaiterAwake
<1> QED BY <1>2, <1>3, <1>4, <1>5, <1>6, <1>7, <1>8, <1>9 DEF CaptureInv

\* The task receives the error of the generation.
LEMMA ReceiveFailureKeeps == CaptureInv /\ ReceiveFailure => CaptureInv'
<1> SUFFICES ASSUME CaptureInv, ReceiveFailure PROVE CaptureInv'
  OBVIOUS
<1>1. /\ session \in Sessions /\ recorder \in Models /\ engine \in Engines /\ router \in Routers
      /\ channel \in Channels /\ body \in Bodies /\ client \in Clients
      /\ CommandsInOrder /\ NothingBefore /\ EndIsHonest /\ SessionHonest /\ EngineHonest
      /\ ClientHonest /\ WaiterAwake
  BY DEF CaptureInv, CaptureTypeOK
<1>2. CaptureTypeOK'
  BY <1>1 DEF ReceiveFailure, Early, CaptureTypeOK, Routers
<1>3. CommandsInOrder'
  BY <1>1 DEF ReceiveFailure, Early, CommandsInOrder, Encoding, Routers
<1>4. NothingBefore'
  BY <1>1 DEF ReceiveFailure, Early, NothingBefore, Spent, Routers
<1>5. EndIsHonest'
  BY <1>1 DEF ReceiveFailure, Early, EndIsHonest, Drained, Routers
<1>6. SessionHonest'
  BY <1>1 DEF ReceiveFailure, Early, SessionHonest, HonestModel, Spent, Past, Routers
<1>7. EngineHonest'
  BY <1>1 DEF ReceiveFailure, Early, EngineHonest, HonestModel, Spent, Routers
<1>8. ClientHonest'
  BY <1>1 DEF ReceiveFailure, Early, ClientHonest, HonestModel, Spent, Past, Clean, Complete,
     Routers
<1>9. WaiterAwake'
  BY <1>1 DEF ReceiveFailure, Early, WaiterAwake
<1> QED BY <1>2, <1>3, <1>4, <1>5, <1>6, <1>7, <1>8, <1>9 DEF CaptureInv

\* The stream is drained, and what it held is sent to be counted.
LEMMA RecountKeeps == CaptureInv /\ Recount => CaptureInv'
<1> SUFFICES ASSUME CaptureInv, Recount PROVE CaptureInv'
  OBVIOUS
<1>1. /\ session \in Sessions /\ recorder \in Models /\ engine \in Engines /\ router \in Routers
      /\ channel \in Channels /\ body \in Bodies /\ client \in Clients
      /\ CommandsInOrder /\ NothingBefore /\ EndIsHonest /\ SessionHonest /\ EngineHonest
      /\ ClientHonest /\ WaiterAwake
  BY DEF CaptureInv, CaptureTypeOK
<1>2. /\ router.at = "relaying" /\ channel.pieces = 0 /\ ~channel.sender /\ ~channel.error
      /\ engine.queue = <<>> /\ engine.at \notin {"encode", "begin", "generate"}
  BY <1>1 DEF Recount, Submit, CommandsInOrder, Encoding, Engines
<1>3. /\ engine' \in Engines /\ engine'.at = engine.at /\ engine'.queue = <<"encode">>
      /\ engine'.sequence = engine.sequence /\ engine'.record = engine.record
  <2>1. engine' = [engine EXCEPT !.queue = <<"encode">>]
    BY <1>2, QueueFilled DEF Recount, Submit
  <2> QED BY <1>1, <2>1 DEF Engines
<1>4. router' \in Routers /\ router'.at = "recounting"
  BY <1>1 DEF Recount, Submit, Routers
<1>5. UNCHANGED <<session, recorder, channel, body, client>>
  BY DEF Recount, Submit
<1>6. router'.at \notin Early /\ engine'.queue # <<"stream">> /\ engine'.queue # <<>>
  BY <1>3, <1>4, QueueFilled DEF Early
<1>7. CaptureTypeOK'
  BY <1>1, <1>2, <1>3, <1>4, <1>5, <1>6 DEF CaptureTypeOK
<1>8. CommandsInOrder'
  BY <1>1, <1>2, <1>3, <1>4, <1>5, <1>6 DEF CommandsInOrder, Encoding
<1>9. NothingBefore'
  BY <1>1, <1>2, <1>3, <1>4, <1>5, <1>6 DEF NothingBefore, Spent
<1>10. EndIsHonest'
  BY <1>1, <1>2, <1>3, <1>4, <1>5, <1>6 DEF EndIsHonest, Drained
<1>11. SessionHonest'
  BY <1>1, <1>2, <1>3, <1>4, <1>5, <1>6 DEF SessionHonest, HonestModel, Spent, Past
<1>12. EngineHonest'
  BY <1>1, <1>2, <1>3, <1>4, <1>5, <1>6 DEF EngineHonest, HonestModel, Spent
<1>13. ClientHonest'
  BY <1>1, <1>2, <1>3, <1>4, <1>5, <1>6 DEF ClientHonest, HonestModel, Spent, Past, Clean,
     Complete
<1>14. WaiterAwake'
  BY <1>1, <1>2, <1>3, <1>4, <1>5, <1>6 DEF WaiterAwake
<1> QED BY <1>7, <1>8, <1>9, <1>10, <1>11, <1>12, <1>13, <1>14 DEF CaptureInv

\* The task gives the stream up, with an error in the body.
LEMMA GiveUpKeeps == CaptureInv /\ GiveUp => CaptureInv'
<1> SUFFICES ASSUME CaptureInv, GiveUp PROVE CaptureInv'
  OBVIOUS
<1>1. /\ session \in Sessions /\ recorder \in Models /\ engine \in Engines /\ router \in Routers
      /\ channel \in Channels /\ body \in Bodies /\ client \in Clients
      /\ CommandsInOrder /\ NothingBefore /\ EndIsHonest /\ SessionHonest /\ EngineHonest
      /\ ClientHonest /\ WaiterAwake
  BY DEF CaptureInv, CaptureTypeOK
<1>2. router.at = "relaying" /\ router'.at = "ending" /\ router' \in Routers
  BY DEF GiveUp, Routers
<1>3. channel' \in Channels /\ channel'.sender = channel.sender /\ channel'.pieces = channel.pieces
  BY <1>1 DEF GiveUp, Channels
<1>4. /\ body' \in Bodies /\ body'.error
      /\ body'.pieces = body.pieces /\ body'.done = body.done /\ ~body.done
  BY <1>1, <1>2 DEF GiveUp, Bodies, EndIsHonest
<1>5. UNCHANGED <<session, recorder, engine, client>>
  BY DEF GiveUp
<1>6. CaptureTypeOK'
  BY <1>1, <1>2, <1>3, <1>4, <1>5 DEF CaptureTypeOK
<1>7. CommandsInOrder'
  BY <1>1, <1>2, <1>3, <1>4, <1>5 DEF CommandsInOrder, Encoding, Early
<1>8. NothingBefore'
  BY <1>1, <1>2, <1>3, <1>4, <1>5 DEF NothingBefore, Spent, Early
<1>9. EndIsHonest'
  BY <1>1, <1>2, <1>3, <1>4, <1>5 DEF EndIsHonest, Drained
<1>10. SessionHonest'
  BY <1>1, <1>2, <1>3, <1>4, <1>5 DEF SessionHonest, HonestModel, Spent, Past, Early
<1>11. EngineHonest'
  BY <1>1, <1>2, <1>3, <1>4, <1>5 DEF EngineHonest, HonestModel, Spent, Early
<1>12. ClientHonest'
  BY <1>1, <1>2, <1>3, <1>4, <1>5 DEF ClientHonest, HonestModel, Spent, Past, Clean, Complete,
     Early
<1>13. WaiterAwake'
  BY <1>1, <1>2, <1>3, <1>4, <1>5 DEF WaiterAwake
<1> QED BY <1>6, <1>7, <1>8, <1>9, <1>10, <1>11, <1>12, <1>13 DEF CaptureInv

\* The output is judged.
LEMMA JudgeKeeps == CaptureInv /\ Judge => CaptureInv'
<1> SUFFICES ASSUME CaptureInv, Judge PROVE CaptureInv'
  OBVIOUS
<1>1. /\ session \in Sessions /\ recorder \in Models /\ engine \in Engines /\ router \in Routers
      /\ channel \in Channels /\ body \in Bodies /\ client \in Clients
      /\ CommandsInOrder /\ NothingBefore /\ EndIsHonest /\ SessionHonest /\ EngineHonest
      /\ ClientHonest /\ WaiterAwake
  BY DEF CaptureInv, CaptureTypeOK
<1>2. /\ router.at = "judging" /\ router' \in Routers
      /\ router'.at \in {"logging", "failing", "ending"}
  BY <1>1 DEF Judge, Routers
<1>3. /\ body' \in Bodies /\ body'.pieces = body.pieces /\ body'.done = body.done /\ ~body.done
  BY <1>1, <1>2 DEF Judge, Bodies, EndIsHonest
<1>4. UNCHANGED <<session, recorder, engine, channel, client>>
  BY DEF Judge
<1>5. CaptureTypeOK'
  BY <1>1, <1>2, <1>3, <1>4 DEF CaptureTypeOK
<1>6. CommandsInOrder'
  BY <1>1, <1>2, <1>3, <1>4 DEF CommandsInOrder, Encoding, Early
<1>7. NothingBefore'
  BY <1>1, <1>2, <1>3, <1>4 DEF NothingBefore, Spent, Early
<1>8. EndIsHonest'
  BY <1>1, <1>2, <1>3, <1>4 DEF EndIsHonest, Drained
<1>9. SessionHonest'
  BY <1>1, <1>2, <1>3, <1>4 DEF SessionHonest, HonestModel, Spent, Past, Early
<1>10. EngineHonest'
  BY <1>1, <1>2, <1>3, <1>4 DEF EngineHonest, HonestModel, Spent, Early
<1>11. ClientHonest'
  BY <1>1, <1>2, <1>3, <1>4 DEF ClientHonest, HonestModel, Spent, Past, Clean, Complete, Early
<1>12. WaiterAwake'
  BY <1>1, <1>2, <1>3, <1>4 DEF WaiterAwake
<1> QED BY <1>5, <1>6, <1>7, <1>8, <1>9, <1>10, <1>11, <1>12 DEF CaptureInv

\* A failure is logged.
LEMMA LogFailureKeeps == CaptureInv /\ LogFailure => CaptureInv'
<1> SUFFICES ASSUME CaptureInv, LogFailure PROVE CaptureInv'
  OBVIOUS
<1>1. /\ session \in Sessions /\ recorder \in Models /\ engine \in Engines /\ router \in Routers
      /\ channel \in Channels /\ body \in Bodies /\ client \in Clients
      /\ CommandsInOrder /\ NothingBefore /\ EndIsHonest /\ SessionHonest /\ EngineHonest
      /\ ClientHonest /\ WaiterAwake
  BY DEF CaptureInv, CaptureTypeOK
<1>2. /\ session' \in Sessions
      /\ session'.started = session.started /\ session'.armed = session.armed
      /\ session'.partial = session.partial /\ session'.finished = session.finished
      /\ session.incomplete => session'.incomplete
      /\ session'.waiter = "waiting" => session' = session
  BY <1>1, LossyMarks DEF LogFailure, Asked
<1>3. /\ router' \in Routers /\ router.at = "failing" /\ router'.at = "ending"
      /\ UNCHANGED <<recorder, engine, channel, client>>
  BY <1>1 DEF LogFailure, Asked, Routers
<1>4. /\ body' \in Bodies /\ body'.pieces = body.pieces /\ body'.done = body.done /\ ~body.done
      /\ body'.error
  BY <1>1, <1>3 DEF LogFailure, Bodies, EndIsHonest
<1>5. CaptureTypeOK'
  BY <1>1, <1>2, <1>3, <1>4 DEF CaptureTypeOK
<1>6. CommandsInOrder'
  BY <1>1, <1>2, <1>3, <1>4 DEF CommandsInOrder, Encoding, Early
<1>7. NothingBefore'
  BY <1>1, <1>2, <1>3, <1>4 DEF NothingBefore, Spent, Early
<1>8. EndIsHonest'
  BY <1>1, <1>2, <1>3, <1>4 DEF EndIsHonest, Drained, Early
<1>9. SessionHonest'
  BY <1>1, <1>2, <1>3, <1>4 DEF SessionHonest, HonestModel, Spent, Past, Early
<1>10. EngineHonest'
  BY <1>1, <1>2, <1>3, <1>4 DEF EngineHonest, HonestModel, Spent, Early
<1>11. ClientHonest'
  BY <1>1, <1>2, <1>3, <1>4 DEF ClientHonest, HonestModel, Spent, Past, Clean, Complete, Early
<1>12. WaiterAwake'
  BY <1>1, <1>2, <1>3, <1>4 DEF WaiterAwake
<1> QED BY <1>5, <1>6, <1>7, <1>8, <1>9, <1>10, <1>11, <1>12 DEF CaptureInv

\* A completion is logged.
LEMMA LogCompletionKeeps == CaptureInv /\ LogCompletion => CaptureInv'
<1> SUFFICES ASSUME CaptureInv, LogCompletion PROVE CaptureInv'
  OBVIOUS
<1>1. /\ session \in Sessions /\ recorder \in Models /\ engine \in Engines /\ router \in Routers
      /\ channel \in Channels /\ body \in Bodies /\ client \in Clients
      /\ CommandsInOrder /\ NothingBefore /\ EndIsHonest /\ SessionHonest /\ EngineHonest
      /\ ClientHonest /\ WaiterAwake
  BY DEF CaptureInv, CaptureTypeOK
<1>2. /\ session' \in Sessions
      /\ session'.started = session.started /\ session'.armed = session.armed
      /\ session'.partial = session.partial /\ session'.finished = session.finished
      /\ session.incomplete => session'.incomplete
      /\ session'.waiter = "waiting" => session' = session
  BY <1>1, LossyMarks DEF LogCompletion, Asked
<1>3. /\ router' \in Routers /\ router.at = "logging" /\ router'.at = "ending"
      /\ UNCHANGED <<recorder, engine, channel, body, client>>
  BY <1>1 DEF LogCompletion, Asked, Routers
<1>4. CaptureTypeOK'
  BY <1>1, <1>2, <1>3 DEF CaptureTypeOK
<1>5. CommandsInOrder'
  BY <1>1, <1>2, <1>3 DEF CommandsInOrder, Encoding, Early
<1>6. NothingBefore'
  BY <1>1, <1>2, <1>3 DEF NothingBefore, Spent, Early
<1>7. EndIsHonest'
  BY <1>1, <1>2, <1>3 DEF EndIsHonest, Drained, Early
<1>8. SessionHonest'
  BY <1>1, <1>2, <1>3 DEF SessionHonest, HonestModel, Spent, Past, Early
<1>9. EngineHonest'
  BY <1>1, <1>2, <1>3 DEF EngineHonest, HonestModel, Spent, Early
<1>10. ClientHonest'
  BY <1>1, <1>2, <1>3 DEF ClientHonest, HonestModel, Spent, Past, Clean, Complete, Early
<1>11. WaiterAwake'
  BY <1>1, <1>2, <1>3 DEF WaiterAwake
<1> QED BY <1>4, <1>5, <1>6, <1>7, <1>8, <1>9, <1>10, <1>11 DEF CaptureInv

\* The body ends.
LEMMA SendEndKeeps == CaptureInv /\ SendEnd => CaptureInv'
<1> SUFFICES ASSUME CaptureInv, SendEnd PROVE CaptureInv'
  OBVIOUS
<1>1. /\ session \in Sessions /\ recorder \in Models /\ engine \in Engines /\ router \in Routers
      /\ channel \in Channels /\ body \in Bodies /\ client \in Clients
      /\ CommandsInOrder /\ NothingBefore /\ EndIsHonest /\ SessionHonest /\ EngineHonest
      /\ ClientHonest /\ WaiterAwake
  BY DEF CaptureInv, CaptureTypeOK
<1>2. CaptureTypeOK'
  BY <1>1 DEF SendEnd, Early, CaptureTypeOK, Routers, Bodies
<1>3. CommandsInOrder'
  BY <1>1 DEF SendEnd, Early, CommandsInOrder, Encoding, Routers, Bodies
<1>4. NothingBefore'
  BY <1>1 DEF SendEnd, Early, NothingBefore, Spent, Routers, Bodies
<1>5. EndIsHonest'
  BY <1>1 DEF SendEnd, Early, EndIsHonest, Drained, Routers, Bodies
<1>6. SessionHonest'
  BY <1>1 DEF SendEnd, Early, SessionHonest, HonestModel, Spent, Past, Routers, Bodies
<1>7. EngineHonest'
  BY <1>1 DEF SendEnd, Early, EngineHonest, HonestModel, Spent, Routers, Bodies
<1>8. ClientHonest'
  BY <1>1 DEF SendEnd, Early, ClientHonest, HonestModel, Spent, Past, Clean, Complete, Routers,
     Bodies
<1>9. WaiterAwake'
  BY <1>1 DEF SendEnd, Early, WaiterAwake
<1> QED BY <1>2, <1>3, <1>4, <1>5, <1>6, <1>7, <1>8, <1>9 DEF CaptureInv

\* The client has gone, and the router gives up.
LEMMA DisconnectKeeps == CaptureInv /\ Disconnect => CaptureInv'
<1> SUFFICES ASSUME CaptureInv, Disconnect PROVE CaptureInv'
  OBVIOUS
<1>1. /\ session \in Sessions /\ recorder \in Models /\ engine \in Engines /\ router \in Routers
      /\ channel \in Channels /\ body \in Bodies /\ client \in Clients
      /\ CommandsInOrder /\ NothingBefore /\ EndIsHonest /\ SessionHonest /\ EngineHonest
      /\ ClientHonest /\ WaiterAwake
  BY DEF CaptureInv, CaptureTypeOK
<1>2. /\ router.at \in {"arrived", "admitted", "counting", "counted", "relaying"}
      /\ router' \in Routers /\ router'.at = "over" /\ ~body.done
  BY <1>1 DEF Disconnect, Routers, EndIsHonest
<1>3. channel' \in Channels /\ channel'.sender = channel.sender /\ channel'.pieces = channel.pieces
  BY <1>1 DEF Disconnect, Channels
<1>4. UNCHANGED <<session, recorder, engine, body, client>>
  BY DEF Disconnect
<1>5. CaptureTypeOK'
  BY <1>1, <1>2, <1>3, <1>4 DEF CaptureTypeOK
<1>6. CommandsInOrder'
  BY <1>1, <1>2, <1>3, <1>4 DEF CommandsInOrder, Encoding, Early
<1>7. NothingBefore'
  BY <1>1, <1>2, <1>3, <1>4 DEF NothingBefore, Spent, Early
<1>8. EndIsHonest'
  BY <1>1, <1>2, <1>3, <1>4 DEF EndIsHonest, Drained
<1>9. SessionHonest'
  BY <1>1, <1>2, <1>3, <1>4 DEF SessionHonest, HonestModel, Spent, Past, Early
<1>10. EngineHonest'
  BY <1>1, <1>2, <1>3, <1>4 DEF EngineHonest, HonestModel, Spent, Early
<1>11. ClientHonest'
  BY <1>1, <1>2, <1>3, <1>4 DEF ClientHonest, HonestModel, Spent, Past, Clean, Complete, Early
<1>12. WaiterAwake'
  BY <1>1, <1>2, <1>3, <1>4 DEF WaiterAwake
<1> QED BY <1>5, <1>6, <1>7, <1>8, <1>9, <1>10, <1>11, <1>12 DEF CaptureInv

----------------------------------------------------------------------------
(* The client.                                                             *)

\* Between two requests the engine has nothing to do.
LEMMA QuietBetween ==
    ASSUME CaptureInv, client.at = "arm"
    PROVE  /\ Clean /\ engine.queue = <<>> /\ engine.at \in {"idle", "panicked"}
           /\ router.at \in {"none", "over"}
<1>1. /\ engine \in Engines /\ EndIsHonest /\ ClientHonest
  BY DEF CaptureInv, CaptureTypeOK
<1>2. Clean /\ engine.at # "ended"
  BY <1>1 DEF ClientHonest, Closed
<1>3. CASE router.at = "none"
  BY <1>1, <1>2, <1>3 DEF ClientHonest
<1>4. CASE client.complete
  <2>1. body.done /\ ~body.error
    BY <1>1, <1>4 DEF ClientHonest, Complete
  <2>2. router.at = "over" /\ Drained
    BY <1>1, <2>1 DEF EndIsHonest
  <2> QED BY <1>2, <2>2 DEF Drained
<1> QED BY <1>1, <1>3, <1>4 DEF ClientHonest

\* The client fails before another request is sent.
LEMMA FailureKeeps ==
    ASSUME CaptureInv, client.at = "arm", client' = Failure,
           UNCHANGED <<recorder, engine, router, channel, body>>,
           session' \in {session, MarkIncomplete(session)}
    PROVE  CaptureInv'
<1>1. /\ session \in Sessions /\ recorder \in Models /\ engine \in Engines /\ router \in Routers
      /\ channel \in Channels /\ body \in Bodies /\ client \in Clients
      /\ CommandsInOrder /\ NothingBefore /\ EndIsHonest /\ SessionHonest /\ EngineHonest
      /\ ClientHonest /\ WaiterAwake
  BY DEF CaptureInv, CaptureTypeOK
<1>2. /\ session' \in Sessions
      /\ session'.started = session.started /\ session'.armed = session.armed
      /\ session'.partial = session.partial /\ session'.finished = session.finished
  BY <1>1, LossyMarks
<1>3. /\ client' \in Clients /\ client'.at = "closed" /\ ~client'.complete
      /\ client'.record = None /\ client'.sequence = client.sequence
      /\ client'.stream = client.stream /\ client'.observed = client.observed
  <2>1. client' = [client EXCEPT !.at = "closed", !.complete = FALSE, !.record = None]
    BY DEF Failure
  <2> QED BY <1>1, <2>1, NoneIsRecord DEF Clients, Closed
<1>4. Clean
  BY QuietBetween
<1>5. CaptureTypeOK' /\ CommandsInOrder' /\ NothingBefore' /\ EndIsHonest'
  BY <1>1, <1>2, <1>3 DEF CaptureTypeOK, CommandsInOrder, Encoding, NothingBefore, Spent,
                          EndIsHonest, Drained
<1>6. SessionHonest' /\ EngineHonest'
  BY <1>1, <1>2, <1>3, <1>4 DEF SessionHonest, EngineHonest, HonestModel, Spent, Past, Clean
<1>7. ClientHonest'
  BY <1>1, <1>2, <1>3, <1>4, NoneIsRecord DEF ClientHonest, HonestModel, Spent, Past, Clean, Closed
<1>8. WaiterAwake'
  BY <1>3 DEF WaiterAwake
<1> QED BY <1>5, <1>6, <1>7, <1>8 DEF CaptureInv

\* The client arms the session for its next request, from a clean state, or fails.
LEMMA ArmKeeps == CaptureInv /\ Arm => CaptureInv'
<1> SUFFICES ASSUME CaptureInv, Arm PROVE CaptureInv'
  OBVIOUS
<1>1. /\ session \in Sessions /\ recorder \in Models /\ engine \in Engines /\ router \in Routers
      /\ channel \in Channels /\ body \in Bodies /\ client \in Clients
      /\ CommandsInOrder /\ NothingBefore /\ EndIsHonest /\ SessionHonest /\ EngineHonest
      /\ ClientHonest /\ WaiterAwake
  BY DEF CaptureInv, CaptureTypeOK
<1>2. client.at = "arm" /\ UNCHANGED <<recorder, engine>>
  BY DEF Arm
<1>3. CASE client' = Failure
  <2>1. UNCHANGED <<router, channel, body>> /\ session' \in {session, MarkIncomplete(session)}
    <3>1. client'.at = "closed"
      BY <1>1, <1>3 DEF Failure, Clients
    <3> QED BY <3>1 DEF Arm
  <2> QED BY <1>2, <1>3, <2>1, FailureKeeps
<1>4. CASE client' # Failure
  <2>1. /\ session' = [session EXCEPT !.started = session.started + 1,
                                      !.armed = session.started + 1]
        /\ client' = [at |-> "reading", sequence |-> session.started + 1, record |-> None,
                      stream |-> "none", observed |-> FALSE, gone |-> FALSE, complete |-> FALSE]
        /\ router' = [at |-> "arrived", cancelled |-> FALSE]
        /\ channel' = [sender |-> FALSE, receiver |-> FALSE, pieces |-> 0, error |-> FALSE]
        /\ body' = [refused |-> FALSE, pieces |-> 0, error |-> FALSE, done |-> FALSE]
    BY <1>4 DEF Arm
  <2>2. PICK sequence \in Nat : sequence = session.started + 1
    BY <1>1 DEF Sessions
  <2>3. sequence # 0
    BY <1>1, <2>2 DEF Sessions
  <2>4. /\ session' \in Sessions /\ session'.started = sequence /\ session'.armed = sequence
        /\ session'.partial = session.partial /\ session'.finished = session.finished
    <3>1. session' = [session EXCEPT !.started = sequence, !.armed = sequence]
      BY <2>1, <2>2
    <3> QED BY <1>1, <3>1 DEF Sessions
  <2>5. /\ client' \in Clients /\ client'.at = "reading" /\ client'.sequence = sequence
        /\ client'.record = None /\ client'.stream = "none" /\ ~client'.observed
        /\ ~client'.complete
    BY <2>1, <2>2, NoneIsRecord DEF Clients
  <2>6. /\ router' \in Routers /\ router'.at = "arrived"
        /\ channel' \in Channels /\ channel'.pieces = 0
        /\ body' \in Bodies /\ body'.pieces = 0 /\ ~body'.done
    BY <2>1 DEF Routers, Channels, Bodies, Early
  <2>7. /\ recorder = <<>> /\ session.partial = None /\ session.finished = <<>>
        /\ engine.queue = <<>> /\ engine.at \in {"idle", "panicked"}
    BY <1>2, QuietBetween DEF Clean, Past
  <2>8. CaptureTypeOK' /\ CommandsInOrder' /\ NothingBefore' /\ EndIsHonest'
    BY <1>1, <1>2, <2>4, <2>5, <2>6, <2>7, QueueFilled
    DEF CaptureTypeOK, CommandsInOrder, Encoding, NothingBefore, EndIsHonest, Early
  <2>9. SessionHonest' /\ EngineHonest'
    BY <1>1, <1>2, <2>4, <2>5, <2>7 DEF SessionHonest, EngineHonest
  <2>10. ClientHonest' /\ WaiterAwake'
    BY <1>2, <2>3, <2>5, <2>6, <2>7, NoneIsRecord DEF ClientHonest, HonestModel, WaiterAwake, Closed
  <2> QED BY <2>8, <2>9, <2>10 DEF CaptureInv
<1> QED BY <1>3, <1>4

\* What the client does alone while it waits for the end of its request.
LEMMA WaitingKeeps ==
    ASSUME CaptureInv, UNCHANGED <<recorder, engine, router, channel, body>>,
           session' \in Sessions,
           session'.started = session.started, session'.armed = session.armed,
           \/ session'.partial = session.partial
           \/ /\ session.partial # None /\ session'.partial.model = session.partial.model
              /\ session'.partial.sequence = session.partial.sequence,
           session'.finished = session.finished,
           session.incomplete => session'.incomplete,
           client.at \notin Closed \cup {"arm"}, client.at # "assess",
           client' = [client EXCEPT !.at = client'.at],
           client'.at \in {"waiting", "take", "parked", "expired", "partial"},
           client'.at = "partial" => session'.incomplete,
           client'.at = "parked" /\ session'.waiter = "waiting" =>
               ~session'.incomplete /\ session'.finished = <<>>
    PROVE  CaptureInv'
<1>1. /\ session \in Sessions /\ recorder \in Models /\ engine \in Engines /\ router \in Routers
      /\ channel \in Channels /\ body \in Bodies /\ client \in Clients
      /\ CommandsInOrder /\ NothingBefore /\ EndIsHonest /\ SessionHonest /\ EngineHonest
      /\ ClientHonest /\ WaiterAwake
  BY DEF CaptureInv, CaptureTypeOK
<1>2. PICK at \in {"waiting", "take", "parked", "expired", "partial"} : at = client'.at
  OBVIOUS
<1>3. /\ client' \in Clients /\ client'.sequence = client.sequence
      /\ client'.record = client.record /\ client'.stream = client.stream
      /\ client'.observed = client.observed /\ client'.complete = client.complete
  <2>1. client' = [client EXCEPT !.at = at]
    BY <1>2
  <2> QED BY <1>1, <2>1 DEF Clients
<1>4. client'.at \notin Closed \cup {"arm", "assess"}
  BY DEF Closed
<1>5. Past => Past'
  BY DEF Past, Spent
<1>6. CaptureTypeOK' /\ CommandsInOrder' /\ EndIsHonest'
  BY <1>1, <1>3 DEF CaptureTypeOK, CommandsInOrder, Encoding, EndIsHonest, Drained
<1>7. NothingBefore'
  BY <1>1 DEF NothingBefore, Spent
<1>8. SessionHonest' /\ EngineHonest'
  BY <1>1, <1>3, <1>5 DEF SessionHonest, EngineHonest, HonestModel, Spent, Past
<1>9. ClientHonest'
  BY <1>1, <1>3, <1>4, <1>5 DEF ClientHonest, HonestModel, Clean, Complete, Past
<1>10. WaiterAwake'
  BY DEF WaiterAwake
<1> QED BY <1>6, <1>7, <1>8, <1>9, <1>10 DEF CaptureInv

\* The client takes a permit or registers as the waiter.
LEMMA EnableKeeps == CaptureInv /\ Enable => CaptureInv'
<1> SUFFICES ASSUME CaptureInv, Enable PROVE CaptureInv'
  OBVIOUS
<1>1. session \in Sessions /\ client \in Clients
  BY DEF CaptureInv, CaptureTypeOK
<1>2. /\ session' \in Sessions
      /\ session'.started = session.started /\ session'.armed = session.armed
      /\ session'.partial = session.partial /\ session'.finished = session.finished
      /\ session'.incomplete = session.incomplete
  BY <1>1 DEF Enable, Sessions
<1>3. /\ client.at = "waiting" /\ client' = [client EXCEPT !.at = "take"]
      /\ UNCHANGED <<recorder, engine, router, channel, body>>
  BY DEF Enable, ClientAt
<1>4. client'.at = "take"
  BY <1>1, <1>3 DEF Clients
<1> QED BY <1>2, <1>3, <1>4, WaitingKeeps DEF Closed

\* The waiter is woken.
LEMMA WokenKeeps == CaptureInv /\ Woken => CaptureInv'
<1> SUFFICES ASSUME CaptureInv, Woken PROVE CaptureInv'
  OBVIOUS
<1>1. session \in Sessions /\ client \in Clients
  BY DEF CaptureInv, CaptureTypeOK
<1>2. /\ session' \in Sessions
      /\ session'.started = session.started /\ session'.armed = session.armed
      /\ session'.partial = session.partial /\ session'.finished = session.finished
      /\ session'.incomplete = session.incomplete
  BY <1>1 DEF Woken, Sessions
<1>3. /\ client.at = "parked" /\ client' = [client EXCEPT !.at = "waiting"]
      /\ UNCHANGED <<recorder, engine, router, channel, body>>
  BY DEF Woken, ClientAt
<1>4. client'.at = "waiting"
  BY <1>1, <1>3 DEF Clients
<1> QED BY <1>2, <1>3, <1>4, WaitingKeeps DEF Closed

\* The waiter gives up.
LEMMA WatchdogExpiresKeeps == CaptureInv /\ WatchdogExpires => CaptureInv'
<1> SUFFICES ASSUME CaptureInv, WatchdogExpires PROVE CaptureInv'
  OBVIOUS
<1>1. session \in Sessions /\ client \in Clients
  BY DEF CaptureInv, CaptureTypeOK
<1>2. /\ session' \in Sessions
      /\ session'.started = session.started /\ session'.armed = session.armed
      /\ session'.partial = session.partial /\ session'.finished = session.finished
      /\ session'.incomplete = session.incomplete
  BY <1>1, UnregisteredIs DEF WatchdogExpires
<1>3. /\ client.at = "parked" /\ client' = [client EXCEPT !.at = "expired"]
      /\ UNCHANGED <<recorder, engine, router, channel, body>>
  BY DEF WatchdogExpires, ClientAt
<1>4. client'.at = "expired"
  BY <1>1, <1>3 DEF Clients
<1> QED BY <1>2, <1>3, <1>4, WaitingKeeps DEF Closed

\* What did not end in time is marked.
LEMMA MarkUnobservedKeeps == CaptureInv /\ MarkUnobserved => CaptureInv'
<1> SUFFICES ASSUME CaptureInv, MarkUnobserved PROVE CaptureInv'
  OBVIOUS
<1>1. session \in Sessions /\ client \in Clients /\ SessionHonest /\ ClientHonest
  BY DEF CaptureInv, CaptureTypeOK
<1> DEFINE noted == [session EXCEPT !.partial.incomplete = TRUE]
<1>2. /\ noted \in Sessions
      /\ noted.started = session.started /\ noted.armed = session.armed
      /\ noted.finished = session.finished
      /\ noted.partial.sequence = session.partial.sequence
      /\ noted.partial.model = session.partial.model
  BY <1>1 DEF Sessions, Records
<1>3. \/ session' = MarkIncomplete(session)
      \/ session' = MarkIncomplete(noted) /\ session.partial.sequence = client.sequence
  BY DEF MarkUnobserved
<1>4. /\ client.at = "expired" /\ client' = [client EXCEPT !.at = "partial"]
      /\ UNCHANGED <<recorder, engine, router, channel, body>>
  BY DEF MarkUnobserved, ClientAt
<1>5. client'.at = "partial"
  BY <1>1, <1>4 DEF Clients
<1>6. client.sequence # 0
  BY <1>1, <1>4 DEF ClientHonest, Closed
<1> HIDE DEF noted
<1>7. /\ session' \in Sessions /\ session'.incomplete
      /\ session'.started = session.started /\ session'.armed = session.armed
      /\ session'.finished = session.finished
      /\ \/ session'.partial = session.partial
         \/ /\ session.partial # None /\ session'.partial.model = session.partial.model
            /\ session'.partial.sequence = session.partial.sequence
  <2>1. CASE session' = MarkIncomplete(session)
    BY <1>1, <2>1, LossyMarks
  <2>2. CASE session' = MarkIncomplete(noted) /\ session.partial.sequence = client.sequence
    BY <1>2, <1>6, <2>2, LossyMarks, NoneIsRecord
  <2> QED BY <1>3, <2>1, <2>2
<1> QED BY <1>4, <1>5, <1>7, WaitingKeeps DEF Closed

\* The client takes the record of its request, finds the session marked, or parks.
LEMMA TakeFinishedKeeps == CaptureInv /\ TakeFinished => CaptureInv'
<1> SUFFICES ASSUME CaptureInv, TakeFinished PROVE CaptureInv'
  OBVIOUS
<1>1. /\ session \in Sessions /\ recorder \in Models /\ engine \in Engines /\ router \in Routers
      /\ channel \in Channels /\ body \in Bodies /\ client \in Clients
      /\ CommandsInOrder /\ NothingBefore /\ EndIsHonest /\ SessionHonest /\ EngineHonest
      /\ ClientHonest /\ WaiterAwake
  BY DEF CaptureInv, CaptureTypeOK
<1>2. /\ client.at = "take" /\ UNCHANGED <<recorder, engine, router, channel, body>>
  BY DEF TakeFinished
<1> DEFINE at == FinishedAt(session, client.sequence)
           record == Sealed(session, session.finished[at])
           rest == [session EXCEPT !.finished = RemoveAt(session.finished, at)]
<1>3. at \in {0, 1} /\ (at = 1 <=> session.finished # <<>>)
  <2>1. client.sequence \in Nat
    BY <1>1 DEF Clients
  <2>2. CASE session.finished = <<>>
    <3>1. Len(session.finished) = 0
      BY <2>2, EmptySeq
    <3> QED BY <1>1, <2>1, <2>2, <3>1, FinishedIsFound
  <2>3. CASE session.finished # <<>>
    <3>1. Len(session.finished) = 1 /\ session.finished[1].sequence = client.sequence
      BY <1>1, <2>3 DEF SessionHonest
    <3>2. Len(session.finished) <= 1
      BY <3>1
    <3>3. /\ at \in {0, 1}
          /\ at = 1 <=> session.finished # <<>> /\ session.finished[1].sequence = client.sequence
      BY <1>1, <2>1, <3>2, FinishedIsFound
    <3> HIDE DEF at
    <3> QED BY <2>3, <3>1, <3>3
  <2> QED BY <2>2, <2>3
<1>4. CASE at # 0 /\ session' = Unregistered(rest)
           /\ client' = [client EXCEPT !.at = "assess", !.observed = TRUE, !.record = record]
  <2>1. /\ at = 1 /\ Past /\ Len(session.finished) = 1
        /\ session.finished[1].sequence = client.sequence /\ client.sequence # 0
        /\ HonestModel(session.finished[1].model)
    BY <1>1, <1>3, <1>4 DEF SessionHonest
  <2>2. session.finished \in Seq(Records) /\ session.finished[1] \in Records
    <3>1. session.finished \in Seq(Records)
      BY <1>1 DEF Sessions
    <3> QED BY <2>1, <3>1, ElementOfSeq
  <2>3. /\ rest \in Sessions /\ rest.finished = <<>> /\ rest.started = session.started
        /\ rest.armed = session.armed /\ rest.partial = session.partial
        /\ rest.incomplete = session.incomplete
    <3>1. rest = [session EXCEPT !.finished = <<>>]
      BY <2>1, <2>2, RemovedOnly
    <3>2. <<>> \in Seq(Records)
      BY EmptySeq
    <3> HIDE DEF rest
    <3> QED BY <1>1, <3>1, <3>2 DEF Sessions
  <2>4. /\ record \in Records /\ record.model = session.finished[1].model
    BY <1>1, <2>1, <2>2, SealedIs
  <2> HIDE DEF rest, record, at
  <2>5. /\ session' \in Sessions /\ session'.finished = <<>>
        /\ session'.started = session.started /\ session'.armed = session.armed
        /\ session'.partial = session.partial
    BY <1>4, <2>3, UnregisteredIs
  <2>6. /\ client' \in Clients /\ client'.at = "assess" /\ client'.observed
        /\ client'.record = record /\ client'.sequence = client.sequence
        /\ client'.stream = client.stream /\ client'.complete = client.complete
    BY <1>1, <1>4, <2>4 DEF Clients
  <2>7. ~client.complete
    BY <1>1, <1>2 DEF ClientHonest, Closed
  <2>8. CaptureTypeOK' /\ CommandsInOrder' /\ NothingBefore' /\ EndIsHonest'
    BY <1>1, <1>2, <2>5, <2>6 DEF CaptureTypeOK, CommandsInOrder, Encoding, NothingBefore, Spent,
                                  EndIsHonest, Drained
  <2>9. SessionHonest' /\ EngineHonest'
    BY <1>1, <1>2, <2>5, <2>6 DEF SessionHonest, EngineHonest, HonestModel, Spent
  <2>10. ClientHonest'
    BY <1>1, <1>2, <2>1, <2>4, <2>5, <2>6, <2>7
    DEF ClientHonest, HonestModel, Clean, Past, Spent, Closed
  <2>11. WaiterAwake'
    BY <2>6 DEF WaiterAwake
  <2> QED BY <2>8, <2>9, <2>10, <2>11 DEF CaptureInv
<1>5. CASE /\ client' = [client EXCEPT !.at = "partial"]
           /\ \/ session' = Unregistered(MarkIncomplete(session))
              \/ session.incomplete /\ session' = Unregistered(session)
  <2>1. /\ session' \in Sessions /\ session'.incomplete
        /\ session'.started = session.started /\ session'.armed = session.armed
        /\ session'.partial = session.partial /\ session'.finished = session.finished
    BY <1>1, <1>5, LossyMarks, UnregisteredIs
  <2>2. client'.at = "partial"
    BY <1>1, <1>5 DEF Clients
  <2> QED BY <1>2, <1>5, <2>1, <2>2, WaitingKeeps DEF Closed
<1>6. CASE client' = [client EXCEPT !.at = "parked"] /\ session' = session
           /\ at = 0 /\ ~session.incomplete
  <2>1. client'.at = "parked"
    BY <1>1, <1>6 DEF Clients
  <2>2. session.finished = <<>>
    BY <1>3, <1>6
  <2> QED BY <1>1, <1>2, <1>6, <2>1, <2>2, WaitingKeeps DEF Closed
<1>7. CASE Inside("client")
  <2>1. CASE at # 0
    BY <1>4, <1>7, <2>1 DEF TakeFinished, Contended, Inside
  <2>2. CASE at = 0
    BY <1>5, <1>6, <1>7, <2>2 DEF TakeFinished, ClientAt, Contended, Inside
  <2> QED BY <2>1, <2>2
<1>8. CASE Contended("client")
  BY <1>5, <1>8 DEF TakeFinished, ClientAt, Contended, Inside
<1> QED BY <1>7, <1>8 DEF TakeFinished

\* The record to assess is one that was not finished.
LEMMA TakePartialKeeps == CaptureInv /\ TakePartial => CaptureInv'
<1> SUFFICES ASSUME CaptureInv, TakePartial PROVE CaptureInv'
  OBVIOUS
<1>1. /\ session \in Sessions /\ recorder \in Models /\ engine \in Engines /\ router \in Routers
      /\ channel \in Channels /\ body \in Bodies /\ client \in Clients
      /\ CommandsInOrder /\ NothingBefore /\ EndIsHonest /\ SessionHonest /\ EngineHonest
      /\ ClientHonest /\ WaiterAwake
  BY DEF CaptureInv, CaptureTypeOK
<1>2. /\ client.at = "partial" /\ UNCHANGED <<recorder, engine, router, channel, body>>
  BY DEF TakePartial
<1>3. session.incomplete /\ client.sequence # 0 /\ ~client.complete
  BY <1>1, <1>2 DEF ClientHonest, Closed
<1>4. /\ session' \in Sessions /\ session'.incomplete
      /\ session'.started = session.started /\ session'.armed = session.armed
      /\ session'.partial = session.partial /\ session'.finished = session.finished
  BY <1>1, <1>3, LossyMarks DEF TakePartial
<1>5. PICK record \in Records :
          record.model = <<>> /\ client' = [client EXCEPT !.at = "assess", !.record = record]
  <2>1. CASE client' = [client EXCEPT !.at = "assess", !.record = None]
    BY <2>1, NoneIsRecord
  <2>2. CASE /\ session.partial.sequence = client.sequence
             /\ client' = [client EXCEPT !.at = "assess",
                                         !.record = Sealed(session, session.partial)]
    <3>1. session.partial \in Records
      BY <1>1 DEF Sessions
    <3>2. session.partial.model = <<>>
      BY <1>1, <1>3, <2>2, NoneIsRecord DEF SessionHonest
    <3> QED BY <1>1, <2>2, <3>1, <3>2, SealedIs
  <2> QED BY <2>1, <2>2 DEF TakePartial
<1>6. /\ client' \in Clients /\ client'.at = "assess" /\ client'.record.model = <<>>
      /\ client'.sequence = client.sequence /\ client'.stream = client.stream
      /\ client'.observed = client.observed /\ client'.complete = client.complete
  BY <1>1, <1>5 DEF Clients
<1>7. CaptureTypeOK' /\ CommandsInOrder' /\ NothingBefore' /\ EndIsHonest'
  BY <1>1, <1>2, <1>4, <1>6 DEF CaptureTypeOK, CommandsInOrder, Encoding, NothingBefore, Spent,
                                EndIsHonest, Drained
<1>8. SessionHonest' /\ EngineHonest'
  BY <1>1, <1>2, <1>4, <1>6 DEF SessionHonest, EngineHonest, HonestModel, Spent, Past
<1>9. ClientHonest'
  BY <1>1, <1>2, <1>3, <1>4, <1>6 DEF ClientHonest, HonestModel, Clean, Past, Spent, Closed
<1>10. WaiterAwake'
  BY <1>6 DEF WaiterAwake
<1> QED BY <1>7, <1>8, <1>9, <1>10 DEF CaptureInv

\* The client judges what it took; it is complete only if nothing is left of the request.
LEMMA AssessKeeps == CaptureInv /\ Assess => CaptureInv'
<1> SUFFICES ASSUME CaptureInv, Assess PROVE CaptureInv'
  OBVIOUS
<1>1. /\ session \in Sessions /\ recorder \in Models /\ engine \in Engines /\ router \in Routers
      /\ channel \in Channels /\ body \in Bodies /\ client \in Clients
      /\ CommandsInOrder /\ NothingBefore /\ EndIsHonest /\ SessionHonest /\ EngineHonest
      /\ ClientHonest /\ WaiterAwake
  BY DEF CaptureInv, CaptureTypeOK
<1>2. client.at = "assess" /\ UNCHANGED <<session, recorder, engine, router, channel, body>>
  BY DEF Assess
<1>3. client.observed \/ session.incomplete
  BY <1>1, <1>2 DEF ClientHonest
<1> DEFINE record == IF client.record = None \/ client.observed THEN client.record
                     ELSE [client.record EXCEPT !.incomplete = TRUE, !.terminal = "unobserved"]
           complete == Complete(client.record)
<1>4. PICK to \in {"closed", "arm"} :
          /\ to = "arm" => complete
          /\ client' = [client EXCEPT !.at = to, !.complete = complete, !.record = record]
  BY DEF Assess
<1>5. /\ record \in Records /\ record.model = client.record.model
      /\ client.observed => record = client.record
  <2>1. client.record \in Records
    BY <1>1 DEF Clients
  <2> QED BY <2>1 DEF Records, Terminals
<1>6. complete \in BOOLEAN /\ (complete => client.observed)
  BY <1>1 DEF Complete, Clients
<1> HIDE DEF record, complete
<1>7. /\ client' \in Clients /\ client'.at = to /\ client'.complete = complete
      /\ client'.record = record /\ client'.sequence = client.sequence
      /\ client'.stream = client.stream /\ client'.observed = client.observed
  BY <1>1, <1>4, <1>5, <1>6 DEF Clients, Closed
<1>8. complete => Complete(client.record)'
  BY <1>5, <1>6, <1>7 DEF Complete, complete
<1>9. client.observed => Clean'
  BY <1>1, <1>2 DEF ClientHonest, Clean, Past, Spent
<1>10. CaptureTypeOK' /\ CommandsInOrder' /\ NothingBefore' /\ EndIsHonest'
  BY <1>1, <1>2, <1>7 DEF CaptureTypeOK, CommandsInOrder, Encoding, NothingBefore, Spent,
                          EndIsHonest, Drained
<1>11. SessionHonest' /\ EngineHonest'
  BY <1>1, <1>2, <1>7 DEF SessionHonest, EngineHonest, HonestModel, Spent, Past
<1>12. ClientHonest'
  BY <1>1, <1>2, <1>3, <1>4, <1>5, <1>6, <1>7, <1>8, <1>9 DEF ClientHonest, HonestModel, Closed
<1>13. WaiterAwake'
  BY <1>4, <1>7 DEF WaiterAwake
<1> QED BY <1>10, <1>11, <1>12, <1>13 DEF CaptureInv

\* The client has read the body, or drops it.
LEMMA ReadBodyKeeps == CaptureInv /\ ReadBody => CaptureInv'
<1> SUFFICES ASSUME CaptureInv, ReadBody PROVE CaptureInv'
  OBVIOUS
<1>1. /\ session \in Sessions /\ recorder \in Models /\ engine \in Engines /\ router \in Routers
      /\ channel \in Channels /\ body \in Bodies /\ client \in Clients
      /\ CommandsInOrder /\ NothingBefore /\ EndIsHonest /\ SessionHonest /\ EngineHonest
      /\ ClientHonest /\ WaiterAwake
  BY DEF CaptureInv, CaptureTypeOK
<1>2. CaptureTypeOK'
  BY <1>1 DEF ReadBody, Closed, CaptureTypeOK, Clients
<1>3. CommandsInOrder'
  BY <1>1 DEF ReadBody, Closed, CommandsInOrder, Encoding
<1>4. NothingBefore'
  BY <1>1 DEF ReadBody, Closed, NothingBefore, Spent
<1>5. EndIsHonest'
  BY <1>1 DEF ReadBody, Closed, EndIsHonest, Drained
<1>6. SessionHonest'
  BY <1>1 DEF ReadBody, Closed, SessionHonest, HonestModel, Spent, Past, Clients
<1>7. EngineHonest'
  BY <1>1 DEF ReadBody, Closed, EngineHonest, HonestModel, Spent, Clients
<1>8. ClientHonest'
  <2>1. /\ client.at = "reading" /\ client'.at = "waiting" /\ client'.sequence = client.sequence
        /\ client'.record = client.record /\ client'.observed = client.observed
        /\ client'.complete = client.complete
        /\ client'.stream = "whole" => body.done /\ ~body.error
        /\ UNCHANGED <<session, recorder, engine, router, channel, body>>
    BY <1>1 DEF ReadBody, Clients
  <2> QED BY <1>1, <2>1 DEF Closed, ClientHonest, HonestModel, Spent, Past, Clean, Complete
<1>9. WaiterAwake'
  BY <1>1 DEF ReadBody, Closed, WaiterAwake, Clients
<1> QED BY <1>2, <1>3, <1>4, <1>5, <1>6, <1>7, <1>8, <1>9 DEF CaptureInv

\* The engine thread ends once the client has closed.
LEMMA EndEngineKeeps == CaptureInv /\ EndEngine => CaptureInv'
<1> SUFFICES ASSUME CaptureInv, EndEngine PROVE CaptureInv'
  OBVIOUS
<1>1. /\ session \in Sessions /\ recorder \in Models /\ engine \in Engines /\ router \in Routers
      /\ channel \in Channels /\ body \in Bodies /\ client \in Clients
      /\ CommandsInOrder /\ NothingBefore /\ EndIsHonest /\ SessionHonest /\ EngineHonest
      /\ ClientHonest /\ WaiterAwake
  BY DEF CaptureInv, CaptureTypeOK
<1>2. CaptureTypeOK'
  BY <1>1 DEF EndEngine, EngineAt, Early, Closed, CaptureTypeOK, Engines
<1>3. CommandsInOrder'
  BY <1>1 DEF EndEngine, EngineAt, Early, Closed, CommandsInOrder, Encoding, Engines
<1>4. NothingBefore'
  BY <1>1 DEF EndEngine, EngineAt, Early, Closed, NothingBefore, Spent, Engines
<1>5. EndIsHonest'
  BY <1>1 DEF EndEngine, EngineAt, Early, Closed, EndIsHonest, Drained, Engines
<1>6. SessionHonest'
  BY <1>1 DEF EndEngine, EngineAt, Early, Closed, SessionHonest, HonestModel, Spent, Past,
     Engines
<1>7. EngineHonest'
  BY <1>1 DEF EndEngine, EngineAt, Early, Closed, EngineHonest, HonestModel, Spent, Engines
<1>8. ClientHonest'
  BY <1>1 DEF EndEngine, EngineAt, Early, Closed, ClientHonest, HonestModel, Spent, Past, Clean,
     Complete, Engines
<1>9. WaiterAwake'
  BY <1>1 DEF EndEngine, EngineAt, Early, Closed, WaiterAwake
<1> QED BY <1>2, <1>3, <1>4, <1>5, <1>6, <1>7, <1>8, <1>9 DEF CaptureInv

\* The engine is joined, or the wait for it runs out.
LEMMA JoinKeeps == CaptureInv /\ Join => CaptureInv'
<1> SUFFICES ASSUME CaptureInv, Join PROVE CaptureInv'
  OBVIOUS
<1>1. /\ session \in Sessions /\ recorder \in Models /\ engine \in Engines /\ router \in Routers
      /\ channel \in Channels /\ body \in Bodies /\ client \in Clients
      /\ CommandsInOrder /\ NothingBefore /\ EndIsHonest /\ SessionHonest /\ EngineHonest
      /\ ClientHonest /\ WaiterAwake
  BY DEF CaptureInv, CaptureTypeOK
<1>2. CaptureTypeOK'
  BY <1>1 DEF Join, ClientAt, Closed, CaptureTypeOK, Clients
<1>3. CommandsInOrder'
  BY <1>1 DEF Join, ClientAt, Closed, CommandsInOrder, Encoding
<1>4. NothingBefore'
  BY <1>1 DEF Join, ClientAt, Closed, NothingBefore, Spent
<1>5. EndIsHonest'
  BY <1>1 DEF Join, ClientAt, Closed, EndIsHonest, Drained
<1>6. SessionHonest'
  BY <1>1 DEF Join, ClientAt, Closed, SessionHonest, HonestModel, Spent, Past, Clients
<1>7. EngineHonest'
  BY <1>1 DEF Join, ClientAt, Closed, EngineHonest, HonestModel, Spent, Clients
<1>8. ClientHonest'
  BY <1>1 DEF Join, ClientAt, Closed, ClientHonest, HonestModel, Spent, Past, Clean, Complete,
     Clients
<1>9. WaiterAwake'
  BY <1>1 DEF Join, ClientAt, Closed, WaiterAwake, Clients
<1> QED BY <1>2, <1>3, <1>4, <1>5, <1>6, <1>7, <1>8, <1>9 DEF CaptureInv

----------------------------------------------------------------------------
(* The theorems about the capture.                                         *)

\* A capture begins in a state of the invariant.
LEMMA CaptureStarts == CaptureInit => CaptureInv
<1> SUFFICES ASSUME CaptureInit PROVE CaptureInv
  OBVIOUS
<1>1. <<>> \in Seq(Records) /\ <<>> \in Models
  BY EmptySeq, ModelsAre
<1>2. session \in Sessions
  BY <1>1, NoneIsRecord DEF CaptureInit, NewSession, Sessions
<1>3. engine \in Engines /\ client \in Clients
  BY NoneIsRecord DEF CaptureInit, Engines, Clients
<1>4. /\ recorder \in Models /\ router \in Routers /\ channel \in Channels /\ body \in Bodies
  BY <1>1 DEF CaptureInit, Routers, Channels, Bodies
<1>5. Clean
  BY QueueFilled DEF CaptureInit, NewSession, Clean, Past, Spent, Early
<1>6. CommandsInOrder /\ NothingBefore /\ EndIsHonest
  BY <1>5, QueueFilled DEF CaptureInit, CommandsInOrder, Encoding, NothingBefore, EndIsHonest, Clean,
                           Past, Early
<1>7. SessionHonest /\ EngineHonest /\ WaiterAwake
  BY DEF CaptureInit, NewSession, SessionHonest, EngineHonest, WaiterAwake
<1>8. ClientHonest
  BY <1>5, NoneIsRecord DEF CaptureInit, ClientHonest, HonestModel, Closed
<1> QED BY <1>2, <1>3, <1>4, <1>6, <1>7, <1>8 DEF CaptureInv, CaptureTypeOK

\* And keeps to it.
LEMMA CaptureContinues == CaptureInv /\ [CaptureNext]_captureVars => CaptureInv'
<1> SUFFICES ASSUME CaptureInv, [CaptureNext]_captureVars PROVE CaptureInv'
  OBVIOUS
<1>1. CASE UNCHANGED captureVars
  <2> USE <1>1 DEF captureVars
  <2>1. CaptureTypeOK' /\ CommandsInOrder' /\ NothingBefore' /\ EndIsHonest' /\ WaiterAwake'
    BY DEF CaptureInv, CaptureTypeOK, CommandsInOrder, Encoding, NothingBefore, Spent, EndIsHonest,
           Drained, WaiterAwake
  <2>2. SessionHonest' /\ EngineHonest' /\ ClientHonest'
    BY DEF CaptureInv, SessionHonest, EngineHonest, ClientHonest, HonestModel, Spent, Past, Clean,
           Complete
  <2> QED BY <2>1, <2>2 DEF CaptureInv
<1>2. CASE \/ \E actor \in {"engine", "router", "client"} : TakeLock(actor)
           \/ TakeCommand \/ RunEncode \/ BeginCapture \/ BeginPlain \/ Produce \/ EndGeneration
           \/ Panic \/ Settle \/ Abandon \/ AbandonNothing
  BY <1>2, TakeLockKeeps, TakeCommandKeeps, RunEncodeKeeps, BeginCaptureKeeps, BeginPlainKeeps,
     ProduceKeeps, EndGenerationKeeps, PanicKeeps, SettleKeeps, AbandonKeeps, AbandonNothingKeeps
<1>3. CASE \/ IsActive \/ Refuse \/ Count \/ Start \/ Relay \/ ReceiveFailure \/ Recount
           \/ GiveUp \/ Judge \/ LogFailure \/ LogCompletion \/ SendEnd \/ Disconnect
  BY <1>3, IsActiveKeeps, RefuseKeeps, CountKeeps, StartKeeps, RelayKeeps, ReceiveFailureKeeps,
     RecountKeeps, GiveUpKeeps, JudgeKeeps, LogFailureKeeps, LogCompletionKeeps, SendEndKeeps,
     DisconnectKeeps
<1>4. CASE \/ Arm \/ ReadBody \/ Enable \/ TakeFinished \/ Woken \/ WatchdogExpires
           \/ MarkUnobserved \/ TakePartial \/ Assess \/ EndEngine \/ Join
  BY <1>4, ArmKeeps, ReadBodyKeeps, EnableKeeps, TakeFinishedKeeps, WokenKeeps,
     WatchdogExpiresKeeps, MarkUnobservedKeeps, TakePartialKeeps, AssessKeeps, EndEngineKeeps,
     JoinKeeps
<1> QED BY <1>1, <1>2, <1>3, <1>4 DEF CaptureNext

\* What the invariant says of a capture that is reported, lost or waited for.
LEMMA CaptureInvImplies == CaptureInv => CaptureRight
<1> SUFFICES ASSUME CaptureInv PROVE CaptureRight
  OBVIOUS
<1>1. /\ session \in Sessions /\ recorder \in Models /\ engine \in Engines
      /\ channel \in Channels /\ body \in Bodies /\ client \in Clients
      /\ EndIsHonest /\ SessionHonest /\ ClientHonest /\ WaiterAwake
  BY DEF CaptureInv, CaptureTypeOK
<1>2. CaptureHonest
  <2> SUFFICES ASSUME client.complete
               PROVE  LET model == client.record.model[1]
                      IN  /\ model.sequence = client.sequence
                          /\ model.outcome = "complete"
                          /\ model.pieces = body.pieces
                          /\ body.done /\ ~body.error
    BY DEF CaptureHonest
  <2>1. Complete(client.record) /\ body.done /\ ~body.error
    BY <1>1 DEF ClientHonest, Complete
  <2>2. channel.pieces = 0
    BY <1>1, <2>1 DEF EndIsHonest, Drained
  <2>3. client.record.model[1].outcome = "complete" /\ client.record.model # <<>>
    BY <2>1 DEF Complete
  <2>4. /\ client.record.model[1].sequence = client.sequence
        /\ client.record.model[1].pieces = channel.pieces + body.pieces
    BY <1>1, <2>3 DEF ClientHonest, HonestModel
  <2>5. 0 + body.pieces = body.pieces
    BY <1>1 DEF Bodies
  <2> QED BY <2>1, <2>2, <2>3, <2>4, <2>5
<1>3. LossIsMarked
  <2> SUFFICES ASSUME client.at \in {"arm", "closed", "joined"}, ~session.incomplete
               PROVE  /\ session.armed = 0 /\ session.partial = None /\ session.finished = <<>>
                      /\ recorder = <<>>
                      /\ engine.at \notin {"begin", "generate", "settle"}
                      /\ ~Contains(engine.queue, "stream")
    BY DEF LossIsMarked
  <2>1. Clean
    BY <1>1 DEF ClientHonest, Closed
  <2>2. engine.queue \in {<<>>, <<"encode">>}
    BY <1>1, <2>1 DEF Engines, Clean, Past, Spent
  <2>3. ~Contains(engine.queue, "stream")
    <3>1. CASE engine.queue = <<>>
      BY <3>1, EmptySeq DEF Contains
    <3>2. CASE engine.queue = <<"encode">>
      BY <3>2, QueueFilled DEF Contains
    <3> QED BY <2>2, <3>1, <3>2
  <2> QED BY <2>1, <2>3 DEF Clean, Past, Spent
<1>4. NoLostWakeup
  <2> SUFFICES ASSUME client.at = "parked", session.waiter = "waiting"
               PROVE  ~session.incomplete /\ FinishedAt(session, client.sequence) = 0
    BY DEF NoLostWakeup
  <2>1. ~session.incomplete /\ session.finished = <<>>
    BY <1>1 DEF WaiterAwake
  <2>2. Len(session.finished) <= 1 /\ client.sequence \in Nat
    BY <1>1, <2>1, EmptySeq DEF Clients
  <2> QED BY <1>1, <2>1, <2>2, FinishedIsFound
<1> QED BY <1>2, <1>3, <1>4 DEF CaptureRight

\* The inductive invariant of a capture: the record, the capture in the model, the stream and
\* the client are of one request, whoever finds the session locked (fixture_diagnostics.rs).
THEOREM CaptureInvariant == CaptureSpec => []CaptureInv
<1>1. CaptureInit => CaptureInv
  BY CaptureStarts
<1>2. CaptureInv /\ [CaptureNext]_captureVars => CaptureInv'
  BY CaptureContinues
<1> QED BY <1>1, <1>2, PTL DEF CaptureSpec

\* A capture that is reported complete is the whole generation of its request and all of it was
\* sent; what is lost between two requests is marked; and a client that waits is woken
\* (FixtureSession of fixture_diagnostics.rs, run_fixture_request of fixtures.rs).
THEOREM CapturesAreRight == CaptureSpec => []CaptureRight
<1>1. CaptureInv => CaptureRight
  BY CaptureInvImplies
<1> QED BY <1>1, CaptureInvariant, PTL

\* What a text is made of
Symbols ==
    {Wide, Bad} \cup
        UNION {ToSet(text) : text \in Tokens \cup ForcedPrefixes \cup {Delimiter}
                                        \cup UNION {ToSet(list) : list \in StopLists}}

\* The bytes of tokens, and texts
Strings == Seq(Symbols)

----------------------------------------------------------------------------
(* Sequences.                                                              *)

\* The first symbols of a text
LEMMA UptoIs ==
    ASSUME NEW S, NEW s \in Seq(S), NEW n \in 0..Len(s)
    PROVE  /\ Upto(s, n) \in Seq(S) /\ Len(Upto(s, n)) = n
           /\ \A i \in 1..n : Upto(s, n)[i] = s[i]
<1>1. \A i \in 1..n : s[i] \in S
  BY ElementOfSeq
<1>2. Len(s) \in Nat
  BY LenProperties
<1> QED BY <1>1, <1>2, SubSeqProperties DEF Upto

\* The symbols after them
LEMMA AfterIs ==
    ASSUME NEW S, NEW s \in Seq(S), NEW n \in 0..Len(s)
    PROVE  /\ After(s, n) \in Seq(S) /\ Len(After(s, n)) = Len(s) - n
           /\ \A i \in 1..(Len(s) - n) : After(s, n)[i] = s[n + i]
<1>1. \A i \in (n + 1)..Len(s) : s[i] \in S
  BY ElementOfSeq
<1>2. Len(s) \in Nat
  BY LenProperties
<1>3. After(s, n) = SubSeq(s, n + 1, Len(s))
  BY DEF After
<1>4. /\ SubSeq(s, n + 1, Len(s)) \in Seq(S)
      /\ Len(SubSeq(s, n + 1, Len(s))) = IF n + 1 <= Len(s) THEN Len(s) - (n + 1) + 1 ELSE 0
      /\ \A i \in 1..(Len(s) - (n + 1) + 1) : SubSeq(s, n + 1, Len(s))[i] = s[n + 1 + i - 1]
  BY <1>1, <1>2, SubSeqProperties, SMT
<1>5. \A i \in 1..(Len(s) - n) : SubSeq(s, n + 1, Len(s))[i] = s[n + i]
  <2> TAKE i \in 1..(Len(s) - n)
  <2>1. i \in 1..(Len(s) - (n + 1) + 1) /\ n + 1 + i - 1 = n + i
    BY <1>2
  <2> QED BY <1>4, <2>1
<1>6. Len(SubSeq(s, n + 1, Len(s))) = Len(s) - n
  BY <1>2, <1>4
<1> QED BY <1>3, <1>4, <1>5, <1>6

\* Two texts, one after the other
LEMMA JoinIs ==
    ASSUME NEW S, NEW s \in Seq(S), NEW t \in Seq(S)
    PROVE  /\ s \o t \in Seq(S) /\ Len(s \o t) = Len(s) + Len(t)
           /\ \A i \in 1..Len(s) : (s \o t)[i] = s[i]
           /\ \A i \in 1..Len(t) : (s \o t)[Len(s) + i] = t[i]
<1>1. Len(s) \in Nat /\ Len(t) \in Nat
  BY LenProperties
<1> QED BY <1>1, ConcatProperties

\* A text is what is cut from it and the rest.
LEMMA CutAndRest ==
    ASSUME NEW S, NEW s \in Seq(S), NEW n \in 0..Len(s)
    PROVE  Upto(s, n) \o After(s, n) = s
<1> DEFINE u == Upto(s, n)
           v == After(s, n)
<1>1. Len(s) \in Nat
  BY LenProperties
<1>2. u \in Seq(S) /\ Len(u) = n /\ \A i \in 1..n : u[i] = s[i]
  BY UptoIs
<1>3. v \in Seq(S) /\ Len(v) = Len(s) - n /\ \A i \in 1..(Len(s) - n) : v[i] = s[n + i]
  BY AfterIs
<1> HIDE DEF u, v
<1>4. /\ u \o v \in Seq(S) /\ Len(u \o v) = n + (Len(s) - n)
      /\ \A i \in 1..n : (u \o v)[i] = u[i]
      /\ \A i \in 1..(Len(s) - n) : (u \o v)[n + i] = v[i]
  BY <1>2, <1>3, JoinIs
<1>5. \A i \in 1..Len(s) : (u \o v)[i] = s[i]
  <2> TAKE i \in 1..Len(s)
  <2>1. CASE i <= n
    BY <2>1, <1>1, <1>2, <1>4
  <2>2. CASE i > n
    <3>1. i - n \in 1..(Len(s) - n) /\ n + (i - n) = i
      BY <2>2, <1>1
    <3>2. (u \o v)[n + (i - n)] = v[i - n] /\ v[i - n] = s[n + (i - n)]
      BY <3>1, <1>3, <1>4
    <3> QED BY <3>1, <3>2
  <2>3. i <= n \/ i > n
    BY <1>1
  <2> QED BY <2>1, <2>2, <2>3, Zenon
<1>6. Len(u \o v) = Len(s)
  BY <1>1, <1>4
<1>7. u \o v = s
  BY <1>4, <1>5, <1>6, SeqEqual
<1> QED BY <1>7 DEF u, v

\* The cut of two texts at the end of the first, and beyond
LEMMA CutOfJoin ==
    ASSUME NEW S, NEW s \in Seq(S), NEW t \in Seq(S), NEW n \in 0..Len(t)
    PROVE  /\ Upto(s \o t, Len(s) + n) = s \o Upto(t, n)
           /\ After(s \o t, Len(s) + n) = After(t, n)
<1> DEFINE u == Upto(t, n)
           v == After(t, n)
           k == Len(s) + n
<1>1. Len(s) \in Nat /\ Len(t) \in Nat /\ k \in 0..(Len(s) + Len(t))
  BY LenProperties
<1>2. u \in Seq(S) /\ Len(u) = n /\ v \in Seq(S) /\ u \o v = t
  BY UptoIs, AfterIs, CutAndRest
<1>3. s \o t = (s \o u) \o v
  <2>1. s \in Seq(S) /\ u \in Seq(S) /\ v \in Seq(S)
    BY <1>2
  <2> HIDE DEF u, v, k
  <2>2. (s \o u) \o v = s \o (u \o v)
    BY <2>1, ConcatAssociative, SMTT(30)
  <2> QED BY <1>2, <2>2
<1> HIDE DEF u, v
<1>4. s \o t \in Seq(S) /\ Len(s \o t) = Len(s) + Len(t)
  BY JoinIs
<1>5. s \o u \in Seq(S) /\ Len(s \o u) = k
  BY <1>2, JoinIs
<1>6. /\ Upto(s \o t, k) \in Seq(S) /\ Len(Upto(s \o t, k)) = k
      /\ \A i \in 1..k : Upto(s \o t, k)[i] = (s \o t)[i]
  BY <1>1, <1>4, UptoIs
<1>7. /\ After(s \o t, k) \in Seq(S)
      /\ Upto(s \o t, k) \o After(s \o t, k) = s \o t
  BY <1>1, <1>4, AfterIs, CutAndRest
<1>8. \A i \in 1..k : Upto(s \o t, k)[i] = (s \o u)[i]
  <2> TAKE i \in 1..k
  <2>1. ((s \o u) \o v)[i] = (s \o u)[i]
    BY <1>2, <1>5, JoinIs
  <2> QED BY <2>1, <1>3, <1>6
<1>9. Upto(s \o t, k) = s \o u
  BY <1>5, <1>6, <1>8, SeqEqual
<1>10. (s \o u) \o After(s \o t, k) = (s \o u) \o v
  BY <1>3, <1>7, <1>9
<1>11. After(s \o t, k) = v
  BY <1>2, <1>5, <1>7, <1>10, ConcatSimplifications
<1> QED BY <1>9, <1>11 DEF u, v

\* A prefix, symbol by symbol
LEMMA PrefixIs ==
    ASSUME NEW S, NEW s \in Seq(S), NEW t \in Seq(S)
    PROVE  IsPrefix(s, t) <=> Len(s) <= Len(t) /\ \A i \in 1..Len(s) : s[i] = t[i]
<1>1. Len(s) \in Nat /\ Len(t) \in Nat
  BY LenProperties
<1>2. SubSeq(s, 1, Len(s)) = s
  BY SubSeqFull
<1>3. ASSUME Len(s) <= Len(t)
      PROVE  SubSeq(t, 1, Len(s)) = s <=> \A i \in 1..Len(s) : s[i] = t[i]
  <2>1. Len(s) \in 0..Len(t)
    BY <1>1, <1>3
  <2>2. /\ Upto(t, Len(s)) \in Seq(S) /\ Len(Upto(t, Len(s))) = Len(s)
        /\ \A i \in 1..Len(s) : Upto(t, Len(s))[i] = t[i]
    BY <2>1, UptoIs
  <2>3. Upto(t, Len(s)) = SubSeq(t, 1, Len(s))
    BY DEF Upto
  <2> HIDE DEF Upto
  <2>4. (\A i \in 1..Len(s) : s[i] = t[i]) => Upto(t, Len(s)) = s
    BY <2>2, SeqEqual
  <2> QED BY <2>2, <2>3, <2>4
<1> QED BY <1>2, <1>3 DEF IsPrefix

\* A suffix, symbol by symbol
LEMMA SuffixIs ==
    ASSUME NEW S, NEW s \in Seq(S), NEW t \in Seq(S)
    PROVE  IsSuffix(s, t) <=>
               Len(s) <= Len(t) /\ \A i \in 1..Len(s) : s[i] = t[Len(t) - Len(s) + i]
<1>1. Len(s) \in Nat /\ Len(t) \in Nat
  BY LenProperties
<1>2. ASSUME NEW r \in Seq(S)
      PROVE  /\ Reverse(r) \in Seq(S) /\ Len(Reverse(r)) = Len(r)
             /\ \A i \in 1..Len(r) : Reverse(r)[i] = r[(Len(r) - i) + 1]
  <2>1. Len(r) \in Nat
    BY LenProperties
  <2>2. \A i \in 1..Len(r) : r[(Len(r) - i) + 1] \in S
    <3> TAKE i \in 1..Len(r)
    <3>1. (Len(r) - i) + 1 \in 1..Len(r)
      BY <2>1
    <3> QED BY <3>1, ElementOfSeq
  <2>3. [i \in 1..Len(r) |-> r[(Len(r) - i) + 1]] \in Seq(S)
    BY <2>1, <2>2, SMT
  <2>4. Reverse(r) = [i \in 1..Len(r) |-> r[(Len(r) - i) + 1]]
    BY DEF Reverse
  <2>5. Len(Reverse(r)) = Len(r)
    BY <2>1, <2>4
  <2> QED BY <2>3, <2>4, <2>5
<1>3. IsSuffix(s, t) <=>
        Len(s) <= Len(t) /\ \A i \in 1..Len(s) : Reverse(s)[i] = Reverse(t)[i]
  <2>1. IsSuffix(s, t) <=> IsPrefix(Reverse(s), Reverse(t))
    BY DEF IsSuffix
  <2> QED BY <2>1, <1>2, PrefixIs
<1>4. ASSUME Len(s) <= Len(t)
      PROVE  (\A i \in 1..Len(s) : Reverse(s)[i] = Reverse(t)[i]) <=>
                 \A i \in 1..Len(s) : s[i] = t[Len(t) - Len(s) + i]
  <2>1. \A i \in 1..Len(s) : /\ Reverse(s)[i] = s[(Len(s) - i) + 1]
                             /\ Reverse(t)[i] = t[(Len(t) - i) + 1]
    BY <1>1, <1>2, <1>4
  <2>2. ASSUME \A i \in 1..Len(s) : Reverse(s)[i] = Reverse(t)[i], NEW i \in 1..Len(s)
        PROVE  s[i] = t[Len(t) - Len(s) + i]
    <3> DEFINE j == (Len(s) - i) + 1
    <3>1. j \in 1..Len(s) /\ (Len(s) - j) + 1 = i /\ (Len(t) - j) + 1 = Len(t) - Len(s) + i
      BY <1>1
    <3>2. s[(Len(s) - j) + 1] = t[(Len(t) - j) + 1]
      <4> HIDE DEF j
      <4> QED BY <2>1, <2>2, <3>1
    <3> HIDE DEF j
    <3> QED BY <3>1, <3>2
  <2>3. ASSUME \A i \in 1..Len(s) : s[i] = t[Len(t) - Len(s) + i], NEW i \in 1..Len(s)
        PROVE  Reverse(s)[i] = Reverse(t)[i]
    <3> DEFINE j == (Len(s) - i) + 1
    <3>1. j \in 1..Len(s) /\ Len(t) - Len(s) + j = (Len(t) - i) + 1
      BY <1>1
    <3>2. s[j] = t[Len(t) - Len(s) + j]
      <4> HIDE DEF j
      <4> QED BY <2>3, <3>1
    <3>3. Reverse(s)[i] = s[j] /\ Reverse(t)[i] = t[(Len(t) - i) + 1]
      BY <2>1
    <3> HIDE DEF j
    <3> QED BY <3>1, <3>2, <3>3
  <2> QED BY <2>2, <2>3
<1> QED BY <1>3, <1>4

----------------------------------------------------------------------------
(* Numbers.                                                                *)

\* Every set of numbers has a least one.
LEMMA LeastNumber ==
    ASSUME NEW T \in SUBSET Nat, T # {}
    PROVE  \E n \in T : \A m \in T : n <= m
<1>1. PICK n \in T : \A m \in T : <<m, n>> \notin OpToRel(<, Nat)
  BY NatLessThanWellFounded, WFMin
<1>2. \A m \in T : <<m, n>> \in OpToRel(<, Nat) <=> m < n
  BY Zenon DEF OpToRel
<1>3. \A m \in T : ~(m < n)
  BY <1>1, <1>2, Zenon
<1>4. \A m \in T : m \in Int /\ n \in Int
  OBVIOUS
<1> QED BY <1>3, <1>4

\* A bounded set of numbers has a greatest one.
LEMMA GreatestNumber ==
    ASSUME NEW T \in SUBSET Nat, T # {}, NEW bound \in Nat, \A n \in T : n <= bound
    PROVE  \E n \in T : \A m \in T : m <= n
<1> DEFINE Gaps == {bound - n : n \in T}
<1>1. \A n \in T : bound - n \in Nat
  OBVIOUS
<1>2. Gaps \in SUBSET Nat /\ Gaps # {}
  BY <1>1
<1>3. PICK gap \in Gaps : \A other \in Gaps : gap <= other
  BY <1>2, LeastNumber
<1>4. PICK n \in T : gap = bound - n
  OBVIOUS
<1>5. \A m \in T : bound - n <= bound - m
  BY <1>3, <1>4
<1> QED BY <1>5

----------------------------------------------------------------------------
(* Decoding.                                                               *)

\* A whole character begins here.
WholeAt(bytes, i) ==
    /\ bytes[i] = Lead
    /\ i + 2 <= Len(bytes)
    /\ bytes[i + 1] = Cont
    /\ bytes[i + 2] = Cont

\* How many bytes the decoder takes at a time
Width(bytes, i) ==
    IF WholeAt(bytes, i) THEN 3
    ELSE IF bytes[i] = Lead /\ i + 1 <= Len(bytes) /\ bytes[i + 1] = Cont THEN 2
    ELSE 1

\* What it gives for them
SymbolAt(bytes, i) ==
    IF WholeAt(bytes, i) THEN Wide
    ELSE IF bytes[i] \in {Lead, Cont} THEN Bad
    ELSE bytes[i]

\* The text from a byte on, by that from a later one on
TextStep(bytes, text) ==
    [i \in 1..(Len(bytes) + 1) |->
        IF i > Len(bytes) THEN <<>>
        ELSE <<SymbolAt(bytes, i)>> \o text[i + Width(bytes, i)]]

\* The function of Lossy
TextsFrom(bytes) == CHOOSE text : text = TextStep(bytes, text)

\* Texts of which those from the last k bytes on are right
RightTexts(bytes, k) ==
    {text \in [1..(Len(bytes) + 1) -> Strings] :
        \A i \in 1..(Len(bytes) + 1) :
            i + k > Len(bytes) => text[i] = TextStep(bytes, text)[i]}

\* A step takes at least one byte, and none beyond the end.
LEMMA WidthIs ==
    ASSUME NEW bytes \in Strings, NEW i \in 1..Len(bytes)
    PROVE  /\ Width(bytes, i) \in 1..3 /\ i + Width(bytes, i) \in (i + 1)..(Len(bytes) + 1)
           /\ SymbolAt(bytes, i) \in Symbols
<1>1. Len(bytes) \in Nat
  BY LenProperties DEF Strings
<1>2. bytes[i] \in Symbols
  BY ElementOfSeq DEF Strings
<1>3. Wide \in Symbols /\ Bad \in Symbols
  BY DEF Symbols
<1>4. SymbolAt(bytes, i) \in Symbols
  BY <1>2, <1>3 DEF SymbolAt
<1> QED BY <1>1, <1>4 DEF Width, WholeAt

\* Lossy takes these steps.
LEMMA LossySteps ==
    ASSUME NEW bytes \in Strings
    PROVE  Lossy(bytes) = TextsFrom(bytes)[1]
<1>1. Len(bytes) \in Nat
  BY LenProperties DEF Strings
<1> DEFINE IsCont(i) == i <= Len(bytes) /\ bytes[i] = Cont
           Step(text) ==
               [i \in 1..(Len(bytes) + 1) |->
                   IF i > Len(bytes) THEN <<>> ELSE
                   CASE bytes[i] = Lead /\ IsCont(i + 1) /\ IsCont(i + 2) ->
                          <<Wide>> \o text[i + 3]
                     [] bytes[i] = Lead /\ IsCont(i + 1) /\ ~IsCont(i + 2) ->
                          <<Bad>> \o text[i + 2]
                     [] bytes[i] = Lead /\ ~IsCont(i + 1) -> <<Bad>> \o text[i + 1]
                     [] bytes[i] = Cont -> <<Bad>> \o text[i + 1]
                     [] OTHER -> <<bytes[i]>> \o text[i + 1]]
<1>2. Lossy(bytes) = (CHOOSE text : text = Step(text))[1]
  BY Zenon DEF Lossy
<1>3. ASSUME NEW text
      PROVE  Step(text) = TextStep(bytes, text)
  <2>1. ASSUME NEW i \in 1..(Len(bytes) + 1)
        PROVE  Step(text)[i] = TextStep(bytes, text)[i]
    <3>1. CASE i > Len(bytes)
      BY <3>1 DEF TextStep
    <3>2. CASE i <= Len(bytes)
      <4>1. TextStep(bytes, text)[i] = <<SymbolAt(bytes, i)>> \o text[i + Width(bytes, i)]
        BY <1>1, <3>2 DEF TextStep
      <4>2. CASE bytes[i] = Lead /\ IsCont(i + 1) /\ IsCont(i + 2)
        <5>1. Step(text)[i] = <<Wide>> \o text[i + 3]
          BY <1>1, <3>2, <4>2, TextAssumption
        <5>2. SymbolAt(bytes, i) = Wide /\ Width(bytes, i) = 3
          BY <1>1, <4>2 DEF SymbolAt, Width, WholeAt
        <5> QED BY <4>1, <5>1, <5>2
      <4>3. CASE bytes[i] = Lead /\ IsCont(i + 1) /\ ~IsCont(i + 2)
        <5>1. Step(text)[i] = <<Bad>> \o text[i + 2]
          BY <1>1, <3>2, <4>3, TextAssumption
        <5>2. SymbolAt(bytes, i) = Bad /\ Width(bytes, i) = 2
          BY <1>1, <4>3 DEF SymbolAt, Width, WholeAt
        <5> QED BY <4>1, <5>1, <5>2
      <4>4. CASE bytes[i] = Lead /\ ~IsCont(i + 1)
        <5>1. Step(text)[i] = <<Bad>> \o text[i + 1]
          BY <1>1, <3>2, <4>4
        <5>2. SymbolAt(bytes, i) = Bad /\ Width(bytes, i) = 1
          BY <1>1, <4>4 DEF SymbolAt, Width, WholeAt
        <5> QED BY <4>1, <5>1, <5>2
      <4>5. CASE bytes[i] = Cont
        <5>1. Step(text)[i] = <<Bad>> \o text[i + 1]
          BY <1>1, <3>2, <4>5, TextAssumption
        <5>2. SymbolAt(bytes, i) = Bad /\ Width(bytes, i) = 1
          BY <1>1, <4>5, TextAssumption DEF SymbolAt, Width, WholeAt
        <5> QED BY <4>1, <5>1, <5>2
      <4>6. CASE bytes[i] # Lead /\ bytes[i] # Cont
        <5>1. Step(text)[i] = <<bytes[i]>> \o text[i + 1]
          BY <1>1, <3>2, <4>6
        <5>2. SymbolAt(bytes, i) = bytes[i] /\ Width(bytes, i) = 1
          BY <1>1, <4>6 DEF SymbolAt, Width, WholeAt
        <5> QED BY <4>1, <5>1, <5>2
      <4> HIDE DEF IsCont, Step
      <4> QED BY <4>2, <4>3, <4>4, <4>5, <4>6, Zenon
    <3> QED BY <1>1, <3>1, <3>2
  <2>2. /\ Step(text) = [i \in 1..(Len(bytes) + 1) |-> Step(text)[i]]
        /\ TextStep(bytes, text) = [i \in 1..(Len(bytes) + 1) |-> TextStep(bytes, text)[i]]
    BY DEF TextStep
  <2> HIDE DEF Step
  <2> QED BY <2>1, <2>2
<1> HIDE DEF Step
<1>4. (CHOOSE text : text = Step(text)) = CHOOSE text : text = TextStep(bytes, text)
  BY <1>3, Zenon
<1> QED BY <1>2, <1>4, Zenon DEF TextsFrom

\* There are texts that are right from every byte on.
LEMMA RightTextsExist ==
    ASSUME NEW bytes \in Strings
    PROVE  RightTexts(bytes, Len(bytes)) # {}
<1>1. Len(bytes) \in Nat
  BY LenProperties DEF Strings
<1>2. <<>> \in Strings
  BY EmptySeq DEF Strings
<1>3. RightTexts(bytes, 0) # {}
  <2> DEFINE text == [i \in 1..(Len(bytes) + 1) |-> <<>>]
  <2>1. text \in [1..(Len(bytes) + 1) -> Strings]
    BY <1>2
  <2>2. \A i \in 1..(Len(bytes) + 1) :
            i + 0 > Len(bytes) => text[i] = TextStep(bytes, text)[i]
    BY <1>1 DEF TextStep
  <2> HIDE DEF text
  <2> QED BY <2>1, <2>2 DEF RightTexts
<1>4. ASSUME NEW k \in 0..(Len(bytes) - 1), RightTexts(bytes, k) # {}
      PROVE  RightTexts(bytes, k + 1) # {}
  <2> DEFINE n == Len(bytes) - k
  <2>1. n \in 1..Len(bytes)
    BY <1>1
  <2>2. PICK old \in RightTexts(bytes, k) : TRUE
    BY <1>4
  <2>3. /\ old \in [1..(Len(bytes) + 1) -> Strings]
        /\ \A i \in 1..(Len(bytes) + 1) :
               i + k > Len(bytes) => old[i] = TextStep(bytes, old)[i]
    BY <2>2 DEF RightTexts
  <2> DEFINE more == TextStep(bytes, old)[n]
             text == [old EXCEPT ![n] = more]
  <2>4. more \in Strings
    <3>1. more = <<SymbolAt(bytes, n)>> \o old[n + Width(bytes, n)]
      BY <1>1, <2>1 DEF TextStep
    <3>2. SymbolAt(bytes, n) \in Symbols /\ n + Width(bytes, n) \in 1..(Len(bytes) + 1)
      BY <1>1, <2>1, WidthIs
    <3>3. old[n + Width(bytes, n)] \in Seq(Symbols) /\ <<SymbolAt(bytes, n)>> \in Seq(Symbols)
      BY <2>3, <3>2 DEF Strings
    <3> QED BY <3>1, <3>3, ConcatProperties DEF Strings
  <2> HIDE DEF more
  <2>5. text \in [1..(Len(bytes) + 1) -> Strings]
    BY <1>1, <2>1, <2>3, <2>4
  <2>6. \A i \in 1..(Len(bytes) + 1) : i # n => text[i] = old[i]
    BY <1>1, <2>3
  <2>7. text[n] = more
    BY <1>1, <2>1, <2>3
  <2> HIDE DEF text
  <2>8. ASSUME NEW i \in 1..(Len(bytes) + 1), i >= n
        PROVE  TextStep(bytes, text)[i] = TextStep(bytes, old)[i]
    <3>1. CASE i > Len(bytes)
      BY <3>1 DEF TextStep
    <3>2. CASE i <= Len(bytes)
      <4>1. /\ TextStep(bytes, text)[i] = <<SymbolAt(bytes, i)>> \o text[i + Width(bytes, i)]
            /\ TextStep(bytes, old)[i] = <<SymbolAt(bytes, i)>> \o old[i + Width(bytes, i)]
        BY <1>1, <3>2 DEF TextStep
      <4>2. i + Width(bytes, i) \in 1..(Len(bytes) + 1) /\ i + Width(bytes, i) # n
        <5>1. i \in 1..Len(bytes)
          BY <1>1, <3>2
        <5> QED BY <1>1, <2>1, <2>8, <5>1, WidthIs
      <4> QED BY <2>6, <4>1, <4>2
    <3> QED BY <1>1, <3>1, <3>2
  <2>9. \A i \in 1..(Len(bytes) + 1) :
            i + (k + 1) > Len(bytes) => text[i] = TextStep(bytes, text)[i]
    <3> TAKE i \in 1..(Len(bytes) + 1)
    <3> HAVE i + (k + 1) > Len(bytes)
    <3>1. i >= n
      BY <1>1
    <3>2. CASE i = n
      BY <2>7, <2>8, <3>1, <3>2 DEF more
    <3>3. CASE i # n
      <4>1. i + k > Len(bytes)
        BY <1>1, <3>1, <3>3
      <4> QED BY <2>3, <2>6, <2>8, <3>1, <3>3, <4>1
    <3> QED BY <3>2, <3>3
  <2>10. text \in RightTexts(bytes, k + 1)
    BY <2>5, <2>9 DEF RightTexts
  <2> QED BY <2>10
<1> DEFINE T == {k \in 0..Len(bytes) : RightTexts(bytes, k) = {}}
<1>5. ASSUME T # {} PROVE FALSE
  <2>1. T \in SUBSET Nat
    BY <1>1
  <2>2. PICK k \in T : \A m \in T : k <= m
    BY <1>5, <2>1, LeastNumber
  <2>3. k # 0 /\ k \in 0..Len(bytes)
    BY <1>3, <2>2
  <2>4. k - 1 \in 0..(Len(bytes) - 1) /\ k - 1 \in 0..Len(bytes) /\ ~(k <= k - 1) /\ (k - 1) + 1 = k
    BY <1>1, <2>3
  <2>5. RightTexts(bytes, k - 1) # {}
    BY <2>2, <2>4
  <2>6. RightTexts(bytes, (k - 1) + 1) # {}
    <3> HIDE DEF T
    <3> QED BY <1>4, <2>4, <2>5
  <2> QED BY <2>2, <2>4, <2>6
<1>6. Len(bytes) \in 0..Len(bytes)
  BY <1>1
<1> QED BY <1>5, <1>6

\* The texts from every byte on
LEMMA TextsAre ==
    ASSUME NEW bytes \in Strings
    PROVE  /\ TextsFrom(bytes)[Len(bytes) + 1] = <<>>
           /\ \A i \in 1..Len(bytes) :
                  TextsFrom(bytes)[i] =
                      <<SymbolAt(bytes, i)>> \o TextsFrom(bytes)[i + Width(bytes, i)]
           /\ \A i \in 1..(Len(bytes) + 1) : TextsFrom(bytes)[i] \in Strings
<1>1. Len(bytes) \in Nat
  BY LenProperties DEF Strings
<1> DEFINE f == TextsFrom(bytes)
<1>2. f = TextStep(bytes, f)
  <2>1. PICK text \in RightTexts(bytes, Len(bytes)) : TRUE
    BY RightTextsExist
  <2>2. /\ text \in [1..(Len(bytes) + 1) -> Strings]
        /\ \A i \in 1..(Len(bytes) + 1) : text[i] = TextStep(bytes, text)[i]
    BY <1>1, <2>1 DEF RightTexts
  <2>3. /\ text = [i \in 1..(Len(bytes) + 1) |-> text[i]]
        /\ TextStep(bytes, text) = [i \in 1..(Len(bytes) + 1) |-> TextStep(bytes, text)[i]]
    BY <2>2 DEF TextStep
  <2>4. text = TextStep(bytes, text)
    BY <2>2, <2>3
  <2> QED BY <2>4, Zenon DEF TextsFrom
<1> HIDE DEF f
<1>3. f[Len(bytes) + 1] = <<>>
  <2>1. TextStep(bytes, f)[Len(bytes) + 1] = <<>>
    BY <1>1 DEF TextStep
  <2> QED BY <1>2, <2>1
<1>4. \A i \in 1..Len(bytes) : f[i] = <<SymbolAt(bytes, i)>> \o f[i + Width(bytes, i)]
  <2> TAKE i \in 1..Len(bytes)
  <2>1. TextStep(bytes, f)[i] = <<SymbolAt(bytes, i)>> \o f[i + Width(bytes, i)]
    BY <1>1 DEF TextStep
  <2> QED BY <1>2, <2>1
<1> DEFINE T == {i \in 1..(Len(bytes) + 1) : f[i] \notin Strings}
<1>5. ASSUME T # {} PROVE FALSE
  <2>1. T \in SUBSET Nat /\ \A i \in T : i <= Len(bytes) + 1
    BY <1>1
  <2>2. PICK i \in T : \A m \in T : m <= i
    <3>1. Len(bytes) + 1 \in Nat
      BY <1>1
    <3> HIDE DEF T
    <3> QED BY <1>5, <2>1, <3>1, GreatestNumber
  <2>3. i # Len(bytes) + 1
    BY <1>3, <2>2, EmptySeq DEF Strings
  <2>4. i \in 1..Len(bytes)
    BY <1>1, <2>2, <2>3
  <2>5. /\ SymbolAt(bytes, i) \in Symbols
        /\ i + Width(bytes, i) \in 1..(Len(bytes) + 1) /\ ~(i + Width(bytes, i) <= i)
    BY <1>1, <2>4, WidthIs
  <2>6. f[i + Width(bytes, i)] \in Seq(Symbols) /\ <<SymbolAt(bytes, i)>> \in Seq(Symbols)
    BY <2>2, <2>5 DEF Strings
  <2>7. f[i] \in Strings
    BY <1>4, <2>4, <2>6, ConcatProperties DEF Strings
  <2> QED BY <2>2, <2>7
<1> QED BY <1>3, <1>4, <1>5 DEF f

\* A text is a text again; nothing is read from nothing.
LEMMA LossyIsText ==
    /\ \A bytes \in Strings : Lossy(bytes) \in Strings
    /\ Lossy(<<>>) = <<>>
<1>1. ASSUME NEW bytes \in Strings PROVE Lossy(bytes) \in Strings
  <2>1. 1 \in 1..(Len(bytes) + 1)
    BY LenProperties DEF Strings
  <2> QED BY <2>1, LossySteps, TextsAre
<1>2. <<>> \in Strings /\ Len(<<>>) + 1 = 1
  BY EmptySeq DEF Strings
<1>3. Lossy(<<>>) = TextsFrom(<<>>)[Len(<<>>) + 1]
  BY <1>2, LossySteps
<1> QED BY <1>1, <1>2, <1>3, TextsAre

\* No character reaches over the border between the two texts.
Apart(before, after) ==
    after # <<>> /\ after[1] = Cont =>
        \A i \in 1..Len(before) : i + 1 >= Len(before) => before[i] # Lead

\* Then they may be decoded one after the other.
LEMMA LossyOfJoin ==
    ASSUME NEW x \in Strings, NEW y \in Strings, Apart(x, y)
    PROVE  Lossy(x \o y) = Lossy(x) \o Lossy(y)
<1> DEFINE xy == x \o y
           f == TextsFrom(xy)
           fx == TextsFrom(x)
           fy == TextsFrom(y)
<1>1. Len(x) \in Nat /\ Len(y) \in Nat
  BY LenProperties DEF Strings
<1>2. /\ xy \in Strings /\ Len(xy) = Len(x) + Len(y)
      /\ \A i \in 1..Len(x) : xy[i] = x[i]
      /\ \A i \in 1..Len(y) : xy[Len(x) + i] = y[i]
  BY JoinIs DEF Strings
<1>3. /\ f[Len(xy) + 1] = <<>>
      /\ \A i \in 1..Len(xy) : f[i] = <<SymbolAt(xy, i)>> \o f[i + Width(xy, i)]
      /\ \A i \in 1..(Len(xy) + 1) : f[i] \in Strings
  BY <1>2, TextsAre
<1>4. /\ fx[Len(x) + 1] = <<>>
      /\ \A i \in 1..Len(x) : fx[i] = <<SymbolAt(x, i)>> \o fx[i + Width(x, i)]
      /\ \A i \in 1..(Len(x) + 1) : fx[i] \in Strings
  BY TextsAre
<1>5. /\ fy[Len(y) + 1] = <<>>
      /\ \A i \in 1..Len(y) : fy[i] = <<SymbolAt(y, i)>> \o fy[i + Width(y, i)]
      /\ \A i \in 1..(Len(y) + 1) : fy[i] \in Strings
  BY TextsAre
<1> HIDE DEF xy, f, fx, fy
<1>6. ASSUME NEW i \in 1..Len(y)
      PROVE  Width(xy, Len(x) + i) = Width(y, i) /\ SymbolAt(xy, Len(x) + i) = SymbolAt(y, i)
  <2>1. xy[Len(x) + i] = y[i]
    BY <1>2
  <2>2. i + 1 <= Len(y) <=> (Len(x) + i) + 1 <= Len(xy)
    BY <1>1, <1>2
  <2>3. i + 2 <= Len(y) <=> (Len(x) + i) + 2 <= Len(xy)
    BY <1>1, <1>2
  <2>4. i + 1 <= Len(y) => xy[(Len(x) + i) + 1] = y[i + 1]
    <3> HAVE i + 1 <= Len(y)
    <3>1. i + 1 \in 1..Len(y) /\ Len(x) + (i + 1) = (Len(x) + i) + 1
      BY <1>1
    <3>2. xy[Len(x) + (i + 1)] = y[i + 1]
      BY <1>2, <3>1
    <3> QED BY <3>1, <3>2
  <2>5. i + 2 <= Len(y) => xy[(Len(x) + i) + 2] = y[i + 2] /\ i + 1 <= Len(y)
    <3> HAVE i + 2 <= Len(y)
    <3>1. i + 2 \in 1..Len(y) /\ Len(x) + (i + 2) = (Len(x) + i) + 2 /\ i + 1 <= Len(y)
      BY <1>1
    <3>2. xy[Len(x) + (i + 2)] = y[i + 2]
      BY <1>2, <3>1
    <3> QED BY <3>1, <3>2
  <2>6. WholeAt(xy, Len(x) + i) <=> WholeAt(y, i)
    BY <2>1, <2>3, <2>4, <2>5 DEF WholeAt
  <2> QED BY <2>1, <2>2, <2>4, <2>6 DEF Width, SymbolAt
<1>7. ASSUME NEW i \in 1..Len(x)
      PROVE  Width(xy, i) = Width(x, i) /\ SymbolAt(xy, i) = SymbolAt(x, i)
  <2>1. xy[i] = x[i]
    BY <1>2
  <2>2. CASE i + 2 <= Len(x)
    <3>1. /\ i + 1 \in 1..Len(x) /\ i + 2 \in 1..Len(x) /\ i + 1 <= Len(x)
          /\ i + 1 <= Len(xy) /\ i + 2 <= Len(xy)
      BY <1>1, <1>2, <2>2
    <3>2. xy[i + 1] = x[i + 1] /\ xy[i + 2] = x[i + 2]
      BY <1>2, <3>1
    <3> QED BY <2>1, <2>2, <3>1, <3>2 DEF Width, SymbolAt, WholeAt
  <2>3. CASE x[i] # Lead
    BY <2>1, <2>3 DEF Width, SymbolAt, WholeAt
  <2>4. CASE ~(i + 2 <= Len(x)) /\ x[i] = Lead
    <3>1. i + 1 >= Len(x)
      BY <1>1, <2>4
    <3>2. y = <<>> \/ y[1] # Cont
      BY <2>4, <3>1 DEF Apart
    <3>3. CASE y = <<>>
      <4>1. xy = x
        BY <3>3, ConcatEmptySeq DEF xy, Strings
      <4> QED BY <4>1
    <3>4. CASE y # <<>> /\ y[1] # Cont
      <4>1. Len(y) > 0 /\ xy[Len(x) + 1] # Cont
        <5>1. Len(y) \in Nat \ {0}
          BY <3>4, EmptySeq DEF Strings
        <5>2. 1 \in 1..Len(y)
          BY <5>1
        <5> QED BY <1>2, <3>4, <5>1, <5>2
      <4>2. ~WholeAt(x, i)
        BY <2>4 DEF WholeAt
      <4>3. CASE i = Len(x)
        BY <1>1, <1>2, <2>1, <2>4, <4>1, <4>2, <4>3 DEF Width, SymbolAt, WholeAt
      <4>4. CASE i # Len(x)
        <5>1. i + 1 = Len(x) /\ i + 2 = Len(x) + 1 /\ i + 1 \in 1..Len(x)
          BY <1>1, <3>1, <4>4
        <5>2. xy[i + 1] = x[i + 1] /\ i + 1 <= Len(xy) /\ i + 1 <= Len(x)
          BY <1>1, <1>2, <5>1
        <5>3. ~WholeAt(xy, i)
          BY <4>1, <5>1 DEF WholeAt
        <5> QED BY <2>1, <4>2, <5>2, <5>3 DEF Width, SymbolAt
      <4> QED BY <4>3, <4>4
    <3> QED BY <3>2, <3>3, <3>4
  <2> QED BY <2>2, <2>3, <2>4
<1> DEFINE T == {j \in 1..(Len(y) + 1) : f[Len(x) + j] # fy[j]}
<1>8. ASSUME T # {} PROVE FALSE
  <2>1. T \in SUBSET Nat /\ (\A j \in T : j <= Len(y) + 1) /\ Len(y) + 1 \in Nat
    BY <1>1
  <2>2. PICK j \in T : \A m \in T : m <= j
    <3> HIDE DEF T
    <3> QED BY <1>8, <2>1, GreatestNumber
  <2>3. j # Len(y) + 1
    <3>1. Len(x) + (Len(y) + 1) = Len(xy) + 1
      BY <1>1, <1>2
    <3>2. f[Len(x) + (Len(y) + 1)] = fy[Len(y) + 1]
      BY <1>3, <1>5, <3>1
    <3> QED BY <2>2, <3>2
  <2>4. j \in 1..Len(y)
    BY <1>1, <2>2, <2>3
  <2> DEFINE k == j + Width(y, j)
  <2>5. k \in 1..(Len(y) + 1) /\ ~(k <= j)
    BY <1>1, <2>4, WidthIs
  <2>6. f[Len(x) + k] = fy[k]
    <3> HIDE DEF k
    <3> QED BY <2>2, <2>5
  <2>7. Len(x) + j \in 1..Len(xy)
    BY <1>1, <1>2, <2>4
  <2>8. f[Len(x) + j] = <<SymbolAt(y, j)>> \o f[(Len(x) + j) + Width(y, j)]
    BY <1>3, <1>6, <2>4, <2>7
  <2>9. (Len(x) + j) + Width(y, j) = Len(x) + k
    <3>1. Width(y, j) \in 1..3
      BY <2>4, WidthIs
    <3> QED BY <1>1, <2>4, <3>1
  <2>10. fy[j] = <<SymbolAt(y, j)>> \o fy[k]
    BY <1>5, <2>4
  <2> QED BY <2>2, <2>6, <2>8, <2>9, <2>10
<1>9. f[Len(x) + 1] = fy[1]
  <2>1. 1 \in 1..(Len(y) + 1)
    BY <1>1
  <2> QED BY <1>8, <2>1
<1> HIDE DEF T
<1> DEFINE X == {i \in 1..(Len(x) + 1) : f[i] # fx[i] \o fy[1]}
<1>10. fy[1] \in Seq(Symbols)
  BY <1>1, <1>5 DEF Strings
<1>11. ASSUME X # {} PROVE FALSE
  <2>1. X \in SUBSET Nat /\ (\A i \in X : i <= Len(x) + 1) /\ Len(x) + 1 \in Nat
    <3>1. X \in SUBSET (1..(Len(x) + 1))
      BY Zenon
    <3> HIDE DEF X
    <3> QED BY <1>1, <3>1
  <2>2. PICK i \in X : \A m \in X : m <= i
    <3> HIDE DEF X
    <3> QED BY <1>11, <2>1, GreatestNumber
  <2>3. i # Len(x) + 1
    <3>1. fx[Len(x) + 1] \o fy[1] = fy[1]
      BY <1>4, <1>10, ConcatEmptySeq
    <3> QED BY <1>9, <2>2, <3>1
  <2>4. i \in 1..Len(x)
    BY <1>1, <2>2, <2>3
  <2> DEFINE k == i + Width(x, i)
  <2>5. k \in 1..(Len(x) + 1) /\ ~(k <= i) /\ SymbolAt(x, i) \in Symbols
    BY <1>1, <2>4, WidthIs
  <2>6. f[k] = fx[k] \o fy[1]
    <3> HIDE DEF k
    <3> QED BY <2>2, <2>5
  <2>7. i \in 1..Len(xy)
    BY <1>1, <1>2, <2>4
  <2>8. f[i] = <<SymbolAt(x, i)>> \o f[k]
    BY <1>3, <1>7, <2>4, <2>7
  <2>9. fx[i] = <<SymbolAt(x, i)>> \o fx[k]
    BY <1>4, <2>4
  <2>10. fx[k] \in Seq(Symbols) /\ <<SymbolAt(x, i)>> \in Seq(Symbols)
    <3> HIDE DEF k
    <3> QED BY <1>4, <2>5 DEF Strings
  <2> DEFINE one == <<SymbolAt(x, i)>>
             rest == fx[k]
             tail == fy[1]
  <2>11. one \in Seq(Symbols) /\ rest \in Seq(Symbols) /\ tail \in Seq(Symbols)
    BY <1>10, <2>10
  <2>12. (one \o rest) \o tail = one \o (rest \o tail)
    <3> HIDE DEF one, rest, tail
    <3> QED BY <2>11, ConcatAssociative
  <2>13. f[i] = fx[i] \o fy[1]
    BY <2>6, <2>8, <2>9, <2>12
  <2> QED BY <2>2, <2>13
<1>12. f[1] = fx[1] \o fy[1]
  <2>1. 1 \in 1..(Len(x) + 1)
    BY <1>1
  <2> QED BY <1>11, <2>1
<1>13. Lossy(x \o y) = f[1] /\ Lossy(x) = fx[1] /\ Lossy(y) = fy[1]
  BY <1>2, LossySteps DEF f, fx, fy, xy
<1> QED BY <1>12, <1>13

\* The decoder stops here: at the end, or before a character that may still be completed.
StopsAt(bytes, n) == n = Len(bytes) \/ (n + 3 > Len(bytes) /\ bytes[n + 1] = Lead)

\* Where it stops first from a byte on
Stopping(bytes, from) ==
    {n \in from..Len(bytes) :
        StopsAt(bytes, n) /\ \A m \in from..Len(bytes) : StopsAt(bytes, m) => n <= m}

\* Decodable is the first place at which the decoder stops.
LEMMA DecodableIs ==
    ASSUME NEW bytes \in Strings
    PROVE  Decodable(bytes) \in Stopping(bytes, 0)
<1>1. Len(bytes) \in Nat
  BY LenProperties DEF Strings
<1> DEFINE L == Len(bytes)
           Step(upto) ==
               [i \in 0..Len(bytes) |->
                   IF i = Len(bytes) THEN i
                   ELSE IF bytes[i + 1] # Lead THEN upto[i + 1]
                   ELSE IF i + 3 > Len(bytes) THEN i
                   ELSE IF bytes[i + 2] = Cont /\ bytes[i + 3] = Cont THEN upto[i + 3]
                   ELSE upto[i + 1]]
           f == CHOOSE upto : upto = Step(upto)
           g == [i \in 0..Len(bytes) |-> CHOOSE n \in Stopping(bytes, i) : TRUE]
<1>2. Decodable(bytes) = f[0]
  BY Zenon DEF Decodable
<1>3. ASSUME NEW i \in 0..Len(bytes)
      PROVE  Stopping(bytes, i) # {}
  <2> DEFINE T == {n \in i..Len(bytes) : StopsAt(bytes, n)}
  <2>1. T \in SUBSET Nat /\ Len(bytes) \in T
    BY <1>1 DEF StopsAt
  <2>2. PICK n \in T : \A m \in T : n <= m
    <3> HIDE DEF T
    <3> QED BY <2>1, LeastNumber
  <2>3. n \in Stopping(bytes, i)
    BY <2>2 DEF Stopping
  <2> QED BY <2>3
<1>4. \A i \in 0..Len(bytes) : \A n, m \in Stopping(bytes, i) : n = m
  <2> TAKE i \in 0..Len(bytes)
  <2> TAKE n, m \in Stopping(bytes, i)
  <2>1. n \in i..Len(bytes) /\ m \in i..Len(bytes) /\ n <= m /\ m <= n
    BY DEF Stopping
  <2> QED BY <1>1, <2>1
<1>5. ASSUME NEW i \in 0..Len(bytes), StopsAt(bytes, i)
      PROVE  i \in Stopping(bytes, i)
  BY <1>1, <1>5 DEF Stopping
<1>6. ASSUME NEW i \in 0..Len(bytes), NEW k \in (i + 1)..Len(bytes),
             \A m \in i..(k - 1) : ~StopsAt(bytes, m),
             NEW n \in Stopping(bytes, k)
      PROVE  n \in Stopping(bytes, i)
  <2>1. /\ n \in k..Len(bytes) /\ StopsAt(bytes, n)
        /\ \A m \in k..Len(bytes) : StopsAt(bytes, m) => n <= m
    BY DEF Stopping
  <2>2. \A m \in i..Len(bytes) : StopsAt(bytes, m) => n <= m
    <3> TAKE m \in i..Len(bytes)
    <3> HAVE StopsAt(bytes, m)
    <3>1. m \notin i..(k - 1)
      BY <1>6
    <3>2. m \in k..Len(bytes)
      BY <1>1, <3>1
    <3> QED BY <2>1, <3>2
  <2>3. n \in i..Len(bytes)
    BY <1>1, <2>1
  <2> QED BY <2>1, <2>2, <2>3 DEF Stopping
<1>7. ASSUME NEW h, NEW i \in 0..Len(bytes),
             \A k \in (i + 1)..Len(bytes) : h[k] \in Stopping(bytes, k)
      PROVE  Step(h)[i] \in Stopping(bytes, i)
  <2>1. CASE i = Len(bytes)
    <3>1. Step(h)[i] = i /\ StopsAt(bytes, i)
      BY <2>1 DEF StopsAt
    <3> QED BY <1>5, <3>1
  <2>2. CASE i # Len(bytes) /\ bytes[i + 1] # Lead
    <3>1. Step(h)[i] = h[i + 1] /\ i + 1 \in (i + 1)..Len(bytes) /\ ~StopsAt(bytes, i)
      BY <1>1, <2>2 DEF StopsAt
    <3>2. \A m \in i..((i + 1) - 1) : m = i
      OBVIOUS
    <3> HIDE DEF Step
    <3> QED BY <1>6, <1>7, <3>1, <3>2
  <2>3. CASE i # Len(bytes) /\ bytes[i + 1] = Lead /\ i + 3 > Len(bytes)
    <3>1. Step(h)[i] = i /\ StopsAt(bytes, i)
      BY <2>3 DEF StopsAt
    <3> QED BY <1>5, <3>1
  <2>4. CASE /\ i # Len(bytes) /\ bytes[i + 1] = Lead /\ i + 3 <= Len(bytes)
             /\ bytes[i + 2] = Cont /\ bytes[i + 3] = Cont
    <3>1. Step(h)[i] = h[i + 3] /\ i + 3 \in (i + 1)..Len(bytes)
      BY <1>1, <2>4
    <3>2. ~StopsAt(bytes, i) /\ ~StopsAt(bytes, i + 1) /\ ~StopsAt(bytes, i + 2)
      <4>1. (i + 1) + 1 = i + 2 /\ (i + 2) + 1 = i + 3
        BY <1>1
      <4>2. ~StopsAt(bytes, i)
        BY <1>1, <2>4 DEF StopsAt
      <4>3. bytes[(i + 1) + 1] # Lead /\ bytes[(i + 2) + 1] # Lead
        BY <2>4, <4>1, TextAssumption
      <4>4. i + 1 # Len(bytes) /\ i + 2 # Len(bytes)
        BY <1>1, <2>4
      <4> QED BY <4>2, <4>3, <4>4 DEF StopsAt
    <3>3. \A m \in i..((i + 3) - 1) : m = i \/ m = i + 1 \/ m = i + 2
      OBVIOUS
    <3>4. \A m \in i..((i + 3) - 1) : ~StopsAt(bytes, m)
      BY <3>2, <3>3
    <3>5. h[i + 3] \in Stopping(bytes, i + 3)
      BY <1>7, <3>1
    <3> HIDE DEF Step
    <3> QED BY <1>6, <3>1, <3>4, <3>5
  <2>5. CASE /\ i # Len(bytes) /\ bytes[i + 1] = Lead /\ i + 3 <= Len(bytes)
             /\ ~(bytes[i + 2] = Cont /\ bytes[i + 3] = Cont)
    <3>1. Step(h)[i] = h[i + 1] /\ i + 1 \in (i + 1)..Len(bytes) /\ ~StopsAt(bytes, i)
      BY <1>1, <2>5 DEF StopsAt
    <3>2. \A m \in i..((i + 1) - 1) : m = i
      OBVIOUS
    <3> HIDE DEF Step
    <3> QED BY <1>6, <1>7, <3>1, <3>2
  <2>6. i + 3 <= Len(bytes) \/ i + 3 > Len(bytes)
    BY <1>1
  <2> HIDE DEF Step
  <2> QED BY <2>1, <2>2, <2>3, <2>4, <2>5, <2>6, Zenon
<1>8. f = Step(f)
  <2>1. \A k \in 0..Len(bytes) : g[k] \in Stopping(bytes, k)
    BY <1>3
  <2>2. ASSUME NEW i \in 0..Len(bytes) PROVE g[i] = Step(g)[i]
    <3>1. \A k \in (i + 1)..Len(bytes) : g[k] \in Stopping(bytes, k)
      <4> HIDE DEF g
      <4> QED BY <1>1, <2>1
    <3>2. Step(g)[i] \in Stopping(bytes, i)
      <4> HIDE DEF g, Step
      <4> QED BY <1>7, <3>1
    <3> HIDE DEF g, Step
    <3> QED BY <1>4, <2>1, <3>2
  <2>3. /\ g = [i \in 0..Len(bytes) |-> g[i]]
        /\ Step(g) = [i \in 0..Len(bytes) |-> Step(g)[i]]
    <3> HIDE DEF g
    <3>1. Step(g) = [i \in 0..Len(bytes) |-> Step(g)[i]]
      OBVIOUS
    <3> QED BY <3>1 DEF g
  <2>4. g = Step(g)
    <3> HIDE DEF g, Step
    <3> QED BY <2>2, <2>3
  <2> HIDE DEF g, Step
  <2> QED BY <2>4, Zenon
<1> DEFINE T == {i \in 0..Len(bytes) : f[i] \notin Stopping(bytes, i)}
<1> HIDE DEF f, Step, g
<1>9. ASSUME T # {} PROVE FALSE
  <2>1. T \in SUBSET Nat /\ \A i \in T : i <= Len(bytes)
    BY <1>1
  <2>2. PICK i \in T : \A m \in T : m <= i
    <3> HIDE DEF T
    <3> QED BY <1>1, <1>9, <2>1, GreatestNumber
  <2>3. \A k \in (i + 1)..Len(bytes) : k \in 0..Len(bytes) /\ ~(k <= i)
    BY <1>1
  <2>4. \A k \in (i + 1)..Len(bytes) : f[k] \in Stopping(bytes, k)
    BY <2>2, <2>3
  <2>5. Step(f)[i] \in Stopping(bytes, i)
    BY <1>7, <2>4
  <2> QED BY <1>8, <2>2, <2>5
<1>10. 0 \in 0..Len(bytes)
  BY <1>1
<1>11. f[0] \in Stopping(bytes, 0)
  BY <1>9, <1>10
<1> QED BY <1>2, <1>11

\* What is decoded and what is not yet
LEMMA DecodableBounds ==
    ASSUME NEW bytes \in Strings
    PROVE  /\ Len(bytes) \in Nat /\ Decodable(bytes) \in 0..Len(bytes)
           /\ StopsAt(bytes, Decodable(bytes))
           /\ \A m \in 0..(Decodable(bytes) - 1) : ~StopsAt(bytes, m)
<1>1. Len(bytes) \in Nat
  BY LenProperties DEF Strings
<1> DEFINE n == Decodable(bytes)
<1>2. /\ n \in 0..Len(bytes) /\ StopsAt(bytes, n)
      /\ \A m \in 0..Len(bytes) : StopsAt(bytes, m) => n <= m
  BY DecodableIs DEF Stopping
<1> HIDE DEF n
<1>3. \A m \in 0..(n - 1) : m \in 0..Len(bytes) /\ ~(n <= m)
  BY <1>1, <1>2
<1>4. \A m \in 0..(n - 1) : ~StopsAt(bytes, m)
  BY <1>2, <1>3
<1> QED BY <1>1, <1>2, <1>4 DEF n

\* The first stop is the only place with these properties.
LEMMA DecodableIsOnly ==
    ASSUME NEW bytes \in Strings, NEW n \in 0..Len(bytes), StopsAt(bytes, n),
           \A m \in 0..(n - 1) : ~StopsAt(bytes, m)
    PROVE  Decodable(bytes) = n
<1> DEFINE k == Decodable(bytes)
<1>1. /\ Len(bytes) \in Nat /\ k \in 0..Len(bytes) /\ StopsAt(bytes, k)
      /\ \A m \in 0..(k - 1) : ~StopsAt(bytes, m)
  BY DecodableBounds
<1> HIDE DEF k
<1>2. k \notin 0..(n - 1) /\ n \notin 0..(k - 1)
  BY <1>1
<1>3. k = n
  BY <1>1, <1>2
<1> QED BY <1>3 DEF k

\* Feeding the decoder with a token takes as many bytes as if it had all of them at once.
LEMMA DecodableOfJoin ==
    ASSUME NEW x \in Strings, NEW y \in Strings
    PROVE  LET n == Decodable(x)
               fed == After(x, n) \o y
               m == Decodable(fed)
           IN  /\ n \in 0..Len(x) /\ After(x, n) \in Strings /\ Upto(x, n) \in Strings
               /\ fed \in Strings /\ m \in 0..Len(fed)
               /\ Len(Upto(x, n)) = n
               /\ x \o y = Upto(x, n) \o fed
               /\ Decodable(x \o y) = n + m
               /\ Apart(Upto(x, n), Upto(fed, m))
<1> DEFINE n == Decodable(x)
           u == Upto(x, n)
           v == After(x, n)
           fed == v \o y
           m == Decodable(fed)
           xy == x \o y
<1>1. /\ Len(x) \in Nat /\ n \in 0..Len(x) /\ StopsAt(x, n)
      /\ \A i \in 0..(n - 1) : ~StopsAt(x, i)
  BY DecodableBounds
<1> HIDE DEF n
<1>2. /\ u \in Strings /\ Len(u) = n /\ \A i \in 1..n : u[i] = x[i]
  BY <1>1, UptoIs DEF Strings
<1>3. /\ v \in Strings /\ Len(v) = Len(x) - n /\ \A i \in 1..(Len(x) - n) : v[i] = x[n + i]
  BY <1>1, AfterIs DEF Strings
<1>4. u \o v = x
  BY <1>1, CutAndRest DEF Strings
<1> HIDE DEF u, v
<1>5. /\ fed \in Strings /\ Len(fed) = Len(v) + Len(y)
      /\ \A i \in 1..Len(v) : fed[i] = v[i]
  BY <1>3, JoinIs DEF Strings
<1>6. xy = u \o fed
  <2>1. u \in Seq(Symbols) /\ v \in Seq(Symbols) /\ y \in Seq(Symbols)
    BY <1>2, <1>3 DEF Strings
  <2>2. (u \o v) \o y = u \o (v \o y)
    BY <2>1, ConcatAssociative
  <2> QED BY <1>4, <2>2
<1>7. /\ Len(fed) \in Nat /\ m \in 0..Len(fed) /\ StopsAt(fed, m)
      /\ \A i \in 0..(m - 1) : ~StopsAt(fed, i)
  BY <1>5, DecodableBounds
<1>8. Len(y) \in Nat
  BY LenProperties DEF Strings
<1>9. /\ xy \in Strings /\ Len(xy) = n + Len(fed) /\ Len(xy) = Len(x) + Len(y)
      /\ \A i \in 1..n : xy[i] = u[i]
      /\ \A i \in 1..Len(fed) : xy[n + i] = fed[i]
  <2>1. xy \in Strings /\ Len(xy) = Len(x) + Len(y)
    BY JoinIs DEF Strings
  <2> HIDE DEF fed, xy
  <2>2. u \in Seq(Symbols) /\ fed \in Seq(Symbols)
    BY <1>2, <1>5 DEF Strings
  <2>3. /\ Len(u \o fed) = Len(u) + Len(fed)
        /\ \A i \in 1..Len(u) : (u \o fed)[i] = u[i]
        /\ \A i \in 1..Len(fed) : (u \o fed)[Len(u) + i] = fed[i]
    BY <2>2, JoinIs
  <2> QED BY <1>2, <1>6, <2>1, <2>3
<1> HIDE DEF fed, m, xy
<1>10. ASSUME NEW i \in 0..Len(fed)
       PROVE  StopsAt(xy, n + i) <=> StopsAt(fed, i)
  <2>1. n + i = Len(xy) <=> i = Len(fed)
    <3>1. Len(xy) = n + Len(fed) /\ n \in Nat /\ i \in Nat /\ Len(fed) \in Nat
      BY <1>1, <1>7, <1>9
    <3> QED BY <3>1
  <2>2. (n + i) + 3 > Len(xy) <=> i + 3 > Len(fed)
    BY <1>1, <1>7, <1>9
  <2>3. CASE i = Len(fed)
    BY <2>1, <2>3 DEF StopsAt
  <2>4. CASE i # Len(fed)
    <3>1. i + 1 \in 1..Len(fed) /\ n + (i + 1) = (n + i) + 1
      BY <1>1, <1>7, <2>4
    <3>2. xy[n + (i + 1)] = fed[i + 1]
      BY <1>9, <3>1
    <3> QED BY <2>1, <2>2, <2>4, <3>1, <3>2 DEF StopsAt
  <2> QED BY <2>3, <2>4
<1>11. StopsAt(xy, n + m)
  BY <1>7, <1>10
<1>12. ASSUME NEW j \in 0..((n + m) - 1) PROVE ~StopsAt(xy, j)
  <2>1. CASE j < n
    <3>1. j \in 0..(n - 1) /\ j + 1 \in 1..n /\ j # Len(xy) /\ j # Len(x)
      BY <1>1, <1>7, <1>9, <2>1
    <3>2. xy[j + 1] = x[j + 1]
      BY <1>2, <1>9, <3>1
    <3>3. j + 3 > Len(xy) => j + 3 > Len(x)
      BY <1>1, <1>8, <1>9, <3>1
    <3> QED BY <1>1, <3>1, <3>2, <3>3 DEF StopsAt
  <2>2. CASE j >= n
    <3>1. j - n \in 0..(m - 1) /\ j - n \in 0..Len(fed) /\ n + (j - n) = j
      BY <1>1, <1>7, <2>2
    <3> QED BY <1>7, <1>10, <3>1
  <2>3. j < n \/ j >= n
    BY <1>1, <1>7
  <2> QED BY <2>1, <2>2, <2>3
<1>13. n + m \in 0..Len(xy)
  BY <1>1, <1>7, <1>9
<1>14. Decodable(xy) = n + m
  BY <1>9, <1>11, <1>12, <1>13, DecodableIsOnly
<1>15. Apart(u, Upto(fed, m))
  <2> DEFINE w == Upto(fed, m)
  <2>1. w \in Strings /\ Len(w) = m /\ \A i \in 1..m : w[i] = fed[i]
    BY <1>5, <1>7, UptoIs DEF Strings
  <2> HIDE DEF w
  <2> SUFFICES ASSUME w # <<>>, w[1] = Cont,
                      NEW i \in 1..Len(u), i + 1 >= Len(u), u[i] = Lead
               PROVE  FALSE
    BY DEF Apart, w
  <2>2. m > 0 /\ fed[1] = Cont
    <3>1. Len(w) \in Nat \ {0}
      BY <2>1, EmptySeq DEF Strings
    <3>2. 1 \in 1..m
      BY <2>1, <3>1
    <3> QED BY <1>7, <2>1, <3>2
  <2>3. CASE n = Len(x)
    <3>1. i - 1 \in 0..(n - 1) /\ (i - 1) + 3 > Len(x) /\ (i - 1) + 1 = i /\ x[i] = Lead
      BY <1>1, <1>2, <2>3
    <3> QED BY <1>1, <3>1 DEF StopsAt
  <2>4. CASE n # Len(x)
    <3>1. x[n + 1] = Lead /\ 1 \in 1..(Len(x) - n)
      BY <1>1, <2>4 DEF StopsAt
    <3>2. fed[1] = Lead
      BY <1>3, <1>5, <3>1
    <3> QED BY <2>2, <3>2, TextAssumption
  <2> QED BY <2>3, <2>4
<1> QED BY <1>1, <1>2, <1>3, <1>5, <1>6, <1>7, <1>14, <1>15 DEF n, u, v, fed, m, xy

\* What the decoder gives for the next token follows what it gave before.
LEMMA FeedDecodes ==
    ASSUME NEW x \in Strings, NEW y \in Strings
    PROVE  LET n == Decodable(x)
               fed == After(x, n) \o y
               m == Decodable(fed)
               k == Decodable(x \o y)
           IN  /\ fed \in Strings /\ m \in 0..Len(fed)
               /\ Lossy(Upto(x \o y, k)) = Lossy(Upto(x, n)) \o Lossy(Upto(fed, m))
               /\ After(x \o y, k) = After(fed, m)
<1> DEFINE n == Decodable(x)
           u == Upto(x, n)
           fed == After(x, n) \o y
           m == Decodable(fed)
           k == Decodable(x \o y)
<1>1. /\ u \in Strings /\ fed \in Strings /\ m \in 0..Len(fed) /\ Len(u) = n
      /\ x \o y = u \o fed /\ k = n + m /\ Apart(u, Upto(fed, m))
  BY DecodableOfJoin
<1> HIDE DEF n, u, fed, m, k
<1>2. Upto(fed, m) \in Strings
  BY <1>1, UptoIs DEF Strings
<1>3. Upto(u \o fed, n + m) = u \o Upto(fed, m) /\ After(u \o fed, n + m) = After(fed, m)
  <2>1. /\ Upto(u \o fed, Len(u) + m) = u \o Upto(fed, m)
        /\ After(u \o fed, Len(u) + m) = After(fed, m)
    BY <1>1, CutOfJoin DEF Strings
  <2> QED BY <1>1, <2>1
<1>4. Lossy(u \o Upto(fed, m)) = Lossy(u) \o Lossy(Upto(fed, m))
  BY <1>1, <1>2, LossyOfJoin
<1>5. Lossy(Upto(x \o y, k)) = Lossy(u) \o Lossy(Upto(fed, m))
  BY <1>1, <1>3, <1>4
<1>6. After(x \o y, k) = After(fed, m)
  BY <1>1, <1>3
<1> QED BY <1>1, <1>5, <1>6 DEF n, u, fed, m, k

\* And what it has not taken follows that.
LEMMA RestDecodes ==
    ASSUME NEW x \in Strings
    PROVE  LET n == Decodable(x)
           IN  /\ n \in 0..Len(x) /\ Upto(x, n) \in Strings /\ After(x, n) \in Strings
               /\ Lossy(x) = Lossy(Upto(x, n)) \o Lossy(After(x, n))
<1> DEFINE n == Decodable(x)
           u == Upto(x, n)
           v == After(x, n)
<1>1. n \in 0..Len(x) /\ StopsAt(x, n) /\ Len(x) \in Nat
  BY DecodableBounds
<1> HIDE DEF n
<1>2. u \in Strings /\ u \o v = x
  BY <1>1, UptoIs, CutAndRest DEF Strings
<1>3. v \in Strings /\ Len(v) = Len(x) - n /\ \A i \in 1..(Len(x) - n) : v[i] = x[n + i]
  BY <1>1, AfterIs DEF Strings
<1> HIDE DEF u, v
<1>4. Apart(u, v)
  <2> SUFFICES ASSUME v # <<>>, v[1] = Cont PROVE FALSE
    BY DEF Apart
  <2>1. Len(v) \in Nat \ {0}
    BY <1>3, EmptySeq DEF Strings
  <2>2. n # Len(x) /\ 1 \in 1..(Len(x) - n)
    BY <1>1, <1>3, <2>1
  <2>3. x[n + 1] = Lead /\ v[1] = x[n + 1]
    BY <1>1, <1>3, <2>2 DEF StopsAt
  <2> QED BY <2>3, TextAssumption
<1>5. Lossy(u \o v) = Lossy(u) \o Lossy(v)
  BY <1>2, <1>3, <1>4, LossyOfJoin
<1> QED BY <1>1, <1>2, <1>3, <1>5 DEF n, u, v

----------------------------------------------------------------------------
(* Stop sequences.                                                         *)

\* A stop sequence
StopStrings == Strings \ {<<>>}

\* The end of two joined texts is in the second, or begins in the first.
LEMMA SuffixOfJoin ==
    ASSUME NEW s \in Strings, NEW x \in Strings, NEW y \in Strings
    PROVE  /\ IsSuffix(s, y) => IsSuffix(s, x \o y)
           /\ Len(s) <= Len(y) /\ IsSuffix(s, x \o y) => IsSuffix(s, y)
           /\ Len(s) > Len(y) /\ IsSuffix(s, x \o y) =>
                  IsSuffix(Upto(s, Len(s) - Len(y)), x)
<1>1. Len(s) \in Nat /\ Len(x) \in Nat /\ Len(y) \in Nat
  BY LenProperties DEF Strings
<1> DEFINE xy == x \o y
<1>2. /\ xy \in Strings /\ Len(xy) = Len(x) + Len(y)
      /\ \A i \in 1..Len(x) : xy[i] = x[i]
      /\ \A i \in 1..Len(y) : xy[Len(x) + i] = y[i]
  BY JoinIs DEF Strings
<1> HIDE DEF xy
<1>3. IsSuffix(s, xy) <=>
          Len(s) <= Len(xy) /\ \A i \in 1..Len(s) : s[i] = xy[Len(xy) - Len(s) + i]
  BY <1>2, SuffixIs DEF Strings
<1>4. IsSuffix(s, y) <=>
          Len(s) <= Len(y) /\ \A i \in 1..Len(s) : s[i] = y[Len(y) - Len(s) + i]
  BY SuffixIs DEF Strings
<1>5. ASSUME Len(s) <= Len(y) PROVE IsSuffix(s, y) <=> IsSuffix(s, xy)
  <2>1. \A i \in 1..Len(s) : xy[Len(xy) - Len(s) + i] = y[Len(y) - Len(s) + i]
    <3> TAKE i \in 1..Len(s)
    <3> DEFINE j == Len(y) - Len(s) + i
    <3>1. j \in 1..Len(y) /\ Len(xy) - Len(s) + i = Len(x) + j
      BY <1>1, <1>2, <1>5
    <3> HIDE DEF j
    <3>2. xy[Len(x) + j] = y[j]
      BY <1>2, <3>1
    <3> QED BY <3>1, <3>2 DEF j
  <2>2. Len(s) <= Len(xy)
    BY <1>1, <1>2, <1>5
  <2> QED BY <1>3, <1>4, <1>5, <2>1, <2>2
<1>6. ASSUME Len(s) > Len(y), IsSuffix(s, xy)
      PROVE  IsSuffix(Upto(s, Len(s) - Len(y)), x)
  <2> DEFINE n == Len(s) - Len(y)
             u == Upto(s, n)
  <2>1. n \in 0..Len(s) /\ n <= Len(x)
    BY <1>1, <1>2, <1>3, <1>6
  <2>2. u \in Strings /\ Len(u) = n /\ \A i \in 1..n : u[i] = s[i]
    BY <2>1, UptoIs DEF Strings
  <2> HIDE DEF u
  <2>3. \A i \in 1..n : u[i] = x[Len(x) - n + i]
    <3> TAKE i \in 1..n
    <3>1. i \in 1..Len(s) /\ Len(xy) - Len(s) + i = Len(x) - n + i
          /\ Len(x) - n + i \in 1..Len(x)
      BY <1>1, <1>2, <2>1
    <3>2. s[i] = xy[Len(xy) - Len(s) + i]
      BY <1>3, <1>6, <3>1
    <3>3. xy[Len(x) - n + i] = x[Len(x) - n + i]
      BY <1>2, <3>1
    <3> QED BY <2>2, <3>1, <3>2, <3>3
  <2>4. IsSuffix(u, x)
    <3> HIDE DEF n
    <3>1. IsSuffix(u, x) <=>
              Len(u) <= Len(x) /\ \A i \in 1..Len(u) : u[i] = x[Len(x) - Len(u) + i]
      BY <2>2, SuffixIs DEF Strings
    <3> QED BY <2>1, <2>2, <2>3, <3>1
  <2> QED BY <2>4 DEF u
<1>7. IsSuffix(s, y) => Len(s) <= Len(y)
  BY <1>4
<1> QED BY <1>5, <1>6, <1>7 DEF xy

\* The stop sequences that end a text
Matching(text) == {i \in 1..Len(Stops) : IsSuffix(Stops[i], text)}

\* MatchedStop is the length of the first stop sequence that ends the text.
LEMMA MatchedStopIs ==
    ASSUME NEW text \in Strings, Stops \in Seq(StopStrings)
    PROVE  /\ MatchedStop(text) \in 0..Len(text)
           /\ MatchedStop(text) = 0 <=> Matching(text) = {}
           /\ MatchedStop(text) # 0 =>
                  \E i \in Matching(text) : /\ MatchedStop(text) = Len(Stops[i])
                                            /\ \A j \in Matching(text) : i <= j
<1> DEFINE Test(stop) == IsSuffix(stop, text)
           I == {i \in 1..Len(Stops) : Test(Stops[i])}
           first == IF I # {} THEN Min(I) ELSE 0
<1>1. I = Matching(text)
  BY DEF Matching
<1>2. Len(Stops) \in Nat /\ Len(text) \in Nat
  BY LenProperties DEF Strings
<1>3. MatchedStop(text) = IF first = 0 THEN 0 ELSE Len(Stops[first])
  BY DEF MatchedStop, SelectInSeq
<1>4. \A i \in I : Len(Stops[i]) \in 1..Len(text)
  <2> TAKE i \in I
  <2>1. Stops[i] \in StopStrings
    BY ElementOfSeq
  <2>2. Stops[i] \in Seq(Symbols) /\ Len(Stops[i]) \in Nat \ {0}
    BY <2>1, EmptySeq DEF StopStrings, Strings
  <2>3. Len(Stops[i]) <= Len(text)
    BY <2>2, SuffixIs DEF Strings
  <2> QED BY <1>2, <2>2, <2>3
<1> HIDE DEF I
<1>5. CASE I = {}
  BY <1>1, <1>2, <1>3, <1>5
<1>6. CASE I # {}
  <2>1. I \in SUBSET Nat /\ 0 \notin I
    BY DEF I
  <2>2. PICK n \in I : \A m \in I : n <= m
    BY <1>6, <2>1, LeastNumber
  <2>3. Min(I) = CHOOSE x \in I : \A y \in I : x <= y
    BY DEF Min
  <2>4. Min(I) \in I /\ \A y \in I : Min(I) <= y
    BY <2>2, <2>3
  <2>5. first = Min(I) /\ first # 0
    BY <1>6, <2>1, <2>4
  <2>6. MatchedStop(text) = Len(Stops[Min(I)])
    BY <1>3, <2>5
  <2> QED BY <1>1, <1>2, <1>4, <1>6, <2>4, <2>6
<1> QED BY <1>5, <1>6

\* Texts that end with the same stop sequences
LEMMA SameMatching ==
    ASSUME NEW x \in Strings, NEW y \in Strings, Stops \in Seq(StopStrings),
           Matching(x) = Matching(y)
    PROVE  MatchedStop(x) = MatchedStop(y)
<1>1. /\ MatchedStop(x) = 0 <=> Matching(x) = {}
      /\ MatchedStop(y) = 0 <=> Matching(y) = {}
  BY MatchedStopIs
<1>2. CASE Matching(x) = {}
  BY <1>1, <1>2
<1>3. CASE Matching(x) # {}
  <2>1. PICK i \in Matching(x) : /\ MatchedStop(x) = Len(Stops[i])
                                 /\ \A j \in Matching(x) : i <= j
    BY <1>1, <1>3, MatchedStopIs
  <2>2. PICK k \in Matching(y) : /\ MatchedStop(y) = Len(Stops[k])
                                 /\ \A j \in Matching(y) : k <= j
    BY <1>1, <1>3, MatchedStopIs
  <2>3. i <= k /\ k <= i /\ i \in Int /\ k \in Int
    BY <2>1, <2>2 DEF Matching
  <2>4. i = k
    BY <2>3
  <2> QED BY <2>1, <2>2, <2>4
<1> QED BY <1>2, <1>3

\* Every end of the text that a stop sequence may continue is within what is kept.
Held(text, kept) ==
    \A i \in 1..Len(Stops) : \A n \in 1..(Len(Stops[i]) - 1) :
        IsSuffix(Upto(Stops[i], n), text) => n <= Len(kept)

\* HoldBack keeps as much.
LEMMA HoldBackIs ==
    ASSUME NEW text \in Strings, Stops \in Seq(StopStrings)
    PROVE  /\ HoldBack(text) \in 0..Len(text)
           /\ \A i \in 1..Len(Stops) : \A n \in 1..(Len(Stops[i]) - 1) :
                  IsSuffix(Upto(Stops[i], n), text) => n <= HoldBack(text)
<1> DEFINE H == {0} \cup
                {n \in UNION {1..(Len(Stops[i]) - 1) : i \in DOMAIN Stops} :
                    \E i \in DOMAIN Stops :
                        n < Len(Stops[i]) /\ IsSuffix(Upto(Stops[i], n), text)}
<1>1. HoldBack(text) = Max(H)
  BY DEF HoldBack
<1>2. Len(Stops) \in Nat /\ DOMAIN Stops = 1..Len(Stops) /\ Len(text) \in Nat
  BY LenProperties DEF Strings
<1>3. \A i \in 1..Len(Stops) : Stops[i] \in Strings /\ Len(Stops[i]) \in Nat
  <2> TAKE i \in 1..Len(Stops)
  <2>1. Stops[i] \in Strings
    BY ElementOfSeq DEF StopStrings
  <2> QED BY <2>1, LenProperties DEF Strings
<1>4. ASSUME NEW i \in 1..Len(Stops), NEW n \in 1..(Len(Stops[i]) - 1),
             IsSuffix(Upto(Stops[i], n), text)
      PROVE  n \in H /\ n <= Len(text)
  <2>1. n \in 0..Len(Stops[i]) /\ n < Len(Stops[i])
    BY <1>3
  <2>2. Upto(Stops[i], n) \in Strings /\ Len(Upto(Stops[i], n)) = n
    BY <1>3, <2>1, UptoIs DEF Strings
  <2>3. n <= Len(text)
    BY <1>4, <2>2, SuffixIs DEF Strings
  <2>4. n \in UNION {1..(Len(Stops[j]) - 1) : j \in DOMAIN Stops}
    BY <1>2
  <2> QED BY <1>2, <1>4, <2>1, <2>3, <2>4
<1>5. \A n \in H : n \in 0..Len(text)
  <2> TAKE n \in H
  <2>1. CASE n = 0
    BY <1>2, <2>1
  <2>2. CASE n # 0
    <3>1. PICK i \in 1..Len(Stops) : n < Len(Stops[i]) /\ IsSuffix(Upto(Stops[i], n), text)
      BY <1>2, <2>2
    <3>2. PICK j \in 1..Len(Stops) : n \in 1..(Len(Stops[j]) - 1)
      BY <1>2, <2>2
    <3>3. n \in 1..(Len(Stops[i]) - 1)
      BY <1>3, <3>1, <3>2
    <3>4. n <= Len(text)
      BY <1>4, <3>1, <3>3
    <3> QED BY <1>2, <3>2, <3>4
  <2> QED BY <2>1, <2>2
<1>6. H \in SUBSET Nat /\ H # {} /\ \A n \in H : n <= Len(text)
  BY <1>2, <1>5
<1> HIDE DEF H
<1>7. PICK n \in H : \A m \in H : m <= n
  BY <1>2, <1>6, GreatestNumber
<1>8. Max(H) = CHOOSE x \in H : \A y \in H : x >= y
  BY DEF Max
<1>9. \A m \in H : n >= m
  BY <1>6, <1>7
<1>10. Max(H) \in H /\ \A m \in H : Max(H) >= m
  BY <1>8, <1>9
<1>11. \A m \in H : m <= Max(H)
  BY <1>6, <1>10
<1> QED BY <1>1, <1>4, <1>5, <1>10, <1>11

\* What is kept is enough to find what ends the whole text.
LEMMA KeptSuffices ==
    ASSUME NEW w \in Strings, NEW kept \in Strings, NEW new \in Strings,
           Stops \in Seq(StopStrings), Held(w \o kept, kept), MatchedStop(w \o kept) = 0
    PROVE  LET text == kept \o new
               all == w \o text
           IN  /\ text \in Strings /\ all \in Strings /\ all = (w \o kept) \o new
               /\ MatchedStop(all) = MatchedStop(text)
               /\ WithoutStop(all) = w \o WithoutStop(text)
               /\ \A i \in 1..Len(Stops) : \A n \in 1..(Len(Stops[i]) - 1) :
                      IsSuffix(Upto(Stops[i], n), all) => IsSuffix(Upto(Stops[i], n), text)
<1> DEFINE whole == w \o kept
           text == kept \o new
           all == w \o text
<1>1. /\ whole \in Strings /\ Len(whole) = Len(w) + Len(kept)
      /\ text \in Strings /\ Len(text) = Len(kept) + Len(new)
  BY JoinIs DEF Strings
<1>2. all \in Strings /\ Len(all) = Len(w) + Len(text)
  <2> HIDE DEF text
  <2> QED BY <1>1, JoinIs DEF Strings
<1>3. all = whole \o new
  <2>1. w \in Seq(Symbols) /\ kept \in Seq(Symbols) /\ new \in Seq(Symbols)
    BY DEF Strings
  <2>2. (w \o kept) \o new = w \o (kept \o new)
    <3> HIDE DEF whole, text, all
    <3> QED BY <2>1, ConcatAssociative, SMTT(30)
  <2> QED BY <2>2
<1>4. Len(w) \in Nat /\ Len(kept) \in Nat /\ Len(new) \in Nat
  BY LenProperties DEF Strings
<1> HIDE DEF whole, text, all
<1>5. \A i \in 1..Len(Stops) : Stops[i] \in StopStrings /\ Stops[i] \in Strings
                               /\ Len(Stops[i]) \in Nat \ {0}
  <2> TAKE i \in 1..Len(Stops)
  <2>1. Stops[i] \in StopStrings
    BY ElementOfSeq
  <2> QED BY <2>1, EmptySeq DEF StopStrings, Strings
<1>6. ASSUME NEW s \in Strings, IsSuffix(s, all),
             Len(s) > Len(new) => Len(s) - Len(new) <= Len(kept)
      PROVE  IsSuffix(s, text)
  <2>1. Len(s) <= Len(text)
    <3>1. Len(s) \in Nat
      BY LenProperties DEF Strings
    <3> QED BY <1>1, <1>4, <1>6, <3>1
  <2>2. Len(s) <= Len(text) /\ IsSuffix(s, w \o text) => IsSuffix(s, text)
    BY <1>1, SuffixOfJoin
  <2> QED BY <1>6, <2>1, <2>2 DEF all
<1>7. ASSUME NEW i \in 1..Len(Stops), NEW n \in 1..Len(Stops[i]),
             IsSuffix(Upto(Stops[i], n), all)
      PROVE  IsSuffix(Upto(Stops[i], n), text)
  <2> DEFINE s == Upto(Stops[i], n)
             k == n - Len(new)
  <2>1. n \in 0..Len(Stops[i])
    BY <1>5
  <2>2. s \in Strings /\ Len(s) = n
    BY <1>5, <2>1, UptoIs DEF Strings
  <2>3. ASSUME n > Len(new) PROVE k <= Len(kept)
    <3>1. IsSuffix(Upto(s, k), whole)
      <4>1. Len(s) > Len(new) /\ IsSuffix(s, whole \o new) =>
                IsSuffix(Upto(s, Len(s) - Len(new)), whole)
        BY <1>1, <2>2, SuffixOfJoin
      <4> QED BY <1>3, <1>7, <2>2, <2>3, <4>1
    <3>2. Upto(s, k) = Upto(Stops[i], k)
      <4>1. k \in 0..n /\ k \in 0..Len(Stops[i])
        BY <1>4, <1>5, <2>1, <2>3
      <4>2. /\ Upto(s, k) \in Strings /\ Len(Upto(s, k)) = k
            /\ \A j \in 1..k : Upto(s, k)[j] = s[j]
        <5> HIDE DEF s, k
        <5> QED BY <2>2, <4>1, UptoIs DEF Strings
      <4>3. /\ Upto(Stops[i], k) \in Strings /\ Len(Upto(Stops[i], k)) = k
            /\ \A j \in 1..k : Upto(Stops[i], k)[j] = Stops[i][j]
        <5> HIDE DEF s, k
        <5> QED BY <1>5, <4>1, UptoIs DEF Strings
      <4>4. \A j \in 1..n : s[j] = Stops[i][j]
        BY <1>5, <2>1, UptoIs DEF Strings
      <4>5. \A j \in 1..k : j \in 1..n
        BY <4>1
      <4> HIDE DEF s, k
      <4>6. \A j \in 1..k : Upto(s, k)[j] = Upto(Stops[i], k)[j]
        BY <4>2, <4>3, <4>4, <4>5
      <4> QED BY <4>2, <4>3, <4>6, SeqEqual DEF Strings
    <3>3. IsSuffix(Upto(Stops[i], k), whole)
      BY <3>1, <3>2
    <3>4. CASE k <= Len(Stops[i]) - 1
      <4>1. k \in 1..(Len(Stops[i]) - 1)
        BY <1>4, <1>5, <2>1, <2>3, <3>4
      <4>2. Held(whole, kept)
        BY DEF whole
      <4> HIDE DEF k
      <4> QED BY <3>3, <4>1, <4>2 DEF Held
    <3>5. CASE k > Len(Stops[i]) - 1
      <4>1. k = Len(Stops[i])
        BY <1>4, <1>5, <2>1, <2>3, <3>5
      <4>2. Upto(Stops[i], Len(Stops[i])) = Stops[i]
        BY <1>5, SubSeqFull DEF Upto, Strings
      <4>3. IsSuffix(Stops[i], whole)
        BY <3>3, <4>1, <4>2
      <4>4. i \in Matching(whole)
        BY <4>3 DEF Matching
      <4>5. MatchedStop(whole) = 0
        BY DEF whole
      <4> QED BY <1>1, <4>4, <4>5, MatchedStopIs
    <3> QED BY <1>4, <1>5, <2>1, <3>4, <3>5
  <2> HIDE DEF s
  <2>4. Len(s) > Len(new) => Len(s) - Len(new) <= Len(kept)
    BY <2>2, <2>3
  <2> QED BY <1>6, <1>7, <2>2, <2>4 DEF s
<1>8. Matching(all) = Matching(text)
  <2>1. ASSUME NEW i \in 1..Len(Stops), IsSuffix(Stops[i], all)
        PROVE  IsSuffix(Stops[i], text)
    <3>1. Len(Stops[i]) \in 1..Len(Stops[i])
      BY <1>5
    <3>2. Upto(Stops[i], Len(Stops[i])) = Stops[i]
      BY <1>5, SubSeqFull DEF Upto, Strings
    <3> QED BY <1>7, <2>1, <3>1, <3>2
  <2>2. ASSUME NEW i \in 1..Len(Stops), IsSuffix(Stops[i], text)
        PROVE  IsSuffix(Stops[i], all)
    <3>1. IsSuffix(Stops[i], text) => IsSuffix(Stops[i], w \o text)
      BY <1>1, <1>5, SuffixOfJoin
    <3> QED BY <2>2, <3>1 DEF all
  <2> QED BY <2>1, <2>2 DEF Matching
<1>9. MatchedStop(all) = MatchedStop(text)
  BY <1>1, <1>2, <1>8, SameMatching
<1>10. WithoutStop(all) = w \o WithoutStop(text)
  <2> DEFINE m == MatchedStop(text)
             k == Len(text) - m
  <2>1. m \in 0..Len(text) /\ Len(text) \in Nat
    BY <1>1, MatchedStopIs, LenProperties DEF Strings
  <2>2. k \in 0..Len(text) /\ Len(all) - m = Len(w) + k
    BY <1>2, <1>4, <2>1
  <2>3. Upto(w \o text, Len(w) + k) = w \o Upto(text, k)
    <3> HIDE DEF k
    <3> QED BY <1>1, <2>2, CutOfJoin DEF Strings
  <2>4. WithoutStop(all) = Upto(all, Len(all) - m) /\ WithoutStop(text) = Upto(text, k)
    BY <1>9 DEF WithoutStop
  <2> HIDE DEF k, m
  <2> QED BY <2>2, <2>3, <2>4 DEF all
<1>11. \A i \in 1..Len(Stops) : \A n \in 1..(Len(Stops[i]) - 1) :
           IsSuffix(Upto(Stops[i], n), all) => IsSuffix(Upto(Stops[i], n), text)
  <2> TAKE i \in 1..Len(Stops)
  <2> TAKE n \in 1..(Len(Stops[i]) - 1)
  <2>1. n \in 1..Len(Stops[i])
    BY <1>5
  <2> QED BY <1>7, <2>1
<1> QED BY <1>1, <1>2, <1>3, <1>9, <1>10, <1>11 DEF whole, text, all

\* What is released, and what is kept instead
LEMMA ReleaseKeeps ==
    ASSUME NEW w \in Strings, NEW text \in Strings, Stops \in Seq(StopStrings),
           \A i \in 1..Len(Stops) : \A n \in 1..(Len(Stops[i]) - 1) :
               IsSuffix(Upto(Stops[i], n), w \o text) => IsSuffix(Upto(Stops[i], n), text)
    PROVE  LET n == Len(text) - HoldBack(text)
           IN  /\ n \in 0..Len(text) /\ Upto(text, n) \in Strings /\ After(text, n) \in Strings
               /\ w \o text = (w \o Upto(text, n)) \o After(text, n)
               /\ Held(w \o text, After(text, n))
<1> DEFINE h == HoldBack(text)
           n == Len(text) - h
           u == Upto(text, n)
           v == After(text, n)
<1>1. Len(text) \in Nat
  BY LenProperties DEF Strings
<1>2. /\ h \in 0..Len(text)
      /\ \A i \in 1..Len(Stops) : \A k \in 1..(Len(Stops[i]) - 1) :
             IsSuffix(Upto(Stops[i], k), text) => k <= h
  BY HoldBackIs
<1> HIDE DEF h
<1>3. n \in 0..Len(text) /\ Len(text) - n = h
  BY <1>1, <1>2
<1> HIDE DEF n
<1>4. u \in Strings /\ v \in Strings /\ Len(v) = h /\ u \o v = text
  BY <1>3, UptoIs, AfterIs, CutAndRest DEF Strings
<1> HIDE DEF u, v
<1>5. w \o (u \o v) = (w \o u) \o v
  <2>1. w \in Seq(Symbols) /\ u \in Seq(Symbols) /\ v \in Seq(Symbols)
    BY <1>4 DEF Strings
  <2> QED BY <2>1, ConcatAssociative
<1>6. Held(w \o text, v)
  BY <1>2, <1>4 DEF Held
<1> QED BY <1>3, <1>4, <1>5, <1>6 DEF u, v, n, h

----------------------------------------------------------------------------
(* The endpoint.                                                           *)

\* The delimiter of tool calls is a text that is not empty.
LEMMA DelimiterIsText == Delimiter \in Strings /\ Len(Delimiter) \in Nat \ {0}
<1>1. Delimiter \in Seq(ToSet(Delimiter)) /\ ToSet(Delimiter) \in SUBSET Symbols
  BY TextAssumption DEF Symbols
<1>2. Delimiter \in Seq(Symbols)
  BY <1>1, SeqMonotonic
<1> QED BY <1>2, TextAssumption, EmptySeq DEF Strings

\* The delimiter may begin here, for all that is there of the text.
MayOpen(text, p) ==
    \A j \in 1..Len(Delimiter) :
        (p - 1) + j <= Len(text) => Delimiter[j] = text[(p - 1) + j]

\* The safe text ends where the delimiter may begin first.
Cuts(text) ==
    {c \in 0..Len(text) : MayOpen(text, c + 1) /\ \A p \in 1..c : ~MayOpen(text, p)}

\* Before the delimiter may open: safe_chat_content cuts the text at the first place where
\* the rest agrees with the delimiter as far as both go.
LEMMA SafeIs ==
    ASSUME NEW text \in Strings
    PROVE  /\ \E c \in Cuts(text) :
                  /\ Safe(text, FALSE) = Upto(text, c)
                  /\ Safe(text, TRUE) = Upto(text, c) \/ Safe(text, TRUE) = text
<1> DEFINE D == Delimiter
           Test(i) == IsPrefix(D, After(text, i - 1))
           seq == [i \in 1..Len(text) |-> i]
           I == {i \in 1..Len(text) : Test(i)}
           partial == {n \in 1..(Len(D) - 1) : IsSuffix(Upto(D, n), text)}
<1>1. Len(text) \in Nat /\ Len(D) \in Nat \ {0} /\ D \in Strings
  BY LenProperties, DelimiterIsText DEF Strings
<1>2. Opening(text) = IF I # {} THEN Min(I) ELSE 0
  <2> DEFINE J == {i \in 1..Len(seq) : Test(seq[i])}
  <2>1. Opening(text) = IF J # {} THEN Min(J) ELSE 0
    BY DEF Opening, SelectInSeq
  <2>2. Len(seq) = Len(text)
    BY <1>1
  <2>3. \A i \in 1..Len(text) : seq[i] = i
    OBVIOUS
  <2>4. J = I
    <3> HIDE DEF seq, Test
    <3> QED BY <2>2, <2>3
  <2> QED BY <2>1, <2>4
<1>3. ASSUME NEW i \in 1..Len(text)
      PROVE  Test(i) <=> (i - 1) + Len(D) <= Len(text) /\ MayOpen(text, i)
  <2> DEFINE k == i - 1
             v == After(text, k)
  <2>1. k \in 0..Len(text)
    BY <1>1
  <2>2. /\ v \in Strings /\ Len(v) = Len(text) - k
        /\ \A j \in 1..(Len(text) - k) : v[j] = text[k + j]
    <3> HIDE DEF k
    <3> QED BY <2>1, AfterIs DEF Strings
  <2> HIDE DEF v
  <2>3. Test(i) <=> Len(D) <= Len(v) /\ \A j \in 1..Len(D) : D[j] = v[j]
    <3>1. Test(i) <=> IsPrefix(D, v)
      BY DEF v
    <3>2. D \in Seq(Symbols) /\ v \in Seq(Symbols)
      BY <1>1, <2>2 DEF Strings
    <3> HIDE DEF Test, D
    <3>3. IsPrefix(D, v) <=> Len(D) <= Len(v) /\ \A j \in 1..Len(D) : D[j] = v[j]
      BY <3>2, PrefixIs
    <3> QED BY <3>1, <3>3
  <2>4. Len(D) <= Len(v) <=> k + Len(D) <= Len(text)
    BY <1>1, <2>1, <2>2
  <2>5. ASSUME k + Len(D) <= Len(text)
        PROVE  (\A j \in 1..Len(D) : D[j] = v[j]) <=> MayOpen(text, i)
    <3>1. \A j \in 1..Len(D) : j \in 1..(Len(text) - k) /\ k + j <= Len(text)
      BY <1>1, <2>1, <2>5
    <3>2. \A j \in 1..Len(D) : v[j] = text[k + j]
      <4> HIDE DEF k, D
      <4> QED BY <2>2, <3>1
    <3> QED BY <3>1, <3>2 DEF MayOpen
  <2> HIDE DEF Test
  <2> QED BY <2>3, <2>4, <2>5
<1>4. ASSUME NEW n \in 1..(Len(D) - 1)
      PROVE  IsSuffix(Upto(D, n), text) <=> n <= Len(text) /\ MayOpen(text, (Len(text) - n) + 1)
  <2> DEFINE u == Upto(D, n)
  <2>1. n \in 0..Len(D)
    BY <1>1
  <2>2. u \in Strings /\ Len(u) = n /\ \A j \in 1..n : u[j] = D[j]
    <3> HIDE DEF D
    <3> QED BY <1>1, <2>1, UptoIs DEF Strings
  <2> HIDE DEF u
  <2>3. IsSuffix(u, text) <=>
            Len(u) <= Len(text) /\ \A j \in 1..Len(u) : u[j] = text[Len(text) - Len(u) + j]
    BY <2>2, SuffixIs DEF Strings
  <2>4. IsSuffix(u, text) <=>
            n <= Len(text) /\ \A j \in 1..n : D[j] = text[Len(text) - n + j]
    BY <2>2, <2>3
  <2>5. ASSUME n <= Len(text)
        PROVE  (\A j \in 1..n : D[j] = text[Len(text) - n + j]) <=>
                   MayOpen(text, (Len(text) - n) + 1)
    <3>1. ((Len(text) - n) + 1) - 1 = Len(text) - n
      BY <1>1
    <3>2. \A j \in 1..Len(D) : (Len(text) - n) + j <= Len(text) <=> j \in 1..n
      BY <1>1
    <3>3. \A j \in 1..n : j \in 1..Len(D)
      BY <1>1
    <3> QED BY <3>1, <3>2, <3>3 DEF MayOpen
  <2> QED BY <2>4, <2>5 DEF u
<1>5. MayOpen(text, Len(text) + 1)
  <2>1. \A j \in 1..Len(D) : ~(((Len(text) + 1) - 1) + j <= Len(text))
    BY <1>1
  <2> QED BY <2>1 DEF MayOpen
<1> HIDE DEF Test
<1>6. CASE I # {}
  <2> DEFINE k == Min(I)
             c == k - 1
  <2>1. I \in SUBSET Nat
    OBVIOUS
  <2>2. PICK n \in I : \A m \in I : n <= m
    <3> HIDE DEF I
    <3> QED BY <1>6, <2>1, LeastNumber
  <2>3. Min(I) = CHOOSE x \in I : \A y \in I : x <= y
    BY DEF Min
  <2>4. Min(I) \in I /\ \A y \in I : Min(I) <= y
    <3> HIDE DEF I
    <3> QED BY <2>2, <2>3
  <2> HIDE DEF k
  <2>5. k \in 1..Len(text) /\ Test(k) /\ \A y \in 1..Len(text) : Test(y) => k <= y
    BY <2>4 DEF k
  <2>6. Opening(text) = k /\ Opening(text) > 0
    BY <1>2, <1>6, <2>5 DEF k
  <2>7. Safe(text, FALSE) = Upto(text, c) /\ Safe(text, TRUE) = Upto(text, c)
    BY <2>6 DEF Safe
  <2>8. MayOpen(text, c + 1)
    <3>1. c + 1 = k
      BY <2>5
    <3> QED BY <1>3, <2>5, <3>1
  <2>9. ASSUME NEW p \in 1..c, MayOpen(text, p) PROVE FALSE
    <3>1. p \in 1..Len(text) /\ p < k
      BY <1>1, <2>5
    <3>2. (p - 1) + Len(D) <= Len(text)
      <4>1. (k - 1) + Len(D) <= Len(text)
        BY <1>3, <2>5
      <4> QED BY <1>1, <2>5, <3>1, <4>1
    <3>3. Test(p)
      BY <1>3, <2>9, <3>1, <3>2
    <3> QED BY <2>5, <3>1, <3>3
  <2>10. c \in 0..Len(text)
    BY <1>1, <2>5
  <2>11. c \in Cuts(text)
    BY <2>8, <2>9, <2>10 DEF Cuts
  <2> QED BY <2>7, <2>11
<1>7. CASE I = {}
  <2> DEFINE P == {0} \cup partial
             n == Max(P)
             c == Len(text) - n
  <2>1. Opening(text) = 0
    BY <1>2, <1>7
  <2>2. P \in SUBSET Nat /\ P # {} /\ \A m \in P : m <= Len(text)
    <3>1. \A m \in partial : m <= Len(text)
      BY <1>4
    <3> QED BY <1>1, <3>1
  <2> HIDE DEF P
  <2>3. PICK g \in P : \A m \in P : m <= g
    BY <1>1, <2>2, GreatestNumber
  <2>4. Max(P) = CHOOSE x \in P : \A y \in P : x >= y
    BY DEF Max
  <2>5. \A m \in P : g >= m
    BY <2>2, <2>3
  <2>6. n \in P /\ \A m \in P : n >= m
    BY <2>4, <2>5
  <2>7. Safe(text, FALSE) = Upto(text, c) /\ Safe(text, TRUE) = text
    BY <2>1 DEF Safe, P
  <2> HIDE DEF n
  <2>8. n \in Nat /\ n <= Len(text)
    BY <2>2, <2>6
  <2>9. MayOpen(text, c + 1)
    <3>1. CASE n = 0
      <4>1. c + 1 = Len(text) + 1
        BY <1>1, <3>1
      <4> QED BY <1>5, <4>1
    <3>2. CASE n # 0
      <4>1. n \in 1..(Len(D) - 1) /\ IsSuffix(Upto(D, n), text)
        BY <2>6, <3>2 DEF P
      <4> QED BY <1>4, <4>1
    <3> QED BY <3>1, <3>2
  <2>10. ASSUME NEW p \in 1..c, MayOpen(text, p) PROVE FALSE
    <3> DEFINE m == (Len(text) - p) + 1
    <3>1. p \in 1..Len(text) /\ m \in 1..Len(text) /\ m > n /\ (Len(text) - m) + 1 = p
      BY <1>1, <2>8
    <3>2. ~Test(p)
      BY <1>7, <3>1
    <3>3. ~((p - 1) + Len(D) <= Len(text))
      BY <1>3, <2>10, <3>1, <3>2
    <3>4. m \in 1..(Len(D) - 1)
      BY <1>1, <3>1, <3>3
    <3> HIDE DEF m
    <3>5. IsSuffix(Upto(D, m), text)
      BY <1>1, <1>4, <2>10, <3>1, <3>4
    <3>6. m \in P
      BY <3>4, <3>5 DEF P
    <3> QED BY <2>6, <2>8, <3>1, <3>6
  <2>11. c \in 0..Len(text)
    BY <1>1, <2>8
  <2> HIDE DEF c
  <2>12. c \in Cuts(text)
    BY <2>9, <2>10, <2>11 DEF Cuts
  <2> QED BY <2>7, <2>12
<1> QED BY <1>6, <1>7

\* The safe text grows with the text, and at the end.
LEMMA SafeGrows ==
    ASSUME NEW text \in Strings, NEW word \in Strings
    PROVE  /\ Safe(text, FALSE) \in Strings /\ Safe(text, TRUE) \in Strings
           /\ IsPrefix(Safe(text, FALSE), Safe(text \o word, FALSE))
           /\ IsPrefix(Safe(text, FALSE), Safe(text, TRUE))
<1> DEFINE more == text \o word
<1>1. Len(text) \in Nat /\ Len(word) \in Nat
  BY LenProperties DEF Strings
<1>2. more \in Strings /\ Len(more) = Len(text) + Len(word)
      /\ \A i \in 1..Len(text) : more[i] = text[i]
  BY JoinIs DEF Strings
<1> HIDE DEF more
<1>3. PICK c \in Cuts(text) : /\ Safe(text, FALSE) = Upto(text, c)
                              /\ Safe(text, TRUE) = Upto(text, c) \/ Safe(text, TRUE) = text
  BY SafeIs
<1>4. PICK d \in Cuts(more) : Safe(more, FALSE) = Upto(more, d)
  BY <1>2, SafeIs
<1>5. /\ c \in 0..Len(text) /\ \A p \in 1..c : ~MayOpen(text, p)
      /\ d \in 0..Len(more) /\ MayOpen(more, d + 1)
  BY DEF Cuts
<1>6. c <= d
  <2> SUFFICES ASSUME d < c PROVE FALSE
    BY <1>1, <1>2, <1>5
  <2>1. d + 1 \in 1..c
    BY <1>1, <1>2, <1>5
  <2>2. MayOpen(text, d + 1)
    <3> SUFFICES ASSUME NEW j \in 1..Len(Delimiter), ((d + 1) - 1) + j <= Len(text)
                 PROVE  Delimiter[j] = text[((d + 1) - 1) + j]
      BY DEF MayOpen
    <3> DEFINE k == ((d + 1) - 1) + j
    <3>1. k \in 1..Len(text) /\ k <= Len(more)
      BY <1>1, <1>2, <1>5
    <3>2. Delimiter[j] = more[k]
      BY <1>5, <3>1 DEF MayOpen
    <3> HIDE DEF k
    <3>3. Delimiter[j] = text[k]
      BY <1>2, <3>1, <3>2
    <3> QED BY <3>3 DEF k
  <2> QED BY <1>5, <2>1, <2>2
<1>7. /\ Upto(text, c) \in Strings /\ Len(Upto(text, c)) = c
      /\ \A i \in 1..c : Upto(text, c)[i] = text[i]
  BY <1>5, UptoIs DEF Strings
<1>8. /\ Upto(more, d) \in Strings /\ Len(Upto(more, d)) = d
      /\ \A i \in 1..d : Upto(more, d)[i] = more[i]
  BY <1>2, <1>5, UptoIs DEF Strings
<1>9. \A i \in 1..c : i \in 1..d /\ i \in 1..Len(text)
  BY <1>1, <1>2, <1>5, <1>6
<1>10. \A i \in 1..c : Upto(text, c)[i] = Upto(more, d)[i]
  BY <1>2, <1>7, <1>8, <1>9
<1>11. IsPrefix(Upto(text, c), Upto(more, d))
  BY <1>6, <1>7, <1>8, <1>10, PrefixIs DEF Strings
<1>12. IsPrefix(Upto(text, c), text) /\ IsPrefix(Upto(text, c), Upto(text, c))
  <2>1. c <= Len(text) /\ c <= c
    BY <1>1, <1>5
  <2> QED BY <1>7, <2>1, PrefixIs DEF Strings
<1> QED BY <1>3, <1>4, <1>7, <1>11, <1>12 DEF more

\* What is added to a prefix makes it the whole.
LEMMA PrefixCompleted ==
    ASSUME NEW s \in Strings, NEW t \in Strings, IsPrefix(s, t)
    PROVE  s \o After(t, Len(s)) = t
<1>1. Len(s) \in 0..Len(t)
  BY LenProperties DEF IsPrefix, Strings
<1>2. Upto(t, Len(s)) = s
  BY SubSeqFull DEF IsPrefix, Upto, Strings
<1> QED BY <1>1, <1>2, CutAndRest DEF Strings

----------------------------------------------------------------------------
(* A blocking request.                                                     *)

\* A text without a stop sequence
Stripped(text, stop) ==
    IF IsSuffix(stop, text) THEN Upto(text, Len(text) - Len(stop)) ELSE text

\* One step of the fold: the last stop sequence of a set after the others
FoldStep(stops, base, fold) ==
    [s \in SUBSET DOMAIN stops |->
        IF s = {} THEN base ELSE Stripped(fold[s \ {Max(s)}], stops[Max(s)])]

\* The fold of Blocking
FoldOf(stops, base) == CHOOSE fold : fold = FoldStep(stops, base, fold)

\* What is left when the first n stop sequences have been taken off
LeftAfter(stops, base, n) == FoldOf(stops, base)[1..n]

\* apply_stop_sequences is the fold of the cuts over the list of stops.
LEMMA BlockingFolds == Blocking = FoldOf(Stops, Lossy(said))[DOMAIN Stops]
<1> DEFINE Step(fold) ==
               [s \in SUBSET DOMAIN Stops |->
                   IF s = {} THEN Lossy(said)
                   ELSE IF IsSuffix(Stops[Max(s)], fold[s \ {Max(s)}])
                        THEN Upto(fold[s \ {Max(s)}],
                                  Len(fold[s \ {Max(s)}]) - Len(Stops[Max(s)]))
                        ELSE fold[s \ {Max(s)}]]
<1>1. Blocking = (CHOOSE fold : fold = Step(fold))[DOMAIN Stops]
  BY Zenon DEF Blocking, FoldLeft, MapThenFoldSet
<1>2. ASSUME NEW fold PROVE Step(fold) = FoldStep(Stops, Lossy(said), fold)
  BY Zenon DEF FoldStep, Stripped
<1> HIDE DEF Step
<1>3. (CHOOSE fold : fold = Step(fold)) =
          CHOOSE fold : fold = FoldStep(Stops, Lossy(said), fold)
  BY <1>2, Zenon
<1> QED BY <1>1, <1>3, Zenon DEF FoldOf

\* The greatest of the first numbers
LEMMA MaxOfFirst ==
    ASSUME NEW n \in Nat, NEW s \in SUBSET (1..n), s # {}
    PROVE  Max(s) \in s /\ s \ {Max(s)} \in SUBSET (1..(n - 1))
<1>1. s \in SUBSET Nat /\ \A m \in s : m <= n
  OBVIOUS
<1>2. PICK g \in s : \A m \in s : m <= g
  BY <1>1, GreatestNumber
<1>3. \A m \in s : g >= m
  BY <1>1, <1>2
<1>4. Max(s) = CHOOSE x \in s : \A y \in s : x >= y
  BY DEF Max
<1>5. Max(s) \in s /\ \A m \in s : Max(s) >= m
  BY <1>3, <1>4
<1>6. ASSUME NEW m \in s, m # Max(s) PROVE m \in 1..(n - 1)
  <2>1. m \in 1..n /\ Max(s) \in 1..n /\ Max(s) >= m
    BY <1>5
  <2> QED BY <1>6, <2>1
<1> QED BY <1>5, <1>6

\* Functions that are such a fold for the sets of the first n numbers
FoldsUpto(stops, base, n) ==
    {fold \in [SUBSET DOMAIN stops -> Strings] :
        \A s \in SUBSET (1..n) : fold[s] = FoldStep(stops, base, fold)[s]}

\* strip_stop_sequence returns a text.
LEMMA StrippedIsText ==
    ASSUME NEW text \in Strings, NEW stop \in Strings
    PROVE  /\ Stripped(text, stop) \in Strings
           /\ IsPrefix(Stripped(text, stop), text)
<1>1. Len(text) \in Nat /\ Len(stop) \in Nat
  BY LenProperties DEF Strings
<1>2. IsPrefix(text, text)
  BY <1>1, PrefixIs DEF Strings
<1>3. CASE IsSuffix(stop, text)
  <2> DEFINE n == Len(text) - Len(stop)
  <2>1. Len(stop) <= Len(text)
    BY <1>3, SuffixIs DEF Strings
  <2>2. n \in 0..Len(text) /\ n <= Len(text)
    BY <1>1, <2>1
  <2> HIDE DEF n
  <2>3. /\ Upto(text, n) \in Strings /\ Len(Upto(text, n)) = n
        /\ \A i \in 1..n : Upto(text, n)[i] = text[i]
    BY <2>2, UptoIs DEF Strings
  <2>4. IsPrefix(Upto(text, n), text)
    BY <2>2, <2>3, PrefixIs DEF Strings
  <2>5. Stripped(text, stop) = Upto(text, n)
    BY <1>3 DEF Stripped, n
  <2> QED BY <2>3, <2>4, <2>5
<1>4. CASE ~IsSuffix(stop, text)
  BY <1>2, <1>4 DEF Stripped
<1> QED BY <1>3, <1>4

\* The fold over the stops is the function its equation describes, by well-founded recursion.
LEMMA FoldExists ==
    ASSUME NEW stops \in Seq(StopStrings), NEW base \in Strings
    PROVE  FoldOf(stops, base) = FoldStep(stops, base, FoldOf(stops, base))
<1> DEFINE L == Len(stops)
<1>1. L \in Nat /\ DOMAIN stops = 1..L
  BY LenProperties
<1>2. \A i \in 1..L : stops[i] \in Strings
  BY ElementOfSeq DEF StopStrings
<1> HIDE DEF L
<1>3. FoldsUpto(stops, base, 0) # {}
  <2> DEFINE fold == [s \in SUBSET DOMAIN stops |-> base]
  <2>1. fold \in [SUBSET DOMAIN stops -> Strings]
    OBVIOUS
  <2>2. \A s \in SUBSET (1..0) : fold[s] = FoldStep(stops, base, fold)[s]
    <3> TAKE s \in SUBSET (1..0)
    <3>1. s = {} /\ s \in SUBSET DOMAIN stops
      OBVIOUS
    <3> QED BY <3>1 DEF FoldStep
  <2> HIDE DEF fold
  <2> QED BY <2>1, <2>2 DEF FoldsUpto
<1>4. ASSUME NEW n \in 0..(L - 1), FoldsUpto(stops, base, n) # {}
      PROVE  FoldsUpto(stops, base, n + 1) # {}
  <2>1. PICK old \in FoldsUpto(stops, base, n) : TRUE
    BY <1>4
  <2>2. /\ old \in [SUBSET DOMAIN stops -> Strings]
        /\ \A s \in SUBSET (1..n) : old[s] = FoldStep(stops, base, old)[s]
    BY DEF FoldsUpto
  <2> DEFINE fold == FoldStep(stops, base, old)
  <2>3. ASSUME NEW s \in SUBSET DOMAIN stops
        PROVE  fold[s] \in Strings
    <3>1. CASE s = {}
      BY <3>1 DEF FoldStep
    <3>2. CASE s # {}
      <4>1. Max(s) \in s /\ s \ {Max(s)} \in SUBSET DOMAIN stops
        BY <1>1, <3>2, MaxOfFirst
      <4>2. old[s \ {Max(s)}] \in Strings /\ stops[Max(s)] \in Strings
        BY <1>1, <1>2, <2>2, <4>1
      <4>3. fold[s] = Stripped(old[s \ {Max(s)}], stops[Max(s)])
        BY <3>2 DEF FoldStep
      <4> QED BY <4>2, <4>3, StrippedIsText
    <3> QED BY <3>1, <3>2
  <2>4. fold \in [SUBSET DOMAIN stops -> Strings]
    <3>1. fold = [s \in SUBSET DOMAIN stops |-> fold[s]]
      BY DEF FoldStep
    <3> HIDE DEF fold
    <3> QED BY <2>3, <3>1
  <2>5. ASSUME NEW s \in SUBSET (1..(n + 1))
        PROVE  fold[s] = FoldStep(stops, base, fold)[s]
    <3>1. s \in SUBSET DOMAIN stops
      BY <1>1
    <3>2. CASE s = {}
      BY <3>1, <3>2 DEF FoldStep
    <3>3. CASE s # {}
      <4> DEFINE r == s \ {Max(s)}
      <4>1. r \in SUBSET (1..n)
        <5>1. n + 1 \in Nat /\ (n + 1) - 1 = n
          BY <1>1
        <5>2. r \in SUBSET (1..((n + 1) - 1))
          BY <3>3, <5>1, MaxOfFirst
        <5> QED BY <5>1, <5>2
      <4>2. old[r] = fold[r]
        BY <2>2, <4>1
      <4>3. fold[s] = Stripped(old[r], stops[Max(s)])
        BY <3>1, <3>3 DEF FoldStep
      <4> HIDE DEF fold
      <4>4. FoldStep(stops, base, fold)[s] = Stripped(fold[r], stops[Max(s)])
        BY <3>1, <3>3 DEF FoldStep
      <4> QED BY <4>2, <4>3, <4>4
    <3> QED BY <3>2, <3>3
  <2> HIDE DEF fold
  <2>6. fold \in FoldsUpto(stops, base, n + 1)
    BY <2>4, <2>5 DEF FoldsUpto
  <2> QED BY <2>6
<1> DEFINE T == {n \in 0..L : FoldsUpto(stops, base, n) = {}}
<1>5. ASSUME T # {} PROVE FALSE
  <2>1. T \in SUBSET Nat
    BY <1>1
  <2>2. PICK n \in T : \A m \in T : n <= m
    <3> HIDE DEF T
    <3> QED BY <1>5, <2>1, LeastNumber
  <2>3. n # 0 /\ n \in 0..L
    BY <1>3, <2>2
  <2>4. n - 1 \in 0..(L - 1) /\ n - 1 \in 0..L /\ ~(n <= n - 1) /\ (n - 1) + 1 = n
    BY <1>1, <2>3
  <2>5. FoldsUpto(stops, base, n - 1) # {}
    BY <2>2, <2>4
  <2>6. FoldsUpto(stops, base, (n - 1) + 1) # {}
    <3> HIDE DEF T
    <3> QED BY <1>4, <2>4, <2>5
  <2> QED BY <2>2, <2>4, <2>6
<1>6. L \in 0..L
  BY <1>1
<1>7. PICK fold \in FoldsUpto(stops, base, L) : TRUE
  BY <1>5, <1>6
<1>8. /\ fold \in [SUBSET DOMAIN stops -> Strings]
      /\ \A s \in SUBSET DOMAIN stops : fold[s] = FoldStep(stops, base, fold)[s]
  BY <1>1, <1>7 DEF FoldsUpto
<1>9. /\ fold = [s \in SUBSET DOMAIN stops |-> fold[s]]
      /\ FoldStep(stops, base, fold) =
             [s \in SUBSET DOMAIN stops |-> FoldStep(stops, base, fold)[s]]
  BY <1>8 DEF FoldStep
<1>10. fold = FoldStep(stops, base, fold)
  BY <1>8, <1>9
<1> QED BY <1>10, Zenon DEF FoldOf

\* One stop sequence after another
LEMMA LeftAfterIs ==
    ASSUME NEW stops \in Seq(StopStrings), NEW base \in Strings
    PROVE  /\ LeftAfter(stops, base, 0) = base
           /\ \A n \in 1..Len(stops) :
                  LeftAfter(stops, base, n) = Stripped(LeftAfter(stops, base, n - 1), stops[n])
<1> DEFINE f == FoldOf(stops, base)
<1>1. f = FoldStep(stops, base, f)
  BY FoldExists
<1>2. Len(stops) \in Nat /\ DOMAIN stops = 1..Len(stops)
  BY LenProperties
<1> HIDE DEF f
<1>3. f[1..0] = base
  <2>1. 1..0 = {} /\ {} \in SUBSET DOMAIN stops
    OBVIOUS
  <2>2. FoldStep(stops, base, f)[{}] = base
    BY <2>1 DEF FoldStep
  <2> QED BY <1>1, <2>1, <2>2
<1>4. ASSUME NEW n \in 1..Len(stops)
      PROVE  f[1..n] = Stripped(f[1..(n - 1)], stops[n])
  <2> DEFINE s == 1..n
  <2>1. s \in SUBSET DOMAIN stops /\ s # {} /\ n \in s /\ n \in Nat
    <3>1. n \in Nat /\ n >= 1 /\ n <= Len(stops)
      BY <1>2
    <3>2. n \in s
      BY <3>1
    <3>3. \A j \in s : j \in 1..Len(stops)
      BY <1>2, <3>1
    <3>4. s \in SUBSET DOMAIN stops
      BY <1>2, <3>3
    <3> QED BY <3>1, <3>2, <3>4
  <2>2. Max(s) \in s /\ s \ {Max(s)} \in SUBSET (1..(n - 1))
    <3>1. s \in SUBSET (1..n)
      OBVIOUS
    <3> HIDE DEF s
    <3> QED BY <2>1, <3>1, MaxOfFirst
  <2>3. n \notin 1..(n - 1)
    BY <2>1
  <2>4. Max(s) = n
    <3> HIDE DEF s
    <3> QED BY <2>1, <2>2, <2>3
  <2>5. s \ {n} = 1..(n - 1)
    BY <2>1
  <2> HIDE DEF s
  <2>6. FoldStep(stops, base, f)[s] = Stripped(f[s \ {Max(s)}], stops[Max(s)])
    BY <2>1 DEF FoldStep
  <2>7. f[s] = Stripped(f[1..(n - 1)], stops[n])
    BY <1>1, <2>4, <2>5, <2>6
  <2> QED BY <2>7 DEF s
<1> QED BY <1>3, <1>4 DEF LeftAfter, f

\* A blocking request gets a beginning of the text without its first stop sequence, and with
\* at most one stop sequence all of it.
LEMMA BlockingIs ==
    ASSUME Stops \in Seq(StopStrings), Lossy(said) \in Strings
    PROVE  /\ WithoutStop(Lossy(said)) \in Strings
           /\ Blocking \in Strings
           /\ IsPrefix(Blocking, WithoutStop(Lossy(said)))
           /\ Len(Stops) < 2 => Blocking = WithoutStop(Lossy(said))
<1> DEFINE d == Lossy(said)
           m == MatchedStop(d)
           left(n) == LeftAfter(Stops, d, n)
           out == WithoutStop(d)
<1>1. /\ Len(Stops) \in Nat /\ DOMAIN Stops = 1..Len(Stops) /\ Len(d) \in Nat
      /\ \A i \in 1..Len(Stops) : Stops[i] \in Strings
  BY LenProperties, ElementOfSeq DEF Strings, StopStrings
<1>2. /\ left(0) = d
      /\ \A n \in 1..Len(Stops) : left(n) = Stripped(left(n - 1), Stops[n])
  BY LeftAfterIs
<1>3. Blocking = left(Len(Stops))
  BY <1>1, BlockingFolds DEF LeftAfter
<1>4. /\ m \in 0..Len(d)
      /\ m = 0 <=> Matching(d) = {}
      /\ m # 0 => \E i \in Matching(d) : m = Len(Stops[i]) /\ \A j \in Matching(d) : i <= j
  BY MatchedStopIs
<1>5. out = Upto(d, Len(d) - m)
  BY DEF WithoutStop
<1>6. out \in Strings /\ IsPrefix(out, out)
  <2>1. Len(d) - m \in 0..Len(d)
    BY <1>1, <1>4
  <2>2. out \in Strings
    <3> HIDE DEF d, m, out
    <3> QED BY <1>5, <2>1, UptoIs DEF Strings, d
  <2>3. Len(out) \in Nat
    BY <2>2, LenProperties DEF Strings
  <2> HIDE DEF out
  <2>4. IsPrefix(out, out)
    BY <2>2, <2>3, PrefixIs DEF Strings
  <2> QED BY <2>2, <2>4
<1> HIDE DEF d, m, left, out
<1>7. d \in Strings
  BY DEF d
<1>8. ASSUME NEW k \in 0..Len(Stops), \A i \in 1..k : i \notin Matching(d)
      PROVE  left(k) = d
  <2> DEFINE T == {n \in 0..k : left(n) # d}
  <2>1. ASSUME T # {} PROVE FALSE
    <3>1. T \in SUBSET Nat
      BY <1>1
    <3>2. PICK n \in T : \A j \in T : n <= j
      <4> HIDE DEF T
      <4> QED BY <2>1, <3>1, LeastNumber
    <3>3. n # 0
      BY <1>2, <3>2
    <3>4. n \in 1..k /\ n \in 1..Len(Stops) /\ n - 1 \in 0..k /\ ~(n <= n - 1)
      BY <1>1, <3>2, <3>3
    <3>5. left(n - 1) = d
      BY <3>2, <3>4
    <3>6. ~IsSuffix(Stops[n], d)
      BY <1>8, <3>4 DEF Matching
    <3>7. left(n) = d
      BY <1>2, <3>4, <3>5, <3>6 DEF Stripped
    <3> QED BY <3>2, <3>7
  <2>2. k \in 0..k
    BY <1>1
  <2> QED BY <2>1, <2>2
<1>9. CASE m = 0
  <2>1. Len(d) - m = Len(d)
    BY <1>1, <1>9
  <2>2. out = d
    BY <1>5, <1>7, <2>1, SubSeqFull DEF Upto, Strings
  <2>3. Len(Stops) \in 0..Len(Stops) /\ Matching(d) = {}
    BY <1>1, <1>4, <1>9
  <2>4. left(Len(Stops)) = d
    BY <1>8, <2>3
  <2> QED BY <1>3, <1>6, <1>7, <2>2, <2>4 DEF out, d
<1>10. CASE m # 0
  <2>1. PICK i \in Matching(d) : m = Len(Stops[i]) /\ \A j \in Matching(d) : i <= j
    BY <1>4, <1>10
  <2>2. i \in 1..Len(Stops) /\ IsSuffix(Stops[i], d)
    BY DEF Matching
  <2>3. /\ i - 1 \in 0..Len(Stops) /\ i \in Nat
        /\ \A j \in 1..(i - 1) : j \in 1..Len(Stops) /\ ~(i <= j)
    BY <1>1, <2>2
  <2>4. left(i - 1) = d
    BY <1>8, <2>1, <2>3
  <2>5. left(i) = out
    BY <1>2, <1>5, <2>1, <2>2, <2>4 DEF Stripped
  <2> DEFINE T == {n \in i..Len(Stops) : ~(left(n) \in Strings /\ IsPrefix(left(n), out))}
  <2>6. ASSUME T # {} PROVE FALSE
    <3>1. T \in SUBSET Nat
      BY <2>3
    <3>2. PICK n \in T : \A j \in T : n <= j
      <4> HIDE DEF T
      <4> QED BY <2>6, <3>1, LeastNumber
    <3>3. n # i
      BY <1>6, <2>5, <3>2
    <3>4. n \in 1..Len(Stops) /\ n - 1 \in i..Len(Stops) /\ ~(n <= n - 1)
      BY <1>1, <2>3, <3>2, <3>3
    <3>5. left(n - 1) \in Strings /\ IsPrefix(left(n - 1), out)
      BY <3>2, <3>4
    <3>6. left(n) = Stripped(left(n - 1), Stops[n]) /\ Stops[n] \in Strings
      BY <1>1, <1>2, <3>4
    <3>7. left(n) \in Strings /\ IsPrefix(left(n), left(n - 1))
      BY <3>5, <3>6, StrippedIsText
    <3>8. IsPrefix(left(n), out)
      <4>1. /\ Len(left(n)) <= Len(left(n - 1))
            /\ \A j \in 1..Len(left(n)) : left(n)[j] = left(n - 1)[j]
        BY <3>5, <3>7, PrefixIs DEF Strings
      <4>2. /\ Len(left(n - 1)) <= Len(out)
            /\ \A j \in 1..Len(left(n - 1)) : left(n - 1)[j] = out[j]
        BY <1>6, <3>5, PrefixIs DEF Strings
      <4>3. Len(left(n)) \in Nat /\ Len(left(n - 1)) \in Nat /\ Len(out) \in Nat
        BY <1>6, <3>5, <3>7, LenProperties DEF Strings
      <4>4. \A j \in 1..Len(left(n)) : j \in 1..Len(left(n - 1))
        BY <4>1, <4>3
      <4>5. Len(left(n)) <= Len(out) /\ \A j \in 1..Len(left(n)) : left(n)[j] = out[j]
        BY <4>1, <4>2, <4>3, <4>4
      <4> QED BY <1>6, <3>7, <4>5, PrefixIs DEF Strings
    <3> QED BY <3>2, <3>7, <3>8
  <2>7. Len(Stops) \in i..Len(Stops)
    BY <1>1, <2>2
  <2>8. Blocking \in Strings /\ IsPrefix(Blocking, out)
    BY <1>3, <2>6, <2>7
  <2>9. ASSUME Len(Stops) < 2 PROVE Blocking = out
    <3>1. Len(Stops) \in Nat /\ i \in 1..Len(Stops)
      BY <1>1, <2>2
    <3>2. Len(Stops) = i
      BY <2>9, <3>1
    <3> QED BY <1>3, <2>5, <3>2
  <2> QED BY <1>6, <2>8, <2>9 DEF out, d
<1> QED BY <1>9, <1>10

----------------------------------------------------------------------------
(* The invariant.                                                          *)

\* What a request brings
Wishes == [stops : Seq(StopStrings), forced : Strings, tools : BOOLEAN]

\* The shape of the state
TextTypeOK ==
    /\ stage \in {"new", "generating", "flush", "generated", "finished"}
    /\ request \in Wishes
    /\ said \in Strings /\ undecoded \in Strings /\ pending \in Strings
    /\ sent \in Strings /\ shown \in Strings
    /\ stopped \in BOOLEAN /\ lost \in BOOLEAN

\* Nothing was there before the request.
Fresh ==
    /\ said = <<>> /\ undecoded = <<>> /\ pending = <<>> /\ sent = <<>> /\ shown = <<>>
    /\ ~stopped /\ ~lost

\* What the loop keeps is the end of the decoded text, and long enough to find every stop
\* sequence in; the rest of the text was sent.
KeptIsEnough ==
    /\ Held(Decoded, pending)
    /\ MatchedStop(Decoded) = 0
    /\ \E w \in Strings : Decoded = w \o pending /\ (~lost => w = Body)

\* After a stop sequence the text before it was sent and nothing is kept.
SentBeforeStop == pending = <<>> /\ (~lost => Body = WithoutStop(Decoded))

\* What the client is to see of what was sent
Displayed == IF request.tools THEN Safe(sent, stage = "finished") ELSE sent

\* The invariant of a generation's text, by its stages
AnswerInv ==
    /\ TextTypeOK
    /\ stage = "new" => Fresh
    /\ stage \in {"generating", "flush"} => undecoded = After(said, Decodable(said))
    /\ stage = "generating" => ~stopped
    /\ stage \in {"generating", "flush"} /\ ~stopped => KeptIsEnough
    /\ stage = "flush" /\ stopped => SentBeforeStop
    /\ WholeAtEnd
    /\ sent = <<>> \/ Len(request.forced) <= Len(sent)
    /\ shown = Displayed

\* The decoder has a text for the bytes at any moment.
LEMMA DecodedIs ==
    ASSUME TextTypeOK
    PROVE  /\ Decoded \in Strings /\ Unfinished \in Strings
           /\ Lossy(said) = Decoded \o Unfinished
<1>1. said \in Strings
  BY DEF TextTypeOK
<1> DEFINE n == Decodable(said)
<1>2. /\ Upto(said, n) \in Strings /\ After(said, n) \in Strings
      /\ Lossy(said) = Lossy(Upto(said, n)) \o Lossy(After(said, n))
  BY <1>1, RestDecodes
<1>3. Lossy(Upto(said, n)) \in Strings /\ Lossy(After(said, n)) \in Strings
  BY <1>2, LossyIsText
<1> QED BY <1>2, <1>3 DEF Decoded, Unfinished

\* The stop sequences of a request are texts that are not empty.
LEMMA StopsAre ==
    ASSUME TextTypeOK
    PROVE  /\ Stops \in Seq(StopStrings) /\ request.forced \in Strings
           /\ request.tools \in BOOLEAN
BY DEF TextTypeOK, Wishes, Stops

\* What follows a text in a joined one is the other.
LEMMA AfterFirst ==
    ASSUME NEW x \in Strings, NEW y \in Strings
    PROVE  /\ After(x \o y, Len(x)) = y /\ After(y, 0) = y /\ x \o y \in Strings
           /\ <<>> \o y = y /\ y \o <<>> = y /\ <<>> \in Strings
<1>1. Len(x) \in Nat /\ Len(y) \in Nat /\ 0 \in 0..Len(y)
  BY LenProperties DEF Strings
<1>2. After(x \o y, Len(x) + 0) = After(y, 0)
  BY <1>1, CutOfJoin DEF Strings
<1>3. After(y, 0) = y
  BY <1>1, SubSeqFull DEF After, Strings
<1>4. Len(x) + 0 = Len(x)
  BY <1>1
<1>5. x \o y \in Strings /\ <<>> \o y = y /\ y \o <<>> = y /\ <<>> \in Strings
  BY JoinIs, ConcatEmptySeq, EmptySeq DEF Strings
<1> QED BY <1>2, <1>3, <1>4, <1>5

\* A word is sent, and shown as far as it is safe.
LEMMA DeliverIs ==
    ASSUME TextTypeOK, shown = Displayed, sent = <<>> \/ Len(request.forced) <= Len(sent),
           stage # "finished", stage' # "finished", request' = request,
           NEW text \in Strings, Deliver(text)
    PROVE  /\ sent' \in Strings /\ shown' \in Strings /\ shown' = Displayed'
           /\ sent' = <<>> \/ Len(request'.forced) <= Len(sent')
           /\ Body \in Strings
           /\ ~lost => Body' = Body \o text
<1> DEFINE forced == request.forced
           word == IF sent = <<>> THEN forced \o text ELSE text
           more == sent \o word
<1>1. sent \in Strings /\ shown \in Strings /\ forced \in Strings /\ request.tools \in BOOLEAN
  BY StopsAre DEF TextTypeOK
<1>2. word \in Strings
  BY <1>1, JoinIs DEF Strings
<1>3. Len(sent) \in Nat /\ Len(forced) \in Nat
  BY <1>1, LenProperties DEF Strings
<1>4. Body \in Strings
  <2>1. CASE sent = <<>>
    <3>1. Body = After(sent, 0)
      BY <2>1 DEF Body
    <3> QED BY <1>1, <3>1, AfterFirst
  <2>2. CASE sent # <<>>
    <3>1. Len(forced) \in 0..Len(sent)
      BY <1>3, <2>2
    <3>2. After(sent, Len(forced)) \in Strings
      <4> HIDE DEF forced
      <4> QED BY <1>1, <3>1, AfterIs DEF Strings
    <3> QED BY <2>2, <3>2 DEF Body
  <2> QED BY <2>1, <2>2
<1> HIDE DEF word
<1>5. CASE text = <<>> \/ lost
  <2>1. sent' = sent /\ shown' = shown
    BY <1>5 DEF Deliver
  <2>2. (stage = "finished") = FALSE /\ (stage' = "finished") = FALSE
    OBVIOUS
  <2>3. Displayed' = Displayed
    <3>1. Displayed = IF request.tools THEN Safe(sent, FALSE) ELSE sent
      BY <2>2 DEF Displayed
    <3>2. Displayed' = IF request.tools THEN Safe(sent, FALSE) ELSE sent
      BY <2>1, <2>2 DEF Displayed
    <3> QED BY <3>1, <3>2
  <2>4. Body' = Body
    BY <2>1 DEF Body
  <2>5. ~lost => Body \o text = Body
    BY <1>4, <1>5, AfterFirst
  <2> QED BY <1>1, <1>4, <2>1, <2>3, <2>4, <2>5
<1>6. CASE text # <<>> /\ ~lost
  <2>1. sent' = more /\ shown' = ShownOf(more, FALSE)
    BY <1>6, Zenon DEF Deliver, word
  <2>2. more \in Strings
    BY <1>1, <1>2, AfterFirst
  <2>3. Len(text) \in Nat \ {0}
    BY <1>6, EmptySeq DEF Strings
  <2>4. shown = IF request.tools THEN Safe(sent, FALSE) ELSE sent
    <3>1. (stage = "finished") = FALSE
      OBVIOUS
    <3> QED BY <3>1 DEF Displayed
  <2> DEFINE safe == IF request.tools THEN Safe(more, FALSE) ELSE more
  <2>5. shown' = shown \o After(safe, Len(shown))
    BY <2>1 DEF ShownOf
  <2>6. safe \in Strings /\ IsPrefix(shown, safe)
    <3>1. CASE request.tools
      BY <1>1, <1>2, <2>2, <2>4, <3>1, SafeGrows
    <3>2. CASE ~request.tools
      <4>1. shown = sent /\ safe = more
        BY <2>4, <3>2
      <4>2. /\ Len(more) = Len(sent) + Len(word) /\ \A i \in 1..Len(sent) : more[i] = sent[i]
        BY <1>1, <1>2, JoinIs DEF Strings
      <4>3. Len(word) \in Nat
        BY <1>2, LenProperties DEF Strings
      <4>4. Len(sent) <= Len(more)
        BY <1>3, <4>2, <4>3
      <4> HIDE DEF more
      <4>5. IsPrefix(sent, more)
        BY <1>1, <2>2, <4>2, <4>4, PrefixIs DEF Strings
      <4> QED BY <2>2, <4>1, <4>5
    <3> QED BY <3>1, <3>2
  <2> HIDE DEF safe
  <2>7. shown' = safe
    BY <1>1, <2>5, <2>6, PrefixCompleted
  <2>8. Displayed' = safe
    <3>1. (stage' = "finished") = FALSE
      OBVIOUS
    <3>2. Displayed' = IF request.tools THEN Safe(more, FALSE) ELSE more
      BY <2>1, <3>1 DEF Displayed
    <3> QED BY <3>2 DEF safe
  <2>9. more # <<>> /\ Len(forced) <= Len(more) /\ After(more, Len(forced)) = Body \o text
    <3>1. CASE sent = <<>>
      <4>1. word = forced \o text
        BY <3>1 DEF word
      <4>2. more = forced \o text
        BY <1>2, <3>1, <4>1, AfterFirst
      <4>3. Len(more) = Len(forced) + Len(text)
        BY <1>1, <4>2, JoinIs DEF Strings
      <4>4. After(more, Len(forced)) = text
        BY <1>1, <4>2, AfterFirst
      <4>5. Body = <<>>
        <5>1. Body = After(<<>>, 0)
          BY <3>1 DEF Body
        <5> QED BY <5>1, AfterFirst
      <4>6. Body \o text = text
        BY <4>5, AfterFirst
      <4>7. more # <<>> /\ Len(forced) <= Len(more)
        <5>1. Len(more) > 0 /\ Len(forced) <= Len(more)
          BY <1>3, <2>3, <4>3
        <5>2. Len(<<>>) = 0
          OBVIOUS
        <5> HIDE DEF more
        <5> QED BY <5>1, <5>2
      <4> QED BY <4>4, <4>6, <4>7
    <3>2. CASE sent # <<>>
      <4>1. more = sent \o text
        BY <3>2 DEF word
      <4> DEFINE u == Upto(sent, Len(forced))
      <4>2. Len(forced) \in 0..Len(sent)
        BY <1>3, <3>2
      <4>3. Body = After(sent, Len(forced))
        BY <3>2 DEF Body
      <4>4. u \in Strings /\ Len(u) = Len(forced) /\ sent = u \o Body
        <5> HIDE DEF forced
        <5> QED BY <1>1, <4>2, <4>3, UptoIs, CutAndRest DEF Strings
      <4> HIDE DEF u
      <4>5. more = u \o (Body \o text)
        <5>1. u \in Seq(Symbols) /\ Body \in Seq(Symbols) /\ text \in Seq(Symbols)
          BY <1>4, <4>4 DEF Strings
        <5>2. (u \o Body) \o text = u \o (Body \o text)
          BY <5>1, ConcatAssociative
        <5> QED BY <4>1, <4>4, <5>2
      <4>6. Body \o text \in Strings
        BY <1>4, AfterFirst
      <4>7. After(more, Len(forced)) = Body \o text
        <5> DEFINE rest == Body \o text
        <5>1. rest \in Strings
          BY <4>6
        <5> HIDE DEF rest, more
        <5>2. After(u \o rest, Len(u)) = rest
          BY <4>4, <5>1, AfterFirst
        <5>3. more = u \o rest
          BY <4>5 DEF rest
        <5>4. After(more, Len(forced)) = rest
          BY <4>4, <5>2, <5>3
        <5> QED BY <5>4 DEF rest
      <4>8. Len(more) = Len(sent) + Len(text)
        BY <1>1, <4>1, JoinIs DEF Strings
      <4>9. Len(more) > 0 /\ Len(forced) <= Len(more)
        BY <1>3, <2>3, <4>2, <4>8
      <4>10. Len(<<>>) = 0
        OBVIOUS
      <4>11. more # <<>>
        <5> HIDE DEF more
        <5> QED BY <4>9, <4>10
      <4> QED BY <4>7, <4>9, <4>11
    <3> QED BY <3>1, <3>2
  <2>10. Body' = Body \o text
    <3>1. Body' = After(more, IF more = <<>> THEN 0 ELSE Len(forced))
      BY <2>1 DEF Body
    <3> QED BY <2>9, <3>1
  <2> HIDE DEF more
  <2> QED BY <1>4, <2>1, <2>2, <2>6, <2>7, <2>8, <2>9, <2>10
<1> QED BY <1>5, <1>6

\* The parts of the invariant that are about what does not change
LEMMA SameText ==
    ASSUME UNCHANGED <<request, said, pending, sent>>
    PROVE  /\ Decoded' = Decoded /\ Unfinished' = Unfinished /\ Body' = Body
           /\ WithoutStop(Decoded)' = WithoutStop(Decoded)
           /\ (KeptIsEnough /\ (lost => lost') => KeptIsEnough')
           /\ (SentBeforeStop /\ (lost => lost') => SentBeforeStop')
           /\ (WholeAtEnd /\ lost' = lost /\ stopped' = stopped /\ stage' = stage => WholeAtEnd')
<1>1. Decoded' = Decoded /\ Unfinished' = Unfinished /\ Body' = Body
  BY DEF Decoded, Unfinished, Body
<1>2. Held(Decoded, pending)' <=> Held(Decoded, pending)
  BY <1>1, Zenon DEF Held, Stops
<1>3. MatchedStop(Decoded)' = MatchedStop(Decoded)
  BY <1>1, Zenon DEF MatchedStop, Stops, SelectInSeq
<1>4. WithoutStop(Decoded)' = WithoutStop(Decoded)
  BY <1>1, <1>3, Zenon DEF WithoutStop
<1>5. KeptIsEnough /\ (lost => lost') => KeptIsEnough'
  BY <1>1, <1>2, <1>3, Zenon DEF KeptIsEnough
<1>6. SentBeforeStop /\ (lost => lost') => SentBeforeStop'
  BY <1>1, <1>4, Zenon DEF SentBeforeStop
<1>7. WithoutStop(Unfinished)' = WithoutStop(Unfinished)
  BY <1>1, Zenon DEF WithoutStop, MatchedStop, Stops, SelectInSeq
<1>8. WithoutStop(Decoded \o Unfinished)' = WithoutStop(Decoded \o Unfinished)
  BY <1>1, Zenon DEF WithoutStop, MatchedStop, Stops, SelectInSeq
<1>9. WholeAtEnd /\ lost' = lost /\ stopped' = stopped /\ stage' = stage => WholeAtEnd'
  <2> SUFFICES ASSUME WholeAtEnd, lost' = lost, stopped' = stopped, stage' = stage,
                      stage' \in {"generated", "finished"}, ~lost'
               PROVE  Body' = IF stopped'
                              THEN WithoutStop(Decoded)' \o WithoutStop(Unfinished)'
                              ELSE WithoutStop(Decoded \o Unfinished)'
    BY DEF WholeAtEnd
  <2>1. Body = IF stopped THEN WithoutStop(Decoded) \o WithoutStop(Unfinished)
               ELSE WithoutStop(Decoded \o Unfinished)
    BY DEF WholeAtEnd
  <2> QED BY <1>1, <1>4, <1>7, <1>8, <2>1
<1> QED BY <1>1, <1>4, <1>5, <1>6, <1>9

\* A request starts with nothing said, kept, sent or shown.
LEMMA TextStarts == TextInit => AnswerInv
<1> SUFFICES ASSUME TextInit PROVE AnswerInv
  OBVIOUS
<1>1. /\ stage = "new" /\ said = <<>> /\ undecoded = <<>> /\ pending = <<>> /\ ~stopped
      /\ ~lost /\ sent = <<>> /\ shown = <<>> /\ stopped \in BOOLEAN /\ lost \in BOOLEAN
      /\ request = [stops |-> <<>>, forced |-> <<>>, tools |-> FALSE]
  BY DEF TextInit
<1>2. <<>> \in Strings /\ <<>> \in Seq(StopStrings)
  BY EmptySeq DEF Strings
<1>3. TextTypeOK
  BY <1>1, <1>2 DEF TextTypeOK, Wishes
<1>4. shown = Displayed
  BY <1>1 DEF Displayed
<1>5. WholeAtEnd
  BY <1>1 DEF WholeAtEnd
<1> QED BY <1>1, <1>3, <1>4, <1>5 DEF AnswerInv, Fresh

\* Begin keeps the invariant: the text starts with the forced prefix.
LEMMA BeginKeeps == AnswerInv /\ Begin => AnswerInv'
<1> SUFFICES ASSUME AnswerInv, Begin PROVE AnswerInv'
  OBVIOUS
<1>1. /\ stage = "new" /\ stage' = "generating"
      /\ said' = said /\ undecoded' = undecoded /\ pending' = pending /\ stopped' = stopped
      /\ lost' = lost /\ sent' = sent /\ shown' = shown
  BY DEF Begin
<1>2. PICK list \in StopLists, forced \in ForcedPrefixes, tools \in BOOLEAN :
          request' = [stops |-> list, forced |-> forced, tools |-> tools]
  BY DEF Begin
<1>3. Fresh /\ TextTypeOK
  BY <1>1 DEF AnswerInv
<1>4. /\ said = <<>> /\ undecoded = <<>> /\ pending = <<>> /\ sent = <<>> /\ shown = <<>>
      /\ ~stopped /\ ~lost
  BY <1>3 DEF Fresh
<1>5. <<>> \in Strings /\ Len(<<>>) = 0
  BY EmptySeq DEF Strings
<1>6. list \in Seq(StopStrings)
  <2>1. list \in Seq(ToSet(list)) /\ \A stop \in ToSet(list) : stop # <<>>
    BY TextAssumption
  <2>2. \A stop \in ToSet(list) : stop \in Seq(ToSet(stop)) /\ ToSet(stop) \in SUBSET Symbols
    BY TextAssumption DEF Symbols
  <2>3. ToSet(list) \in SUBSET StopStrings
    <3> SUFFICES ASSUME NEW stop \in ToSet(list) PROVE stop \in StopStrings
      OBVIOUS
    <3>1. stop \in Seq(Symbols)
      BY <2>2, SeqMonotonic
    <3> QED BY <2>1, <3>1 DEF StopStrings, Strings
  <2> QED BY <2>1, <2>3, SeqMonotonic
<1>7. forced \in Strings
  <2>1. forced \in Seq(ToSet(forced)) /\ ToSet(forced) \in SUBSET Symbols
    BY TextAssumption DEF Symbols
  <2> QED BY <2>1, SeqMonotonic DEF Strings
<1>8. request' \in Wishes /\ request'.stops = list /\ request'.tools = tools
  BY <1>2, <1>6, <1>7 DEF Wishes
<1>9. TextTypeOK'
  BY <1>1, <1>3, <1>8 DEF TextTypeOK
<1>10. Decodable(<<>>) = 0 /\ Upto(<<>>, 0) = <<>> /\ After(<<>>, 0) = <<>>
  <2>1. Decodable(<<>>) \in 0..0
    BY <1>5, DecodableBounds
  <2>2. Upto(<<>>, 0) \in Strings /\ Len(Upto(<<>>, 0)) = 0
    <3>1. 0 \in 0..Len(<<>>)
      BY <1>5
    <3> QED BY <1>5, <3>1, UptoIs DEF Strings
  <2> QED BY <1>5, <2>1, <2>2, AfterFirst, EmptySeq DEF Strings
<1>11. Decoded' = <<>> /\ Body' = <<>>
  BY <1>1, <1>4, <1>10, LossyIsText DEF Decoded, Body
<1>12. KeptIsEnough'
  <2>1. Stops' \in Seq(StopStrings) /\ Stops' = list
    BY <1>6, <1>8 DEF Stops
  <2>2. \A s \in Strings : IsSuffix(s, <<>>) => Len(s) = 0
    <3> TAKE s \in Strings
    <3>1. Len(s) \in Nat
      BY LenProperties DEF Strings
    <3>2. IsSuffix(s, <<>>) => Len(s) <= 0
      BY <1>5, SuffixIs DEF Strings
    <3> QED BY <3>1, <3>2
  <2>3. \A i \in 1..Len(list) : list[i] \in Strings /\ Len(list[i]) \in Nat \ {0}
    <3> TAKE i \in 1..Len(list)
    <3>1. list[i] \in StopStrings
      BY <1>6, ElementOfSeq
    <3> QED BY <3>1, EmptySeq DEF StopStrings, Strings
  <2>4. Held(Decoded, pending)'
    <3>1. \A i \in 1..Len(list) : \A n \in 1..(Len(list[i]) - 1) :
              ~IsSuffix(Upto(list[i], n), <<>>)
      <4> TAKE i \in 1..Len(list)
      <4> TAKE n \in 1..(Len(list[i]) - 1)
      <4>1. n \in 0..Len(list[i]) /\ n # 0
        BY <2>3
      <4>2. Upto(list[i], n) \in Strings /\ Len(Upto(list[i], n)) = n
        BY <2>3, <4>1, UptoIs DEF Strings
      <4> QED BY <2>2, <4>1, <4>2
    <3> QED BY <1>11, <2>1, <3>1 DEF Held
  <2>5. MatchedStop(Decoded)' = 0
    <3> DEFINE I == {i \in 1..Len(list) : IsSuffix(list[i], <<>>)}
    <3>1. I = {}
      <4> SUFFICES ASSUME NEW i \in 1..Len(list), IsSuffix(list[i], <<>>) PROVE FALSE
        OBVIOUS
      <4> QED BY <2>2, <2>3
    <3>2. MatchedStop(Decoded)' =
              LET first == IF I # {} THEN Min(I) ELSE 0
              IN  IF first = 0 THEN 0 ELSE Len(list[first])
      BY <1>11, <2>1, Zenon DEF MatchedStop, SelectInSeq
    <3> QED BY <3>1, <3>2
  <2>6. Decoded' = <<>> \o pending' /\ Body' = <<>>
    BY <1>1, <1>4, <1>11, <1>5, AfterFirst
  <2> QED BY <1>5, <2>4, <2>5, <2>6 DEF KeptIsEnough
<1>13. Safe(<<>>, FALSE) = <<>>
  <2>1. PICK c \in Cuts(<<>>) : Safe(<<>>, FALSE) = Upto(<<>>, c)
    BY <1>5, SafeIs
  <2>2. c = 0
    BY <1>5 DEF Cuts
  <2> QED BY <1>10, <2>1, <2>2
<1>14. shown' = Displayed'
  <2>1. (stage' = "finished") = FALSE
    BY <1>1
  <2>2. Displayed' = IF tools THEN Safe(<<>>, FALSE) ELSE <<>>
    BY <1>1, <1>4, <1>8, <2>1 DEF Displayed
  <2> QED BY <1>1, <1>4, <1>13, <2>2
<1>15. WholeAtEnd'
  BY <1>1 DEF WholeAtEnd
<1>16. undecoded' = After(said', Decodable(said'))
  BY <1>1, <1>4, <1>10
<1> QED BY <1>1, <1>4, <1>9, <1>12, <1>14, <1>15, <1>16 DEF AnswerInv

\* The end of the loop keeps the invariant: it touches no text.
LEMMA EndOfLoopKeeps == AnswerInv /\ EndOfLoop => AnswerInv'
<1> SUFFICES ASSUME AnswerInv, EndOfLoop PROVE AnswerInv'
  OBVIOUS
<1>1. /\ stage = "generating" /\ stage' = "flush" /\ request' = request
      /\ said' = said /\ undecoded' = undecoded /\ pending' = pending /\ stopped' = stopped
      /\ lost' = lost /\ sent' = sent /\ shown' = shown
  BY DEF EndOfLoop
<1>2. /\ TextTypeOK /\ ~stopped /\ KeptIsEnough /\ shown = Displayed
      /\ undecoded = After(said, Decodable(said))
      /\ sent = <<>> \/ Len(request.forced) <= Len(sent)
  BY <1>1 DEF AnswerInv
<1>3. KeptIsEnough'
  BY <1>1, <1>2, SameText
<1>4. TextTypeOK'
  BY <1>1, <1>2 DEF TextTypeOK
<1>5. shown' = Displayed'
  <2>1. (stage' = "finished") = (stage = "finished")
    BY <1>1
  <2> QED BY <1>1, <1>2, <2>1 DEF Displayed
<1>6. WholeAtEnd'
  BY <1>1 DEF WholeAtEnd
<1> QED BY <1>1, <1>2, <1>3, <1>4, <1>5, <1>6 DEF AnswerInv

\* A cancellation, or a receiver that is dropped, keeps the invariant.
LEMMA LoseKeeps == AnswerInv /\ Lose => AnswerInv'
<1> SUFFICES ASSUME AnswerInv, Lose PROVE AnswerInv'
  OBVIOUS
<1>1. /\ stage \in {"generating", "flush"} /\ stage' = stage /\ request' = request
      /\ said' = said /\ undecoded' = undecoded /\ pending' = pending /\ stopped' = stopped
      /\ lost' = TRUE /\ sent' = sent /\ shown' = shown
  BY DEF Lose
<1>2. /\ TextTypeOK /\ shown = Displayed /\ undecoded = After(said, Decodable(said))
      /\ stage = "generating" => ~stopped
      /\ ~stopped => KeptIsEnough
      /\ stage = "flush" /\ stopped => SentBeforeStop
      /\ sent = <<>> \/ Len(request.forced) <= Len(sent)
  BY <1>1 DEF AnswerInv
<1>3. /\ KeptIsEnough => KeptIsEnough'
      /\ SentBeforeStop => SentBeforeStop'
  BY <1>1, SameText
<1>4. TextTypeOK'
  BY <1>1, <1>2 DEF TextTypeOK
<1>5. shown' = Displayed'
  BY <1>1, <1>2 DEF Displayed
<1>6. WholeAtEnd'
  BY <1>1 DEF WholeAtEnd
<1> QED BY <1>1, <1>2, <1>3, <1>4, <1>5, <1>6 DEF AnswerInv

\* A step that changes nothing keeps the invariant.
LEMMA StutterKeeps == AnswerInv /\ UNCHANGED textVars => AnswerInv'
<1> SUFFICES ASSUME AnswerInv, UNCHANGED textVars PROVE AnswerInv'
  OBVIOUS
<1>1. /\ stage' = stage /\ request' = request
      /\ said' = said /\ undecoded' = undecoded /\ pending' = pending /\ stopped' = stopped
      /\ lost' = lost /\ sent' = sent /\ shown' = shown
  BY DEF textVars
<1>2. /\ KeptIsEnough => KeptIsEnough'
      /\ SentBeforeStop => SentBeforeStop'
      /\ WholeAtEnd => WholeAtEnd'
  BY <1>1, SameText
<1>3. TextTypeOK => TextTypeOK'
  BY <1>1 DEF TextTypeOK
<1>4. Displayed' = Displayed
  BY <1>1 DEF Displayed
<1>5. Fresh => Fresh'
  BY <1>1 DEF Fresh
<1> QED BY <1>1, <1>2, <1>3, <1>4, <1>5 DEF AnswerInv

\* The bytes of a token are a text.
LEMMA TokenIsText == \A token \in Tokens : token \in Strings
<1> TAKE token \in Tokens
<1>1. token \in Seq(ToSet(token)) /\ ToSet(token) \in SUBSET Symbols
  BY TextAssumption DEF Symbols
<1> QED BY <1>1, SeqMonotonic DEF Strings

\* One token keeps the invariant: its text joins what is kept, a stop is looked for at the end
\* of that, and what no stop can reach is sent.
LEMMA GenerateKeeps ==
    ASSUME AnswerInv, NEW token \in Tokens, Generate(token) PROVE AnswerInv'
<1> DEFINE fed == undecoded \o token
           n == Decodable(fed)
           new == Lossy(Upto(fed, n))
           text == pending \o new
           released == Len(text) - HoldBack(text)
<1>1. /\ stage = "generating" /\ said' = said \o token /\ undecoded' = After(fed, n)
      /\ request' = request /\ lost' = lost
  BY DEF Generate
<1>2. \/ /\ MatchedStop(text) > 0 /\ Deliver(WithoutStop(text)) /\ pending' = <<>>
         /\ stopped' = TRUE /\ stage' = "flush"
      \/ /\ ~(MatchedStop(text) > 0) /\ Deliver(Upto(text, released))
         /\ pending' = After(text, released) /\ stage' \in {"generating", "flush"}
         /\ stopped' = stopped
  BY DEF Generate
<1>3. /\ TextTypeOK /\ ~stopped /\ KeptIsEnough /\ shown = Displayed
      /\ undecoded = After(said, Decodable(said))
      /\ sent = <<>> \/ Len(request.forced) <= Len(sent)
  BY <1>1 DEF AnswerInv
<1>4. /\ said \in Strings /\ pending \in Strings /\ lost \in BOOLEAN /\ stopped \in BOOLEAN
      /\ token \in Strings /\ Stops \in Seq(StopStrings) /\ request \in Wishes
  BY <1>3, StopsAre, TokenIsText DEF TextTypeOK
<1>5. /\ fed \in Strings /\ n \in 0..Len(fed)
      /\ Lossy(Upto(said', Decodable(said'))) = Decoded \o new
      /\ After(said', Decodable(said')) = After(fed, n)
  <2>1. /\ fed \in Strings /\ n \in 0..Len(fed)
        /\ Lossy(Upto(said \o token, Decodable(said \o token))) =
               Lossy(Upto(said, Decodable(said))) \o Lossy(Upto(fed, n))
        /\ After(said \o token, Decodable(said \o token)) = After(fed, n)
    BY <1>3, <1>4, FeedDecodes
  <2> QED BY <1>1, <2>1 DEF Decoded
<1>6. new \in Strings /\ said' \in Strings /\ undecoded' \in Strings
  <2>1. Upto(fed, n) \in Strings /\ After(fed, n) \in Strings
    <3> HIDE DEF n, fed
    <3> QED BY <1>5, UptoIs, AfterIs DEF Strings
  <2>2. said \o token \in Strings
    BY <1>4, AfterFirst
  <2> QED BY <1>1, <2>1, <2>2, LossyIsText
<1> HIDE DEF new, n, fed
<1>7. PICK w \in Strings : Decoded = w \o pending /\ (~lost => w = Body)
  BY <1>3 DEF KeptIsEnough
<1> DEFINE all == w \o text
<1>8. /\ text \in Strings /\ all \in Strings /\ all = Decoded \o new
      /\ MatchedStop(all) = MatchedStop(text)
      /\ WithoutStop(all) = w \o WithoutStop(text)
      /\ \A i \in 1..Len(Stops) : \A k \in 1..(Len(Stops[i]) - 1) :
             IsSuffix(Upto(Stops[i], k), all) => IsSuffix(Upto(Stops[i], k), text)
  <2>1. Held(w \o pending, pending) /\ MatchedStop(w \o pending) = 0
    BY <1>3, <1>7 DEF KeptIsEnough
  <2>2. /\ pending \o new \in Strings /\ w \o (pending \o new) \in Strings
        /\ w \o (pending \o new) = (w \o pending) \o new
        /\ MatchedStop(w \o (pending \o new)) = MatchedStop(pending \o new)
        /\ WithoutStop(w \o (pending \o new)) = w \o WithoutStop(pending \o new)
        /\ \A i \in 1..Len(Stops) : \A k \in 1..(Len(Stops[i]) - 1) :
               IsSuffix(Upto(Stops[i], k), w \o (pending \o new))
                  => IsSuffix(Upto(Stops[i], k), pending \o new)
    <3>1. w \in Strings /\ pending \in Strings /\ new \in Strings /\ Stops \in Seq(StopStrings)
      BY <1>4, <1>6, <1>7
    <3> QED BY <2>1, <3>1, KeptSuffices, Zenon
  <2> QED BY <1>7, <2>2, Zenon
<1>9. Decoded' = all
  BY <1>5, <1>8 DEF Decoded
<1>10. Stops' = Stops
  BY <1>1 DEF Stops
<1>11. MatchedStop(text) \in 0..Len(text) /\ Len(text) \in Nat
  BY <1>4, <1>8, MatchedStopIs, LenProperties DEF Strings
<1>12. WholeAtEnd'
  BY <1>2 DEF WholeAtEnd
<1>13. CASE /\ MatchedStop(text) > 0 /\ Deliver(WithoutStop(text)) /\ pending' = <<>>
            /\ stopped' = TRUE /\ stage' = "flush"
  <2> DEFINE out == WithoutStop(text)
  <2>1. out \in Strings
    <3>1. Len(text) - MatchedStop(text) \in 0..Len(text)
      BY <1>11
    <3> HIDE DEF text
    <3> QED BY <1>8, <3>1, UptoIs DEF WithoutStop, Strings
  <2> HIDE DEF text, all, out
  <2>2. Deliver(out) /\ stage # "finished" /\ stage' # "finished"
    BY <1>1, <1>13 DEF out
  <2>3. /\ sent' \in Strings /\ shown' \in Strings /\ shown' = Displayed'
        /\ sent' = <<>> \/ Len(request'.forced) <= Len(sent')
        /\ ~lost => Body' = Body \o out
    BY <1>1, <1>3, <2>1, <2>2, DeliverIs
  <2>4. WithoutStop(Decoded)' = WithoutStop(all)
    BY <1>9, <1>10, Zenon DEF WithoutStop, MatchedStop, SelectInSeq
  <2>5. ~lost' => Body' = WithoutStop(Decoded)'
    BY <1>1, <1>7, <1>8, <2>3, <2>4 DEF out
  <2>6. SentBeforeStop'
    BY <1>13, <2>5 DEF SentBeforeStop
  <2>7. <<>> \in Strings
    BY EmptySeq DEF Strings
  <2>8. TextTypeOK'
    BY <1>1, <1>4, <1>6, <1>13, <2>3, <2>7 DEF TextTypeOK
  <2> QED BY <1>1, <1>5, <1>12, <1>13, <2>3, <2>6, <2>8 DEF AnswerInv
<1>14. CASE /\ ~(MatchedStop(text) > 0) /\ Deliver(Upto(text, released))
            /\ pending' = After(text, released) /\ stage' \in {"generating", "flush"}
            /\ stopped' = stopped
  <2> DEFINE out == Upto(text, released)
             rest == After(text, released)
  <2>1. /\ out \in Strings /\ rest \in Strings
        /\ all = (w \o out) \o rest /\ Held(all, rest)
    <3> HIDE DEF text
    <3> QED BY <1>4, <1>8, ReleaseKeeps
  <2> HIDE DEF text, all, out, rest
  <2>2. Deliver(out) /\ stage # "finished" /\ stage' # "finished" /\ pending' = rest
    BY <1>1, <1>14 DEF out, rest
  <2>3. /\ sent' \in Strings /\ shown' \in Strings /\ shown' = Displayed'
        /\ sent' = <<>> \/ Len(request'.forced) <= Len(sent')
        /\ ~lost => Body' = Body \o out
    BY <1>1, <1>3, <2>1, <2>2, DeliverIs
  <2>4. Held(Decoded, pending)'
    BY <1>9, <1>10, <2>1, <2>2 DEF Held
  <2>5. MatchedStop(Decoded)' = 0
    <3>1. MatchedStop(Decoded)' = MatchedStop(all)
      BY <1>9, <1>10, Zenon DEF MatchedStop, SelectInSeq
    <3>2. MatchedStop(text) = 0
      BY <1>11, <1>14
    <3> QED BY <1>8, <3>1, <3>2
  <2>6. w \o out \in Strings
    BY <2>1, AfterFirst
  <2>7. Decoded' = (w \o out) \o pending' /\ (~lost' => w \o out = Body')
    BY <1>1, <1>7, <1>9, <2>1, <2>2, <2>3
  <2>8. KeptIsEnough'
    BY <2>4, <2>5, <2>6, <2>7 DEF KeptIsEnough
  <2>9. TextTypeOK'
    BY <1>1, <1>4, <1>6, <1>14, <2>1, <2>2, <2>3 DEF TextTypeOK
  <2> QED BY <1>1, <1>3, <1>5, <1>12, <1>14, <2>3, <2>8, <2>9 DEF AnswerInv
<1> QED BY <1>2, <1>13, <1>14

\* The flush keeps the invariant: what is left of a character becomes a mark, and the rest is sent.
LEMMA FlushKeeps == AnswerInv /\ Flush => AnswerInv'
<1> SUFFICES ASSUME AnswerInv, Flush PROVE AnswerInv'
  OBVIOUS
<1> DEFINE new == Lossy(undecoded)
           text == pending \o new
           out == WithoutStop(text)
<1>1. /\ stage = "flush" /\ Deliver(out) /\ undecoded' = <<>> /\ pending' = <<>>
      /\ stage' = "generated" /\ request' = request /\ said' = said /\ stopped' = stopped
      /\ lost' = lost
  BY DEF Flush
<1>2. /\ TextTypeOK /\ shown = Displayed /\ undecoded = After(said, Decodable(said))
      /\ ~stopped => KeptIsEnough
      /\ stopped => SentBeforeStop
      /\ sent = <<>> \/ Len(request.forced) <= Len(sent)
  BY <1>1 DEF AnswerInv
<1>3. /\ said \in Strings /\ pending \in Strings /\ lost \in BOOLEAN /\ stopped \in BOOLEAN
      /\ Stops \in Seq(StopStrings) /\ request \in Wishes
      /\ Decoded \in Strings /\ Unfinished \in Strings
  BY <1>2, StopsAre, DecodedIs DEF TextTypeOK
<1>4. new = Unfinished
  BY <1>2 DEF Unfinished
<1> HIDE DEF new
<1>5. text \in Strings
  BY <1>3, <1>4, AfterFirst
<1>6. out \in Strings
  <2> HIDE DEF text
  <2>1. MatchedStop(text) \in 0..Len(text) /\ Len(text) \in Nat
    BY <1>3, <1>5, MatchedStopIs, LenProperties DEF Strings
  <2>2. Len(text) - MatchedStop(text) \in 0..Len(text)
    BY <2>1
  <2> QED BY <1>5, <2>2, UptoIs DEF WithoutStop, Strings
<1> HIDE DEF out
<1>7. /\ sent' \in Strings /\ shown' \in Strings /\ shown' = Displayed'
      /\ sent' = <<>> \/ Len(request'.forced) <= Len(sent')
      /\ ~lost => Body' = Body \o out
  <2>1. stage # "finished" /\ stage' # "finished"
    BY <1>1
  <2> QED BY <1>1, <1>2, <1>6, <2>1, DeliverIs
<1>8. Decoded' = Decoded /\ Unfinished' = Unfinished /\ Stops' = Stops
  BY <1>1 DEF Decoded, Unfinished, Stops
<1>9. /\ WithoutStop(Decoded)' = WithoutStop(Decoded)
      /\ WithoutStop(Unfinished)' = WithoutStop(Unfinished)
      /\ WithoutStop(Decoded \o Unfinished)' = WithoutStop(Decoded \o Unfinished)
  BY <1>8, Zenon DEF WithoutStop, MatchedStop, SelectInSeq
<1>10. ASSUME ~lost, stopped
       PROVE  Body \o out = WithoutStop(Decoded) \o WithoutStop(Unfinished)
  <2>1. pending = <<>> /\ Body = WithoutStop(Decoded)
    BY <1>2, <1>10 DEF SentBeforeStop
  <2>2. text = Unfinished
    BY <1>3, <1>4, <2>1, AfterFirst
  <2> QED BY <2>1, <2>2 DEF out
<1>11. ASSUME ~lost, ~stopped
       PROVE  Body \o out = WithoutStop(Decoded \o Unfinished)
  <2>1. PICK w \in Strings : Decoded = w \o pending /\ w = Body
    BY <1>2, <1>11 DEF KeptIsEnough
  <2>2. Held(w \o pending, pending) /\ MatchedStop(w \o pending) = 0
    BY <1>2, <1>11, <2>1 DEF KeptIsEnough
  <2>3. /\ w \o (pending \o new) = (w \o pending) \o new
        /\ WithoutStop(w \o (pending \o new)) = w \o WithoutStop(pending \o new)
    <3>1. w \in Strings /\ pending \in Strings /\ new \in Strings /\ Stops \in Seq(StopStrings)
      BY <1>3, <1>4, <2>1
    <3> QED BY <2>2, <3>1, KeptSuffices, Zenon
  <2> QED BY <1>4, <2>1, <2>3 DEF out
<1>12. WholeAtEnd'
  <2> SUFFICES ASSUME ~lost'
               PROVE  Body' = IF stopped'
                              THEN WithoutStop(Decoded)' \o WithoutStop(Unfinished)'
                              ELSE WithoutStop(Decoded \o Unfinished)'
    BY DEF WholeAtEnd
  <2> QED BY <1>1, <1>7, <1>9, <1>10, <1>11
<1>13. TextTypeOK'
  <2>1. <<>> \in Strings
    BY EmptySeq DEF Strings
  <2> QED BY <1>1, <1>3, <1>7, <2>1 DEF TextTypeOK
<1> QED BY <1>1, <1>7, <1>12, <1>13 DEF AnswerInv

\* The end of the request keeps the invariant: what is left of the content is shown.
LEMMA FinishKeeps == AnswerInv /\ Finish => AnswerInv'
<1> SUFFICES ASSUME AnswerInv, Finish PROVE AnswerInv'
  OBVIOUS
<1>1. /\ stage = "generated" /\ stage' = "finished" /\ ~lost /\ shown' = ShownOf(sent, TRUE)
      /\ request' = request /\ said' = said /\ undecoded' = undecoded /\ pending' = pending
      /\ stopped' = stopped /\ lost' = lost /\ sent' = sent
  BY DEF Finish
<1>2. /\ TextTypeOK /\ shown = Displayed /\ WholeAtEnd
      /\ sent = <<>> \/ Len(request.forced) <= Len(sent)
  BY <1>1 DEF AnswerInv
<1>3. sent \in Strings /\ shown \in Strings /\ request.tools \in BOOLEAN
  BY <1>2, StopsAre DEF TextTypeOK
<1> DEFINE safe == IF request.tools THEN Safe(sent, TRUE) ELSE sent
<1>4. shown = IF request.tools THEN Safe(sent, FALSE) ELSE sent
  <2>1. (stage = "finished") = FALSE
    BY <1>1
  <2> QED BY <1>2, <2>1 DEF Displayed
<1>5. safe \in Strings /\ IsPrefix(shown, safe)
  <2>1. <<>> \in Strings
    BY EmptySeq DEF Strings
  <2>2. CASE request.tools
    BY <1>3, <1>4, <2>1, <2>2, SafeGrows
  <2>3. CASE ~request.tools
    <3>1. Len(sent) \in Nat
      BY <1>3, LenProperties DEF Strings
    <3>2. IsPrefix(sent, sent)
      BY <1>3, <3>1, PrefixIs DEF Strings
    <3> QED BY <1>3, <1>4, <2>3, <3>2
  <2> QED BY <2>2, <2>3
<1>6. shown' = shown \o After(safe, Len(shown))
  BY <1>1 DEF ShownOf
<1> HIDE DEF safe
<1>7. shown' = safe
  BY <1>3, <1>5, <1>6, PrefixCompleted
<1>8. Displayed' = safe
  <2>1. (stage' = "finished") = TRUE
    BY <1>1
  <2> QED BY <1>1, <2>1 DEF Displayed, safe
<1>9. TextTypeOK'
  BY <1>1, <1>2, <1>5, <1>7 DEF TextTypeOK
<1>10. WholeAtEnd'
  <2>1. /\ Decoded' = Decoded /\ Unfinished' = Unfinished /\ Body' = Body /\ Stops' = Stops
    BY <1>1 DEF Decoded, Unfinished, Body, Stops
  <2>2. /\ WithoutStop(Decoded)' = WithoutStop(Decoded)
        /\ WithoutStop(Unfinished)' = WithoutStop(Unfinished)
        /\ WithoutStop(Decoded \o Unfinished)' = WithoutStop(Decoded \o Unfinished)
    BY <2>1, Zenon DEF WithoutStop, MatchedStop, SelectInSeq
  <2>3. Body = IF stopped THEN WithoutStop(Decoded) \o WithoutStop(Unfinished)
               ELSE WithoutStop(Decoded \o Unfinished)
    BY <1>1, <1>2 DEF WholeAtEnd
  <2>4. Body' = IF stopped' THEN WithoutStop(Decoded)' \o WithoutStop(Unfinished)'
                ELSE WithoutStop(Decoded \o Unfinished)'
    BY <1>1, <2>1, <2>2, <2>3
  <2> QED BY <2>4 DEF WholeAtEnd
<1> QED BY <1>1, <1>2, <1>7, <1>8, <1>9, <1>10 DEF AnswerInv

\* Every step of the specification keeps the invariant.
LEMMA TextContinues == AnswerInv /\ [TextNext]_textVars => AnswerInv'
<1> SUFFICES ASSUME AnswerInv, [TextNext]_textVars PROVE AnswerInv'
  OBVIOUS
<1>1. CASE Begin
  BY <1>1, BeginKeeps
<1>2. ASSUME NEW token \in Tokens, Generate(token) PROVE AnswerInv'
  BY <1>2, GenerateKeeps
<1>3. CASE EndOfLoop
  BY <1>3, EndOfLoopKeeps
<1>4. CASE Flush
  BY <1>4, FlushKeeps
<1>5. CASE Finish
  BY <1>5, FinishKeeps
<1>6. CASE Lose
  BY <1>6, LoseKeeps
<1>7. CASE UNCHANGED textVars
  BY <1>7, StutterKeeps
<1> QED BY <1>1, <1>2, <1>3, <1>4, <1>5, <1>6, <1>7 DEF TextNext

\* The invariant has all parts of AnswerTextRight.
LEMMA AnswerInvImplies == AnswerInv => AnswerTextRight
<1> SUFFICES ASSUME AnswerInv PROVE AnswerTextRight
  OBVIOUS
<1>1. /\ TextTypeOK /\ WholeAtEnd /\ shown = Displayed
      /\ stage = "generating" => KeptIsEnough
  BY DEF AnswerInv
<1>2. /\ Decoded \in Strings /\ Unfinished \in Strings /\ Lossy(said) = Decoded \o Unfinished
      /\ Stops \in Seq(StopStrings) /\ request.tools \in BOOLEAN /\ sent \in Strings
  BY <1>1, DecodedIs, StopsAre DEF TextTypeOK
<1>3. InOrder
  <2> SUFFICES ASSUME stage = "generating", ~lost PROVE Body \o pending = Decoded
    BY DEF InOrder
  <2> QED BY <1>1 DEF KeptIsEnough
<1>4. StopsSeen
  BY <1>1 DEF StopsSeen, KeptIsEnough
<1>5. SameAsBlocking
  <2> SUFFICES ASSUME stage \in {"generated", "finished"}, ~lost, Unfinished = <<>>
               PROVE  /\ IsPrefix(Blocking, Body)
                      /\ Len(Stops) < 2 => Blocking = Body
    BY DEF SameAsBlocking
  <2>1. Decoded \o Unfinished = Decoded
    BY <1>2, AfterFirst
  <2>2. /\ WithoutStop(Lossy(said)) \in Strings
        /\ IsPrefix(Blocking, WithoutStop(Lossy(said)))
        /\ Len(Stops) < 2 => Blocking = WithoutStop(Lossy(said))
    BY <1>2, <2>1, BlockingIs
  <2>3. WithoutStop(<<>>) = <<>>
    <3>1. <<>> \in Strings /\ Len(<<>>) = 0
      BY EmptySeq DEF Strings
    <3>2. MatchedStop(<<>>) = 0
      <4>1. MatchedStop(<<>>) \in 0..Len(<<>>)
        BY <1>2, <3>1, MatchedStopIs
      <4> QED BY <3>1, <4>1
    <3>3. WithoutStop(<<>>) = Upto(<<>>, 0)
      BY <3>1, <3>2 DEF WithoutStop
    <3>4. 0 \in 0..Len(<<>>)
      BY <3>1
    <3>5. Upto(<<>>, 0) \in Strings /\ Len(Upto(<<>>, 0)) = 0
      BY <3>1, <3>4, UptoIs DEF Strings
    <3> QED BY <3>3, <3>5, EmptySeq DEF Strings
  <2>4. Body = WithoutStop(Decoded)
    <3>1. Body = IF stopped THEN WithoutStop(Decoded) \o WithoutStop(Unfinished)
                 ELSE WithoutStop(Decoded \o Unfinished)
      BY <1>1 DEF WholeAtEnd
    <3>2. WithoutStop(Decoded) \o <<>> = WithoutStop(Decoded)
      BY <1>2, <2>1, <2>2, AfterFirst
    <3> QED BY <2>1, <2>3, <3>1, <3>2
  <2> QED BY <1>2, <2>1, <2>2, <2>4
<1>6. DelimiterHidden
  <2> DEFINE before == Safe(sent, TRUE)
  <2>1. <<>> \in Strings
    BY EmptySeq DEF Strings
  <2>2. /\ Safe(sent, FALSE) \in Strings /\ before \in Strings
        /\ IsPrefix(Safe(sent, FALSE), before)
    BY <1>2, <2>1, SafeGrows
  <2>3. ASSUME NEW s \in Strings PROVE IsPrefix(s, s)
    <3>1. Len(s) \in Nat
      BY LenProperties DEF Strings
    <3> QED BY <3>1, PrefixIs DEF Strings
  <2>4. CASE ~request.tools
    <3>1. shown = sent
      BY <1>1, <2>4 DEF Displayed
    <3> QED BY <1>2, <2>3, <2>4, <3>1 DEF DelimiterHidden
  <2>5. CASE request.tools /\ stage = "finished"
    <3>1. (stage = "finished") = TRUE
      BY <2>5
    <3>2. shown = before
      BY <1>1, <2>5, <3>1 DEF Displayed
    <3> QED BY <2>2, <2>3, <2>5, <3>2 DEF DelimiterHidden
  <2>6. CASE request.tools /\ stage # "finished"
    <3>1. (stage = "finished") = FALSE
      BY <2>6
    <3>2. shown = Safe(sent, FALSE)
      BY <1>1, <2>6, <3>1 DEF Displayed
    <3> QED BY <2>2, <2>6, <3>2 DEF DelimiterHidden
  <2> QED BY <2>4, <2>5, <2>6
<1> QED BY <1>1, <1>3, <1>4, <1>5, <1>6 DEF AnswerTextRight

\* The invariant of the text of an answer: what is kept from the client is the end of the
\* decoded text and long enough to find every stop sequence in.
THEOREM TextInvariant == TextSpec => []AnswerInv
<1>1. TextInit => AnswerInv
  BY TextStarts
<1>2. AnswerInv /\ [TextNext]_textVars => AnswerInv'
  BY TextContinues
<1> QED BY <1>1, <1>2, PTL DEF TextSpec

\* However the tokens cut characters, stop sequences and delimiters into pieces, the client is
\* sent the decoded text before the stop sequence, in order and whole, as a blocking request
\* gets it, and is shown it up to a tool call.
THEOREM AnswersAreRight == TextSpec => []AnswerTextRight
<1>1. AnswerInv => AnswerTextRight
  BY AnswerInvImplies
<1> QED BY <1>1, TextInvariant, PTL

=============================================================================
