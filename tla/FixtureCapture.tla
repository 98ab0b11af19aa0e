--------------------------- MODULE FixtureCapture ---------------------------
(***************************************************************************)
(* The capture of generations for diagnosis: a session                     *)
(* (crates/mivi-server/src/fixture_diagnostics.rs) that a client arms, the *)
(* engine fills and the router asks, all through try_lock; the client of   *)
(* fixture_diagnostics/fixtures.rs; the recorder inside the model.         *)
(*                                                                         *)
(* Of the router there is what the session and the client see of it; its   *)
(* own behaviour is in ChatServer.  A text is the number of its pieces.    *)
(***************************************************************************)
EXTENDS Naturals, Sequences, SequencesExt

CONSTANTS
    MaxRequests,    \* FixtureLimits.requests
    MaxRecords,     \* FixtureLimits.records
    MaxPieces       \* bound: pieces of a generation

ASSUME CaptureAssumption == {MaxRequests, MaxRecords, MaxPieces} \subseteq Nat \ {0}

VARIABLES
    session,    \* FixtureSession, and its Notify
    holder,     \* who holds the mutex of the session
    recorder,   \* fixture_recorder of the model
    engine,     \* the engine thread
    router,     \* the handler of the request, then its task
    channel,    \* from the engine to the task
    body,       \* what the task has sent to the client
    client      \* run_fixture_request

captureVars == <<session, holder, recorder, engine, router, channel, body, client>>

None == [sequence |-> 0, terminal |-> "none", incomplete |-> FALSE, model |-> <<>>]

NewSession == [started |-> 0, armed |-> 0, partial |-> None, finished |-> <<>>,
               incomplete |-> FALSE, permit |-> FALSE, waiter |-> "none"]

----------------------------------------------------------------------------
(* FixtureSession.  Nobody waits for its mutex: who finds it held marks    *)
(* the session incomplete.                                                 *)

\* notify_one: wakes the waiter or leaves a permit.
Notified(s) ==
    IF s.waiter = "waiting" THEN [s EXCEPT !.waiter = "notified"] ELSE [s EXCEPT !.permit = TRUE]

\* mark_incomplete
MarkIncomplete(s) == Notified([s EXCEPT !.incomplete = TRUE])

Sealed(s, record) == [record EXCEPT !.incomplete = @ \/ s.incomplete]

\* begin; what was armed is put back if it is another request.
Begun(s, sequence) ==
    IF s.armed # sequence THEN MarkIncomplete(s)
    ELSE [s EXCEPT !.armed = 0,
                   !.partial = Sealed(s, [None EXCEPT !.sequence = sequence,
                                                      !.terminal = "unobserved"])]

StoredQuietly(s, record) ==
    IF s.partial.sequence # record.sequence \/ Len(s.finished) >= MaxRecords THEN MarkIncomplete(s)
    ELSE [s EXCEPT !.partial = None, !.armed = 0, !.finished = Append(@, Sealed(s, record))]

\* finish_engine
Stored(s, record) ==
    IF s.partial.sequence # record.sequence \/ Len(s.finished) >= MaxRecords THEN MarkIncomplete(s)
    ELSE Notified([s EXCEPT !.partial = None, !.armed = 0,
                            !.finished = Append(@, Sealed(s, record))])

\* finish_unobserved; what is armed stays so if the generation had not begun.
Abandoned(s, sequence) ==
    MarkIncomplete(IF s.partial.sequence # sequence THEN s
          ELSE [s EXCEPT !.partial = None, !.armed = 0,
                         !.finished = IF Len(@) < MaxRecords
                                      THEN Append(@, [s.partial EXCEPT !.incomplete = TRUE])
                                      ELSE @])

FinishedAt(s, sequence) == SelectInSeq(s.finished, LAMBDA record : record.sequence = sequence)

Inside(actor) == holder = actor /\ holder' = "none"

Contended(actor) == holder \notin {"none", actor} /\ UNCHANGED holder

\* Where each of them calls the session.
Calling(actor) ==
    CASE actor = "engine" ->
           \/ engine.at = "idle" /\ engine.queue # <<>>
           \/ engine.at \in {"begin", "settle", "panicked"} /\ engine.sequence # 0
      [] actor = "router" -> router.at \in {"arrived", "failing", "logging"}
      [] actor = "client" -> client.at \in {"arm", "take", "expired", "partial"}

TakeLock(actor) ==
    /\ holder = "none"
    /\ Calling(actor)
    /\ holder' = actor
    /\ UNCHANGED <<session, recorder, engine, router, channel, body, client>>

----------------------------------------------------------------------------
(* The engine thread.                                                      *)

EngineAt(at) == engine' = [engine EXCEPT !.at = at]

\* armed_sequence, before every command.
TakeCommand ==
    /\ engine.at = "idle"
    /\ engine.queue # <<>>
    /\ LET to == IF Head(engine.queue) = "stream" THEN "begin" ELSE "encode"
           taken == [engine EXCEPT !.queue = Tail(@), !.at = to, !.record = None]
       IN  \/ /\ Inside("engine")
              /\ engine' = [taken EXCEPT !.sequence = session.armed]
              /\ UNCHANGED session
           \/ /\ Contended("engine")
              /\ engine' = [taken EXCEPT !.sequence = 0]
              /\ session' = MarkIncomplete(session)
    /\ UNCHANGED <<recorder, router, channel, body, client>>

\* The reply, or the end of its sender, lets the router go on.
RunEncode ==
    /\ engine.at = "encode"
    /\ \E to \in {"idle", "panicked"} : EngineAt(to)
    /\ router' = [router EXCEPT
          !.at = CASE @ = "counting" -> "counted" [] @ = "recounting" -> "judging" [] OTHER -> @]
    /\ UNCHANGED <<session, holder, recorder, channel, body, client>>

\* FixtureSession::begin and start_fixture_capture, once the options are applied.
BeginCapture ==
    LET fresh == [sequence |-> engine.sequence, pieces |-> 0, outcome |-> "none"]
        begun == Begun(session, engine.sequence)
        armed == begun.partial.sequence = engine.sequence
    IN  /\ engine.at = "begin"
        /\ engine.sequence # 0
        /\ \/ /\ Inside("engine")
              /\ IF ~armed
                 THEN session' = begun /\ EngineAt("generate") /\ UNCHANGED recorder
                 ELSE /\ session' = IF recorder = <<>> THEN begun ELSE MarkIncomplete(begun)
                      /\ recorder' = IF recorder = <<>> THEN <<fresh>> ELSE recorder
                      /\ engine' = [engine EXCEPT !.at = "generate", !.record =
                             [begun.partial EXCEPT !.incomplete = @ \/ recorder # <<>>]]
           \/ /\ Contended("engine")
              /\ session' = MarkIncomplete(session)
              /\ EngineAt("generate")
              /\ UNCHANGED recorder
        /\ UNCHANGED <<router, channel, body, client>>

\* The generation is not observed.
BeginPlain ==
    /\ engine.at = "begin"
    /\ engine.sequence = 0
    /\ EngineAt("generate")
    /\ UNCHANGED <<session, holder, recorder, router, channel, body, client>>

Recorded(outcome) ==
    recorder' = IF recorder = <<>> THEN <<>> ELSE <<[recorder[1] EXCEPT !.outcome = outcome]>>

Unwanted == router.cancelled \/ ~channel.receiver

\* A piece is recorded as delivered before the callback is asked.
Produce ==
    /\ engine.at = "generate"
    /\ engine.pieces < MaxPieces
    /\ IF Unwanted
       THEN /\ recorder' = IF recorder = <<>> THEN <<>>
                           ELSE <<[recorder[1] EXCEPT !.pieces = @ + 1, !.outcome = "stopped"]>>
            /\ engine' = [engine EXCEPT !.at = "settle", !.pieces = 0]
            /\ channel' = [channel EXCEPT !.sender = FALSE]
       ELSE /\ recorder' = IF recorder = <<>> THEN <<>>
                           ELSE <<[recorder[1] EXCEPT !.pieces = @ + 1]>>
            /\ engine' = [engine EXCEPT !.pieces = @ + 1]
            /\ channel' = [channel EXCEPT !.pieces = @ + 1]
    /\ UNCHANGED <<session, holder, router, body, client>>

\* The generation returns: before it has begun if nobody wants it, at its end,
\* between two tokens if it is cancelled, or with an error that is sent on.
EndGeneration ==
    /\ engine.at = "generate"
    /\ \/ /\ engine.pieces = 0 /\ Unwanted
          /\ UNCHANGED recorder
          /\ channel' = [channel EXCEPT !.sender = FALSE]
       \/ /\ Recorded(IF router.cancelled THEN "cancelled" ELSE "complete")
          /\ channel' = [channel EXCEPT !.sender = FALSE]
       \/ /\ Recorded("error")
          /\ channel' = [channel EXCEPT !.sender = FALSE, !.error = ~router.cancelled]
    /\ engine' = [engine EXCEPT !.at = "settle", !.pieces = 0]
    /\ UNCHANGED <<session, holder, router, body, client>>

\* A panic unwinds into the loop of the thread.
Panic ==
    /\ engine.at = "generate"
    /\ engine' = [engine EXCEPT !.at = "panicked", !.pieces = 0, !.record = None]
    /\ channel' = [channel EXCEPT !.sender = FALSE]
    /\ UNCHANGED <<session, holder, recorder, router, body, client>>

Terminal(capture) ==
    CASE capture = <<>> -> "unobserved"
      [] capture # <<>> /\ router.cancelled -> "cancelled"
      [] OTHER -> [none |-> "not started", complete |-> "returned", cancelled |-> "cancelled",
                   stopped |-> "receiver closed", error |-> "error"][capture[1].outcome]

\* What was captured is taken from the model and stored.
Settle ==
    LET record == [engine.record EXCEPT !.model = recorder, !.terminal = Terminal(recorder),
                                        !.incomplete = @ \/ recorder = <<>>]
        marked == IF recorder = <<>> THEN MarkIncomplete(session) ELSE session
    IN  /\ engine.at = "settle"
        /\ engine.record # None
        /\ \/ Inside("engine") /\ session' = Stored(marked, record)
           \/ Contended("engine") /\ session' = MarkIncomplete(session)
        /\ recorder' = <<>>
        /\ EngineAt("idle")
        /\ UNCHANGED <<router, channel, body, client>>

\* Without a record, or after a panic, the capture ends unobserved.
Abandon ==
    /\ \/ engine.at = "settle" /\ engine.record = None /\ UNCHANGED recorder
       \/ engine.at = "panicked" /\ recorder' = <<>>
    /\ engine.sequence # 0
    /\ \/ Inside("engine") /\ session' = Abandoned(session, engine.sequence)
       \/ Contended("engine") /\ session' = MarkIncomplete(session)
    /\ EngineAt("idle")
    /\ UNCHANGED <<router, channel, body, client>>

AbandonNothing ==
    /\ engine.at \in {"settle", "panicked"}
    /\ engine.sequence = 0
    /\ EngineAt("idle")
    /\ UNCHANGED <<session, holder, recorder, router, channel, body, client>>

----------------------------------------------------------------------------
(* The router.                                                             *)

\* is_active, to keep what is captured out of the log.
Asked(from, to) ==
    /\ router.at = from
    /\ \/ Inside("router") /\ UNCHANGED session
       \/ Contended("router") /\ session' = MarkIncomplete(session)
    /\ router' = [router EXCEPT !.at = to]
    /\ UNCHANGED <<recorder, engine, channel, client>>

IsActive == Asked("arrived", "admitted") /\ UNCHANGED body

\* Validation, admission or the length of the prompt.
Refuse ==
    /\ router.at \in {"admitted", "counted"}
    /\ router' = [router EXCEPT !.at = "over"]
    /\ body' = [body EXCEPT !.refused = TRUE]
    /\ UNCHANGED <<session, holder, recorder, engine, channel, client>>

Submit(from, command, to) ==
    /\ router.at = from
    /\ router' = [router EXCEPT !.at = to]
    /\ engine' = [engine EXCEPT !.queue = Append(@, command)]
    /\ UNCHANGED <<session, holder, recorder, body, client>>

Count == Submit("admitted", "encode", "counting") /\ UNCHANGED channel

Start ==
    /\ Submit("counted", "stream", "relaying")
    /\ channel' = [channel EXCEPT !.sender = TRUE, !.receiver = TRUE]

Relay ==
    /\ router.at = "relaying"
    /\ channel.pieces > 0
    /\ channel' = [channel EXCEPT !.pieces = @ - 1]
    /\ body' = [body EXCEPT !.pieces = @ + 1]
    /\ UNCHANGED <<session, holder, recorder, engine, router, client>>

ReceiveFailure ==
    /\ router.at = "relaying"
    /\ channel.pieces = 0 /\ channel.error
    /\ router' = [router EXCEPT !.at = "failing"]
    /\ UNCHANGED <<session, holder, recorder, engine, channel, body, client>>

\* The stream has ended: the output is counted.
Recount ==
    /\ channel.pieces = 0 /\ ~channel.sender /\ ~channel.error
    /\ Submit("relaying", "encode", "recounting")
    /\ UNCHANGED channel

\* A deadline of the router, or a call that its codec refuses, which does not
\* cancel.
GiveUp ==
    /\ router.at = "relaying"
    /\ \E cancelled \in BOOLEAN : router' = [at |-> "ending", cancelled |-> cancelled]
    /\ channel' = [channel EXCEPT !.receiver = FALSE]
    /\ body' = [body EXCEPT !.error = TRUE]
    /\ UNCHANGED <<session, holder, recorder, engine, client>>

\* The output is logged, found invalid with or without a word in the log, or empty.
Judge ==
    /\ router.at = "judging"
    /\ \E to \in {"logging", "failing", "ending"} :
          /\ router' = [router EXCEPT !.at = to]
          /\ \E invalid \in {FALSE, to = "ending"} : body' = [body EXCEPT !.error = invalid]
    /\ UNCHANGED <<session, holder, recorder, engine, channel, client>>

LogFailure == Asked("failing", "ending") /\ body' = [body EXCEPT !.error = TRUE]

LogCompletion == Asked("logging", "ending") /\ UNCHANGED body

SendEnd ==
    /\ router.at = "ending"
    /\ router' = [router EXCEPT !.at = "over"]
    /\ body' = [body EXCEPT !.done = TRUE]
    /\ UNCHANGED <<session, holder, recorder, engine, channel, client>>

\* The client has dropped the request, which ends the handler, or the body, which
\* the task sees in its loop; past that it goes on and sends in vain.
Disconnect ==
    /\ client.gone
    /\ router.at \in {"arrived", "admitted", "counting", "counted", "relaying"}
    /\ holder # "router"
    /\ router' = [at |-> "over", cancelled |-> router.at = "relaying"]
    /\ channel' = [channel EXCEPT !.receiver = FALSE]
    /\ UNCHANGED <<session, holder, recorder, engine, body, client>>

----------------------------------------------------------------------------
(* run_fixture_request.                                                    *)

ClientAt(at) == client' = [client EXCEPT !.at = at]

Failure == [client EXCEPT !.at = "closed", !.complete = FALSE, !.record = None]

\* FixtureSession::arm
Arm ==
    LET refused == session.armed # 0 \/ session.partial # None \/ session.started >= MaxRequests
    IN  /\ client.at = "arm"
        /\ \/ /\ Inside("client")
              /\ CASE refused ->
                        client' = Failure /\ UNCHANGED <<session, router, channel, body>>
                   [] ~refused /\ Len(session.finished) >= MaxRecords ->
                        /\ client' = Failure
                        /\ session' = MarkIncomplete(session)
                        /\ UNCHANGED <<router, channel, body>>
                   [] OTHER ->
                        /\ session' = [session EXCEPT !.started = @ + 1,
                                                      !.armed = session.started + 1]
                        /\ client' = [at |-> "reading", sequence |-> session.started + 1,
                                      record |-> None, stream |-> "none", observed |-> FALSE,
                                      gone |-> FALSE, complete |-> FALSE]
                        /\ router' = [at |-> "arrived", cancelled |-> FALSE]
                        /\ channel' = [sender |-> FALSE, receiver |-> FALSE,
                                       pieces |-> 0, error |-> FALSE]
                        /\ body' = [refused |-> FALSE, pieces |-> 0,
                                    error |-> FALSE, done |-> FALSE]
           \/ /\ Contended("client")
              /\ client' = Failure
              /\ session' = MarkIncomplete(session)
              /\ UNCHANGED <<router, channel, body>>
        /\ UNCHANGED <<recorder, engine>>

\* The response has been read to its end, or the client gives up: a deadline, or
\* a limit of drain_fixture_sse.
ReadBody ==
    /\ client.at = "reading"
    /\ \/ /\ body.done
          /\ client' = [client EXCEPT !.at = "waiting",
                                      !.stream = IF body.error THEN "error" ELSE "whole"]
       \/ /\ body.refused
          /\ client' = [client EXCEPT !.at = "waiting", !.stream = "refused"]
       \/ client' = [client EXCEPT !.at = "waiting", !.stream = "deadline", !.gone = TRUE]
    /\ UNCHANGED <<session, holder, recorder, engine, router, channel, body>>

\* wait_finished: enable takes a permit or registers a waiter.
Enable ==
    /\ client.at = "waiting"
    /\ session' = [session EXCEPT !.permit = FALSE,
                                  !.waiter = IF session.permit THEN "ready" ELSE "waiting"]
    /\ ClientAt("take")
    /\ UNCHANGED <<holder, recorder, engine, router, channel, body>>

\* A notification that the waiter has not used is passed on.
Unregistered(s) == [s EXCEPT !.waiter = "none", !.permit = @ \/ s.waiter = "notified"]

TakeFinished ==
    LET at == FinishedAt(session, client.sequence)
        rest == [session EXCEPT !.finished = RemoveAt(@, at)]
    IN  /\ client.at = "take"
        /\ \/ /\ Inside("client")
              /\ CASE at # 0 ->
                        /\ session' = Unregistered(rest)
                        /\ client' = [client EXCEPT !.at = "assess", !.observed = TRUE,
                                          !.record = Sealed(session, session.finished[at])]
                   [] at = 0 /\ session.incomplete ->
                        session' = Unregistered(session) /\ ClientAt("partial")
                   [] OTHER -> UNCHANGED session /\ ClientAt("parked")
           \/ /\ Contended("client")
              /\ session' = Unregistered(MarkIncomplete(session))
              /\ ClientAt("partial")
        /\ UNCHANGED <<recorder, engine, router, channel, body>>

Woken ==
    /\ client.at = "parked"
    /\ session.waiter \in {"notified", "ready"}
    /\ session' = [session EXCEPT !.waiter = "none"]
    /\ ClientAt("waiting")
    /\ UNCHANGED <<holder, recorder, engine, router, channel, body>>

WatchdogExpires ==
    /\ client.at = "parked"
    /\ session' = Unregistered(session)
    /\ ClientAt("expired")
    /\ UNCHANGED <<holder, recorder, engine, router, channel, body>>

\* mark_unobserved
MarkUnobserved ==
    /\ client.at = "expired"
    /\ \/ /\ Inside("client")
          /\ session' = MarkIncomplete(IF session.partial.sequence # client.sequence THEN session
                              ELSE [session EXCEPT !.partial.incomplete = TRUE])
       \/ Contended("client") /\ session' = MarkIncomplete(session)
    /\ ClientAt("partial")
    /\ UNCHANGED <<recorder, engine, router, channel, body>>

\* What there is of a record that was not finished.
TakePartial ==
    LET known == session.partial.sequence = client.sequence
        at(record) == client' = [client EXCEPT !.at = "assess", !.record = record]
    IN  /\ client.at = "partial"
        /\ \/ /\ Inside("client")
              /\ UNCHANGED session
              /\ at(IF known THEN Sealed(session, session.partial) ELSE None)
           \/ Contended("client") /\ session' = MarkIncomplete(session) /\ at(None)
        /\ UNCHANGED <<recorder, engine, router, channel, body>>

\* record_is_complete, with what the client has seen entered into the record.
Complete(record) ==
    /\ client.stream = "whole"
    /\ client.observed
    /\ record.terminal = "returned"
    /\ ~record.incomplete
    /\ record.model # <<>>
    /\ record.model[1].outcome = "complete"
    /\ record.model[1].pieces > 0

\* A follow-up is sent only after a complete capture.
Assess ==
    /\ client.at = "assess"
    /\ LET complete == Complete(client.record)
       IN  \E to \in {"closed"} \cup (IF complete THEN {"arm"} ELSE {}) :
              client' = [client EXCEPT !.at = to, !.complete = complete, !.record =
                  IF @ = None \/ client.observed THEN @
                  ELSE [@ EXCEPT !.incomplete = TRUE, !.terminal = "unobserved"]]
    /\ UNCHANGED <<session, holder, recorder, engine, router, channel, body>>

\* The engine thread ends when nobody holds a handle, and is joined or not within
\* the watchdog.
EndEngine ==
    /\ client.at = "closed"
    /\ router.at \in {"none", "over"}
    /\ engine.at = "idle" /\ engine.queue = <<>>
    /\ EngineAt("ended")
    /\ UNCHANGED <<session, holder, recorder, router, channel, body, client>>

Join ==
    /\ client.at = "closed"
    /\ \E to \in {"unjoined"} \cup (IF engine.at = "ended" THEN {"joined"} ELSE {}) : ClientAt(to)
    /\ UNCHANGED <<session, holder, recorder, engine, router, channel, body>>

----------------------------------------------------------------------------
CaptureInit ==
    /\ session = NewSession
    /\ holder = "none"
    /\ recorder = <<>>
    /\ engine = [at |-> "idle", queue |-> <<>>, sequence |-> 0, record |-> None, pieces |-> 0]
    /\ router = [at |-> "none", cancelled |-> FALSE]
    /\ channel = [sender |-> FALSE, receiver |-> FALSE, pieces |-> 0, error |-> FALSE]
    /\ body = [refused |-> FALSE, pieces |-> 0, error |-> FALSE, done |-> FALSE]
    /\ client = [at |-> "arm", sequence |-> 0, record |-> None, stream |-> "none",
                 observed |-> FALSE, gone |-> FALSE, complete |-> FALSE]

CaptureNext ==
    \/ \E actor \in {"engine", "router", "client"} : TakeLock(actor)
    \/ TakeCommand \/ RunEncode \/ BeginCapture \/ BeginPlain \/ Produce \/ EndGeneration
    \/ Panic \/ Settle \/ Abandon \/ AbandonNothing
    \/ IsActive \/ Refuse \/ Count \/ Start \/ Relay \/ ReceiveFailure \/ Recount
    \/ GiveUp \/ Judge \/ LogFailure \/ LogCompletion \/ SendEnd \/ Disconnect
    \/ Arm \/ ReadBody \/ Enable \/ TakeFinished \/ Woken \/ WatchdogExpires
    \/ MarkUnobserved \/ TakePartial \/ Assess \/ EndEngine \/ Join

CaptureSpec == CaptureInit /\ [][CaptureNext]_captureVars

----------------------------------------------------------------------------
(* Properties.                                                             *)

\* A capture that is reported complete is of this request, its generation ended
\* by itself, and the client has read every piece that the model delivered.
CaptureHonest ==
    client.complete =>
        LET model == client.record.model[1]
        IN  /\ model.sequence = client.sequence
            /\ model.outcome = "complete"
            /\ model.pieces = body.pieces
            /\ body.done /\ ~body.error

\* Between two requests nothing is left in the session or in the model, and the
\* engine has no generation to run, or the session is marked incomplete.
LossIsMarked ==
    client.at \in {"arm", "closed", "joined"} /\ ~session.incomplete =>
        /\ session.armed = 0
        /\ session.partial = None
        /\ session.finished = <<>>
        /\ recorder = <<>>
        /\ engine.at \notin {"begin", "generate", "settle"} /\ ~Contains(engine.queue, "stream")

\* A client that waits is woken for what it waits for.
NoLostWakeup ==
    client.at = "parked" /\ session.waiter = "waiting" =>
        ~session.incomplete /\ FinishedAt(session, client.sequence) = 0

\* Captures are honest, losses are marked and nobody sleeps through the end.
CaptureRight ==
    /\ CaptureHonest
    /\ LossIsMarked
    /\ NoLostWakeup

============================================================================
