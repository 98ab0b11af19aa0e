--------------------------- MODULE FixtureStream ----------------------------
(***************************************************************************)
(* The reader of a captured response: drain_fixture_sse and observe_event  *)
(* (crates/mivi-server/src/fixture_diagnostics/fixtures.rs), which take an *)
(* event stream apart whatever frames it arrives in, and the wrapper of    *)
(* crates/mivi-server/src/logging.rs that tells how a body has ended.      *)
(*                                                                         *)
(* The payload of an event is one symbol, an ending of a line is CR LF or  *)
(* LF, and lengths count symbols.                                          *)
(***************************************************************************)
EXTENDS Naturals, Sequences, SequencesExt, FiniteSetsExt

CONSTANTS
    EventLists,     \* the sequences of events a body may carry
    TextCap,        \* text_bytes of the limits
    NameCap,        \* the 256 bytes of an id and of a name
    EventCap,       \* MAX_SSE_EVENTS
    CallCap,        \* MAX_TOOL_CALLS
    FragmentCap,    \* MAX_TOOL_CALL_FRAGMENTS
    FrameSizes      \* bound: lengths of frames

ASSUME StreamAssumption == {TextCap, NameCap, EventCap, CallCap, FragmentCap} \subseteq Nat \ {0}

VARIABLES
    carried,    \* the events of the body, and how their lines end
    wire,       \* what of it has not arrived
    seen,       \* length of the transcript
    pending,    \* what has arrived and is not a whole event
    counts,     \* events and fragments so far
    observed,   \* ObservedStream
    verdict,    \* of drain_fixture_sse
    lifecycle   \* of the body

fixtureStreamVars == <<carried, wire, seen, pending, counts, observed, verdict, lifecycle>>

LineFeed == [kind |-> "line feed"]

Return == [kind |-> "return"]

NewStream == [finish |-> "", done |-> FALSE, error |-> FALSE, calls |-> <<>>, content |-> <<>>]

NewCall(index) == [index |-> index, id |-> <<>>, name |-> <<>>, arguments |-> <<>>]

----------------------------------------------------------------------------
(* One event.  A step gives the next state, or nothing if it refuses.      *)

Refused == [ok |-> FALSE]

Taken(fragments, stream) == [ok |-> TRUE, fragments |-> fragments, stream |-> stream]

\* append_field, of every field
HasRoom(call) ==
    Len(call.id) <= NameCap /\ Len(call.name) <= NameCap /\ Len(call.arguments) <= TextCap

\* The call a fragment belongs to is found by its index, or begins.
AddFragment(taken, fragment) ==
    LET calls == IF ~taken.ok THEN <<>> ELSE taken.stream.calls
        found == SelectInSeq(calls, LAMBDA call : call.index = fragment.index)
        at == IF found = 0 THEN Len(calls) + 1 ELSE found
        old == IF found = 0 THEN NewCall(fragment.index) ELSE calls[found]
        new == [old EXCEPT !.id = IF @ = <<>> THEN fragment.id ELSE @,
                           !.name = @ \o fragment.name,
                           !.arguments = @ \o fragment.arguments]
    IN  IF \/ ~taken.ok
           \/ taken.fragments >= FragmentCap
           \/ fragment.index >= CallCap
           \/ old.id # <<>> /\ fragment.id # <<>> /\ old.id # fragment.id
           \/ ~HasRoom(new)
        THEN Refused
        ELSE Taken(taken.fragments + 1,
                   [taken.stream EXCEPT !.calls = [i \in 1..Max({at, Len(calls)}) |->
                                                      IF i = at THEN new ELSE calls[i]]])

\* observe_event
Observe(fragments, stream, event) ==
    LET content == stream.content \o event.content
        called == FoldLeft(AddFragment, Taken(fragments, [stream EXCEPT !.content = content]),
                           event.fragments)
    IN  CASE event.kind = "error" -> Taken(fragments, [stream EXCEPT !.error = TRUE])
          [] event.kind = "malformed" -> Refused
          [] OTHER ->
               IF \/ Len(content) > TextCap
                  \/ Len(event.fragments) > CallCap
                  \/ ~called.ok
                  \/ event.finish # "" /\ stream.finish \notin {"", event.finish}
               THEN Refused
               ELSE [called EXCEPT !.stream.finish = IF event.finish = "" THEN @ ELSE event.finish]

----------------------------------------------------------------------------
(* drain_fixture_sse.                                                      *)

\* Where an event ends, and the length of its separator, if lines end with LF
LineFeedBoundaries(text) ==
    {<<i, 2>> : i \in {j \in 1..Len(text) - 1 : SubSeq(text, j, j + 1) = <<LineFeed, LineFeed>>}}

\* The ends of events, and the lengths of their separators.
Boundaries(text) ==
    LineFeedBoundaries(text)
    \cup {<<i, 4>> : i \in {j \in 1..Len(text) - 3 :
              SubSeq(text, j, j + 3) = <<Return, LineFeed, Return, LineFeed>>}}

\* The first of them
First(boundaries) == CHOOSE b \in boundaries : \A other \in boundaries : b[1] <= other[1]

\* The data of an event: its payload, unless that is a comment.
Data(text) == SelectSeq(text, LAMBDA x : x.kind \notin {"line feed", "return", "comment"})

\* What the data of an event does to what has been observed.
Seen(data) ==
    CASE data = <<>> -> Taken(counts.fragments, observed)
      [] data # <<>> /\ observed.done -> Refused
      [] data # <<>> /\ ~observed.done ->
           IF data[1].kind = "done" THEN Taken(counts.fragments, [observed EXCEPT !.done = TRUE])
           ELSE Observe(counts.fragments, observed, data[1])

\* The reader returns early, and drops what is left of the body.
Leave(with) ==
    /\ verdict' = with
    /\ lifecycle' = IF lifecycle = "open" THEN "client disconnected" ELSE lifecycle
    /\ UNCHANGED <<carried, wire, seen, pending, counts, observed>>

Whole == verdict = "reading" /\ Boundaries(pending) # {}

\* The next whole event leaves the pending text, or is refused.
TakeEvent ==
    LET end == First(Boundaries(pending))
        result == Seen(Data(SubSeq(pending, 1, end[1] - 1)))
    IN  /\ Whole
        /\ IF counts.events < EventCap /\ result.ok
           THEN /\ counts' = [events |-> counts.events + 1, fragments |-> result.fragments]
                /\ observed' = result.stream
                /\ pending' = SubSeq(pending, end[1] + end[2], Len(pending))
                /\ UNCHANGED <<carried, wire, seen, verdict, lifecycle>>
           ELSE Leave("refused")

Awaiting == verdict = "reading" /\ Boundaries(pending) = {}

\* A frame arrives. The transcript, which keeps the whole body, bounds the frame
\* and the pending text as well.
ReadFrame ==
    /\ Awaiting
    /\ \E size \in FrameSizes \cap 1..Len(wire) :
          IF seen + size > TextCap THEN Leave("refused")
          ELSE /\ wire' = SubSeq(wire, size + 1, Len(wire))
               /\ seen' = seen + size
               /\ pending' = pending \o SubSeq(wire, 1, size)
               /\ UNCHANGED <<carried, counts, observed, verdict, lifecycle>>

\* The body ends, perhaps before all of it was sent.
EndOfBody ==
    /\ Awaiting
    /\ lifecycle' = "complete"
    /\ IF observed.done /\ pending = <<>>
       THEN /\ verdict' = "whole"
            /\ observed' = [observed EXCEPT !.calls = SortSeq(@, LAMBDA x, y : x.index < y.index)]
       ELSE verdict' = "refused" /\ UNCHANGED observed
    /\ UNCHANGED <<carried, wire, seen, pending, counts>>

BodyError ==
    /\ Awaiting
    /\ verdict' = "broken"
    /\ lifecycle' = "body error"
    /\ UNCHANGED <<carried, wire, seen, pending, counts, observed>>

\* The deadline of the request drops the reader.
Deadline == Awaiting /\ Leave("deadline")

----------------------------------------------------------------------------
Ending(lines) ==
    IF lines = "crlf" THEN <<Return, LineFeed, Return, LineFeed>> ELSE <<LineFeed, LineFeed>>

Wire(list, lines) == FlattenSeq([i \in 1..Len(list) |-> <<list[i]>> \o Ending(lines)])

FixtureStreamInit ==
    /\ carried = [list |-> <<>>, lines |-> "none"]
    /\ wire = <<>>
    /\ seen = 0
    /\ pending = <<>>
    /\ counts = [events |-> 0, fragments |-> 0]
    /\ observed = NewStream
    /\ verdict = "none"
    /\ lifecycle = "open"

\* A response arrives; what it carries is chosen here.
Respond ==
    /\ verdict = "none"
    /\ \E list \in EventLists, lines \in {"lf", "crlf"} :
          /\ carried' = [list |-> list, lines |-> lines]
          /\ wire' = Wire(list, lines)
    /\ verdict' = "reading"
    /\ UNCHANGED <<seen, pending, counts, observed, lifecycle>>

FixtureStreamNext ==
    Respond \/ ReadFrame \/ TakeEvent \/ EndOfBody \/ BodyError \/ Deadline

----------------------------------------------------------------------------
(* Properties.                                                             *)

Payload == SelectSeq(carried.list, LAMBDA event : event.kind # "comment")

\* The text, the calls and their parts, told from the body as a whole.
Text == FlattenSeq([i \in DOMAIN Payload |->
            IF Payload[i].kind = "delta" THEN Payload[i].content ELSE <<>>])

Fragments == FlattenSeq([i \in DOMAIN Payload |-> Payload[i].fragments])

Indices == {Fragments[i].index : i \in DOMAIN Fragments}

CallText(index) ==
    LET its == SelectSeq(Fragments, LAMBDA fragment : fragment.index = index)
    IN  [ids |-> {its[i].id : i \in DOMAIN its} \ {<<>>},
         name |-> FlattenSeq([i \in DOMAIN its |-> its[i].name]),
         arguments |-> FlattenSeq([i \in DOMAIN its |-> its[i].arguments])]

\* A body that is wrong in itself.
Flawed ==
    LET done(event) == event.kind = "done"
    IN  \/ ~\E i \in DOMAIN Payload : done(Payload[i])
        \/ \E i \in 1..Len(Payload) - 1 : done(Payload[i])
        \/ \E i \in DOMAIN Payload : Payload[i].kind = "malformed"
        \/ Cardinality({Payload[i].finish : i \in DOMAIN Payload} \ {""}) > 1
        \/ Len(Fragments) > FragmentCap
        \/ \E index \in Indices :
              \/ index >= CallCap
              \/ Cardinality(CallText(index).ids) > 1
              \/ \E id \in CallText(index).ids : Len(id) > NameCap
              \/ Len(CallText(index).name) > NameCap

TooLong ==
    \/ Len(Wire(carried.list, carried.lines)) > TextCap
    \/ Len(carried.list) > EventCap

\* However a body is cut into frames, it is read to the same calls and the same
\* text, in which nothing is lost, doubled or swapped; it is refused only if it
\* is wrong, too long or not sent to its end; and the log tells how it ended.
StreamRight ==
    /\ verdict = "whole" /\ wire = <<>> =>
          /\ ~Flawed /\ ~TooLong
          /\ observed.content = Text
          /\ observed.error = \E i \in DOMAIN Payload : Payload[i].kind = "error"
          /\ Len(observed.calls) = Cardinality(Indices)
          /\ \A i \in DOMAIN observed.calls :
                LET call == observed.calls[i]
                IN  /\ call.index \in Indices
                    /\ i > 1 => observed.calls[i - 1].index < call.index
                    /\ CallText(call.index) = [ids |-> {call.id} \ {<<>>}, name |-> call.name,
                                               arguments |-> call.arguments]
    /\ verdict = "refused" => Flawed \/ TooLong \/ (lifecycle = "complete" /\ wire # <<>>)
    /\ verdict = "whole" => lifecycle = "complete"
    /\ (lifecycle = "open") = (verdict \in {"none", "reading"})

=============================================================================
