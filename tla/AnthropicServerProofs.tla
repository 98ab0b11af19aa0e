------------------------ MODULE AnthropicServerProofs ------------------------
(***************************************************************************)
(* Theorems about the messages endpoint in front of the engine thread, for *)
(* any number of requests, permits and capacities, whatever the codec, the *)
(* timers and the clients do.                                              *)
(***************************************************************************)
EXTENDS AnthropicServer, FiniteSetTheorems, SequenceTheorems, TLAPS

\* The theorems about the engine, whose definitions are those of E.
P == INSTANCE EngineActorProofs

\* What EngineActor assumes of its constants.
LEMMA Assumed ==
    /\ P!EngineAssumption
    /\ Streaming \subseteq Requests /\ Nobody \notin Requests
BY EngineAssumed DEF E!EngineAssumption, P!EngineAssumption

\* The engine's steps go by either name.
LEMMA SameEngine == E!Engine <=> P!Engine
<1>1. E!TakeCommand <=> P!TakeCommand
  BY DEF E!TakeCommand, P!TakeCommand, E!Apply, P!Apply
<1>2. E!Encode <=> P!Encode
  BY DEF E!Encode, P!Encode, E!Answer, P!Answer, E!Return, P!Return, E!NoJob, P!NoJob,
         E!Base, P!Base
<1>3. E!Generate <=> P!Generate
  BY DEF E!Generate, P!Generate, E!Answer, P!Answer, E!Return, P!Return, E!NoJob, P!NoJob,
         E!Base, P!Base, E!Restored, P!Restored
<1> USE DEF E!Continue, P!Continue, E!Abandoned, P!Abandoned, E!ReturnFromStream, P!ReturnFromStream,
            E!Return, P!Return, E!NoJob, P!NoJob, E!Base, P!Base, E!Restored, P!Restored
<1>4. E!BeginStream <=> P!BeginStream
  BY DEF E!BeginStream, P!BeginStream
<1>5. E!CutShort <=> P!CutShort
  BY DEF E!CutShort, P!CutShort
<1>6. E!Emit <=> P!Emit
  BY DEF E!Emit, P!Emit, E!Wanted, P!Wanted
<1>7. E!SendText <=> P!SendText
  BY DEF E!SendText, P!SendText, E!Put, P!Put, E!HasRoom, P!HasRoom
<1>8. E!SendRefused <=> P!SendRefused
  BY DEF E!SendRefused, P!SendRefused, E!SendFails, P!SendFails
<1>9. E!Finish <=> P!Finish
  BY DEF E!Finish, P!Finish
<1>10. E!FailStream <=> P!FailStream
  BY DEF E!FailStream, P!FailStream
<1>11. E!SendError <=> P!SendError
  BY DEF E!SendError, P!SendError, E!Put, P!Put, E!HasRoom, P!HasRoom
<1>12. E!ErrorSent <=> P!ErrorSent
  BY DEF E!ErrorSent, P!ErrorSent, E!SendFails, P!SendFails
<1>13. E!Panic <=> P!Panic
  BY DEF E!Panic, P!Panic, E!Answer, P!Answer
<1> QED
  BY <1>1, <1>2, <1>3, <1>4, <1>5, <1>6, <1>7, <1>8, <1>9, <1>10, <1>11, <1>12, <1>13
  DEF E!Engine, P!Engine

\* The operations of a handle go by either name.
LEMMA SameHandle ==
    ASSUME NEW r
    PROVE  /\ \A kind \in {"encode", "generate", "stream"} :
                 E!Submit(kind, r) <=> P!Submit(kind, r)
           /\ E!Receive(r) <=> P!Receive(r)
           /\ E!Cancel(r) <=> P!Cancel(r)
           /\ E!TakeReply(r) <=> P!TakeReply(r)
           /\ E!AbandonReply(r) <=> P!AbandonReply(r)
           /\ E!Client(r) <=> P!Client(r)
           /\ E!Abandoned(r) <=> P!Abandoned(r)
           /\ E!Unused = P!Unused
<1>1. \A kind : E!Submit(kind, r) <=> P!Submit(kind, r)
  BY DEF E!Submit, P!Submit, E!Opened, P!Opened, E!Unused, P!Unused
<1>2. /\ E!Receive(r) <=> P!Receive(r)
      /\ E!Cancel(r) <=> P!Cancel(r)
      /\ E!TakeReply(r) <=> P!TakeReply(r)
      /\ E!AbandonReply(r) <=> P!AbandonReply(r)
  BY DEF E!Receive, P!Receive, E!Cancel, P!Cancel, E!Cancelled, P!Cancelled,
         E!TakeReply, P!TakeReply, E!AbandonReply, P!AbandonReply, E!engine, P!engine
<1>3. E!Close(r) <=> P!Close(r)
  BY DEF E!Close, P!Close, E!Cancelled, P!Cancelled, E!Dropped, P!Dropped, E!engine, P!engine
<1>4. E!Client(r) <=> P!Client(r)
  <2>1. E!Answering(r) = P!Answering(r)
    BY DEF E!Answering, P!Answering
  <2> QED BY <1>1, <1>2, <1>3, <2>1 DEF E!Client, P!Client
<1>5. (E!Abandoned(r) <=> P!Abandoned(r)) /\ E!Unused = P!Unused
  BY DEF E!Abandoned, P!Abandoned, E!Unused, P!Unused
<1> QED BY <1>1, <1>2, <1>4, <1>5

\* So do its states and steps.
LEMMA SameNext ==
    /\ E!Init <=> P!Init
    /\ E!Next <=> P!Next
    /\ UNCHANGED E!vars <=> UNCHANGED P!vars
    /\ UNCHANGED E!vars <=> EngineRests
<1>1. E!Init <=> P!Init
  BY DEF E!Init, P!Init, E!NoJob, P!NoJob, E!Base, P!Base, E!Unused, P!Unused
<1>2. E!Next <=> P!Next
  BY SameEngine, SameHandle DEF E!Next, P!Next
<1>3. /\ UNCHANGED E!vars <=> UNCHANGED P!vars
      /\ UNCHANGED E!vars <=> EngineRests
  BY DEF E!vars, P!vars, E!engine, P!engine, EngineRests, engine
<1> QED BY <1>1, <1>2, <1>3

----------------------------------------------------------------------------
(* The events of a message.                                                *)

Events ==
    {"message_start", "content_block_start", "delta", "error", "content_block_stop",
     "tool", "end_turn", "tool_use", "message_stop"}

\* Those that only a message that is closed has.
Final == {"end_turn", "tool_use", "message_stop"}

Occurrences(s, e) == Cardinality({i \in DOMAIN s : s[i] = e})

\* A well-formed beginning of a message up to this last event, with so many
\* deltas and errors and these events of its end.
Tale(s, last, deltas, errors, ending) ==
    /\ s \in Seq(Events) /\ s # <<>> /\ s[1] = "message_start" /\ s[Len(s)] = last
    /\ \A i \in 1 .. Len(s) - 1 : s[i + 1] \in MayFollow[s[i]]
    /\ Occurrences(s, "delta") = deltas
    /\ Occurrences(s, "error") = errors
    /\ \A e \in Final : Occurrences(s, e) \in Nat /\ (Occurrences(s, e) > 0 <=> e \in ending)

\* One more event is counted once.
LEMMA OccurrencesAppend ==
    ASSUME NEW s \in Seq(Events), NEW x \in Events, NEW e, IsFiniteSet({i \in DOMAIN s : s[i] = e})
    PROVE  /\ IsFiniteSet({i \in DOMAIN Append(s, x) : Append(s, x)[i] = e})
           /\ Occurrences(s, e) \in Nat
           /\ Occurrences(Append(s, x), e) =
                 IF x = e THEN Occurrences(s, e) + 1 ELSE Occurrences(s, e)
<1> DEFINE old == {i \in DOMAIN s : s[i] = e}
           new == {i \in DOMAIN Append(s, x) : Append(s, x)[i] = e}
<1>1. /\ Len(s) \in Nat /\ DOMAIN s = 1 .. Len(s)
      /\ DOMAIN Append(s, x) = 1 .. (Len(s) + 1)
      /\ \A i \in 1 .. Len(s) : Append(s, x)[i] = s[i]
      /\ Append(s, x)[Len(s) + 1] = x
  BY LenProperties
<1>2. new = IF x = e THEN old \cup {Len(s) + 1} ELSE old
  BY <1>1
<1>3. Len(s) + 1 \notin old
  BY <1>1
<1> HIDE DEF old, new
<1>4. IsFiniteSet(old) /\ Cardinality(old) \in Nat
  BY FS_CardinalityType DEF old
<1>5. IsFiniteSet(new) /\ Cardinality(new) = IF x = e THEN Cardinality(old) + 1 ELSE Cardinality(old)
  BY <1>2, <1>3, <1>4, FS_AddElement
<1> QED BY <1>4, <1>5 DEF old, new, Occurrences

\* The places of an event in a sequence are finitely many.
LEMMA OccurrencesFinite ==
    ASSUME NEW s \in Seq(Events), NEW e
    PROVE  IsFiniteSet({i \in DOMAIN s : s[i] = e})
<1>1. Len(s) \in Nat /\ DOMAIN s = 1 .. Len(s)
  BY LenProperties
<1>2. IsFiniteSet(1 .. Len(s))
  BY <1>1, FS_Interval
<1> QED BY <1>1, <1>2, FS_Subset

\* What may follow what.
LEMMA Following ==
    /\ MayFollow["message_start"] = {"content_block_start"}
    /\ MayFollow["content_block_start"] = {"delta", "error", "content_block_stop"}
    /\ MayFollow["delta"] = {"delta", "error", "content_block_stop"}
    /\ MayFollow["error"] = {"delta", "content_block_stop"}
    /\ MayFollow["content_block_stop"] = {"tool", "end_turn", "message_stop"}
    /\ MayFollow["tool"] = {"tool_use"}
    /\ MayFollow["end_turn"] = {"message_stop"}
    /\ MayFollow["tool_use"] = {"message_stop"}
BY DEF MayFollow

\* A message goes on with an event that may follow its last.
LEMMA TaleGoesOn ==
    ASSUME NEW s, NEW last, NEW deltas, NEW errors, NEW ending,
           Tale(s, last, deltas, errors, ending), NEW x \in Events, x \in MayFollow[last]
    PROVE  Tale(Append(s, x), x, IF x = "delta" THEN deltas + 1 ELSE deltas,
                IF x = "error" THEN errors + 1 ELSE errors,
                IF x \in Final THEN ending \cup {x} ELSE ending)
<1>1. /\ s \in Seq(Events) /\ Len(s) \in Nat \ {0}
      /\ Append(s, x) \in Seq(Events) /\ Len(Append(s, x)) = Len(s) + 1
      /\ \A i \in 1 .. Len(s) : Append(s, x)[i] = s[i]
      /\ Append(s, x)[Len(s) + 1] = x
  BY LenProperties, EmptySeq DEF Tale
<1>2. \A i \in 1 .. Len(Append(s, x)) - 1 : Append(s, x)[i + 1] \in MayFollow[Append(s, x)[i]]
  <2>1. SUFFICES ASSUME NEW i \in 1 .. Len(s)
                 PROVE  Append(s, x)[i + 1] \in MayFollow[s[i]]
    BY <1>1
  <2>2. CASE i = Len(s)
    BY <1>1, <2>2 DEF Tale
  <2>3. CASE i # Len(s)
    BY <1>1, <2>1, <2>3 DEF Tale
  <2> QED BY <2>2, <2>3
<1>3. ASSUME NEW e
      PROVE  /\ Occurrences(s, e) \in Nat
             /\ Occurrences(Append(s, x), e) =
                   IF x = e THEN Occurrences(s, e) + 1 ELSE Occurrences(s, e)
  <2>1. s \in Seq(Events)
    BY <1>1
  <2>2. IsFiniteSet({i \in DOMAIN s : s[i] = e})
    BY <2>1, OccurrencesFinite
  <2> QED BY <2>1, <2>2, OccurrencesAppend
<1>4. Append(s, x) # <<>> /\ Append(s, x)[1] = "message_start"
  BY <1>1, EmptySeq DEF Tale
<1>5. ASSUME NEW e \in Final
      PROVE  /\ Occurrences(Append(s, x), e) \in Nat
             /\ Occurrences(Append(s, x), e) > 0 <=>
                   e \in IF x \in Final THEN ending \cup {x} ELSE ending
  BY <1>3, <1>5 DEF Tale
<1> QED BY <1>1, <1>2, <1>3, <1>4, <1>5 DEF Tale

\* The sequences of events that are put together.
LEMMA Joining ==
    ASSUME NEW s \in Seq(Events), NEW a \in Events, NEW b \in Events
    PROVE  /\ s \o <<>> = s
           /\ s \o <<a>> = Append(s, a)
           /\ s \o <<a, b>> = Append(Append(s, a), b)
           /\ <<a>> \in Seq(Events) /\ <<a, b>> \in Seq(Events) /\ <<>> \in Seq(Events)
<1>1. /\ <<a>> \in Seq(Events) /\ <<b>> \in Seq(Events) /\ <<a, b>> \in Seq(Events)
      /\ <<>> \in Seq(Events) /\ s \o <<>> = s
  BY EmptySeq, ConcatEmptySeq
<1>2. s \o <<a>> = Append(s, a) /\ Append(s, a) \in Seq(Events)
  BY <1>1, AppendIsConcat, AppendProperties
<1>3. Append(s, a) \o <<b>> = Append(Append(s, a), b)
  BY <1>2, AppendIsConcat
<1>4. (s \o <<a>>) \o <<b>> = s \o (<<a>> \o <<b>>)
  BY <1>1, ConcatAssociative
<1>5. <<a>> \o <<b>> = Append(<<a>>, b)
  BY <1>1, AppendIsConcat
<1>6. Append(<<a>>, b) = <<a, b>>
  <2>1. Append(<<a>>, b) \in Seq(Events) /\ Len(Append(<<a>>, b)) = 2
    BY <1>1, AppendProperties
  <2>2. Append(<<a>>, b)[1] = a /\ Append(<<a>>, b)[2] = b
    BY <1>1, AppendProperties
  <2>3. Len(<<a, b>>) = 2 /\ <<a, b>>[1] = a /\ <<a, b>>[2] = b
    OBVIOUS
  <2>4. \A i \in 1 .. 2 : Append(<<a>>, b)[i] = <<a, b>>[i]
    <3>1. \A i \in 1 .. 2 : i = 1 \/ i = 2
      OBVIOUS
    <3> QED BY <2>2, <2>3, <3>1
  <2> QED BY <1>1, <2>1, <2>3, <2>4, SeqEqual
<1> QED BY <1>1, <1>2, <1>3, <1>4, <1>5, <1>6

\* The text block of a message is open: what there is up to its last event.
Open(s, deltas, errors) ==
    \E last \in {"content_block_start", "delta", "error"} : Tale(s, last, deltas, errors, {})

\* Parts may be joined to what was sent one by one.
LEMMA Associative ==
    ASSUME NEW s \in Seq(Events), NEW t \in Seq(Events), NEW u \in Seq(Events)
    PROVE  (s \o t) \o u = s \o (t \o u) /\ s \o t \in Seq(Events)
<1>1. (s \o t) \o u = s \o (t \o u)
  BY ConcatAssociative
<1>2. s \o t \in Seq(Events)
  BY ConcatProperties
<1> QED BY <1>1, <1>2

\* CloseWhole: the events after a whole generation end a message, with one stop
\* reason.
LEMMA FinaleEnds ==
    ASSUME NEW s, NEW deltas \in Nat, NEW last \in {"content_block_start", "delta"},
           Tale(s, last, deltas, 0, {}),
           NEW verdict \in {"none", "calls", "invalid"}, NEW text \in BOOLEAN
    PROVE  LET reason == IF verdict = "calls" THEN "tool_use" ELSE "end_turn"
               whole == s \o (Finale(verdict, text) \o <<"message_stop">>)
           IN  Tale(whole, "message_stop", IF text THEN deltas + 1 ELSE deltas,
                    IF verdict = "invalid" THEN 1 ELSE 0, {reason, "message_stop"})
<1> DEFINE warning == IF verdict = "invalid" THEN <<"error">> ELSE <<>>
           left == IF text THEN <<"delta">> ELSE <<>>
           stop == <<"content_block_stop">>
           reason == IF verdict = "calls" THEN "tool_use" ELSE "end_turn"
           closing == IF verdict = "calls" THEN <<"tool", "tool_use">> ELSE <<"end_turn">>
           more == IF text THEN deltas + 1 ELSE deltas
           errors == IF verdict = "invalid" THEN 1 ELSE 0
<1>1. /\ s \in Seq(Events) /\ warning \in Seq(Events) /\ left \in Seq(Events)
      /\ stop \in Seq(Events) /\ closing \in Seq(Events) /\ <<"message_stop">> \in Seq(Events)
  BY Joining DEF Tale, Events
<1>2. Open(s \o warning, deltas, errors)
  <2>1. CASE verdict = "invalid"
    <3>1. s \o warning = Append(s, "error")
      BY <1>1, <2>1, Joining DEF Events
    <3>2. Tale(Append(s, "error"), "error", deltas, 1, {})
      <4>1. "error" \in MayFollow[last] /\ "error" \in Events /\ "error" \notin Final
        BY Following DEF Events, Final
      <4>2. Tale(Append(s, "error"), "error", deltas, 0 + 1, {})
        BY <4>1, TaleGoesOn
      <4> QED BY <4>2
    <3> QED BY <2>1, <3>1, <3>2 DEF Open
  <2>2. CASE verdict # "invalid"
    <3>1. s \o warning = s
      BY <1>1, <2>2, ConcatEmptySeq
    <3> QED BY <2>2, <3>1 DEF Open
  <2> QED BY <2>1, <2>2
<1>3. Open((s \o warning) \o left, more, errors)
  <2>0. s \o warning \in Seq(Events)
    BY <1>1, ConcatProperties
  <2>1. CASE text
    <3>1. (s \o warning) \o left = Append(s \o warning, "delta")
      BY <2>0, <2>1, Joining DEF Events
    <3>2. Tale(Append(s \o warning, "delta"), "delta", deltas + 1, errors, {})
      <4> HIDE DEF warning, errors
      <4>1. PICK l \in {"content_block_start", "delta", "error"} :
               Tale(s \o warning, l, deltas, errors, {})
        BY <1>2 DEF Open
      <4>2. "delta" \in MayFollow[l] /\ "delta" \in Events /\ "delta" \notin Final
        BY Following DEF Events, Final
      <4> QED BY <4>1, <4>2, TaleGoesOn
    <3> QED BY <2>1, <3>1, <3>2 DEF Open
  <2>2. CASE ~text
    <3>1. (s \o warning) \o left = s \o warning
      BY <2>0, <2>2, ConcatEmptySeq
    <3> QED BY <1>2, <2>2, <3>1
  <2> QED BY <2>1, <2>2
<1> DEFINE block == (s \o warning) \o left
<1> HIDE DEF errors, more
<1>4. block \in Seq(Events)
  BY <1>1, ConcatProperties
<1>5. Tale(block \o stop, "content_block_stop", more, errors, {})
  <2> HIDE DEF block
  <2>1. PICK l \in {"content_block_start", "delta", "error"} : Tale(block, l, more, errors, {})
    BY <1>3 DEF Open, block
  <2>2. "content_block_stop" \in MayFollow[l]
    BY Following
  <2>3. Tale(Append(block, "content_block_stop"), "content_block_stop", more, errors, {})
    BY <2>1, <2>2, TaleGoesOn DEF Events, Final
  <2> QED BY <1>4, <2>3, Joining DEF Events
<1>6. block \o stop \in Seq(Events)
  BY <1>1, <1>4, ConcatProperties
<1>7. Tale((block \o stop) \o closing, reason, more, errors, {reason})
  <2> DEFINE closed == block \o stop
  <2> HIDE DEF block
  <2>1. CASE verdict = "calls"
    <3> HIDE DEF closed
    <3>1. Tale(Append(closed, "tool"), "tool", more, errors, {})
      <4>1. "tool" \in MayFollow["content_block_stop"] /\ "tool" \in Events /\ "tool" \notin Final
        BY Following DEF Events, Final
      <4>2. Tale(closed, "content_block_stop", more, errors, {})
        BY <1>5 DEF closed
      <4> QED BY <4>1, <4>2, TaleGoesOn
    <3>2. Tale(Append(Append(closed, "tool"), "tool_use"), "tool_use", more, errors, {"tool_use"})
      <4>1. "tool_use" \in MayFollow["tool"] /\ "tool_use" \in Events /\ "tool_use" \in Final
        BY Following DEF Events, Final
      <4>2. Tale(Append(Append(closed, "tool"), "tool_use"), "tool_use", more, errors, {} \cup {"tool_use"})
        BY <3>1, <4>1, TaleGoesOn
      <4>3. {} \cup {"tool_use"} = {"tool_use"}
        OBVIOUS
      <4> QED BY <4>2, <4>3
    <3>3. closed \o closing = Append(Append(closed, "tool"), "tool_use")
      BY <1>6, <2>1, Joining DEF Events, closed
    <3> QED BY <2>1, <3>2, <3>3 DEF closed
  <2>2. CASE verdict # "calls"
    <3> HIDE DEF closed
    <3>1. Tale(Append(closed, "end_turn"), "end_turn", more, errors, {"end_turn"})
      BY <1>5, Following, TaleGoesOn DEF Events, Final, closed
    <3>2. closed \o closing = Append(closed, "end_turn")
      BY <1>6, <2>2, Joining DEF Events, closed
    <3> QED BY <2>2, <3>1, <3>2 DEF closed
  <2> QED BY <2>1, <2>2
<1> DEFINE end == (block \o stop) \o closing
<1>8. end \in Seq(Events)
  BY <1>1, <1>6, ConcatProperties
<1>9. Tale(end \o <<"message_stop">>, "message_stop", more, errors, {reason, "message_stop"})
  <2>0. Tale(end, reason, more, errors, {reason})
    BY <1>7
  <2> HIDE DEF end
  <2>1. "message_stop" \in MayFollow[reason] /\ "message_stop" \in Final /\ "message_stop" \in Events
    BY Following DEF Final, Events
  <2>2. {reason} \cup {"message_stop"} = {reason, "message_stop"}
    OBVIOUS
  <2> HIDE DEF reason
  <2>3. Tale(Append(end, "message_stop"), "message_stop", more, errors, {reason} \cup {"message_stop"})
    BY <2>0, <2>1, TaleGoesOn
  <2> QED BY <1>8, <2>1, <2>2, <2>3, Joining
<1>10. end \o <<"message_stop">> = s \o (Finale(verdict, text) \o <<"message_stop">>)
  <2> DEFINE one == warning \o left
             two == one \o stop
             all == two \o closing
             last_one == <<"message_stop">>
  <2>1. s \in Seq(Events)
    BY <1>1
  <2>2. warning \in Seq(Events)
    BY <1>1
  <2>3. left \in Seq(Events)
    BY <1>1
  <2>4. stop \in Seq(Events)
    BY <1>1
  <2>5. closing \in Seq(Events)
    BY <1>1
  <2>6. last_one \in Seq(Events)
    BY <1>1
  <2>7. Finale(verdict, text) = all
    BY DEF Finale
  <2> HIDE DEF warning, left, stop, closing, last_one, all, two, one, block, end
  <2>8. block = s \o one /\ one \in Seq(Events)
    <3>1. (s \o warning) \o left = s \o (warning \o left)
      BY <2>1, <2>2, <2>3, Associative
    <3>2. warning \o left \in Seq(Events)
      BY <2>2, <2>3, ConcatProperties
    <3> QED BY <3>1, <3>2, Zenon DEF block, one
  <2>9. block \o stop = s \o two /\ two \in Seq(Events)
    <3>1. one \in Seq(Events) /\ block = s \o one
      BY <2>8
    <3>2. (s \o one) \o stop = s \o (one \o stop)
      BY <2>1, <2>4, <3>1, Associative
    <3>3. one \o stop \in Seq(Events)
      BY <2>4, <3>1, ConcatProperties
    <3>4. two = one \o stop
      BY DEF two
    <3> HIDE DEF two
    <3>5. block \o stop = s \o two
      BY <3>1, <3>2, <3>4, Zenon
    <3> QED BY <3>3, <3>4, <3>5, Zenon
  <2>10. end = s \o all /\ all \in Seq(Events)
    <3>1. (s \o two) \o closing = s \o (two \o closing)
      BY <2>1, <2>5, <2>9, Associative
    <3>2. two \o closing \in Seq(Events)
      BY <2>5, <2>9, ConcatProperties
    <3> QED BY <2>9, <3>1, <3>2, Zenon DEF end, all
  <2>11. end \o last_one = s \o (all \o last_one)
    BY <2>1, <2>6, <2>10, Associative
  <2> QED BY <2>7, <2>11 DEF last_one
<1> QED BY <1>9, <1>10 DEF more, errors

----------------------------------------------------------------------------
(* The inductive invariant: what holds of a request at each place of its   *)
(* handler and its body.                                                   *)

Places == {"new", "rejected", "over"} \cup HeldThroughout

Unasked == {"new", "rejected", "admit", "admitting", "ask", "start"}

\* Where a reply is awaited.
Awaiting == {"admitting", "asked", "encoding"}

ServerType ==
    /\ handler \in [Requests -> Places]
    /\ polled \in [Requests -> BOOLEAN]
    /\ sent \in [Requests -> Seq(Events)]

\* Only a handler or body that awaits a reply has one, or had one when it was
\* dropped.
ReplyPlace(r) ==
    reply[r] \in IF handler[r] \in Awaiting THEN {"waiting", "value", "error", "dropped"}
                 ELSE IF handler[r] = "over" THEN {"none", "abandoned"}
                 ELSE {"none"}

\* Each request asks for one generation of its own kind, and nothing is sent
\* before its stream is asked for.
KindPlace(r) ==
    /\ handler[r] \in Unasked => stream[r] = E!Unused /\ history[r].outcome = "new"
    /\ handler[r] \in {"new", "rejected", "message_start"} \cup Before => sent[r] = <<>>
    /\ handler[r] \in {"ask", "asked"} => r \notin Streaming
    /\ handler[r] \in {"start"} \cup Body => r \in Streaming

\* A generation that came to its end or panicked, all of whose text has been sent.
AllSent(r, deltas) ==
    /\ history[r].outcome \in {"complete", "panicked"}
    /\ r \notin Tools => deltas = history[r].sent

\* Only text has followed the preamble.
TextSoFar(r, deltas) ==
    \E last \in {"content_block_start", "delta"} : Tale(sent[r], last, deltas, 0, {})

\* The stream owes the client what it has not been sent.
Follows(r) ==
    \E deltas, n \in Nat :
        TextSoFar(r, deltas) /\ P!Owed(r, n) /\ (r \notin Tools => n = deltas)

\* How a message may end.
Right(r, deltas, errors, ending) ==
    /\ errors \in 0 .. 1
    /\ "message_stop" \in ending => ending \cap StopReasons # {} \/ errors = 1
    /\ ending \cap StopReasons # {} =>
          /\ errors = 0 \/ r \in Tools
          /\ AllSent(r, deltas)
    /\ "tool_use" \in ending => errors = 0

\* What the client may have been sent, wherever the message broke off.
Told(r) ==
    \/ sent[r] = <<>>
    \/ \E last \in Events, deltas \in Nat, errors \in Nat, ending \in SUBSET Final :
          Tale(sent[r], last, deltas, errors, ending) /\ Right(r, deltas, errors, ending)

BodyPlace(r) ==
    /\ handler[r] = "message_start" => P!Owed(r, 0)
    /\ handler[r] = "chunks" => Follows(r)
    /\ handler[r] = "failed" =>
          stream[r].receiver /\ \E deltas \in Nat : Tale(sent[r], "error", deltas, 1, {})
    /\ handler[r] \in {"encode", "encoding"} =>
          \E deltas \in Nat : TextSoFar(r, deltas) /\ AllSent(r, deltas)
    /\ handler[r] = "over" => Told(r)

RequestInv(r) == ReplyPlace(r) /\ KindPlace(r) /\ BodyPlace(r)

\* A body that breaks off leaves a client with the beginning of a message.
LEMMA AlwaysTold ==
    ASSUME NEW r \in Requests, handler[r] \in Places, RequestInv(r)
    PROVE  Told(r)
<1>1. Right(r, 0, 0, {}) /\ \A deltas \in Nat, errors \in 0 .. 1 : Right(r, deltas, errors, {})
  BY DEF Right
<1>2. {"content_block_start", "delta", "error"} \subseteq Events /\ 0 \in Nat /\ 1 \in Nat
  BY DEF Events
<1>3. ASSUME NEW deltas \in Nat, TextSoFar(r, deltas) PROVE Told(r)
  <2>1. PICK last \in {"content_block_start", "delta"} : Tale(sent[r], last, deltas, 0, {})
    BY <1>3 DEF TextSoFar
  <2>2. last \in Events /\ {} \in SUBSET Final /\ Right(r, deltas, 0, {})
    BY <1>1, <1>2
  <2> QED BY <1>2, <2>1, <2>2 DEF Told
<1>4. ASSUME NEW deltas \in Nat, Tale(sent[r], "error", deltas, 1, {}) PROVE Told(r)
  <2>1. "error" \in Events /\ 1 \in Nat /\ {} \in SUBSET Final /\ Right(r, deltas, 1, {})
    BY <1>1, <1>2
  <2> QED BY <1>4, <2>1 DEF Told
<1>5. CASE handler[r] \in {"new", "rejected", "message_start"} \cup Before
  BY <1>5 DEF RequestInv, KindPlace, Told
<1>6. CASE handler[r] \in {"chunks", "failed", "encode", "encoding", "over"}
  BY <1>3, <1>4, <1>6 DEF RequestInv, BodyPlace, Follows
<1> QED BY <1>5, <1>6 DEF Places, HeldThroughout, Body

\* The future in post_generation_stream ends after a failure without a stop reason.
LEMMA FailureEnds ==
    ASSUME NEW s, NEW deltas \in Nat, Tale(s, "error", deltas, 1, {})
    PROVE  Tale(s \o (AfterFailure \o <<"message_stop">>), "message_stop", deltas, 1,
                {"message_stop"})
<1>1. s \in Seq(Events) /\ AfterFailure \o <<"message_stop">> = <<"content_block_stop", "message_stop">>
  <2>1. s \in Seq(Events)
    BY DEF Tale
  <2>2. AfterFailure \o <<"message_stop">> = <<"content_block_stop", "message_stop">>
    <3>1. /\ <<>> \in Seq(Events) /\ <<"content_block_stop">> \in Seq(Events)
          /\ "content_block_stop" \in Events /\ "message_stop" \in Events
          /\ <<"content_block_stop", "message_stop">> \in Seq(Events)
      BY Joining, EmptySeq DEF Events
    <3>2. AfterFailure \o <<"message_stop">> = Append(AfterFailure, "message_stop")
      BY <3>1, Joining DEF AfterFailure
    <3>3. /\ <<>> \o <<"content_block_stop">> = Append(<<>>, "content_block_stop")
          /\ <<>> \o <<"content_block_stop", "message_stop">> =
                Append(Append(<<>>, "content_block_stop"), "message_stop")
      BY <3>1, Joining
    <3>4. /\ <<>> \o <<"content_block_stop">> = <<"content_block_stop">>
          /\ <<>> \o <<"content_block_stop", "message_stop">> =
                <<"content_block_stop", "message_stop">>
      BY <3>1, ConcatEmptySeq
    <3> QED BY <3>2, <3>3, <3>4 DEF AfterFailure
  <2> QED BY <2>1, <2>2
<1>2. s \o <<"content_block_stop", "message_stop">> =
         Append(Append(s, "content_block_stop"), "message_stop")
  BY <1>1, Joining DEF Events
<1>3. Tale(Append(s, "content_block_stop"), "content_block_stop", deltas, 1, {})
  <2>1. "content_block_stop" \in MayFollow["error"]
    BY Following
  <2> QED BY <2>1, TaleGoesOn DEF Events, Final
<1>4. /\ "message_stop" \in MayFollow["content_block_stop"]
      /\ "message_stop" \in Events /\ "message_stop" \in Final
  BY Following DEF Events, Final
<1>5. {} \cup {"message_stop"} = {"message_stop"}
  OBVIOUS
<1>6. Tale(Append(Append(s, "content_block_stop"), "message_stop"), "message_stop", deltas, 1,
           {} \cup {"message_stop"})
  BY <1>3, <1>4, TaleGoesOn
<1> QED BY <1>1, <1>2, <1>5, <1>6

\* A message begins with its preamble.
LEMMA PreambleBegins ==
    Tale(<<>> \o <<"message_start", "content_block_start">>, "content_block_start", 0, 0, {})
<1>1. /\ <<"message_start">> \in Seq(Events) /\ <<>> \in Seq(Events)
      /\ Len(<<"message_start">>) = 1 /\ <<"message_start">>[1] = "message_start"
      /\ <<"message_start">> # <<>> /\ DOMAIN <<"message_start">> = {1}
  <2>1. "message_start" \in Events /\ <<>> \in Seq(Events)
    BY EmptySeq DEF Events
  <2>2. <<"message_start">> \in Seq(Events)
    BY <2>1, Joining
  <2>3. /\ Len(<<"message_start">>) = 1 /\ <<"message_start">>[1] = "message_start"
        /\ DOMAIN <<"message_start">> = 1..1
    OBVIOUS
  <2>4. 1..1 = {1} /\ <<"message_start">> # <<>>
    OBVIOUS
  <2> QED BY <2>1, <2>2, <2>3, <2>4
<1>2. \A e \in Events \ {"message_start"} : Occurrences(<<"message_start">>, e) = 0
  <2>1. SUFFICES ASSUME NEW e \in Events \ {"message_start"}
                 PROVE  Occurrences(<<"message_start">>, e) = 0
    OBVIOUS
  <2>2. {i \in DOMAIN <<"message_start">> : <<"message_start">>[i] = e} = {}
    BY <1>1
  <2> QED BY <2>2, FS_EmptySet DEF Occurrences
<1>3. Tale(<<"message_start">>, "message_start", 0, 0, {})
  <2>1. \A i \in 1 .. Len(<<"message_start">>) - 1 : FALSE
    BY <1>1
  <2>2. Final \subseteq Events \ {"message_start"} /\ {"delta", "error"} \subseteq Events \ {"message_start"}
    BY DEF Final, Events
  <2>3. \A e \in Final : Occurrences(<<"message_start">>, e) = 0
    BY <1>2, <2>2
  <2> QED BY <1>1, <1>2, <2>1, <2>2, <2>3 DEF Tale
<1>4. "content_block_start" \in MayFollow["message_start"]
  BY Following
<1>5. Tale(Append(<<"message_start">>, "content_block_start"), "content_block_start", 0, 0, {})
  BY <1>3, <1>4, TaleGoesOn DEF Events, Final
<1>6. <<>> \o <<"message_start", "content_block_start">> =
         Append(<<"message_start">>, "content_block_start")
  <2>1. /\ <<>> \o <<"message_start">> = <<"message_start">>
        /\ <<>> \o <<"message_start">> = Append(<<>>, "message_start")
        /\ <<>> \o <<"message_start", "content_block_start">> =
              Append(Append(<<>>, "message_start"), "content_block_start")
    BY <1>1, Joining, ConcatEmptySeq DEF Events
  <2> QED BY <2>1
<1> QED BY <1>5, <1>6

----------------------------------------------------------------------------
(* The steps of a handler, of a body and of its client.                    *)

Serve(r) ==
    Arrive(r) \/ DropHandler(r) \/ Handle(r) \/ Chunk(r) \/ Read(r) \/ Leave(r)

\* Events are added to what the request was sent.
LEMMA YieldEffects ==
    ASSUME ServerType, NEW r \in Requests, NEW events \in Seq(Events), Yield(r, events)
    PROVE  /\ sent' \in [Requests -> Seq(Events)]
           /\ polled' \in [Requests -> BOOLEAN]
           /\ sent'[r] = sent[r] \o events
           /\ \A q \in Requests \ {r} : sent'[q] = sent[q]
<1>1. sent[r] \o events \in Seq(Events)
  BY ConcatProperties DEF ServerType
<1>2. sent' = [sent EXCEPT ![r] = sent[r] \o events]
  BY DEF Yield, ServerType
<1>3. polled' = [polled EXCEPT ![r] = FALSE]
  BY DEF Yield
<1> QED BY <1>1, <1>2, <1>3 DEF ServerType

\* What a handler asks of the engine concerns its own request.
OnlyFor(q) ==
    /\ UNCHANGED <<job, step, sampler, saved>>
    /\ \A r \in Requests \ {q} :
          reply'[r] = reply[r] /\ stream'[r] = stream[r] /\ history'[r] = history[r]

\* Every operation of a handle, and dropping a stream, is of this kind.
LEMMA UsesConcernOne ==
    ASSUME P!TypeInv, NEW q \in Requests,
           \/ \E kind \in {"encode", "generate", "stream"} : E!Submit(kind, q)
           \/ E!TakeReply(q) \/ E!AbandonReply(q) \/ E!Receive(q) \/ E!Cancel(q)
           \/ EngineRests \/ ChunksDropped(q)
    PROVE  OnlyFor(q)
<1> USE DEF P!TypeInv, OnlyFor
<1>1. ASSUME NEW kind \in {"encode", "generate", "stream"}, E!Submit(kind, q)
      PROVE  OnlyFor(q)
  BY <1>1 DEF E!Submit
<1>2. CASE E!TakeReply(q) \/ E!AbandonReply(q)
  BY <1>2 DEF E!TakeReply, E!AbandonReply, E!engine
<1>3. CASE E!Receive(q) \/ E!Cancel(q)
  BY <1>3 DEF E!Receive, E!Cancel, E!engine
<1>4. CASE EngineRests
  BY <1>4 DEF EngineRests, engine
<1>5. CASE ChunksDropped(q)
  BY <1>5 DEF ChunksDropped, engine
<1> QED BY <1>1, <1>2, <1>3, <1>4, <1>5

\* The server's state of the other requests.
OnlyServes(q) ==
    \A r \in Requests \ {q} : handler'[r] = handler[r] /\ sent'[r] = sent[r]

\* The kinds of the commands a handler or body sends.
LEMMA AskingKinds ==
    ASSUME NEW r, Ask(r)
    PROVE  \/ handler[r] = "admit" /\ E!Submit("encode", r) /\ Goto(r, "admitting")
           \/ handler[r] = "ask" /\ E!Submit("generate", r) /\ Goto(r, "asked")
           \/ handler[r] = "start" /\ E!Submit("stream", r) /\ Goto(r, "message_start")
           \/ handler[r] = "encode" /\ E!Submit("encode", r) /\ Goto(r, "encoding")
BY DEF Ask, Asking

\* The events at the end of a message are events.
LEMMA Endings ==
    /\ AfterFailure \o <<"message_stop">> \in Seq(Events)
    /\ \A verdict \in {"none", "calls", "invalid"}, text \in BOOLEAN :
          Finale(verdict, text) \o <<"message_stop">> \in Seq(Events)
<1>0. /\ AfterFailure \in Seq(Events) /\ <<"message_stop">> \in Seq(Events)
      /\ <<"error">> \in Seq(Events) /\ <<"delta">> \in Seq(Events) /\ <<>> \in Seq(Events)
      /\ <<"content_block_stop">> \in Seq(Events) /\ <<"end_turn">> \in Seq(Events)
      /\ <<"tool", "tool_use">> \in Seq(Events)
  BY EmptySeq DEF AfterFailure, Events
<1>1. ASSUME NEW verdict \in {"none", "calls", "invalid"}, NEW text \in BOOLEAN
      PROVE  Finale(verdict, text) \o <<"message_stop">> \in Seq(Events)
  <2> DEFINE warning == IF verdict = "invalid" THEN <<"error">> ELSE <<>>
             left == IF text THEN <<"delta">> ELSE <<>>
             closing == IF verdict = "calls" THEN <<"tool", "tool_use">> ELSE <<"end_turn">>
             all == ((warning \o left) \o <<"content_block_stop">>) \o closing
  <2>1. warning \in Seq(Events) /\ left \in Seq(Events) /\ closing \in Seq(Events)
    BY <1>0
  <2>2. Finale(verdict, text) = all
    BY DEF Finale
  <2> HIDE DEF warning, left, closing
  <2>3. warning \o left \in Seq(Events)
    BY <2>1, ConcatProperties
  <2>4. (warning \o left) \o <<"content_block_stop">> \in Seq(Events)
    BY <1>0, <2>3, ConcatProperties
  <2>5. all \in Seq(Events)
    BY <2>1, <2>4, ConcatProperties
  <2> HIDE DEF all
  <2> QED BY <1>0, <2>2, <2>5, ConcatProperties
<1>2. AfterFailure \o <<"message_stop">> \in Seq(Events)
  BY <1>0, ConcatProperties
<1> QED BY <1>1, <1>2

\* A step of a request's handler, body or client leaves the others alone.
LEMMA ServerEffects ==
    ASSUME P!TypeInv, ServerType, NEW q \in Requests, Serve(q)
    PROVE  ServerType' /\ OnlyFor(q) /\ OnlyServes(q)
<1> USE DEF ServerType, OnlyServes, Goto, ServerRests
<1> DEFINE Effects == ServerType' /\ OnlyFor(q) /\ OnlyServes(q)
<1>p. {"admit", "rejected", "admitting", "asked", "ask", "start", "over", "message_start", "chunks",
       "failed", "encode", "encoding"} \subseteq Places
  BY DEF Places, HeldThroughout, Before, Body
<1>y. ASSUME NEW to \in Places, Goto(q, to), OnlyFor(q), NEW events \in Seq(Events), Yield(q, events)
      PROVE  Effects
  BY <1>y, YieldEffects
<1>1. CASE Arrive(q)
  BY <1>1, <1>p, UsesConcernOne DEF Arrive
<1>2. CASE Ask(q)
  <2>1. OnlyFor(q) /\ UNCHANGED <<polled, sent>>
    BY <1>2, AskingKinds, UsesConcernOne DEF Ask
  <2>2. \E to \in Places : Goto(q, to)
    BY <1>2, <1>p, AskingKinds
  <2> QED BY <2>1, <2>2
<1>3. CASE Admitted(q)
  BY <1>3, <1>p, UsesConcernOne DEF Admitted
<1>4. CASE Respond(q)
  BY <1>4, <1>p, UsesConcernOne DEF Respond
<1>5. CASE DropHandler(q)
  BY <1>5, <1>p, UsesConcernOne DEF DropHandler, ForgetReply
<1>6. CASE Preamble(q)
  <2>1. <<"message_start", "content_block_start">> \in Seq(Events)
    BY DEF Events
  <2> QED BY <1>6, <1>p, <1>y, <2>1, UsesConcernOne DEF Preamble
<1>7. CASE ReceiveText(q)
  <2>1. OnlyFor(q) /\ handler' = handler
    BY <1>7, UsesConcernOne DEF ReceiveText
  <2>2. CASE Yield(q, <<"delta">>)
    <3>1. <<"delta">> \in Seq(Events)
      BY DEF Events
    <3> QED BY <2>1, <2>2, <3>1, YieldEffects
  <2>3. CASE UNCHANGED <<polled, sent>>
    BY <2>1, <2>3
  <2> QED BY <1>7, <2>2, <2>3 DEF ReceiveText
<1>8. CASE ReceiveError(q) \/ DeadlineExpires(q)
  <2>1. <<"error">> \in Seq(Events)
    BY DEF Events
  <2> QED BY <1>8, <1>p, <1>y, <2>1, UsesConcernOne DEF ReceiveError, DeadlineExpires
<1>9. CASE StreamEnds(q)
  BY <1>9, <1>p, UsesConcernOne DEF StreamEnds
<1>10. CASE CloseFailed(q)
  BY <1>10, <1>p, <1>y, Endings, UsesConcernOne DEF CloseFailed, Close
<1>11. CASE CloseWhole(q)
  <2>1. PICK verdict \in {"none", "calls", "invalid"}, text \in BOOLEAN :
           Close(q, Finale(verdict, text))
    BY <1>11 DEF CloseWhole
  <2>2. Finale(verdict, text) \o <<"message_stop">> \in Seq(Events)
    BY Endings
  <2> QED BY <1>11, <1>p, <1>y, <2>1, <2>2, UsesConcernOne DEF CloseWhole, Close
<1>12. CASE Read(q)
  BY <1>12, UsesConcernOne DEF Read
<1>13. CASE Leave(q)
  BY <1>13, <1>p, UsesConcernOne DEF Leave, DropBody, ForgetReply
<1> QED
  BY <1>1, <1>2, <1>3, <1>4, <1>5, <1>6, <1>7, <1>8, <1>9, <1>10, <1>11, <1>12, <1>13
  DEF Serve, Handle, Chunk

----------------------------------------------------------------------------
(* The server uses the engine through its handle.                          *)

\* A handler, a body or its client does what the engine's handle allows.
LEMMA ServerUsesHandle ==
    ASSUME P!TypeInv, ServerType, NEW r \in Requests, RequestInv(r), Serve(r)
    PROVE  E!Client(r) \/ EngineRests
<1>1. CASE Arrive(r) \/ Preamble(r) \/ Read(r)
  BY <1>1 DEF Arrive, Preamble, Read
<1>2. CASE Ask(r)
  <2>1. handler[r] \in {"admit", "ask", "start", "encode"} => reply[r] = "none"
    BY DEF RequestInv, ReplyPlace, Awaiting
  <2>2. /\ handler[r] = "ask" => r \notin Streaming
        /\ handler[r] = "start" => r \in Streaming
    BY DEF RequestInv, KindPlace
  <2> QED BY <1>2, <2>1, <2>2, AskingKinds DEF E!Client, E!Answering
<1>3. CASE Admitted(r) \/ Respond(r) \/ CloseWhole(r) \/ DropHandler(r)
  BY <1>3 DEF Admitted, Respond, CloseWhole, DropHandler, ForgetReply, E!Client
<1>4. CASE ReceiveText(r) \/ ReceiveError(r) \/ DeadlineExpires(r)
  BY <1>4 DEF ReceiveText, ReceiveError, DeadlineExpires, E!Client
\* Where the stream is dropped, its receiver is there to be dropped.
<1>5. ASSUME ChunksDropped(r), handler[r] \in {"message_start", "chunks", "failed"}
      PROVE  E!Client(r)
  <2>1. stream[r].receiver
    BY <1>5 DEF RequestInv, BodyPlace, Follows, P!Owed
  <2>2. stream' = [stream EXCEPT ![r] = E!Dropped(E!Cancelled(stream[r]))]
    BY <1>5 DEF ChunksDropped, P!TypeInv
  <2> QED BY <1>5, <2>1, <2>2 DEF ChunksDropped, E!Client, E!Close, E!engine, engine
<1>6. CASE StreamEnds(r) \/ CloseFailed(r)
  BY <1>5, <1>6 DEF StreamEnds, CloseFailed
<1>7. CASE Leave(r)
  BY <1>5, <1>7 DEF Leave, DropBody, ForgetReply, E!Client
<1> QED BY <1>1, <1>2, <1>3, <1>4, <1>6, <1>7 DEF Serve, Handle, Chunk

----------------------------------------------------------------------------
(* Each step keeps what holds of a request.                                *)

\* What a stream owes changes with it, its outcome and the engine's step alone.
LEMMA SameStream ==
    ASSUME NEW r, stream'[r] = stream[r], history'[r] = history[r], UNCHANGED <<job, step>>
    PROVE  \A n : P!Owed(r, n)' <=> P!Owed(r, n)
BY DEF P!Owed, P!Reported

\* What was told remains true of a message and a generation that stay the same.
LEMMA ToldKept ==
    ASSUME NEW r, sent'[r] = sent[r],
           \A deltas \in Nat : AllSent(r, deltas) => AllSent(r, deltas)', Told(r)
    PROVE  Told(r)'
<1>1. CASE sent[r] = <<>>
  BY <1>1 DEF Told
<1>2. CASE sent[r] # <<>>
  <2>1. PICK last \in Events, deltas \in Nat, errors \in Nat, ending \in SUBSET Final :
           Tale(sent[r], last, deltas, errors, ending) /\ Right(r, deltas, errors, ending)
    BY <1>2 DEF Told
  <2>2. Right(r, deltas, errors, ending)'
    BY <2>1 DEF Right
  <2>3. Tale(sent'[r], last, deltas, errors, ending)
    BY <2>1
  <2> QED BY <2>2, <2>3 DEF Told
<1> QED BY <1>1, <1>2

\* A step that leaves a request, its channels and its generation alone keeps
\* what holds of it.
LEMMA RequestUntouched ==
    ASSUME NEW r, UNCHANGED <<job, step>>,
           reply'[r] = reply[r], stream'[r] = stream[r], history'[r] = history[r],
           handler'[r] = handler[r], sent'[r] = sent[r], RequestInv(r)
    PROVE  RequestInv(r)'
<1>1. \A n : P!Owed(r, n)' <=> P!Owed(r, n)
  BY SameStream
<1>2. \A deltas : AllSent(r, deltas)' <=> AllSent(r, deltas)
  BY DEF AllSent
<1>3. \A deltas : TextSoFar(r, deltas)' <=> TextSoFar(r, deltas)
  BY DEF TextSoFar
<1>4. Told(r) => Told(r)'
  BY <1>2, ToldKept
<1>5. Follows(r)' <=> Follows(r)
  BY <1>1, <1>3 DEF Follows
<1> QED
  BY <1>1, <1>2, <1>3, <1>4, <1>5 DEF RequestInv, ReplyPlace, KindPlace, BodyPlace

\* The engine keeps what holds of every request.
LEMMA EngineKeeps ==
    ASSUME P!EngineInv, P!Engine, ServerType, UNCHANGED server, NEW r \in Requests, RequestInv(r)
    PROVE  RequestInv(r)'
<1>0. P!TypeInv /\ P!PendingInv /\ P!GenerationInv
  BY DEF P!EngineInv
<1>1. /\ \/ reply'[r] = reply[r]
         \/ reply[r] = "waiting" /\ reply'[r] \in {"value", "error", "dropped"}
      /\ stream'[r].receiver = stream[r].receiver
      /\ stream'[r].cancelled = stream[r].cancelled
      /\ IF history[r].outcome = "asked"
         THEN history'[r].outcome # "new"
         ELSE history'[r] = history[r] /\ stream'[r] = stream[r]
  BY <1>0, Assumed, P!EngineFrame
<1>2. handler'[r] = handler[r] /\ sent'[r] = sent[r]
  BY DEF server
<1>3. ReplyPlace(r)'
  BY <1>1, <1>2 DEF RequestInv, ReplyPlace, Awaiting
<1>4. KindPlace(r)'
  BY <1>1, <1>2 DEF RequestInv, KindPlace
<1>5. \A deltas : AllSent(r, deltas) => AllSent(r, deltas)'
  BY <1>1 DEF AllSent
<1>6. \A deltas : TextSoFar(r, deltas)' <=> TextSoFar(r, deltas)
  BY <1>2 DEF TextSoFar
<1>7. Told(r) => Told(r)'
  BY <1>2, <1>5, ToldKept
<1>8. ASSUME NEW n \in Nat, r \in Streaming, P!Owed(r, n) PROVE P!Owed(r, n)'
  BY <1>0, <1>8, Assumed, P!OwedKept
<1>9. handler[r] \in Body => r \in Streaming
  BY DEF RequestInv, KindPlace
<1>10. handler[r] = "chunks" => Follows(r)'
  BY <1>6, <1>8, <1>9 DEF RequestInv, BodyPlace, Follows, Body
<1>11. handler[r] = "message_start" => P!Owed(r, 0)'
  BY <1>8, <1>9 DEF RequestInv, BodyPlace, Body
<1>12. BodyPlace(r)'
  BY <1>1, <1>2, <1>5, <1>6, <1>7, <1>10, <1>11 DEF RequestInv, BodyPlace
<1> QED BY <1>3, <1>4, <1>12 DEF RequestInv

\* A request that has ended keeps its invariant if it awaits nothing and was
\* told the beginning of a message.
LEMMA OverIsRight ==
    ASSUME NEW r \in Requests, handler'[r] = "over", reply'[r] \in {"none", "abandoned"}, Told(r)'
    PROVE  RequestInv(r)'
BY DEF RequestInv, ReplyPlace, KindPlace, BodyPlace, Unasked, Awaiting, Before, Body

\* A step of its own handler, body or client keeps what holds of a request.
LEMMA OwnKept ==
    ASSUME P!EngineInv, ServerType, NEW r \in Requests, RequestInv(r), Serve(r)
    PROVE  RequestInv(r)'
<1>0. /\ P!TypeInv /\ P!PendingInv /\ P!GenerationInv
      /\ handler \in [Requests -> Places] /\ handler[r] \in Places
      /\ sent \in [Requests -> Seq(Events)] /\ sent[r] \in Seq(Events)
      /\ reply \in [Requests -> P!Replies]
      /\ stream \in [Requests -> P!Streams] /\ history \in [Requests -> P!Histories]
  BY DEF P!EngineInv, P!TypeInv, ServerType
<1>p. /\ Before = {"admit", "admitting", "ask", "asked", "start"}
      /\ Body = {"message_start", "chunks", "failed", "encode", "encoding"}
  BY DEF Before, Body
<1> DEFINE SameChannels == stream'[r] = stream[r] /\ history'[r] = history[r] /\ UNCHANGED <<job, step>>
<1>q. EngineRests => SameChannels /\ reply'[r] = reply[r]
  BY DEF EngineRests, engine
<1>t. E!TakeReply(r) \/ E!AbandonReply(r) =>
         SameChannels /\ reply'[r] = IF E!TakeReply(r) THEN "none" ELSE "abandoned"
  BY <1>0 DEF E!TakeReply, E!AbandonReply, E!engine
<1>a. ASSUME SameChannels
      PROVE  \A deltas : AllSent(r, deltas)' <=> AllSent(r, deltas)
  BY <1>a DEF AllSent
<1>b. ASSUME sent'[r] = sent[r]
      PROVE  \A deltas : TextSoFar(r, deltas)' <=> TextSoFar(r, deltas)
  BY <1>b DEF TextSoFar
<1>g. ASSUME NEW to, Goto(r, to) PROVE handler'[r] = to
  BY <1>0, <1>g DEF Goto
<1>z. Told(r)
  BY <1>0, AlwaysTold
<1>o. ASSUME history'[r] = history[r], sent'[r] = sent[r] PROVE Told(r)'
  BY <1>z, <1>o, ToldKept DEF AllSent
<1> HIDE DEF SameChannels
<1>1. CASE Arrive(r)
  <2>1. /\ SameChannels /\ reply'[r] = reply[r] /\ sent' = sent
        /\ handler'[r] \in {"rejected", "admit"}
    BY <1>q, <1>g, <1>1 DEF Arrive, ServerRests
  <2> QED BY <1>1, <1>p, <2>1
          DEF Arrive, SameChannels, RequestInv, ReplyPlace, KindPlace, BodyPlace, Unasked, Awaiting
<1>2. CASE Read(r)
  BY <1>2, <1>q, RequestUntouched DEF Read, SameChannels
<1>3. CASE Admitted(r)
  <2>1. /\ SameChannels /\ reply'[r] = "none" /\ sent'[r] = sent[r]
        /\ handler'[r] \in {IF r \in Streaming THEN "start" ELSE "ask", "over"}
    BY <1>t, <1>g, <1>3 DEF Admitted, ServerRests
  <2>2. CASE handler'[r] = "over"
    BY <1>o, <2>1, <2>2, OverIsRight DEF SameChannels
  <2>3. CASE handler'[r] # "over"
    BY <1>3, <1>p, <2>1, <2>3
    DEF Admitted, SameChannels, RequestInv, ReplyPlace, KindPlace, BodyPlace, Unasked, Awaiting
  <2> QED BY <2>2, <2>3
<1>4. CASE Respond(r)
  BY <1>4, <1>t, <1>g, <1>o, OverIsRight DEF Respond, ServerRests, SameChannels
<1>5. CASE DropHandler(r) \/ Leave(r)
  <2>1. handler'[r] = "over" /\ sent'[r] = sent[r]
    BY <1>5, <1>g DEF DropHandler, Leave, ServerRests
  <2>2. history'[r] = history[r] /\ reply'[r] \in {"none", "abandoned"}
    <3>1. CASE ForgetReply(r)
      BY <1>q, <1>t, <3>1 DEF ForgetReply, SameChannels
    <3>2. CASE ChunksDropped(r) /\ handler[r] \in {"message_start", "chunks", "failed"}
      BY <3>2 DEF ChunksDropped, RequestInv, ReplyPlace, Awaiting
    <3>3. CASE EngineRests /\ handler[r] = "encode"
      BY <3>3 DEF EngineRests, RequestInv, ReplyPlace, Awaiting
    <3> QED BY <1>5, <3>1, <3>2, <3>3 DEF DropHandler, Leave, DropBody
  <2> QED BY <1>o, <2>1, <2>2, OverIsRight
<1>6. CASE Ask(r)
  <2>1. UNCHANGED <<sent, job, step>>
    BY <1>6, AskingKinds DEF Ask, ServerRests, E!Submit
  <2>2. ASSUME E!Submit("encode", r)
        PROVE  SameChannels /\ reply'[r] = "waiting"
    BY <1>0, <2>1, <2>2 DEF E!Submit, SameChannels
  <2>3. CASE handler[r] = "admit" /\ E!Submit("encode", r) /\ Goto(r, "admitting")
    <3>1. handler'[r] = "admitting"
      BY <1>g, <2>3
    <3> QED BY <1>p, <2>1, <2>2, <2>3, <3>1
            DEF SameChannels, RequestInv, ReplyPlace, KindPlace, BodyPlace, Unasked, Awaiting
  <2>4. CASE handler[r] = "encode" /\ E!Submit("encode", r) /\ Goto(r, "encoding")
    <3>1. handler'[r] = "encoding"
      BY <1>g, <2>4
    <3>2. \E deltas \in Nat : TextSoFar(r, deltas)' /\ AllSent(r, deltas)'
      BY <1>a, <1>b, <2>1, <2>2, <2>4 DEF RequestInv, BodyPlace
    <3> QED BY <1>p, <2>1, <2>2, <2>4, <3>1, <3>2
            DEF SameChannels, RequestInv, ReplyPlace, KindPlace, BodyPlace, Unasked, Awaiting
  <2>5. CASE handler[r] = "ask" /\ E!Submit("generate", r) /\ Goto(r, "asked")
    <3>1. handler'[r] = "asked" /\ reply'[r] = "waiting" /\ sent'[r] = sent[r]
      BY <1>0, <1>g, <2>1, <2>5 DEF E!Submit
    <3> QED BY <1>p, <2>5, <3>1
            DEF RequestInv, ReplyPlace, KindPlace, BodyPlace, Unasked, Awaiting
  <2>6. CASE handler[r] = "start" /\ E!Submit("stream", r) /\ Goto(r, "message_start")
    <3>1. handler'[r] = "message_start" /\ reply'[r] = reply[r] /\ sent'[r] = sent[r]
      BY <1>g, <2>1, <2>6 DEF E!Submit
    <3>2. P!Owed(r, 0)'
      BY <1>0, <2>6, Assumed, SameHandle, P!OwedAtFirst
    <3> QED BY <1>p, <2>6, <3>1, <3>2
            DEF RequestInv, ReplyPlace, KindPlace, BodyPlace, Unasked, Awaiting
  <2> QED BY <1>6, <2>3, <2>4, <2>5, <2>6, AskingKinds
\* In the body, no reply is there unless it is awaited.
<1>s. ASSUME handler[r] \in Body PROVE r \in Streaming
  BY <1>s DEF RequestInv, KindPlace
<1>n. ASSUME handler[r] \in {"message_start", "chunks", "failed", "encode"}
      PROVE  reply[r] = "none"
  BY <1>n DEF RequestInv, ReplyPlace, Awaiting
<1>k. ASSUME handler'[r] \in {"chunks", "failed", "encode"}, reply'[r] = "none",
             handler[r] \in Body, BodyPlace(r)'
      PROVE  RequestInv(r)'
  BY <1>k, <1>p, <1>s DEF RequestInv, ReplyPlace, KindPlace, Unasked, Awaiting
<1>7. CASE Preamble(r)
  <2>1. <<"message_start", "content_block_start">> \in Seq(Events)
    BY DEF Events
  <2>2. /\ handler[r] = "message_start" /\ handler'[r] = "chunks"
        /\ SameChannels /\ reply'[r] = reply[r]
        /\ sent'[r] = sent[r] \o <<"message_start", "content_block_start">>
    BY <1>7, <1>g, <1>q, <2>1, YieldEffects DEF Preamble
  <2>3. sent[r] = <<>> /\ P!Owed(r, 0)
    BY <2>2 DEF RequestInv, KindPlace, BodyPlace
  <2>4. P!Owed(r, 0)'
    BY <2>2, <2>3, SameStream DEF SameChannels
  <2>5. TextSoFar(r, 0)'
    BY <2>2, <2>3, PreambleBegins DEF TextSoFar
  <2>6. Follows(r)'
    BY <2>4, <2>5 DEF Follows
  <2> QED BY <1>k, <1>n, <1>p, <2>2, <2>6 DEF BodyPlace
<1>8. CASE ReceiveText(r)
  <2>1. PICK deltas \in Nat, n \in Nat :
           TextSoFar(r, deltas) /\ P!Owed(r, n) /\ (r \notin Tools => n = deltas)
    BY <1>8 DEF ReceiveText, RequestInv, BodyPlace, Follows
  <2>2. P!Owed(r, n + 1)' /\ n + 1 \in Nat
    BY <1>0, <1>8, <2>1, Assumed, SameHandle, P!OwedTaken DEF ReceiveText
  <2>3. handler[r] = "chunks" /\ handler'[r] = "chunks" /\ reply'[r] = reply[r]
    BY <1>8 DEF ReceiveText, E!Receive
  <2>4. CASE r \in Tools
    <3>1. TextSoFar(r, deltas)'
      BY <1>8, <1>b, <2>1, <2>4 DEF ReceiveText
    <3>2. Follows(r)'
      BY <2>2, <2>4, <3>1 DEF Follows
    <3> QED BY <1>k, <1>n, <1>p, <2>3, <3>2 DEF BodyPlace
  <2>5. CASE r \notin Tools
    <3>1. PICK last \in {"content_block_start", "delta"} : Tale(sent[r], last, deltas, 0, {})
      BY <2>1 DEF TextSoFar
    <3>2. "delta" \in MayFollow[last] /\ "delta" \in Events /\ "delta" \notin Final
      BY Following DEF Events, Final
    <3>3. Tale(Append(sent[r], "delta"), "delta", deltas + 1, 0, {})
      BY <3>1, <3>2, TaleGoesOn
    <3>4. sent'[r] = Append(sent[r], "delta")
      <4>1. <<"delta">> \in Seq(Events)
        BY DEF Events
      <4>2. sent'[r] = sent[r] \o <<"delta">>
        BY <1>8, <2>5, <4>1, YieldEffects DEF ReceiveText
      <4> QED BY <1>0, <3>2, <4>2, Joining
    <3>5. TextSoFar(r, deltas + 1)'
      BY <3>3, <3>4 DEF TextSoFar
    <3>6. deltas + 1 \in Nat /\ n + 1 = deltas + 1
      BY <2>1, <2>5
    <3>7. Follows(r)'
      BY <2>2, <3>5, <3>6 DEF Follows
    <3> QED BY <1>k, <1>n, <1>p, <2>3, <3>7 DEF BodyPlace
  <2> QED BY <2>4, <2>5
<1>9. CASE ReceiveError(r) \/ DeadlineExpires(r)
  <2>0. <<"error">> \in Seq(Events) /\ "error" \in Events /\ "error" \notin Final
    BY DEF Events, Final
  <2>1. PICK deltas \in Nat, n \in Nat : TextSoFar(r, deltas) /\ P!Owed(r, n)
    BY <1>9 DEF ReceiveError, DeadlineExpires, RequestInv, BodyPlace, Follows
  <2>2. PICK last \in {"content_block_start", "delta"} : Tale(sent[r], last, deltas, 0, {})
    BY <2>1 DEF TextSoFar
  <2>3. Tale(Append(sent[r], "error"), "error", deltas, 0 + 1, {})
    <3>1. "error" \in MayFollow[last]
      BY Following
    <3> QED BY <2>0, <2>2, <3>1, TaleGoesOn
  <2>4. /\ handler[r] = "chunks" /\ handler'[r] = "failed" /\ reply'[r] = reply[r]
        /\ sent'[r] = sent[r] \o <<"error">>
    BY <1>9, <1>g, <2>0, YieldEffects
    DEF ReceiveError, DeadlineExpires, E!Receive, E!Cancel
  <2>5. sent'[r] = Append(sent[r], "error")
    BY <1>0, <2>0, <2>4, Joining
  <2>6. stream'[r].receiver
    <3>1. stream[r].receiver
      BY <2>1 DEF P!Owed
    <3>2. \/ stream' = [stream EXCEPT ![r].buffer = Tail(@)]
          \/ stream' = [stream EXCEPT ![r] = [@ EXCEPT !.cancelled = TRUE]]
      BY <1>9 DEF ReceiveError, DeadlineExpires, E!Receive, E!Cancel, E!Cancelled
    <3> QED BY <1>0, <3>1, <3>2 DEF P!Streams
  <2>7. Tale(sent'[r], "error", deltas, 1, {})
    BY <2>3, <2>5
  <2> QED BY <1>k, <1>n, <1>p, <2>4, <2>6, <2>7 DEF BodyPlace
<1>10. CASE StreamEnds(r)
  <2>1. PICK deltas \in Nat, n \in Nat :
           TextSoFar(r, deltas) /\ P!Owed(r, n) /\ (r \notin Tools => n = deltas)
    BY <1>10 DEF StreamEnds, RequestInv, BodyPlace, Follows
  <2>2. r \in Streaming
    BY <1>10, <1>p, <1>s DEF StreamEnds
  <2>3. history[r].outcome \in {"complete", "panicked"} /\ history[r].sent = n
    BY <1>0, <1>10, <2>1, <2>2, Assumed, P!OwedAtLast DEF StreamEnds, Ended
  <2>4. AllSent(r, deltas)
    BY <2>1, <2>3 DEF AllSent
  <2>5. /\ handler[r] = "chunks" /\ handler'[r] = "encode" /\ reply'[r] = reply[r]
        /\ sent'[r] = sent[r] /\ history' = history
    BY <1>10, <1>g DEF StreamEnds, ServerRests, ChunksDropped
  <2>6. TextSoFar(r, deltas)' /\ AllSent(r, deltas)'
    BY <1>b, <2>1, <2>4, <2>5 DEF AllSent
  <2> QED BY <1>k, <1>n, <1>p, <2>5, <2>6 DEF BodyPlace
<1>11. CASE CloseFailed(r)
  <2>1. PICK deltas \in Nat : Tale(sent[r], "error", deltas, 1, {})
    BY <1>11 DEF CloseFailed, RequestInv, BodyPlace
  <2>2. /\ handler'[r] = "over" /\ reply'[r] = "none"
        /\ sent'[r] = sent[r] \o (AfterFailure \o <<"message_stop">>)
    BY <1>11, <1>g, <1>n, Endings, YieldEffects DEF CloseFailed, Close, ChunksDropped
  <2>3. Tale(sent'[r], "message_stop", deltas, 1, {"message_stop"})
    BY <2>1, <2>2, FailureEnds
  <2>4. Right(r, deltas, 1, {"message_stop"})'
    BY DEF Right, StopReasons
  <2>5. /\ "message_stop" \in Events /\ {"message_stop"} \in SUBSET Final /\ 1 \in Nat
    BY DEF Events, Final
  <2>6. Told(r)'
    BY <2>3, <2>4, <2>5 DEF Told
  <2> QED BY <2>2, <2>6, OverIsRight
<1>12. CASE CloseWhole(r)
  <2>1. PICK deltas \in Nat : TextSoFar(r, deltas) /\ AllSent(r, deltas)
    BY <1>12 DEF CloseWhole, RequestInv, BodyPlace
  <2>2. PICK last \in {"content_block_start", "delta"} : Tale(sent[r], last, deltas, 0, {})
    BY <2>1 DEF TextSoFar
  <2>3. PICK verdict \in {"none", "calls", "invalid"}, text \in BOOLEAN :
           /\ Close(r, Finale(verdict, text))
           /\ r \notin Tools => verdict = "none" /\ text = FALSE
    BY <1>12 DEF CloseWhole
  <2>4. /\ handler'[r] = "over" /\ reply'[r] = "none" /\ SameChannels
        /\ sent'[r] = sent[r] \o (Finale(verdict, text) \o <<"message_stop">>)
    BY <1>12, <1>g, <1>t, <2>3, Endings, YieldEffects DEF CloseWhole, Close
  <2> DEFINE reason == IF verdict = "calls" THEN "tool_use" ELSE "end_turn"
             more == IF text THEN deltas + 1 ELSE deltas
             errors == IF verdict = "invalid" THEN 1 ELSE 0
             ending == {reason, "message_stop"}
  <2>5. Tale(sent'[r], "message_stop", more, errors, ending)
    <3>1. Tale(sent[r] \o (Finale(verdict, text) \o <<"message_stop">>), "message_stop",
               more, errors, ending)
      BY <2>2, FinaleEnds
    <3> QED BY <2>4, <3>1
  <2>6. AllSent(r, more)'
    <3>1. AllSent(r, deltas)'
      BY <1>a, <2>1, <2>4
    <3>2. r \notin Tools => more = deltas
      BY <2>3
    <3> QED BY <3>1, <3>2 DEF AllSent
  <2>7. /\ more \in Nat /\ errors \in 0 .. 1 /\ errors \in Nat
        /\ errors = 0 \/ (r \in Tools /\ verdict = "invalid")
    BY <2>3
  <2>8. /\ ending \in SUBSET Final /\ "message_stop" \in Events
        /\ reason \in ending \cap StopReasons
        /\ "tool_use" \in ending => verdict = "calls"
    BY DEF Final, Events, StopReasons
  <2> HIDE DEF ending, more
  <2>9. Right(r, more, errors, ending)'
    BY <2>6, <2>7, <2>8 DEF Right
  <2> HIDE DEF errors
  <2>10. Told(r)'
    BY <2>5, <2>7, <2>8, <2>9 DEF Told
  <2> QED BY <2>4, <2>10, OverIsRight
<1> QED
  BY <1>1, <1>2, <1>3, <1>4, <1>5, <1>6, <1>7, <1>8, <1>9, <1>10, <1>11, <1>12
  DEF Serve, Handle, Chunk

----------------------------------------------------------------------------
(* The invariant is inductive.                                             *)

ServerInv ==
    /\ P!EngineInv
    /\ ServerType
    /\ \A r \in Requests : RequestInv(r)

\* Nothing has been asked, awaited or sent at the start.
LEMMA InitialServerInv == Init => ServerInv
<1> SUFFICES ASSUME Init PROVE ServerInv
  OBVIOUS
<1>1. P!EngineInv
  BY SameNext, Assumed, P!InitialInv DEF Init
<1>2. ServerType
  <2>1. <<>> \in Seq(Events) /\ "new" \in Places /\ "rejected" \in Places
    BY EmptySeq DEF Places
  <2> QED BY <2>1 DEF Init, ServerType
<1>3. ASSUME NEW r \in Requests PROVE RequestInv(r)
  <2>1. /\ handler[r] \in {"new", "rejected"} /\ reply[r] = "none" /\ stream[r] = E!Unused
        /\ history[r].outcome = "new" /\ sent[r] = <<>>
    BY DEF Init, E!Init
  <2> QED
    BY <2>1 DEF RequestInv, ReplyPlace, KindPlace, BodyPlace, Unasked, Awaiting, Before, Body
<1> QED BY <1>1, <1>2, <1>3 DEF ServerInv

\* A step of the server is one the engine takes, or that a handle allows.
LEMMA EveryStepUsesHandle ==
    ASSUME ServerInv, [Next]_vars
    PROVE  [E!Next]_E!vars
<1>1. CASE E!Engine
  BY <1>1 DEF E!Next
<1>2. ASSUME NEW r \in Requests, Serve(r) PROVE [E!Next]_E!vars
  BY <1>2, ServerUsesHandle, SameNext DEF ServerInv, E!Next, P!EngineInv
<1>3. CASE UNCHANGED vars
  BY <1>3 DEF vars, engine, E!vars, E!engine
<1> QED BY <1>1, <1>2, <1>3 DEF Next, Serve

\* The engine keeps its invariant in every step it may take.
LEMMA EngineInvKept ==
    ASSUME P!EngineInv, [E!Next]_E!vars
    PROVE  P!EngineInv'
<1>1. [P!Next]_P!vars
  BY SameNext
<1> QED
  BY <1>1, Assumed, P!TypesPreserved, P!PendingPreserved, P!RepliesPreserved,
     P!GenerationsPreserved, P!SamplerPreserved, P!LatePreserved
  DEF P!EngineInv

\* Every step keeps the invariant.
LEMMA ServerInvKept ==
    ASSUME ServerInv, [Next]_vars
    PROVE  ServerInv'
<1>1. P!EngineInv'
  BY EveryStepUsesHandle, EngineInvKept DEF ServerInv
<1>2. CASE E!Engine /\ UNCHANGED server
  BY <1>1, <1>2, SameEngine, EngineKeeps DEF ServerInv, ServerType, server
<1>3. ASSUME NEW q \in Requests, Serve(q)
      PROVE  ServerInv'
  <2>1. ServerType' /\ OnlyFor(q) /\ OnlyServes(q)
    BY <1>3, ServerEffects DEF ServerInv, P!EngineInv
  <2>2. ASSUME NEW r \in Requests PROVE RequestInv(r)'
    <3>1. CASE r = q
      BY <1>3, <3>1, OwnKept DEF ServerInv
    <3>2. CASE r # q
      BY <2>1, <3>2, RequestUntouched DEF ServerInv, OnlyFor, OnlyServes
    <3> QED BY <3>1, <3>2
  <2> QED BY <1>1, <2>1, <2>2 DEF ServerInv
<1>4. CASE UNCHANGED vars
  <2>1. UNCHANGED <<handler, polled, sent, reply, stream, history, job, step>>
    BY <1>4 DEF vars, engine, server
  <2>2. ServerType'
    BY <2>1 DEF ServerInv, ServerType
  <2>3. ASSUME NEW r \in Requests PROVE RequestInv(r)'
    BY <2>1, RequestUntouched DEF ServerInv
  <2> QED BY <1>1, <2>2, <2>3 DEF ServerInv
<1> QED BY <1>2, <1>3, <1>4 DEF Next, Serve

----------------------------------------------------------------------------
(* Permits.                                                                *)

\* No more than the permits there are.
Limited(S) == IsFiniteSet(S) /\ Cardinality(S) <= Slots

\* Nor is any part of it.
LEMMA LimitedSubset ==
    ASSUME NEW S, Limited(S), NEW T, T \subseteq S
    PROVE  Limited(T)
<1>1. /\ IsFiniteSet(T) /\ Cardinality(T) <= Cardinality(S)
      /\ Cardinality(T) \in Nat /\ Cardinality(S) \in Nat
  BY FS_Subset, FS_CardinalityType DEF Limited
<1> QED BY <1>1, AnthropicAssumption DEF Limited

\* Only an arrival takes a permit, and only when one is left.
LEMMA PermitsKept ==
    ASSUME ServerInv, Limited(Holding), [Next]_vars
    PROVE  Limited(Holding')
<1>1. ASSUME Holding' \subseteq Holding PROVE Limited(Holding')
  BY <1>1, LimitedSubset
<1>2. ASSUME NEW q \in Requests, Serve(q)
      PROVE  Limited(Holding')
  <2>0. /\ \A r \in Requests \ {q} : handler'[r] = handler[r]
        /\ handler \in [Requests -> Places]
    BY <1>2, ServerEffects DEF ServerInv, ServerType, P!EngineInv, OnlyServes
  <2>1. CASE Arrive(q) /\ Cardinality(Holding) < Slots
    <3>1. /\ Cardinality(Holding) \in Nat
          /\ IsFiniteSet(Holding \cup {q})
          /\ Cardinality(Holding \cup {q}) <= Cardinality(Holding) + 1
      BY FS_CardinalityType, FS_AddElement DEF Limited
    <3>2. Limited(Holding \cup {q})
      <4>1. Cardinality(Holding \cup {q}) \in Nat
        BY <3>1, FS_CardinalityType
      <4> QED BY <2>1, <3>1, <4>1, AnthropicAssumption DEF Limited
    <3>3. Holding' \subseteq Holding \cup {q}
      BY <2>0 DEF Holding
    <3> QED BY <3>2, <3>3, LimitedSubset
  <2>2. CASE Arrive(q) /\ ~(Cardinality(Holding) < Slots)
    <3>1. handler'[q] = "rejected" /\ "rejected" \notin HeldThroughout
      BY <2>0, <2>2 DEF Arrive, Goto, HeldThroughout, Before, Body
    <3> QED BY <1>1, <2>0, <3>1 DEF Holding
  <2>3. CASE ~Arrive(q)
    <3>1. handler[q] \in HeldThroughout
      BY <1>2, <2>3
      DEF Serve, Handle, Chunk, DropHandler, Ask, Asking, Admitted, Respond, Preamble, CloseFailed,
          CloseWhole, ReceiveText, ReceiveError, DeadlineExpires, StreamEnds, Read, Leave,
          HeldThroughout, Before, Body
    <3> QED BY <1>1, <2>0, <3>1 DEF Holding
  <2> QED BY <2>1, <2>2, <2>3
<1>3. CASE UNCHANGED handler
  BY <1>1, <1>3 DEF Holding
<1> QED BY <1>2, <1>3 DEF Next, Serve, vars, server

----------------------------------------------------------------------------
(* The theorems.                                                           *)

\* What holds of a request at each place of its handler and its body keeps
\* together with the engine's invariant in every step of handlers, bodies,
\* clients and engine (routes/anthropic.rs, engine_actor.rs).
THEOREM MessagesInductive == Spec => []ServerInv
<1>1. Init => ServerInv
  BY InitialServerInv
<1>2. ServerInv /\ [Next]_vars => ServerInv'
  BY ServerInvKept
<1> QED BY <1>1, <1>2, PTL DEF Spec

\* The endpoint drives the engine only by what its handle allows, so all that is
\* proved of the engine holds behind it.
THEOREM MessagesUseTheEngine == Spec => E!Spec
<1>1. Init => E!Init
  BY DEF Init
<1>2. ServerInv /\ [Next]_vars => [E!Next]_E!vars
  BY EveryStepUsesHandle
<1> QED BY <1>1, <1>2, MessagesInductive, PTL DEF Spec, E!Spec

\* post_generation_stream: never more bodies and handlers hold a permit than
\* there are slots, and a permit comes back with the body that held it.
THEOREM MessagesWithinSlots == Spec => [](Cardinality(Holding) <= Slots)
<1>1. Init => Limited(Holding)
  <2>1. SUFFICES ASSUME Init PROVE Limited(Holding)
    OBVIOUS
  <2>2. \A r \in Requests : handler[r] \in {"new", "rejected"}
    BY <2>1 DEF Init
  <2>3. Holding = {}
    BY <2>2 DEF Holding, HeldThroughout, Before, Body
  <2> QED BY <2>3, FS_EmptySet, AnthropicAssumption DEF Limited
<1>2. ServerInv /\ Limited(Holding) /\ [Next]_vars => Limited(Holding)'
  BY PermitsKept
<1>3. Limited(Holding) => Cardinality(Holding) <= Slots
  BY DEF Limited
<1> QED BY <1>1, <1>2, <1>3, MessagesInductive, PTL DEF Spec

\* A reading of what was sent: its occurrences are those the properties count.
LEMMA Counted ==
    ASSUME NEW r, NEW last, NEW deltas, NEW errors, NEW ending,
           Tale(sent[r], last, deltas, errors, ending)
    PROVE  /\ Count(r, "delta") = deltas
           /\ Count(r, "error") = errors
           /\ Count(r, "tool_use") > 0 <=> "tool_use" \in ending
           /\ Count(r, "message_stop") > 0 <=> "message_stop" \in ending
           /\ Finished(r) <=> ending \cap StopReasons # {}
<1>1. \A e : Count(r, e) = Occurrences(sent[r], e)
  BY DEF Count, Occurrences
<1>2. \A e \in Final : Count(r, e) > 0 <=> e \in ending
  BY <1>1 DEF Tale
<1>3. /\ StopReasons = {"end_turn", "tool_use"}
      /\ Final = {"end_turn", "tool_use", "message_stop"}
  BY DEF StopReasons, Final
<1>4. Finished(r) <=> ending \cap StopReasons # {}
  BY <1>2, <1>3 DEF Finished
<1> QED BY <1>1, <1>2, <1>3, <1>4 DEF Tale

\* Nothing occurs in an empty message.
LEMMA NothingCounted ==
    ASSUME NEW r, sent[r] = <<>>
    PROVE  ~Finished(r) /\ \A e : Count(r, e) = 0
<1>1. ASSUME NEW e PROVE Count(r, e) = 0
  <2>1. {i \in DOMAIN sent[r] : sent[r][i] = e} = {}
    BY EmptySeq
  <2> QED BY <2>1, FS_EmptySet DEF Count
<1> QED BY <1>1 DEF Finished

\* Whatever the timers, the engine and the codec do, a client reads the events
\* of one message, broken off anywhere: each may follow the one before, one
\* error at most, and a stop reason unless there was an error.
THEOREM MessagesAreWellFormed == Spec => []EventsWellFormed
<1>1. ASSUME ServerInv, NEW r \in Requests
      PROVE  LET s == sent[r] IN
             /\ s # <<>> => Head(s) = "message_start"
             /\ \A i \in 1..(Len(s) - 1) : s[i + 1] \in MayFollow[s[i]]
             /\ Count(r, "error") <= 1
             /\ Count(r, "message_stop") > 0 => Finished(r) \/ Count(r, "error") = 1
             /\ Finished(r) => Count(r, "error") = 0 \/ r \in Tools
  <2>1. Told(r)
    BY <1>1, AlwaysTold DEF ServerInv, ServerType
  <2>2. CASE sent[r] = <<>>
    <3>1. \A i \in 1 .. (Len(sent[r]) - 1) : FALSE
      BY <2>2, EmptySeq
    <3> QED BY <2>2, <3>1, NothingCounted
  <2>3. CASE sent[r] # <<>>
    <3>1. PICK last \in Events, deltas \in Nat, errors \in Nat, ending \in SUBSET Final :
             Tale(sent[r], last, deltas, errors, ending) /\ Right(r, deltas, errors, ending)
      BY <2>1, <2>3 DEF Told
    <3>2. Head(sent[r]) = "message_start"
      BY <3>1 DEF Tale
    <3>3. \A i \in 1 .. (Len(sent[r]) - 1) : sent[r][i + 1] \in MayFollow[sent[r][i]]
      BY <3>1 DEF Tale
    <3>4. /\ Count(r, "error") = errors
          /\ Count(r, "message_stop") > 0 <=> "message_stop" \in ending
          /\ Finished(r) <=> ending \cap StopReasons # {}
      BY <3>1, Counted
    <3>5. /\ Count(r, "error") <= 1
          /\ Count(r, "message_stop") > 0 => Finished(r) \/ Count(r, "error") = 1
          /\ Finished(r) => Count(r, "error") = 0 \/ r \in Tools
      BY <3>1, <3>4 DEF Right
    <3> QED BY <3>2, <3>3, <3>5
  <2> QED BY <2>2, <2>3
<1>2. ServerInv => EventsWellFormed
  BY <1>1 DEF EventsWellFormed
<1> QED BY <1>2, MessagesInductive, PTL

\* A stop reason is sent only after all the text of a generation that came to
\* its end, unless it panicked; "tool_use" only if nothing went wrong.
THEOREM StopReasonIsWhole == Spec => []StopReasonMeansWhole
<1>1. ASSUME ServerInv, NEW r \in Requests
      PROVE  /\ Finished(r) =>
                   \/ history[r].outcome = "panicked"
                   \/ /\ history[r].outcome = "complete"
                      /\ r \notin Tools => Count(r, "delta") = history[r].sent
             /\ Count(r, "tool_use") > 0 => Count(r, "error") = 0
  <2>1. Told(r)
    BY <1>1, AlwaysTold DEF ServerInv, ServerType
  <2>2. CASE sent[r] = <<>>
    BY <2>2, NothingCounted
  <2>3. CASE sent[r] # <<>>
    <3>1. PICK last \in Events, deltas \in Nat, errors \in Nat, ending \in SUBSET Final :
             Tale(sent[r], last, deltas, errors, ending) /\ Right(r, deltas, errors, ending)
      BY <2>1, <2>3 DEF Told
    <3> QED BY <3>1, Counted DEF Right, AllSent
  <2> QED BY <2>2, <2>3
<1>2. ServerInv => StopReasonMeansWhole
  BY <1>1 DEF StopReasonMeansWhole
<1> QED BY <1>2, MessagesInductive, PTL

=============================================================================
