------------------------- MODULE AgentServerProofs -------------------------
(* Theorems about AgentServer, for any runs, tools, limits and outputs.    *)
EXTENDS AgentServer, SequenceTheorems, FiniteSetTheorems, TLAPS

----------------------------------------------------------------------------
(* The inductive invariant.                                                *)

\* The loop has counted the step that it executes; the endpoint counts it
\* before it reports.
Ahead(r) == IF task[r].at \in {"act", "call", "judge"} THEN 1 ELSE 0

\* The counts of steps, and the limit.
StepsInv ==
    \A r \in Runs :
        /\ task[r].at \notin {"fail", "finish", "over"} =>
              agent[r].steps = task[r].turns + Ahead(r)
        /\ task[r].turns <= Limit(r)
        /\ task[r].at \in {"generate", "act", "call", "judge"} => task[r].turns < Limit(r)

\* A caller waits for a permit at most once, and only while its call waits.
QueueInv ==
    /\ \A i \in 1..Len(waiting) : call[waiting[i]] = "waiting"
    /\ \A i, j \in 1..Len(waiting) : waiting[i] = waiting[j] => i = j

\* The permits, counted over a finite set of handlers.
SlotInv == IsFiniteSet(Running) /\ SlotsExact

\* The way of a run from a call that timed out to its end.
Stopping(r) ==
    \/ task[r].at = "act" /\ agent[r].todo = <<>> /\ agent[r].timedOut
    \/ task[r].at \in {"judge", "report"} /\ agent[r].phase = "Failed"
    \/ task[r].at \in {"finish", "over"} /\ task[r].reason = "error"

\* Only a call that timed out leaves a handler that nobody waits for, and the run
\* has then begun to stop.
TimeoutInv ==
    \A r \in Runs :
        /\ task[r].at \in {"act", "call"} => ~agent[r].missing
        /\ task[r].at = "call" => agent[r].todo # <<>>
        /\ call[r] # "none" => task[r].at = "call"
        /\ handlers[r] <= 1
        /\ handlers[r] > 0 => call[r] = "running" \/ agent[r].timeouts > 0
        /\ agent[r].timeouts > 0 =>
              /\ agent[r].timeouts = 1
              /\ call[r] = "none"
              /\ ~agent[r].missing
              /\ Stopping(r)

\* Only the end of the run sets another reason; a run that must use a tool does
\* not complete without one, and a client that stays is told "stop" only after
\* the run has completed or used up its steps.
StopInv ==
    \A r \in Runs :
        /\ task[r].at \notin {"finish", "over"} => task[r].reason = "stop"
        /\ agent[r].phase = "Completed" /\ r \in Required => agent[r].called
        /\ task[r].at \in {"finish", "over"} /\ task[r].reason = "stop" /\ r \notin gone =>
              agent[r].phase = "Completed" \/ task[r].turns = Limit(r)

\* The window is the end of what was executed, until a stagnant step fails.
WindowInv ==
    \A r \in Runs :
        \/ agent[r].recent = LastOf(acted[r], Window)
        \/ /\ agent[r].phase = "Failed"
           /\ ~agent[r].missing
           /\ task[r].at \in {"judge", "report", "finish", "over"}

\* The records of the two variables.
Tasks == [at : Places, turns : Nat, retries : Nat, reason : {"stop", "error"}]

Agents ==
    [phase : {"Observing", "Acting", "Completed", "Failed"}, steps : Nat,
     called : BOOLEAN, missing : BOOLEAN, recent : Seq(Seq(Calls)),
     todo : Seq(Calls), timedOut : BOOLEAN, timeouts : Nat]

AgentType ==
    /\ agent \in [Runs -> Agents]
    /\ task \in [Runs -> Tasks]
    /\ gone \subseteq Runs
    /\ acted \in [Runs -> Seq(Seq(Calls))]

BrokerType ==
    /\ call \in [Runs -> {"none", "waiting", "running", "answered"}]
    /\ waiting \in Seq(Runs)
    /\ free \in Nat
    /\ handlers \in [Runs -> Nat]

AgentInv ==
    /\ AgentType
    /\ BrokerType
    /\ StepsInv
    /\ QueueInv
    /\ SlotInv
    /\ TimeoutInv
    /\ StopInv
    /\ WindowInv
    /\ NoStagnantActs

----------------------------------------------------------------------------
(* The records.                                                            *)

\* The other runs stay as they are.
Others(r) == \A q \in Runs \ {r} : task'[q] = task[q] /\ agent'[q] = agent[q]

\* The task of r is somewhere else, or at its end.
MovedTo(r, to) ==
    /\ task' \in [Runs -> Tasks]
    /\ task'[r].at = to
    /\ task'[r].turns = task[r].turns
    /\ task'[r].reason = task[r].reason

Ended(r, reason) ==
    /\ task' \in [Runs -> Tasks]
    /\ task'[r].at = "finish"
    /\ task'[r].turns = task[r].turns
    /\ task'[r].reason = reason

\* What only a step changes, and what a call and a step change.
KeepsHistory(r) ==
    /\ agent' \in [Runs -> Agents]
    /\ agent'[r].called = agent[r].called
    /\ agent'[r].recent = agent[r].recent

Keeps(r) ==
    /\ KeepsHistory(r)
    /\ agent'[r].steps = agent[r].steps
    /\ agent'[r].missing = agent[r].missing

\* Moving the task changes its place and nothing else.
LEMMA MoveTo ==
    ASSUME NEW r \in Runs, NEW to \in Places, task \in [Runs -> Tasks], Goto(r, to)
    PROVE  MovedTo(r, to) /\ \A q \in Runs \ {r} : task'[q] = task[q]
  BY DEF Goto, Tasks, MovedTo

\* Ending the run changes the place and the reason of its task.
LEMMA EndsWith ==
    ASSUME NEW r \in Runs, NEW reason \in {"stop", "error"}, task \in [Runs -> Tasks],
           EndWith(r, reason)
    PROVE  Ended(r, reason) /\ \A q \in Runs \ {r} : task'[q] = task[q]
  BY DEF EndWith, Tasks, Places, Ended

\* One run's record is replaced.
LEMMA NewAgent ==
    ASSUME NEW r \in Runs, NEW a \in Agents, agent \in [Runs -> Agents],
           agent' = [agent EXCEPT ![r] = a]
    PROVE  /\ agent' \in [Runs -> Agents]
           /\ agent'[r] = a
           /\ \A q \in Runs \ {r} : agent'[q] = agent[q]
  OBVIOUS

\* The fields of the record a step begins with.
LEMMA SteppedRecord ==
    ASSUME NEW r \in Runs, agent \in [Runs -> Agents]
    PROVE  /\ Stepped(r) \in Agents
           /\ Stepped(r).steps = agent[r].steps + 1
           /\ Stepped(r).missing = FALSE
           /\ Stepped(r).called = agent[r].called
           /\ Stepped(r).recent = agent[r].recent
           /\ Stepped(r).timeouts = agent[r].timeouts
<1> DEFINE a == agent[r]
<1>1. a \in Agents
  OBVIOUS
<1> HIDE DEF a
<1> DEFINE n == a.steps + 1
           b == [a EXCEPT !.steps = n, !.missing = FALSE, !.timedOut = FALSE]
<1>2. n \in Nat
  BY <1>1 DEF Agents
<1>3. Stepped(r) = b
  BY DEF Stepped, a
<1> HIDE DEF n
<1>4. /\ b \in Agents /\ b.steps = n /\ b.missing = FALSE
      /\ b.called = a.called /\ b.recent = a.recent /\ b.timeouts = a.timeouts
  BY <1>1, <1>2 DEF Agents
<1> QED
  BY <1>3, <1>4 DEF a, n

\* The end of a sequence is one.
LEMMA LastOfType ==
    ASSUME NEW S, NEW s \in Seq(S), NEW n \in Nat
    PROVE  LastOf(s, n) \in Seq(S)
<1>1. CASE Len(s) <= n
  BY <1>1 DEF LastOf
<1>2. CASE Len(s) > n
  <2>1. \A i \in (Len(s) - n + 1)..Len(s) : s[i] \in S
    BY <1>2, ElementOfSeq, LenProperties
  <2> QED
    BY <1>2, <2>1, SubSeqProperties, LenProperties DEF LastOf
<1> QED
  BY <1>1, <1>2, LenProperties

\* A step ends at once, without or after a failure, or its calls are executed.
StepEnds(r) ==
    /\ MovedTo(r, "judge")
    /\ acted' = acted
    /\ \/ /\ agent'[r].phase \in {"Failed", "Completed"}
          /\ agent'[r].phase = "Completed" /\ r \in Required => agent'[r].called
          /\ agent'[r].recent = agent[r].recent
       \/ agent'[r].phase = "Failed" /\ ~agent'[r].missing

StepActs(r, calls) ==
    /\ MovedTo(r, "act")
    /\ acted' = [acted EXCEPT ![r] = Append(@, calls)]
    /\ agent'[r].phase = "Acting"
    /\ ~agent'[r].missing
    /\ agent'[r].recent = Noted(agent[r].recent, calls)
    /\ ~Stagnant(agent'[r].recent)

StepOf(r) == Unparsable(r) \/ NoCalls(r) \/ FinishCalls(r) \/ ActOrStagnate(r)

StepDoes(r) ==
    /\ task[r].at = "generate"
    /\ UNCHANGED <<broker, gone>>
    /\ Others(r)
    /\ agent' \in [Runs -> Agents]
    /\ agent'[r].steps = agent[r].steps + 1
    /\ agent'[r].timeouts = agent[r].timeouts
    /\ agent[r].called => agent'[r].called
    /\ StepEnds(r) \/ \E calls \in Seq(Calls) : StepActs(r, calls)

\* AgentLoop::step, up to the execution of its calls.
LEMMA StepOfDoes ==
    ASSUME NEW r \in Runs, AgentType, StepOf(r)
    PROVE  StepDoes(r)
<1> DEFINE s == Stepped(r)
<1>1. /\ s \in Agents
      /\ s.steps = agent[r].steps + 1
      /\ s.missing = FALSE
      /\ s.called = agent[r].called
      /\ s.recent = agent[r].recent
      /\ s.timeouts = agent[r].timeouts
  BY SteppedRecord DEF AgentType
<1>2. /\ agent \in [Runs -> Agents] /\ task \in [Runs -> Tasks]
      /\ agent[r].recent \in Seq(Seq(Calls)) /\ agent[r].called \in BOOLEAN
  BY DEF AgentType, Agents
<1> HIDE DEF s
<1>3. ASSUME NEW a \in Agents, NEW to \in Places, InStep(r, a, to),
             a.steps = s.steps, a.timeouts = s.timeouts, s.called => a.called
      PROVE  /\ task[r].at = "generate"
             /\ UNCHANGED <<broker, gone>>
             /\ Others(r)
             /\ agent' \in [Runs -> Agents]
             /\ agent'[r] = a
             /\ agent'[r].steps = agent[r].steps + 1
             /\ agent'[r].timeouts = agent[r].timeouts
             /\ agent[r].called => agent'[r].called
             /\ MovedTo(r, to)
  BY <1>1, <1>2, <1>3, MoveTo, NewAgent DEF InStep, Others
<1>4. CASE Unparsable(r)
  <2> DEFINE a == [s EXCEPT !.phase = "Failed"]
  <2>1. /\ a \in Agents /\ a.steps = s.steps /\ a.timeouts = s.timeouts
        /\ a.called = s.called /\ a.phase = "Failed" /\ a.missing = s.missing
    BY <1>1 DEF Agents
  <2>2. InStep(r, a, "judge") /\ acted' = acted
    BY <1>4 DEF Unparsable, s
  <2> HIDE DEF a
  <2> QED
    BY <1>1, <1>3, <2>1, <2>2 DEF StepDoes, StepEnds, Places
<1>5. CASE NoCalls(r)
  <2>1. CASE r \in Required /\ ~agent[r].called
    <3> DEFINE a == [s EXCEPT !.phase = "Failed", !.missing = TRUE]
    <3>1. /\ a \in Agents /\ a.steps = s.steps /\ a.timeouts = s.timeouts
          /\ a.called = s.called /\ a.phase = "Failed" /\ a.recent = s.recent
      BY <1>1 DEF Agents
    <3>2. InStep(r, a, "judge") /\ acted' = acted
      BY <1>5, <2>1 DEF NoCalls, s
    <3> HIDE DEF a
    <3> QED
      BY <1>1, <1>3, <3>1, <3>2 DEF StepDoes, StepEnds, Places
  <2>2. CASE ~(r \in Required /\ ~agent[r].called)
    <3> DEFINE a == [s EXCEPT !.phase = "Completed"]
    <3>1. /\ a \in Agents /\ a.steps = s.steps /\ a.timeouts = s.timeouts
          /\ a.called = s.called /\ a.phase = "Completed" /\ a.recent = s.recent
      BY <1>1 DEF Agents
    <3>2. InStep(r, a, "judge") /\ acted' = acted
      BY <1>5, <2>2 DEF NoCalls, s
    <3> HIDE DEF a
    <3> QED
      BY <1>1, <1>3, <2>2, <3>1, <3>2 DEF StepDoes, StepEnds, Places
  <2> QED
    BY <2>1, <2>2
<1>6. CASE FinishCalls(r)
  <2> DEFINE a == [s EXCEPT !.phase = "Completed", !.called = TRUE]
  <2>1. /\ a \in Agents /\ a.steps = s.steps /\ a.timeouts = s.timeouts
        /\ a.called = TRUE /\ a.phase = "Completed" /\ a.recent = s.recent
    BY <1>1 DEF Agents
  <2>2. InStep(r, a, "judge") /\ acted' = acted
    BY <1>6 DEF FinishCalls, s
  <2> HIDE DEF a
  <2> QED
    BY <1>1, <1>3, <2>1, <2>2 DEF StepDoes, StepEnds, Places
<1>7. CASE ActOrStagnate(r)
  <2> DEFINE next(n) == [s EXCEPT !.called = TRUE, !.recent = n]
  <2>1. PICK calls \in Says[r] :
          LET noted == Noted(agent[r].recent, calls) IN
          IF Stagnant(noted)
          THEN /\ InStep(r, [next(noted) EXCEPT !.phase = "Failed"], "judge")
               /\ acted' = acted
          ELSE /\ InStep(r, [next(noted) EXCEPT !.phase = "Acting", !.todo = calls], "act")
               /\ acted' = [acted EXCEPT ![r] = Append(@, calls)]
    BY <1>7 DEF ActOrStagnate, s
  <2> DEFINE noted == Noted(agent[r].recent, calls)
             n == next(noted)
  <2>2. calls \in Seq(Calls)
    BY AgentAssumption
  <2>3. noted \in Seq(Seq(Calls))
    BY <1>2, <2>2, AppendProperties, LastOfType DEF Noted, Window
  <2> HIDE DEF noted
  <2>4. /\ n \in Agents /\ n.steps = s.steps /\ n.timeouts = s.timeouts
        /\ n.called = TRUE /\ n.recent = noted /\ n.missing = s.missing
    BY <1>1, <2>3 DEF Agents
  <2> HIDE DEF n
  <2>5. CASE Stagnant(noted)
    <3> DEFINE a == [n EXCEPT !.phase = "Failed"]
    <3>1. /\ a \in Agents /\ a.steps = n.steps /\ a.timeouts = n.timeouts
          /\ a.called = n.called /\ a.phase = "Failed" /\ a.missing = n.missing
      BY <2>4 DEF Agents
    <3>2. InStep(r, a, "judge") /\ acted' = acted
      BY <2>1, <2>5 DEF n, noted
    <3> HIDE DEF a
    <3> QED
      BY <1>1, <1>3, <2>4, <3>1, <3>2 DEF StepDoes, StepEnds, Places
  <2>6. CASE ~Stagnant(noted)
    <3> DEFINE a == [n EXCEPT !.phase = "Acting", !.todo = calls]
    <3>1. /\ a \in Agents /\ a.steps = n.steps /\ a.timeouts = n.timeouts
          /\ a.called = n.called /\ a.phase = "Acting" /\ a.missing = n.missing
          /\ a.recent = noted
      BY <2>2, <2>4 DEF Agents
    <3>2. InStep(r, a, "act") /\ acted' = [acted EXCEPT ![r] = Append(@, calls)]
      BY <2>1, <2>6 DEF n, noted
    <3> HIDE DEF a
    <3>3. /\ task[r].at = "generate" /\ UNCHANGED <<broker, gone>> /\ Others(r)
          /\ agent' \in [Runs -> Agents] /\ agent'[r] = a
          /\ agent'[r].steps = agent[r].steps + 1
          /\ agent'[r].timeouts = agent[r].timeouts
          /\ agent[r].called => agent'[r].called
          /\ MovedTo(r, "act")
      BY <1>1, <1>3, <2>4, <3>1, <3>2 DEF Places
    <3>4. StepActs(r, calls)
      BY <1>1, <2>4, <2>6, <3>1, <3>2, <3>3 DEF StepActs, noted
    <3> QED
      BY <2>2, <3>3, <3>4 DEF StepDoes
  <2> QED
    BY <2>5, <2>6
<1> QED
  BY <1>4, <1>5, <1>6, <1>7 DEF StepOf

\* The next call is handed to the broker, or answered with an error here.
LEMMA NextCallDoes ==
    ASSUME NEW r \in Runs, AgentType, NextCall(r)
    PROVE  /\ task[r].at = "act" /\ agent[r].todo # <<>>
           /\ Keeps(r) /\ Others(r)
           /\ agent'[r].phase = agent[r].phase
           /\ agent'[r].timedOut = agent[r].timedOut
           /\ agent'[r].timeouts = agent[r].timeouts
           /\ UNCHANGED <<gone, acted>>
           /\ \/ /\ MovedTo(r, "call")
                 /\ Execute(r, Head(agent[r].todo))
                 /\ agent' = agent
              \/ UNCHANGED <<broker, task>>
<1>1. agent \in [Runs -> Agents] /\ task \in [Runs -> Tasks]
  BY DEF AgentType
<1>2. agent[r].todo \in Seq(Calls)
  BY <1>1 DEF Agents
<1>3. CASE Head(agent[r].todo) \in Allowed[r]
  BY <1>1, <1>3, MoveTo DEF NextCall, Keeps, KeepsHistory, Others, Places
<1>4. CASE Head(agent[r].todo) \notin Allowed[r]
  <2>1. agent' = [agent EXCEPT ![r].todo = Tail(@)] /\ task' = task
    BY <1>4 DEF NextCall
  <2>2. agent[r].todo # <<>>
    BY DEF NextCall
  <2>3. Tail(agent[r].todo) \in Seq(Calls)
    BY <1>2, <2>2, HeadTailProperties
  <2>4. /\ Keeps(r) /\ Others(r) /\ agent'[r].phase = agent[r].phase
        /\ agent'[r].timedOut = agent[r].timedOut /\ agent'[r].timeouts = agent[r].timeouts
    BY <1>1, <2>1, <2>3 DEF Agents, Keeps, KeepsHistory, Others
  <2> QED
    BY <1>4, <2>1, <2>4 DEF NextCall
<1> QED
  BY <1>3, <1>4

\* A result takes its call off the list.
LEMMA CallReturnsDoes ==
    ASSUME NEW r \in Runs, AgentType, TimeoutInv, CallReturns(r)
    PROVE  /\ task[r].at = "call"
           /\ TakeResult(r)
           /\ MovedTo(r, "act")
           /\ Keeps(r) /\ Others(r)
           /\ agent'[r].phase = agent[r].phase
           /\ agent'[r].timeouts = agent[r].timeouts
           /\ UNCHANGED <<gone, acted>>
<1>1. agent \in [Runs -> Agents] /\ task \in [Runs -> Tasks]
  BY DEF AgentType
<1>2. agent[r].todo \in Seq(Calls) /\ agent[r].todo # <<>>
  BY <1>1 DEF Agents, TimeoutInv, CallReturns
<1>3. Tail(agent[r].todo) \in Seq(Calls)
  BY <1>2, HeadTailProperties
<1>4. agent' = [agent EXCEPT ![r].todo = Tail(@)]
  BY DEF CallReturns
<1>5. /\ Keeps(r) /\ agent'[r].phase = agent[r].phase
      /\ agent'[r].timeouts = agent[r].timeouts
      /\ \A q \in Runs \ {r} : agent'[q] = agent[q]
  BY <1>1, <1>3, <1>4 DEF Agents, Keeps, KeepsHistory
<1> QED
  BY <1>1, <1>5, MoveTo DEF CallReturns, Others, Places

\* A timeout empties the list and is counted.
LEMMA CallTimesOutDoes ==
    ASSUME NEW r \in Runs, AgentType, CallTimesOut(r)
    PROVE  /\ task[r].at = "call"
           /\ call[r] # "none"
           /\ Drop(r)
           /\ MovedTo(r, "act")
           /\ Keeps(r) /\ Others(r)
           /\ agent'[r].phase = agent[r].phase
           /\ agent'[r].todo = <<>>
           /\ agent'[r].timedOut
           /\ agent'[r].timeouts = agent[r].timeouts + 1
           /\ UNCHANGED <<gone, acted>>
<1>1. agent \in [Runs -> Agents] /\ task \in [Runs -> Tasks]
  BY DEF AgentType
<1>2. <<>> \in Seq(Calls)
  BY EmptySeq
<1> DEFINE a == agent[r]
           n == a.timeouts + 1
           none == <<>>
           b == [a EXCEPT !.todo = none, !.timedOut = TRUE, !.timeouts = n]
<1>3. agent' = [agent EXCEPT ![r] = b]
  BY DEF CallTimesOut, AfterTimeout
<1>4. a \in Agents /\ n \in Nat
  BY <1>1 DEF Agents
<1> HIDE DEF a, none, n
<1>5. /\ b \in Agents /\ b.called = a.called /\ b.recent = a.recent /\ b.steps = a.steps
      /\ b.missing = a.missing /\ b.phase = a.phase /\ b.todo = none
      /\ b.timedOut = TRUE /\ b.timeouts = n
  BY <1>2, <1>4 DEF Agents, none
<1> HIDE DEF b
<1>6. /\ agent' \in [Runs -> Agents] /\ agent'[r] = b
      /\ \A q \in Runs \ {r} : agent'[q] = agent[q]
  BY <1>1, <1>3, <1>5, NewAgent
<1>7. /\ Keeps(r) /\ agent'[r].phase = agent[r].phase /\ agent'[r].todo = <<>>
      /\ agent'[r].timedOut /\ agent'[r].timeouts = agent[r].timeouts + 1
  BY <1>5, <1>6 DEF Keeps, KeepsHistory, a, none, n
<1> QED
  BY <1>1, <1>6, <1>7, MoveTo DEF CallTimesOut, Timed, Others, Places

\* The end of a step sets the phase that a timeout decides.
LEMMA EndStepDoes ==
    ASSUME NEW r \in Runs, AgentType, EndStep(r)
    PROVE  /\ task[r].at = "act"
           /\ MovedTo(r, "judge")
           /\ Keeps(r) /\ Others(r)
           /\ agent'[r].phase = IF agent[r].timedOut THEN "Failed" ELSE "Observing"
           /\ agent'[r].timeouts = agent[r].timeouts
           /\ UNCHANGED <<broker, gone, acted>>
<1>1. agent \in [Runs -> Agents] /\ task \in [Runs -> Tasks]
  BY DEF AgentType
<1> DEFINE phase == IF agent[r].timedOut THEN "Failed" ELSE "Observing"
<1>2. agent' = [agent EXCEPT ![r].phase = phase] /\ phase \in {"Failed", "Observing"}
  BY DEF EndStep
<1> HIDE DEF phase
<1>3. /\ Keeps(r)
      /\ agent'[r].phase = phase
      /\ agent'[r].timeouts = agent[r].timeouts
      /\ \A q \in Runs \ {r} : agent'[q] = agent[q]
  BY <1>1, <1>2 DEF Agents, Keeps, KeepsHistory
<1> QED
  BY <1>1, <1>3, MoveTo DEF EndStep, Others, Places, phase

\* A retry takes the step back.
LEMMA RetryDoes ==
    ASSUME NEW r \in Runs, AgentType, StepsInv, Retry(r)
    PROVE  /\ task[r].at = "judge"
           /\ agent[r].missing
           /\ MovedTo(r, "admit") \/ MovedTo(r, "fail")
           /\ KeepsHistory(r) /\ Others(r)
           /\ agent'[r].steps = agent[r].steps - 1
           /\ ~agent'[r].missing
           /\ agent'[r].phase = "Observing"
           /\ agent'[r].timeouts = agent[r].timeouts
           /\ UNCHANGED <<broker, gone, acted>>
<1>1. agent \in [Runs -> Agents] /\ task \in [Runs -> Tasks]
  BY DEF AgentType
<1>2. agent[r].steps = task[r].turns + 1
  BY DEF StepsInv, Ahead, Retry
<1>3. agent[r].steps - 1 \in Nat
  BY <1>1, <1>2 DEF Tasks
<1> DEFINE a == Rearmed(r)
<1>4. /\ a \in Agents /\ a.called = agent[r].called /\ a.recent = agent[r].recent
      /\ a.steps = agent[r].steps - 1 /\ a.missing = FALSE /\ a.phase = "Observing"
      /\ a.timeouts = agent[r].timeouts
  BY <1>1, <1>3 DEF Rearmed, Agents
<1>5. agent' = [agent EXCEPT ![r] = a]
  BY DEF Retry
<1> HIDE DEF a
<1>6. /\ agent' \in [Runs -> Agents] /\ agent'[r] = a
      /\ \A q \in Runs \ {r} : agent'[q] = agent[q]
  BY <1>1, <1>4, <1>5, NewAgent
<1>7. PICK to \in {"admit", "fail"} : task' = [task EXCEPT ![r].at = to, ![r].retries = @ - 1]
  BY DEF Retry
<1>8. MovedTo(r, to) /\ \A q \in Runs \ {r} : task'[q] = task[q]
  BY <1>1, <1>7 DEF Tasks, Places, MovedTo, Retry
<1> QED
  BY <1>4, <1>6, <1>7, <1>8 DEF Retry, Others, KeepsHistory

\* The steps of the task between those of the loop.
LEMMA TaskDoes ==
    ASSUME NEW r \in Runs, AgentType
    PROVE  /\ Arrive(r) =>
                 /\ task[r].at = "new"
                 /\ Others(r) /\ UNCHANGED <<broker, agent, gone, acted>>
                 /\ MovedTo(r, "announce") \/ MovedTo(r, "rejected")
           /\ Announce(r) =>
                 /\ task[r].at = "announce"
                 /\ Others(r) /\ UNCHANGED <<broker, agent, gone, acted>>
                 /\ \/ r \in gone /\ MovedTo(r, "over")
                    \/ MovedTo(r, "admit") \/ MovedTo(r, "fail")
           /\ Admit(r) =>
                 /\ task[r].at = "admit"
                 /\ Others(r) /\ UNCHANGED <<broker, agent, gone, acted>>
                 /\ \/ task[r].turns < Limit(r) /\ MovedTo(r, "generate")
                    \/ task[r].turns < Limit(r) /\ MovedTo(r, "fail")
                    \/ ~(task[r].turns < Limit(r)) /\ MovedTo(r, "finish")
           /\ GenerationFails(r) =>
                 /\ task[r].at = "generate"
                 /\ Others(r) /\ UNCHANGED <<broker, agent, gone, acted>>
                 /\ MovedTo(r, "fail")
           /\ CountStep(r) =>
                 /\ task[r].at = "judge"
                 /\ Others(r) /\ UNCHANGED <<broker, agent, gone, acted>>
                 /\ task' \in [Runs -> Tasks] /\ task'[r].at = "report"
                 /\ task'[r].turns = task[r].turns + 1
                 /\ task'[r].reason = task[r].reason
           /\ Report(r) =>
                 /\ task[r].at = "report"
                 /\ Others(r) /\ UNCHANGED <<broker, agent, gone, acted>>
                 /\ \/ agent[r].phase = "Failed" /\ Ended(r, "error")
                    \/ /\ r \in gone \/ agent[r].phase = "Completed"
                       /\ agent[r].phase # "Failed"
                       /\ Ended(r, task[r].reason)
                    \/ /\ agent[r].phase # "Failed"
                       /\ MovedTo(r, "admit") \/ MovedTo(r, "fail")
           /\ Fail(r) =>
                 /\ task[r].at = "fail"
                 /\ Others(r) /\ UNCHANGED <<broker, agent, gone, acted>>
                 /\ Ended(r, "error")
           /\ Finish(r) =>
                 /\ task[r].at = "finish"
                 /\ Others(r) /\ UNCHANGED <<broker, agent, gone, acted>>
                 /\ MovedTo(r, "over")
<1> USE DEF Others, Places
<1>1. agent \in [Runs -> Agents] /\ task \in [Runs -> Tasks]
  BY DEF AgentType
<1>2. task[r].reason \in {"stop", "error"}
  BY <1>1 DEF Tasks
<1>3. ASSUME Arrive(r)
      PROVE  /\ task[r].at = "new" /\ Others(r) /\ UNCHANGED <<broker, agent, gone, acted>>
             /\ MovedTo(r, "announce") \/ MovedTo(r, "rejected")
  <2>1. PICK to \in {"announce", "rejected"} : Goto(r, to)
    BY <1>3 DEF Arrive
  <2>2. to \in Places
    OBVIOUS
  <2> QED
    BY <1>1, <1>3, <2>1, <2>2, MoveTo DEF Arrive
<1>4. ASSUME Announce(r)
      PROVE  /\ task[r].at = "announce" /\ Others(r)
             /\ UNCHANGED <<broker, agent, gone, acted>>
             /\ \/ r \in gone /\ MovedTo(r, "over")
                \/ MovedTo(r, "admit") \/ MovedTo(r, "fail")
  <2>1. PICK to \in Places :
           /\ Goto(r, to)
           /\ \/ r \in gone /\ to = "over"
              \/ to \in {"admit", "fail"}
    BY <1>4 DEF Announce
  <2> QED
    BY <1>1, <1>4, <2>1, MoveTo DEF Announce
<1>5. ASSUME Admit(r)
      PROVE  /\ task[r].at = "admit"
             /\ Others(r) /\ UNCHANGED <<broker, agent, gone, acted>>
             /\ \/ task[r].turns < Limit(r) /\ MovedTo(r, "generate")
                \/ task[r].turns < Limit(r) /\ MovedTo(r, "fail")
                \/ ~(task[r].turns < Limit(r)) /\ MovedTo(r, "finish")
  <2>1. PICK to \in Places :
           /\ Goto(r, to)
           /\ \/ task[r].turns < Limit(r) /\ to \in {"generate", "fail"}
              \/ ~(task[r].turns < Limit(r)) /\ to = "finish"
    BY <1>5 DEF Admit
  <2> QED
    BY <1>1, <1>5, <2>1, MoveTo DEF Admit
<1>6. ASSUME GenerationFails(r)
      PROVE  /\ task[r].at = "generate"
             /\ Others(r) /\ UNCHANGED <<broker, agent, gone, acted>>
             /\ MovedTo(r, "fail")
  BY <1>1, <1>6, MoveTo DEF GenerationFails
<1>7. ASSUME CountStep(r)
      PROVE  /\ task[r].at = "judge"
             /\ Others(r) /\ UNCHANGED <<broker, agent, gone, acted>>
             /\ task' \in [Runs -> Tasks] /\ task'[r].at = "report"
             /\ task'[r].turns = task[r].turns + 1
             /\ task'[r].reason = task[r].reason
  <2>1. task' = [task EXCEPT ![r].at = "report", ![r].turns = @ + 1]
    BY <1>7 DEF CountStep
  <2> QED
    BY <1>1, <1>7, <2>1 DEF CountStep, Tasks
<1>8. ASSUME Report(r)
      PROVE  /\ task[r].at = "report"
             /\ Others(r) /\ UNCHANGED <<broker, agent, gone, acted>>
             /\ \/ agent[r].phase = "Failed" /\ Ended(r, "error")
                \/ /\ r \in gone \/ agent[r].phase = "Completed"
                   /\ agent[r].phase # "Failed"
                   /\ Ended(r, task[r].reason)
                \/ /\ agent[r].phase # "Failed"
                   /\ MovedTo(r, "admit") \/ MovedTo(r, "fail")
  <2>1. CASE agent[r].phase = "Failed"
    BY <1>1, <1>8, <2>1, EndsWith DEF Report, ReasonOf
  <2>2. CASE agent[r].phase # "Failed" /\ (r \in gone \/ agent[r].phase = "Completed")
    BY <1>1, <1>2, <1>8, <2>2, EndsWith DEF Report, ReasonOf
  <2>3. CASE ~(r \in gone \/ agent[r].phase \in {"Failed", "Completed"})
    <3>1. PICK to \in {"admit", "fail"} : Goto(r, to)
      BY <1>8, <2>3 DEF Report
    <3>2. to \in Places
      OBVIOUS
    <3> QED
      BY <1>1, <1>8, <2>3, <3>1, <3>2, MoveTo DEF Report
  <2> QED
    BY <2>1, <2>2, <2>3
<1>9. ASSUME Fail(r)
      PROVE  /\ task[r].at = "fail" /\ Others(r)
             /\ UNCHANGED <<broker, agent, gone, acted>> /\ Ended(r, "error")
  BY <1>1, <1>9, EndsWith DEF Fail
<1>10. ASSUME Finish(r)
       PROVE  /\ task[r].at = "finish" /\ Others(r)
              /\ UNCHANGED <<broker, agent, gone, acted>> /\ MovedTo(r, "over")
  BY <1>1, <1>10, MoveTo DEF Finish
<1> QED
  BY <1>3, <1>4, <1>5, <1>6, <1>7, <1>8, <1>9, <1>10

\* Every step keeps the types.
LEMMA AgentTypeStep ==
    ASSUME AgentType, StepsInv, TimeoutInv, [Next]_vars
    PROVE  AgentType'
<1> USE DEF AgentType, MovedTo, Ended, Keeps, KeepsHistory
<1>1. ASSUME NEW r \in Runs, Arrive(r) PROVE AgentType'
  BY <1>1, TaskDoes
<1>2. ASSUME NEW r \in Runs, Announce(r) PROVE AgentType'
  BY <1>2, TaskDoes
<1>3. ASSUME NEW r \in Runs, Report(r) PROVE AgentType'
  BY <1>3, TaskDoes
<1>4. ASSUME NEW r \in Runs, Fail(r) PROVE AgentType'
  BY <1>4, TaskDoes
<1>5. ASSUME NEW r \in Runs, Finish(r) PROVE AgentType'
  BY <1>5, TaskDoes
<1>6. ASSUME NEW r \in Runs, Admit(r) PROVE AgentType'
  BY <1>6, TaskDoes
<1>7. ASSUME NEW r \in Runs, GenerationFails(r) PROVE AgentType'
  BY <1>7, TaskDoes
<1>8. ASSUME NEW r \in Runs, StepOf(r) PROVE AgentType'
  <2>1. StepDoes(r)
    BY <1>8, StepOfDoes
  <2>2. CASE StepEnds(r)
    BY <2>1, <2>2 DEF StepDoes, StepEnds
  <2>3. ASSUME NEW calls \in Seq(Calls), StepActs(r, calls) PROVE AgentType'
    <3>1. Append(acted[r], calls) \in Seq(Seq(Calls))
      BY AppendProperties
    <3> QED
      BY <2>1, <2>3, <3>1 DEF StepDoes, StepActs
  <2> QED
    BY <2>1, <2>2, <2>3 DEF StepDoes
<1>9. ASSUME NEW r \in Runs, NextCall(r) PROVE AgentType'
  BY <1>9, NextCallDoes
<1>10. ASSUME NEW r \in Runs, CallReturns(r) PROVE AgentType'
  BY <1>10, CallReturnsDoes
<1>11. ASSUME NEW r \in Runs, CallTimesOut(r) PROVE AgentType'
  BY <1>11, CallTimesOutDoes
<1>12. ASSUME NEW r \in Runs, EndStep(r) PROVE AgentType'
  BY <1>12, EndStepDoes
<1>13. ASSUME NEW r \in Runs, Retry(r) PROVE AgentType'
  BY <1>13, RetryDoes
<1>14. ASSUME NEW r \in Runs, CountStep(r) PROVE AgentType'
  BY <1>14, TaskDoes
<1>15. ASSUME NEW r \in Runs, Leave(r) PROVE AgentType'
  BY <1>15 DEF Leave
<1>16. ASSUME NEW r \in Runs, Start(r), UNCHANGED <<agent, task, gone, acted>> PROVE AgentType'
  BY <1>16
<1>17. ASSUME NEW r \in Runs, Return(r), UNCHANGED <<agent, task, gone, acted>> PROVE AgentType'
  BY <1>17
<1>18. CASE UNCHANGED vars
  BY <1>18 DEF vars, broker
<1> QED
  BY <1>1, <1>2, <1>3, <1>4, <1>5, <1>6, <1>7, <1>8, <1>9, <1>10, <1>11, <1>12, <1>13, <1>14, <1>15, <1>16, <1>17, <1>18 DEF Next, Sends, Proceeds, Broker, StepOf

\* A caller that leaves the queue is not in it any more; the others stay as they are.
LEMMA LeavesProps ==
    ASSUME NEW c \in Runs, NEW q \in Seq(Runs),
           \A i, j \in 1..Len(q) : q[i] = q[j] => i = j
    PROVE  LET w == Leaves(q, c) IN
           /\ w \in Seq(Runs)
           /\ \A i \in 1..Len(w) : w[i] # c /\ \E j \in 1..Len(q) : w[i] = q[j]
           /\ \A i, j \in 1..Len(w) : w[i] = w[j] => i = j
<1> DEFINE w == Leaves(q, c)
<1>1. Len(q) \in Nat /\ DOMAIN q = 1..Len(q) /\ \A i \in 1..Len(q) : q[i] \in Runs
  BY LenProperties, ElementOfSeq
<1>2. CASE c \notin ToSet(q)
  <2>1. w = q
    BY <1>2 DEF Leaves
  <2>2. \A i \in 1..Len(q) : q[i] # c
    BY <1>1, <1>2 DEF ToSet
  <2> QED
    BY <2>1, <2>2
<1>3. CASE c \in ToSet(q)
  <2> DEFINE k == CHOOSE i \in DOMAIN q : q[i] = c
             s == SubSeq(q, 1, k - 1)
             t == SubSeq(q, k + 1, Len(q))
  <2>1. k \in 1..Len(q) /\ q[k] = c
    BY <1>1, <1>3 DEF ToSet
  <2>2. w = s \o t
    BY <1>3 DEF Leaves, RemoveAt
  <2> HIDE DEF k, w
  <2>3. /\ s \in Seq(Runs) /\ Len(s) = k - 1
        /\ \A i \in 1..(k - 1) : s[i] = q[i]
    <3>1. k - 1 \in Int /\ \A i \in 1..(k - 1) : q[i] \in Runs
      BY <1>1, <2>1
    <3> QED
      BY <1>1, <2>1, <3>1, SubSeqProperties
  <2>4. /\ t \in Seq(Runs) /\ Len(t) = Len(q) - k
        /\ \A i \in 1..(Len(q) - k) : t[i] = q[k + i]
    <3> DEFINE m == k + 1
               n == Len(q)
    <3>1. m \in Int /\ n \in Int /\ \A i \in m..n : q[i] \in Runs
      BY <1>1, <2>1
    <3> HIDE DEF m, n
    <3>2. /\ SubSeq(q, m, n) \in Seq(Runs)
          /\ Len(SubSeq(q, m, n)) = IF m <= n THEN n - m + 1 ELSE 0
          /\ \A i \in 1..(n - m + 1) : SubSeq(q, m, n)[i] = q[m + i - 1]
      BY <3>1, SubSeqProperties
    <3>3. n - m + 1 = Len(q) - k /\ \A i \in 1..(Len(q) - k) : m + i - 1 = k + i
      BY <1>1, <2>1 DEF m, n
    <3>4. Len(t) = Len(q) - k
      <4> DEFINE l == Len(SubSeq(q, m, n))
      <4>1. l = IF m <= n THEN n - m + 1 ELSE 0
        BY <3>2
      <4> HIDE DEF l
      <4>2. m <= n \/ Len(q) - k = 0
        <5>1. k \in Int /\ Len(q) \in Int /\ k <= Len(q)
          BY <1>1, <2>1
        <5>2. k + 1 <= Len(q) \/ Len(q) - k = 0
          BY <5>1
        <5> QED
          BY <5>2 DEF m, n
      <4>3. l = Len(q) - k
        BY <3>3, <4>1, <4>2
      <4> QED
        BY <4>3 DEF l, m, n
    <3> QED
      BY <3>2, <3>3, <3>4 DEF m, n
  <2> HIDE DEF s, t
  <2>5. /\ w \in Seq(Runs) /\ Len(w) = Len(q) - 1
        /\ \A i \in 1..(Len(q) - 1) : w[i] = IF i <= k - 1 THEN s[i] ELSE t[i - (k - 1)]
    <3>1. /\ s \o t \in Seq(Runs) /\ Len(s \o t) = Len(s) + Len(t)
          /\ \A i \in 1..(Len(s) + Len(t)) :
                (s \o t)[i] = IF i <= Len(s) THEN s[i] ELSE t[i - Len(s)]
      <4>1. s \in Seq(Runs) /\ t \in Seq(Runs)
        BY <2>3, <2>4
      <4> QED
        BY <4>1, ConcatProperties
    <3>2. Len(s) + Len(t) = Len(q) - 1 /\ Len(s) = k - 1
      BY <1>1, <2>1, <2>3, <2>4
    <3>3. w = s \o t
      BY <2>2
    <3> HIDE DEF w
    <3> QED
      BY <3>1, <3>2, <3>3
  <2>6. \A i \in 1..(Len(q) - 1) : w[i] = IF i <= k - 1 THEN q[i] ELSE q[i + 1]
    <3>1. ASSUME NEW i \in 1..(Len(q) - 1), i > k - 1 PROVE w[i] = q[i + 1]
      <4>1. i - (k - 1) \in 1..(Len(q) - k) /\ k + (i - (k - 1)) = i + 1
        BY <1>1, <2>1, <3>1
      <4> QED
        BY <1>1, <2>1, <2>4, <2>5, <3>1, <4>1
    <3> QED
      BY <1>1, <2>1, <2>3, <2>5, <3>1
  <2>7. \A i \in 1..Len(w) : w[i] # c /\ \E j \in 1..Len(q) : w[i] = q[j]
    BY <1>1, <2>1, <2>5, <2>6
  <2>8. \A i, j \in 1..Len(w) : w[i] = w[j] => i = j
    BY <1>1, <2>1, <2>5, <2>6
  <2> QED
    BY <2>5, <2>7, <2>8 DEF w
<1> QED
  BY <1>2, <1>3

BrokerOf(c) ==
    \/ \E k \in Calls : Execute(c, k)
    \/ Start(c) \/ Return(c) \/ TakeResult(c) \/ Drop(c)

\* The broker keeps its types and its queue, whoever calls it.
LEMMA BrokerKeeps ==
    ASSUME NEW c \in Runs, BrokerType, QueueInv, BrokerOf(c)
    PROVE  BrokerType' /\ QueueInv'
<1> USE DEF Runs
<1>1. waiting \in Seq(Runs) /\ Len(waiting) \in Nat /\ \A i \in 1..Len(waiting) : waiting[i] \in Runs
  BY LenProperties, ElementOfSeq DEF BrokerType
<1>2. ASSUME NEW k \in Calls, Execute(c, k) PROVE BrokerType' /\ QueueInv'
  <2>1. CASE k \in Registered
    <3>1. /\ waiting' \in Seq(Runs) /\ Len(waiting') = Len(waiting) + 1
          /\ \A i \in 1..Len(waiting) : waiting'[i] = waiting[i]
          /\ waiting'[Len(waiting) + 1] = c
      BY <1>1, <1>2, <2>1, AppendProperties DEF Execute
    <3>2. call[c] = "none" /\ call' = [call EXCEPT ![c] = "waiting"]
      BY <1>2, <2>1 DEF Execute
    <3>3. BrokerType'
      BY <1>2, <3>1, <3>2 DEF Execute, BrokerType
    <3>4. \A i \in 1..Len(waiting) : waiting[i] # c
      BY <3>2 DEF QueueInv
    <3>5. \A i \in 1..Len(waiting') : call'[waiting'[i]] = "waiting"
      <4>1. \A q \in Runs : call'[q] = IF q = c THEN "waiting" ELSE call[q]
        BY <3>2 DEF BrokerType
      <4>2. \A i \in 1..Len(waiting) : call'[waiting'[i]] = "waiting"
        BY <1>1, <3>1, <3>4, <4>1 DEF QueueInv
      <4> QED
        BY <1>1, <3>1, <4>1, <4>2
    <3>6. \A i, j \in 1..Len(waiting') : waiting'[i] = waiting'[j] => i = j
      <4>1. ASSUME NEW i \in 1..Len(waiting), NEW j \in 1..Len(waiting),
                   waiting'[i] = waiting'[j]
            PROVE  i = j
        BY <3>1, <4>1 DEF QueueInv
      <4>2. \A i \in 1..Len(waiting) : waiting'[i] # waiting'[Len(waiting) + 1]
        BY <3>1, <3>4
      <4> QED
        BY <1>1, <3>1, <4>1, <4>2
    <3>7. QueueInv'
      BY <3>5, <3>6 DEF QueueInv
    <3> QED
      BY <3>3, <3>7
  <2>2. CASE k \notin Registered
    <3>1. \A i \in 1..Len(waiting) : waiting[i] # c
      BY <1>2 DEF QueueInv, Execute
    <3>2. call' = [call EXCEPT ![c] = "answered"] /\ UNCHANGED <<waiting, free, handlers>>
      BY <1>2, <2>2 DEF Execute
    <3>3. BrokerType'
      BY <3>2 DEF BrokerType
    <3>4. \A i \in 1..Len(waiting) : call'[waiting[i]] = call[waiting[i]]
      BY <1>1, <3>1, <3>2 DEF BrokerType
    <3> QED
      BY <3>2, <3>3, <3>4 DEF QueueInv
  <2> QED
    BY <2>1, <2>2
<1>3. CASE Start(c)
  <2>1. waiting # <<>> /\ c = Head(waiting) /\ waiting' = Tail(waiting)
    BY <1>3 DEF Start
  <2>2. /\ Len(waiting) >= 1 /\ c = waiting[1] /\ waiting' \in Seq(Runs)
        /\ Len(waiting') = Len(waiting) - 1
        /\ \A i \in 1..(Len(waiting) - 1) : waiting'[i] = waiting[i + 1]
    BY <1>1, <2>1, HeadTailProperties, EmptySeq
  <2>3. BrokerType'
    BY <1>3, <2>2 DEF Start, BrokerType
  <2>4. \A i \in 1..(Len(waiting) - 1) : waiting'[i] # c /\ call[waiting'[i]] = "waiting"
    BY <1>1, <2>2 DEF QueueInv
  <2>5. QueueInv'
    <3>1. \A i \in 1..Len(waiting') : call'[waiting'[i]] = "waiting"
      BY <1>1, <1>3, <2>2, <2>4 DEF Start, BrokerType
    <3>2. \A i, j \in 1..Len(waiting') : waiting'[i] = waiting'[j] => i = j
      BY <1>1, <2>2 DEF QueueInv
    <3> QED
      BY <3>1, <3>2 DEF QueueInv
  <2> QED
    BY <2>3, <2>5
<1>4. CASE Return(c)
  BY <1>1, <1>4 DEF Return, BrokerType, QueueInv
<1>5. CASE TakeResult(c)
  BY <1>1, <1>5 DEF TakeResult, BrokerType, QueueInv
<1>6. CASE Drop(c)
  <2>1. waiting' = Leaves(waiting, c) /\ call' = [call EXCEPT ![c] = "none"]
    BY <1>6 DEF Drop
  <2> DEFINE w == Leaves(waiting, c)
  <2>2. /\ w \in Seq(Runs)
        /\ \A i \in 1..Len(w) : w[i] # c /\ \E j \in 1..Len(waiting) : w[i] = waiting[j]
        /\ \A i, j \in 1..Len(w) : w[i] = w[j] => i = j
    BY <1>1, LeavesProps DEF QueueInv
  <2> HIDE DEF w
  <2>3. waiting' = w
    BY <2>1 DEF w
  <2>4. BrokerType'
    BY <1>6, <2>1, <2>2, <2>3 DEF Drop, KeptByHandler, BrokerType
  <2>5. \A i \in 1..Len(w) : call[w[i]] = "waiting" /\ call'[w[i]] = call[w[i]]
    <3>1. \A q \in Runs : q # c => call'[q] = call[q]
      BY <2>1 DEF BrokerType
    <3>2. \A i \in 1..Len(w) : w[i] \in Runs /\ w[i] # c
      BY <2>2, ElementOfSeq
    <3>3. \A i \in 1..Len(w) : call[w[i]] = "waiting"
      BY <2>2 DEF QueueInv
    <3> QED
      BY <3>1, <3>2, <3>3
  <2>6. QueueInv'
    BY <2>2, <2>3, <2>5 DEF QueueInv
  <2> QED
    BY <2>4, <2>6
<1> QED
  BY <1>2, <1>3, <1>4, <1>5, <1>6 DEF BrokerOf

\* What a step does to the broker.
LEMMA BrokerMoves ==
    ASSUME AgentType, TimeoutInv, [Next]_vars
    PROVE  UNCHANGED broker \/ \E c \in Runs : BrokerOf(c)
<1>1. ASSUME NEW r \in Runs, Arrive(r) \/ Sends(r)
      PROVE  UNCHANGED broker
  BY <1>1 DEF Arrive, Sends, Announce, Report, Fail, Finish
<1>2. ASSUME NEW r \in Runs, NextCall(r)
      PROVE  UNCHANGED broker \/ BrokerOf(r)
  <2>1. agent[r].todo \in Seq(Calls) /\ agent[r].todo # <<>>
    BY <1>2 DEF NextCall, AgentType, Agents
  <2>2. Head(agent[r].todo) \in Calls
    BY <2>1, HeadTailProperties
  <2> QED
    BY <1>2, <2>2 DEF NextCall, BrokerOf
<1>3. ASSUME NEW r \in Runs, Proceeds(r), ~NextCall(r)
      PROVE  UNCHANGED broker \/ BrokerOf(r)
  BY <1>3 DEF Proceeds, Admit, GenerationFails, Unparsable, NoCalls, FinishCalls,
              ActOrStagnate, InStep, CallReturns, CallTimesOut, EndStep, Retry, CountStep,
              BrokerOf
<1>4. ASSUME NEW r \in Runs, Leave(r)
      PROVE  UNCHANGED broker
  BY <1>4 DEF Leave
<1>5. ASSUME NEW r \in Runs, Broker(r)
      PROVE  BrokerOf(r)
  BY <1>5 DEF Broker, BrokerOf
<1> QED
  BY <1>1, <1>2, <1>3, <1>4, <1>5 DEF Next, vars

\* Every step keeps the broker's types and its queue.
LEMMA BrokerStep ==
    ASSUME AgentType, BrokerType, QueueInv, TimeoutInv, [Next]_vars
    PROVE  BrokerType' /\ QueueInv'
<1>1. CASE UNCHANGED broker
  BY <1>1 DEF broker, BrokerType, QueueInv
<1> QED
  BY <1>1, BrokerMoves, BrokerKeeps

\* The two counts of steps stay together.
LEMMA StepsInvStep ==
    ASSUME AgentType, StepsInv, TimeoutInv, [Next]_vars
    PROVE  StepsInv'
<1> USE DEF StepsInv, Ahead, MovedTo, Ended, Keeps, Others
<1>0. \A q \in Runs : /\ agent[q].steps \in Nat /\ task[q].turns \in Nat /\ Limit(q) \in Nat
                      /\ Limit(q)' = Limit(q)
  BY AgentAssumption DEF AgentType, Agents, Tasks, Limit
<1>1. ASSUME NEW r \in Runs, Arrive(r) PROVE StepsInv'
  BY <1>0, <1>1, TaskDoes
<1>2. ASSUME NEW r \in Runs, Announce(r) PROVE StepsInv'
  BY <1>0, <1>2, TaskDoes
<1>3. ASSUME NEW r \in Runs, Report(r) PROVE StepsInv'
  BY <1>0, <1>3, TaskDoes
<1>4. ASSUME NEW r \in Runs, Fail(r) PROVE StepsInv'
  BY <1>0, <1>4, TaskDoes
<1>5. ASSUME NEW r \in Runs, Finish(r) PROVE StepsInv'
  BY <1>0, <1>5, TaskDoes
<1>6. ASSUME NEW r \in Runs, Admit(r) PROVE StepsInv'
  BY <1>0, <1>6, TaskDoes
<1>7. ASSUME NEW r \in Runs, GenerationFails(r) PROVE StepsInv'
  BY <1>0, <1>7, TaskDoes
<1>8. ASSUME NEW r \in Runs, StepOf(r) PROVE StepsInv'
  <2>1. StepDoes(r)
    BY <1>8, StepOfDoes
  <2>2. MovedTo(r, "judge") \/ MovedTo(r, "act")
    BY <2>1 DEF StepDoes, StepEnds, StepActs
  <2>3. /\ task[r].at = "generate" /\ Others(r)
        /\ agent'[r].steps = agent[r].steps + 1
        /\ task'[r].at \in {"judge", "act"} /\ task'[r].turns = task[r].turns
    BY <2>1, <2>2 DEF StepDoes
  <2>4. /\ agent'[r].steps = task'[r].turns + 1
        /\ task'[r].turns <= Limit(r) /\ task'[r].turns < Limit(r)
    BY <1>0, <2>3
  <2>5. ASSUME NEW q \in Runs \ {r}
        PROVE  task'[q] = task[q] /\ agent'[q] = agent[q]
    BY <2>3
  <2> QED
    BY <1>0, <2>3, <2>4, <2>5
<1>9. ASSUME NEW r \in Runs, NextCall(r) PROVE StepsInv'
  BY <1>0, <1>9, NextCallDoes
<1>10. ASSUME NEW r \in Runs, CallReturns(r) PROVE StepsInv'
  BY <1>0, <1>10, CallReturnsDoes
<1>11. ASSUME NEW r \in Runs, CallTimesOut(r) PROVE StepsInv'
  BY <1>0, <1>11, CallTimesOutDoes
<1>12. ASSUME NEW r \in Runs, EndStep(r) PROVE StepsInv'
  BY <1>0, <1>12, EndStepDoes
<1>13. ASSUME NEW r \in Runs, Retry(r) PROVE StepsInv'
  <2>1. ASSUME NEW to \in {"admit", "fail"}, MovedTo(r, to) PROVE StepsInv'
    BY <1>0, <1>13, <2>1, RetryDoes
  <2> QED
    BY <1>13, <2>1, RetryDoes
<1>14. ASSUME NEW r \in Runs, CountStep(r) PROVE StepsInv'
  BY <1>0, <1>14, TaskDoes
<1>15. ASSUME NEW r \in Runs, Leave(r) PROVE StepsInv'
  BY <1>15 DEF Leave
<1>16. ASSUME NEW r \in Runs, Start(r), UNCHANGED <<agent, task, gone, acted>> PROVE StepsInv'
  BY <1>16
<1>17. ASSUME NEW r \in Runs, Return(r), UNCHANGED <<agent, task, gone, acted>> PROVE StepsInv'
  BY <1>17
<1>18. CASE UNCHANGED vars
  BY <1>18 DEF vars, broker
<1> QED
  BY <1>1, <1>2, <1>3, <1>4, <1>5, <1>6, <1>7, <1>8, <1>9, <1>10, <1>11, <1>12, <1>13, <1>14, <1>15, <1>16, <1>17, <1>18 DEF Next, Sends, Proceeds, Broker, StepOf

\* Reasons and completions stay honest.
LEMMA StopInvStep ==
    ASSUME AgentType, StepsInv, TimeoutInv, StopInv, [Next]_vars
    PROVE  StopInv'
<1> USE DEF StopInv, MovedTo, Ended, Keeps, KeepsHistory, Others
<1>0. \A q \in Runs : /\ task[q].turns \in Nat /\ Limit(q) \in Nat /\ Limit(q)' = Limit(q)
                      /\ task[q].turns <= Limit(q)
  BY AgentAssumption DEF AgentType, Tasks, Limit, StepsInv
<1>1. ASSUME NEW r \in Runs, Arrive(r) PROVE StopInv'
  BY <1>0, <1>1, TaskDoes
<1>2. ASSUME NEW r \in Runs, Announce(r) PROVE StopInv'
  BY <1>0, <1>2, TaskDoes
<1>3. ASSUME NEW r \in Runs, Report(r) PROVE StopInv'
  BY <1>0, <1>3, TaskDoes
<1>4. ASSUME NEW r \in Runs, Fail(r) PROVE StopInv'
  BY <1>0, <1>4, TaskDoes
<1>5. ASSUME NEW r \in Runs, Finish(r) PROVE StopInv'
  BY <1>0, <1>5, TaskDoes
<1>6. ASSUME NEW r \in Runs, Admit(r) PROVE StopInv'
  BY <1>0, <1>6, TaskDoes
<1>7. ASSUME NEW r \in Runs, GenerationFails(r) PROVE StopInv'
  BY <1>0, <1>7, TaskDoes
<1>8. ASSUME NEW r \in Runs, StepOf(r) PROVE StopInv'
  <2>1. StepDoes(r)
    BY <1>0, <1>8, StepOfDoes
  <2>2. CASE StepEnds(r)
    BY <1>0, <2>1, <2>2 DEF StepDoes, StepEnds
  <2>3. ASSUME NEW calls \in Seq(Calls), StepActs(r, calls) PROVE StopInv'
    BY <1>0, <2>1, <2>3 DEF StepDoes, StepActs
  <2> QED
    BY <1>0, <2>1, <2>2, <2>3 DEF StepDoes
<1>9. ASSUME NEW r \in Runs, NextCall(r) PROVE StopInv'
  BY <1>0, <1>9, NextCallDoes
<1>10. ASSUME NEW r \in Runs, CallReturns(r) PROVE StopInv'
  BY <1>0, <1>10, CallReturnsDoes
<1>11. ASSUME NEW r \in Runs, CallTimesOut(r) PROVE StopInv'
  BY <1>0, <1>11, CallTimesOutDoes
<1>12. ASSUME NEW r \in Runs, EndStep(r) PROVE StopInv'
  BY <1>0, <1>12, EndStepDoes
<1>13. ASSUME NEW r \in Runs, Retry(r) PROVE StopInv'
  <2>1. ASSUME NEW to \in {"admit", "fail"}, MovedTo(r, to) PROVE StopInv'
    BY <1>0, <1>13, <2>1, RetryDoes
  <2> QED
    BY <1>0, <1>13, <2>1, RetryDoes
<1>14. ASSUME NEW r \in Runs, CountStep(r) PROVE StopInv'
  BY <1>0, <1>14, TaskDoes
<1>15. ASSUME NEW r \in Runs, Leave(r) PROVE StopInv'
  BY <1>0, <1>15 DEF Leave
<1>16. ASSUME NEW r \in Runs, Start(r), UNCHANGED <<agent, task, gone, acted>> PROVE StopInv'
  BY <1>0, <1>16
<1>17. ASSUME NEW r \in Runs, Return(r), UNCHANGED <<agent, task, gone, acted>> PROVE StopInv'
  BY <1>0, <1>17
<1>18. CASE UNCHANGED vars
  BY <1>18 DEF vars, broker
<1> QED
  BY <1>1, <1>2, <1>3, <1>4, <1>5, <1>6, <1>7, <1>8, <1>9, <1>10, <1>11, <1>12, <1>13, <1>14, <1>15, <1>16, <1>17, <1>18 DEF Next, Sends, Proceeds, Broker, StepOf

\* A call that timed out stays the last one.
LEMMA TimeoutInvStep ==
    ASSUME AgentType, BrokerType, StepsInv, QueueInv, TimeoutInv, [Next]_vars
    PROVE  TimeoutInv'
<1> USE DEF Others, MovedTo, Ended, Keeps
<1>0. /\ \A q \in Runs : agent[q].timeouts \in Nat /\ handlers[q] \in Nat
      /\ handlers \in [Runs -> Nat]
      /\ call \in [Runs -> {"none", "waiting", "running", "answered"}]
  BY DEF AgentType, Agents, BrokerType
<1>1. ASSUME NEW r \in Runs, Arrive(r) PROVE TimeoutInv'
  BY <1>0, <1>1, TaskDoes DEF TimeoutInv, Stopping, broker
<1>2. ASSUME NEW r \in Runs, Announce(r) PROVE TimeoutInv'
  BY <1>0, <1>2, TaskDoes DEF TimeoutInv, Stopping, broker
<1>3. ASSUME NEW r \in Runs, Report(r) PROVE TimeoutInv'
  BY <1>0, <1>3, TaskDoes DEF TimeoutInv, Stopping, broker
<1>4. ASSUME NEW r \in Runs, Fail(r) PROVE TimeoutInv'
  BY <1>0, <1>4, TaskDoes DEF TimeoutInv, Stopping, broker
<1>5. ASSUME NEW r \in Runs, Finish(r) PROVE TimeoutInv'
  BY <1>0, <1>5, TaskDoes DEF TimeoutInv, Stopping, broker
<1>6. ASSUME NEW r \in Runs, Admit(r) PROVE TimeoutInv'
  BY <1>0, <1>6, TaskDoes DEF TimeoutInv, Stopping, broker
<1>7. ASSUME NEW r \in Runs, GenerationFails(r) PROVE TimeoutInv'
  BY <1>0, <1>7, TaskDoes DEF TimeoutInv, Stopping, broker
<1>8. ASSUME NEW r \in Runs, StepOf(r) PROVE TimeoutInv'
  <2>1. StepDoes(r)
    BY <1>8, StepOfDoes
  <2>2. agent[r].timeouts = 0 /\ agent'[r].timeouts = 0 /\ call[r] = "none"
    BY <1>0, <2>1 DEF StepDoes, TimeoutInv, Stopping
  <2>3. task'[r].at \in {"judge", "act"} /\ (task'[r].at = "act" => ~agent'[r].missing)
    BY <2>1 DEF StepDoes, StepEnds, StepActs
  <2> QED
    BY <1>0, <2>1, <2>2, <2>3 DEF StepDoes, TimeoutInv, Stopping, broker
<1>9. ASSUME NEW r \in Runs, NextCall(r) PROVE TimeoutInv'
  <2>1. CASE UNCHANGED <<broker, task>>
    <3>1. /\ task[r].at = "act" /\ agent[r].todo # <<>> /\ Keeps(r) /\ Others(r)
          /\ agent'[r].timedOut = agent[r].timedOut
          /\ agent'[r].timeouts = agent[r].timeouts
      BY <1>9, NextCallDoes
    <3>2. agent[r].timeouts = 0
      BY <1>0, <3>1 DEF TimeoutInv, Stopping
    <3> QED
      BY <1>0, <2>1, <3>1, <3>2 DEF TimeoutInv, Stopping, broker
  <2>2. CASE MovedTo(r, "call") /\ Execute(r, Head(agent[r].todo)) /\ agent' = agent
    <3>1. /\ task[r].at = "act" /\ agent[r].todo # <<>> /\ Keeps(r) /\ Others(r)
          /\ agent'[r].timeouts = agent[r].timeouts
      BY <1>9, NextCallDoes
    <3>2. handlers' = handlers /\ \A q \in Runs \ {r} : call'[q] = call[q]
      BY <1>0, <2>2 DEF Execute
    <3>3. call[r] = "none" /\ (handlers[r] > 0 => agent[r].timeouts > 0)
      BY <1>0, <2>2 DEF Execute, TimeoutInv
    <3>4. agent[r].timeouts = 0 /\ handlers[r] = 0
      BY <1>0, <3>1, <3>3 DEF TimeoutInv, Stopping
    <3> QED
      <4>1. task'[r].at = "call" /\ agent'[r].timeouts = 0 /\ ~agent'[r].missing
        BY <2>2, <3>1, <3>4 DEF TimeoutInv
      <4>2. agent'[r].todo # <<>>
        BY <2>2, <3>1
      <4> QED
        BY <1>0, <3>1, <3>2, <3>4, <4>1, <4>2 DEF TimeoutInv, Stopping
  <2> QED
    BY <1>9, <2>1, <2>2, NextCallDoes
<1>10. ASSUME NEW r \in Runs, CallReturns(r) PROVE TimeoutInv'
  BY <1>0, <1>10, CallReturnsDoes DEF TimeoutInv, Stopping, TakeResult
<1>11. ASSUME NEW r \in Runs, CallTimesOut(r) PROVE TimeoutInv'
  BY <1>0, <1>11, CallTimesOutDoes DEF TimeoutInv, Stopping, Drop
<1>12. ASSUME NEW r \in Runs, EndStep(r) PROVE TimeoutInv'
  BY <1>0, <1>12, EndStepDoes DEF TimeoutInv, Stopping, broker
<1>13. ASSUME NEW r \in Runs, Retry(r) PROVE TimeoutInv'
  <2>1. ASSUME NEW to \in {"admit", "fail"}, MovedTo(r, to) PROVE TimeoutInv'
    BY <1>0, <1>13, <2>1, RetryDoes DEF TimeoutInv, Stopping, broker
  <2> QED
    BY <1>13, <2>1, RetryDoes
<1>14. ASSUME NEW r \in Runs, CountStep(r) PROVE TimeoutInv'
  BY <1>0, <1>14, TaskDoes DEF TimeoutInv, Stopping, broker
<1>15. ASSUME NEW r \in Runs, Leave(r) PROVE TimeoutInv'
  BY <1>15 DEF Leave, TimeoutInv, Stopping, broker
<1>16. ASSUME NEW r \in Runs, Start(r), UNCHANGED <<agent, task, gone, acted>> PROVE TimeoutInv'
  <2>1. call[r] = "waiting"
    BY <1>16 DEF Start, QueueInv, BrokerType
  <2>2. handlers[r] = 0 /\ agent[r].timeouts = 0 /\ task[r].at = "call"
    BY <1>0, <2>1 DEF TimeoutInv
  <2> QED
    BY <1>0, <1>16, <2>1, <2>2 DEF Start, TimeoutInv, Stopping
<1>17. ASSUME NEW r \in Runs, Return(r), UNCHANGED <<agent, task, gone, acted>> PROVE TimeoutInv'
  BY <1>0, <1>17 DEF Return, TimeoutInv, Stopping
<1>18. CASE UNCHANGED vars
  BY <1>18 DEF vars, broker, TimeoutInv, Stopping
<1> QED
  BY <1>1, <1>2, <1>3, <1>4, <1>5, <1>6, <1>7, <1>8, <1>9, <1>10, <1>11, <1>12, <1>13, <1>14, <1>15, <1>16, <1>17, <1>18 DEF Next, Sends, Proceeds, Broker, StepOf

\* The members of Running.
LEMMA InRunning ==
    ASSUME NEW x
    PROVE  x \in Running <=> \E q \in Runs : \E k \in 1..handlers[q] : x = <<q, k>>
  BY DEF Running

\* A permit and a handler come and go together.
LEMMA SlotInvStep ==
    ASSUME AgentType, BrokerType, TimeoutInv, SlotInv, [Next]_vars
    PROVE  SlotInv'
<1>1. /\ IsFiniteSet(Running) /\ Cardinality(Running) \in Nat
      /\ free + Cardinality(Running) = Permits
      /\ handlers \in [Runs -> Nat] /\ free \in Nat
  BY FS_CardinalityType DEF SlotInv, SlotsExact, BrokerType
<1>2. CASE UNCHANGED <<free, handlers>>
  BY <1>2 DEF SlotInv, SlotsExact, Running
<1>3. ASSUME NEW c \in Runs, Start(c) PROVE SlotInv'
  <2> DEFINE h == <<c, handlers[c] + 1>>
  <2>1. free' = free - 1 /\ handlers' = [handlers EXCEPT ![c] = @ + 1]
    BY <1>3 DEF Start
  <2>2. /\ handlers[c] \in Nat /\ handlers'[c] = handlers[c] + 1
        /\ \A q \in Runs : q # c => handlers'[q] = handlers[q]
    BY <1>1, <2>1
  <2>3. Running' = Running \cup {h}
    <3>1. ASSUME NEW x \in Running' PROVE x \in Running \cup {h}
      <4>0. PICK q \in Runs : \E k \in 1..handlers'[q] : x = <<q, k>>
        BY DEF Running
      <4>1. PICK k \in 1..handlers'[q] : x = <<q, k>>
        BY <4>0
      <4>2. k \in 1..handlers[q] \/ (q = c /\ k = handlers[c] + 1)
        <5>1. CASE q = c
          <6>1. k \in Int /\ 1 <= k /\ k <= handlers[c] + 1
            BY <2>2, <5>1
          <6> QED
            BY <2>2, <5>1, <6>1
        <5>2. CASE q # c
          <6>1. handlers'[q] = handlers[q]
            BY <2>2, <5>2
          <6> QED
            BY <6>1
        <5> QED
          BY <5>1, <5>2
      <4> QED
        BY <4>1, <4>2, InRunning
    <3>2. ASSUME NEW x \in Running PROVE x \in Running'
      <4>0. PICK q \in Runs : \E k \in 1..handlers[q] : x = <<q, k>>
        BY InRunning
      <4>1. PICK k \in 1..handlers[q] : x = <<q, k>>
        BY <4>0
      <4>2. k \in 1..handlers'[q]
        BY <1>1, <2>2
      <4> QED
        BY <4>1, <4>2 DEF Running
    <3>3. h \in Running'
      <4>1. handlers[c] + 1 \in 1..handlers'[c]
        BY <2>2
      <4> QED
        BY <4>1 DEF Running
    <3> QED
      BY <3>1, <3>2, <3>3
  <2>4. h \notin Running
    BY <2>2, InRunning
  <2> HIDE DEF h
  <2>5. IsFiniteSet(Running') /\ Cardinality(Running') = Cardinality(Running) + 1
    BY <1>1, <2>3, <2>4, FS_AddElement
  <2> QED
    BY <1>1, <2>1, <2>5 DEF SlotInv, SlotsExact, Permits
<1>4. ASSUME NEW c \in Runs, Return(c) PROVE SlotInv'
  <2> DEFINE h == <<c, handlers[c]>>
  <2>1. handlers[c] > 0 /\ free' = free + 1 /\ handlers' = [handlers EXCEPT ![c] = @ - 1]
    BY <1>4 DEF Return
  <2>2. /\ handlers[c] \in Nat \ {0} /\ handlers'[c] = handlers[c] - 1
        /\ \A q \in Runs : q # c => handlers'[q] = handlers[q]
    BY <1>1, <2>1
  <2>3. Running' = Running \ {h}
    <3>1. ASSUME NEW x \in Running' PROVE x \in Running /\ x # h
      <4>0. PICK q \in Runs : \E k \in 1..handlers'[q] : x = <<q, k>>
        BY DEF Running
      <4>1. PICK k \in 1..handlers'[q] : x = <<q, k>>
        BY <4>0
      <4>2. k \in 1..handlers[q] /\ ~(q = c /\ k = handlers[c])
        BY <1>1, <2>2
      <4> QED
        BY <4>1, <4>2, InRunning
    <3>2. ASSUME NEW x \in Running, x # h PROVE x \in Running'
      <4>0. PICK q \in Runs : \E k \in 1..handlers[q] : x = <<q, k>>
        BY InRunning
      <4>1. PICK k \in 1..handlers[q] : x = <<q, k>>
        BY <4>0
      <4>2. k \in 1..handlers'[q]
        BY <1>1, <2>2, <3>2, <4>1
      <4> QED
        BY <4>1, <4>2 DEF Running
    <3> QED
      BY <3>1, <3>2
  <2>4. h \in Running
    <3>1. handlers[c] \in 1..handlers[c]
      BY <2>2
    <3> QED
      BY <3>1, InRunning
  <2> HIDE DEF h
  <2>5. IsFiniteSet(Running') /\ Cardinality(Running') = Cardinality(Running) - 1
    BY <1>1, <2>3, <2>4, FS_RemoveElement
  <2> QED
    BY <1>1, <2>1, <2>5 DEF SlotInv, SlotsExact, Permits
<1>5. ASSUME NEW c \in Runs, BrokerOf(c), ~Start(c), ~Return(c)
      PROVE  UNCHANGED <<free, handlers>>
  BY <1>5 DEF BrokerOf, Execute, TakeResult, Drop, KeptByHandler
<1> QED
  BY <1>2, <1>3, <1>4, <1>5, BrokerMoves DEF broker

----------------------------------------------------------------------------
(* The window.                                                             *)

\* What NoStagnantActs says of the acts of one run.
Varied(a) ==
    /\ \A i \in 1..(Len(a) - Repeats + 1) :
          \E j \in i..(i + Repeats - 1) : a[j] # a[i]
    /\ \A i \in 1..(Len(a) - Window + 1) :
          \/ a[i] = a[i + 1]
          \/ \E j \in (i + 2)..(i + Window - 1) : a[j] # a[j - 2]

\* The end of a sequence: its type, its length and its items.
LEMMA LastOfProps ==
    ASSUME NEW S, NEW s \in Seq(S), NEW n \in Nat
    PROVE  /\ LastOf(s, n) \in Seq(S)
           /\ Len(LastOf(s, n)) = IF Len(s) <= n THEN Len(s) ELSE n
           /\ \A i \in 1..Len(LastOf(s, n)) :
                 LastOf(s, n)[i] = s[Len(s) - Len(LastOf(s, n)) + i]
<1>1. Len(s) \in Nat /\ \A i \in 1..Len(s) : s[i] \in S
  BY LenProperties, ElementOfSeq
<1>2. CASE Len(s) <= n
  BY <1>1, <1>2 DEF LastOf
<1>3. CASE ~(Len(s) <= n)
  <2> DEFINE m == Len(s) - n + 1
             l == Len(s)
             w == SubSeq(s, m, l)
  <2>1. m \in Int /\ l \in Int /\ m <= l + 1 /\ l - m + 1 = n /\ \A i \in m..l : s[i] \in S
    BY <1>1, <1>3
  <2>2. LastOf(s, n) = w
    BY <1>3 DEF LastOf
  <2> HIDE DEF m, l
  <2>3. /\ w \in Seq(S) /\ Len(w) = IF m <= l THEN l - m + 1 ELSE 0
        /\ \A i \in 1..(l - m + 1) : w[i] = s[m + i - 1]
    BY <2>1, SubSeqProperties
  <2> HIDE DEF w
  <2>4. Len(w) = n
    BY <2>1, <2>3
  <2>5. \A i \in 1..n : w[i] = s[Len(s) - n + i]
    <3>1. \A i \in 1..n : m + i - 1 = Len(s) - n + i
      BY <1>1 DEF m
    <3> QED
      BY <2>1, <2>3, <3>1
  <2> QED
    BY <1>3, <2>2, <2>3, <2>4, <2>5
<1> QED
  BY <1>2, <1>3

\* Its length, by cases.
LEMMA LastOfLen ==
    ASSUME NEW S, NEW s \in Seq(S), NEW n \in Nat
    PROVE  /\ Len(s) <= n => Len(LastOf(s, n)) = Len(s)
           /\ Len(s) > n => Len(LastOf(s, n)) = n
<1>1. Len(LastOf(s, n)) = IF Len(s) <= n THEN Len(s) ELSE n
  BY LastOfProps
<1>2. Len(s) \in Nat
  BY LenProperties
<1> QED
  BY <1>1, <1>2

\* An item of it.
LEMMA LastOfItem ==
    ASSUME NEW S, NEW s \in Seq(S), NEW n \in Nat, NEW i \in 1..Len(LastOf(s, n))
    PROVE  LastOf(s, n)[i] = s[Len(s) - Len(LastOf(s, n)) + i]
  BY LastOfProps

\* The same place, counted from the end of a window and of the whole.
LEMMA Shift ==
    ASSUME NEW ls \in Nat, NEW lt \in Nat, NEW lv \in Nat, NEW i \in 1..lv,
           lv <= lt + 1, lt <= ls
    PROVE  /\ lt + 1 - lv + i \in 1..(lt + 1)
           /\ ls + 1 - lv + i \in 1..(ls + 1)
           /\ ls + 1 - lv + i = ls - lt + (lt + 1 - lv + i)
  OBVIOUS

\* The window of a window is the window of the whole.
LEMMA LastOfAppend ==
    ASSUME NEW S, NEW s \in Seq(S), NEW e \in S, NEW n \in Nat \ {0}
    PROVE  LastOf(Append(LastOf(s, n), e), n) = LastOf(Append(s, e), n)
<1> DEFINE t == LastOf(s, n)
           y == Append(t, e)
           x == Append(s, e)
           v == LastOf(y, n)
           w == LastOf(x, n)
<1>1. /\ t \in Seq(S) /\ Len(s) \in Nat
      /\ Len(t) = IF Len(s) <= n THEN Len(s) ELSE n
      /\ \A i \in 1..Len(t) : t[i] = s[Len(s) - Len(t) + i]
  BY LastOfProps, LenProperties
<1> HIDE DEF t
<1>2. /\ y \in Seq(S) /\ Len(y) = Len(t) + 1
      /\ \A i \in 1..Len(t) : y[i] = t[i]
      /\ y[Len(t) + 1] = e
  BY <1>1, AppendProperties
<1>3. /\ x \in Seq(S) /\ Len(x) = Len(s) + 1
      /\ \A i \in 1..Len(s) : x[i] = s[i]
      /\ x[Len(s) + 1] = e
  BY AppendProperties
<1> HIDE DEF x, y
<1>4. /\ v \in Seq(S) /\ Len(v) = IF Len(y) <= n THEN Len(y) ELSE n
      /\ \A i \in 1..Len(v) : v[i] = y[Len(y) - Len(v) + i]
  <2>1. v \in Seq(S) /\ Len(y) \in Nat
    BY <1>2, LastOfType, LenProperties
  <2>2. (Len(y) <= n => Len(v) = Len(y)) /\ (Len(y) > n => Len(v) = n)
    BY <1>2, LastOfLen
  <2>3. \A i \in 1..Len(v) : v[i] = y[Len(y) - Len(v) + i]
    BY <1>2, LastOfItem
  <2> HIDE DEF v
  <2> QED
    BY <2>1, <2>2, <2>3
<1>5. /\ w \in Seq(S) /\ Len(w) = IF Len(x) <= n THEN Len(x) ELSE n
      /\ \A i \in 1..Len(w) : w[i] = x[Len(x) - Len(w) + i]
  <2>1. w \in Seq(S) /\ Len(x) \in Nat
    BY <1>3, LastOfType, LenProperties
  <2>2. (Len(x) <= n => Len(w) = Len(x)) /\ (Len(x) > n => Len(w) = n)
    BY <1>3, LastOfLen
  <2>3. \A i \in 1..Len(w) : w[i] = x[Len(x) - Len(w) + i]
    BY <1>3, LastOfItem
  <2> HIDE DEF w
  <2> QED
    BY <2>1, <2>2, <2>3
<1> HIDE DEF v, w
<1>6. Len(v) = Len(w) /\ Len(t) \in Nat /\ Len(v) \in Nat /\ Len(v) <= Len(t) + 1
      /\ Len(t) <= Len(s)
  BY <1>1, <1>2, <1>3, <1>4, <1>5
<1> DEFINE ls == Len(s)
           lt == Len(t)
           lv == Len(v)
<1> HIDE DEF ls, lt, lv
<1>7. /\ ls \in Nat /\ lt \in Nat /\ lv \in Nat /\ lv <= lt + 1 /\ lt <= ls
      /\ ls = Len(s) /\ lt = Len(t) /\ lv = Len(v) /\ lv = Len(w)
  BY <1>1, <1>6 DEF ls, lt, lv
<1>8. ASSUME NEW i \in 1..lv PROVE v[i] = w[i]
  <2> DEFINE j == lt + 1 - lv + i
             k == ls + 1 - lv + i
  <2>1. j \in 1..(lt + 1) /\ k \in 1..(ls + 1) /\ k = ls - lt + j
    BY <1>7, Shift
  <2>5. v[i] = y[j] /\ w[i] = x[k]
    <3>1. j = Len(y) - Len(v) + i /\ k = Len(x) - Len(w) + i /\ i \in 1..Len(w)
      BY <1>2, <1>3, <1>7
    <3> QED
      BY <1>4, <1>5, <1>7, <3>1
  <2> HIDE DEF j, k
  <2>2. CASE j = lt + 1
    <3>1. k = ls + 1
      BY <1>7, <2>1, <2>2
    <3> QED
      BY <1>2, <1>3, <1>7, <2>2, <2>5, <3>1
  <2>3. CASE j \in 1..lt
    <3>1. k \in 1..ls
      BY <1>7, <2>1, <2>3
    <3> QED
      BY <1>1, <1>2, <1>3, <1>7, <2>1, <2>3, <2>5, <3>1
  <2> QED
    BY <1>7, <2>1, <2>2, <2>3
<1>9. v = w
  BY <1>4, <1>5, <1>6, <1>8, <1>7, SeqEqual
<1> QED
  BY <1>9 DEF v, w, x, y, t

\* Acts stay varied while the window of what is done next is not stagnant.
LEMMA VariedAppend ==
    ASSUME NEW S, NEW a \in Seq(S), NEW e \in S, Varied(a),
           ~Stagnant(LastOf(Append(a, e), Window))
    PROVE  Varied(Append(a, e))
<1> USE DEF Repeats, Window
<1> DEFINE b == Append(a, e)
           w == LastOf(b, Window)
<1>1. /\ b \in Seq(S) /\ Len(b) = Len(a) + 1 /\ Len(a) \in Nat
      /\ \A i \in 1..Len(a) : b[i] = a[i]
  BY AppendProperties, LenProperties
<1> HIDE DEF b
<1>2. /\ Len(w) = IF Len(b) <= 6 THEN Len(b) ELSE 6
      /\ \A i \in 1..Len(w) : w[i] = b[Len(b) - Len(w) + i]
  <2>1. (Len(b) <= 6 => Len(w) = Len(b)) /\ (Len(b) > 6 => Len(w) = 6)
    BY <1>1, LastOfLen
  <2>2. \A i \in 1..Len(w) : w[i] = b[Len(b) - Len(w) + i]
    BY <1>1, LastOfItem
  <2>3. Len(b) \in Nat
    BY <1>1
  <2> HIDE DEF w
  <2> QED
    BY <2>1, <2>2, <2>3
<1>3. ~Stagnant(w)
  BY DEF b
<1> HIDE DEF w
<1>4. ASSUME NEW i \in 1..(Len(b) - 2) PROVE \E j \in i..(i + 2) : b[j] # b[i]
  <2>1. CASE i \in 1..(Len(a) - 2)
    <3>1. PICK j \in i..(i + 2) : a[j] # a[i]
      BY <2>1 DEF Varied
    <3>2. i \in 1..Len(a) /\ j \in 1..Len(a)
      BY <1>1, <2>1
    <3> QED
      BY <1>1, <3>1, <3>2
  <2>2. CASE i = Len(b) - 2
    <3> DEFINE m == Len(w)
    <3>1. m \in Nat /\ m >= 3 /\ m <= Len(b) /\ Len(b) \in Nat
      BY <1>1, <1>2, <2>2
    <3>2. PICK k \in (m - 2)..m : w[k] # w[m]
      BY <1>3, <3>1 DEF Stagnant, Repeated
    <3> DEFINE l == Len(b) - m + k
    <3>3. /\ l \in i..(i + 2) /\ Len(b) \in i..(i + 2)
          /\ k \in 1..m /\ m \in 1..m /\ Len(b) - m + m = Len(b)
      BY <2>2, <3>1
    <3>4. w[k] = b[l] /\ w[m] = b[Len(b)]
      BY <1>2, <3>3
    <3> HIDE DEF l
    <3>5. b[l] # b[Len(b)]
      BY <3>2, <3>4
    <3> QED
      BY <3>3, <3>5
  <2>3. i \in 1..(Len(a) - 2) \/ i = Len(b) - 2
    BY <1>1
  <2> QED
    BY <2>1, <2>2, <2>3
<1>5. ASSUME NEW i \in 1..(Len(b) - 5)
      PROVE  b[i] = b[i + 1] \/ \E j \in (i + 2)..(i + 5) : b[j] # b[j - 2]
  <2>1. CASE i \in 1..(Len(a) - 5)
    <3>1. a[i] = a[i + 1] \/ \E j \in (i + 2)..(i + 5) : a[j] # a[j - 2]
      BY <2>1 DEF Varied
    <3>2. b[i] = a[i] /\ b[i + 1] = a[i + 1]
      BY <1>1, <2>1
    <3>3. \A j \in (i + 2)..(i + 5) : b[j] = a[j] /\ b[j - 2] = a[j - 2]
      BY <1>1, <2>1
    <3> QED
      BY <3>1, <3>2, <3>3
  <2>2. CASE i = Len(b) - 5
    <3>1. Len(w) = 6 /\ Len(b) \in Nat /\ Len(b) >= 6
      BY <1>1, <1>2, <2>2
    <3>2. \A k \in 1..6 : w[k] = b[i + k - 1]
      <4>1. \A k \in 1..6 : Len(b) - 6 + k = i + k - 1
        BY <2>2, <3>1
      <4> QED
        BY <1>2, <3>1, <4>1
    <3>3. w[1] = w[2] \/ \E k \in 3..6 : w[k] # w[k - 2]
      BY <1>3, <3>1 DEF Stagnant, Oscillating
    <3>4. CASE w[1] = w[2]
      BY <3>2, <3>4
    <3>5. ASSUME NEW k \in 3..6, w[k] # w[k - 2]
          PROVE  \E j \in (i + 2)..(i + 5) : b[j] # b[j - 2]
      <4> DEFINE j == i + k - 1
      <4>1. /\ j \in (i + 2)..(i + 5) /\ k \in 1..6 /\ k - 2 \in 1..6
            /\ i + (k - 2) - 1 = j - 2
        OBVIOUS
      <4>2. w[k] = b[j] /\ w[k - 2] = b[j - 2]
        BY <3>2, <4>1
      <4> HIDE DEF j
      <4> QED
        BY <3>5, <4>1, <4>2
    <3> QED
      BY <3>3, <3>4, <3>5
  <2>3. i \in 1..(Len(a) - 5) \/ i = Len(b) - 5
    BY <1>1
  <2> QED
    BY <2>1, <2>2, <2>3
<1>6. Varied(b)
  <2>1. Len(b) \in Nat
    BY <1>1
  <2>2. /\ Len(b) - 3 + 1 = Len(b) - 2 /\ Len(b) - 6 + 1 = Len(b) - 5
        /\ \A i \in Int : i + 3 - 1 = i + 2 /\ i + 6 - 1 = i + 5
    BY <2>1
  <2> QED
    BY <1>4, <1>5, <2>1, <2>2 DEF Varied
<1> QED
  BY <1>6 DEF b

\* The window follows what was executed, which stays varied.
LEMMA WindowInvStep ==
    ASSUME AgentType, StepsInv, TimeoutInv, WindowInv, NoStagnantActs, [Next]_vars
    PROVE  (WindowInv /\ NoStagnantActs)'
<1> USE DEF Others, MovedTo, Ended, Keeps, KeepsHistory
<1>0. /\ \A q \in Runs : Varied(acted[q])
      /\ acted' = acted => NoStagnantActs'
  BY DEF NoStagnantActs, Varied
<1>1. ASSUME NEW r \in Runs, Arrive(r) PROVE (WindowInv /\ NoStagnantActs)'
  BY <1>0, <1>1, TaskDoes DEF WindowInv
<1>2. ASSUME NEW r \in Runs, Announce(r) PROVE (WindowInv /\ NoStagnantActs)'
  BY <1>0, <1>2, TaskDoes DEF WindowInv
<1>3. ASSUME NEW r \in Runs, Report(r) PROVE (WindowInv /\ NoStagnantActs)'
  BY <1>0, <1>3, TaskDoes DEF WindowInv
<1>4. ASSUME NEW r \in Runs, Fail(r) PROVE (WindowInv /\ NoStagnantActs)'
  BY <1>0, <1>4, TaskDoes DEF WindowInv
<1>5. ASSUME NEW r \in Runs, Finish(r) PROVE (WindowInv /\ NoStagnantActs)'
  BY <1>0, <1>5, TaskDoes DEF WindowInv
<1>6. ASSUME NEW r \in Runs, Admit(r) PROVE (WindowInv /\ NoStagnantActs)'
  BY <1>0, <1>6, TaskDoes DEF WindowInv
<1>7. ASSUME NEW r \in Runs, GenerationFails(r) PROVE (WindowInv /\ NoStagnantActs)'
  BY <1>0, <1>7, TaskDoes DEF WindowInv
<1>8. ASSUME NEW r \in Runs, StepOf(r) PROVE (WindowInv /\ NoStagnantActs)'
  <2>1. StepDoes(r)
    BY <1>8, StepOfDoes
  <2>2. agent[r].recent = LastOf(acted[r], Window)
    BY <2>1 DEF StepDoes, WindowInv
  <2>3. CASE StepEnds(r)
    BY <1>0, <2>1, <2>2, <2>3 DEF StepDoes, StepEnds, WindowInv
  <2>4. ASSUME NEW calls \in Seq(Calls), StepActs(r, calls)
        PROVE  (WindowInv /\ NoStagnantActs)'
    <3>1. /\ acted[r] \in Seq(Seq(Calls))
          /\ acted'[r] = Append(acted[r], calls)
          /\ \A q \in Runs \ {r} : acted'[q] = acted[q]
      BY <2>4 DEF AgentType, StepActs
    <3>2. agent'[r].recent = LastOf(acted'[r], Window)
      BY <2>2, <2>4, <3>1, LastOfAppend DEF StepActs, Noted, Window
    <3>3. Varied(acted'[r])
      <4>1. ~Stagnant(LastOf(Append(acted[r], calls), Window))
        BY <2>4, <3>1, <3>2 DEF StepActs
      <4> QED
        BY <1>0, <3>1, <4>1, VariedAppend
    <3>4. WindowInv'
      <4>1. \A q \in Runs \ {r} :
               agent'[q] = agent[q] /\ task'[q] = task[q] /\ acted'[q] = acted[q]
        BY <2>1, <3>1 DEF StepDoes, Others
      <4>2. SUFFICES ASSUME NEW q \in Runs
                     PROVE  \/ agent'[q].recent = LastOf(acted'[q], Window)
                            \/ /\ agent'[q].phase = "Failed"
                               /\ ~agent'[q].missing
                               /\ task'[q].at \in {"judge", "report", "finish", "over"}
        BY DEF WindowInv
      <4>3. CASE q = r
        BY <3>2, <4>3
      <4>4. CASE q # r
        BY <4>1, <4>4 DEF WindowInv
      <4> QED
        BY <4>3, <4>4
    <3>5. NoStagnantActs'
      <4>1. \A q \in Runs : Varied(acted'[q])
        BY <1>0, <3>1, <3>3
      <4> QED
        BY <4>1 DEF NoStagnantActs, Varied
    <3> QED
      BY <3>4, <3>5
  <2> QED
    BY <2>1, <2>3, <2>4 DEF StepDoes
<1>9. ASSUME NEW r \in Runs, NextCall(r) PROVE (WindowInv /\ NoStagnantActs)'
  BY <1>0, <1>9, NextCallDoes DEF WindowInv
<1>10. ASSUME NEW r \in Runs, CallReturns(r) PROVE (WindowInv /\ NoStagnantActs)'
  BY <1>0, <1>10, CallReturnsDoes DEF WindowInv
<1>11. ASSUME NEW r \in Runs, CallTimesOut(r) PROVE (WindowInv /\ NoStagnantActs)'
  BY <1>0, <1>11, CallTimesOutDoes DEF WindowInv
<1>12. ASSUME NEW r \in Runs, EndStep(r) PROVE (WindowInv /\ NoStagnantActs)'
  BY <1>0, <1>12, EndStepDoes DEF WindowInv
<1>13. ASSUME NEW r \in Runs, Retry(r) PROVE (WindowInv /\ NoStagnantActs)'
  BY <1>0, <1>13, RetryDoes DEF WindowInv
<1>14. ASSUME NEW r \in Runs, CountStep(r) PROVE (WindowInv /\ NoStagnantActs)'
  BY <1>0, <1>14, TaskDoes DEF WindowInv
<1>15. ASSUME NEW r \in Runs, Leave(r) PROVE (WindowInv /\ NoStagnantActs)'
  BY <1>0, <1>15 DEF Leave, WindowInv
<1>16. ASSUME NEW r \in Runs, Start(r), UNCHANGED <<agent, task, gone, acted>> PROVE (WindowInv /\ NoStagnantActs)'
  BY <1>0, <1>16 DEF WindowInv
<1>17. ASSUME NEW r \in Runs, Return(r), UNCHANGED <<agent, task, gone, acted>> PROVE (WindowInv /\ NoStagnantActs)'
  BY <1>0, <1>17 DEF WindowInv
<1>18. CASE UNCHANGED vars
  BY <1>0, <1>18 DEF vars, WindowInv
<1> QED
  BY <1>1, <1>2, <1>3, <1>4, <1>5, <1>6, <1>7, <1>8, <1>9, <1>10, <1>11, <1>12, <1>13, <1>14, <1>15, <1>16, <1>17, <1>18 DEF Next, Sends, Proceeds, Broker, StepOf

----------------------------------------------------------------------------
(* The theorems.                                                           *)

\* The counts, the queue, the permits, the way from a timeout to the end, the
\* reasons and the window keep together in every step of runs and handlers.
THEOREM AgentInductive == Spec => []AgentInv
<1>1. Init => AgentInv
  <2> SUFFICES ASSUME Init PROVE AgentInv
    OBVIOUS
  <2> USE DEF Runs
  <2>1. AgentType
    <3>1. <<>> \in Seq(Calls) /\ <<>> \in Seq(Seq(Calls))
      BY EmptySeq
    <3> DEFINE a == [phase |-> "Observing", steps |-> 0, called |-> FALSE, missing |-> FALSE,
                     recent |-> <<>>, todo |-> <<>>, timedOut |-> FALSE, timeouts |-> 0]
    <3>2. a \in Agents
      BY <3>1 DEF Agents
    <3>3. agent = [r \in Runs |-> a]
      BY DEF Init
    <3> HIDE DEF a
    <3>4. agent \in [Runs -> Agents]
      BY <3>2, <3>3
    <3>5. \A r \in Runs : Retries[r] \in Nat
      BY AgentAssumption
    <3>6. task \in [Runs -> Tasks]
      BY <3>5 DEF Init, Tasks, Places
    <3>7. acted \in [Runs -> Seq(Seq(Calls))] /\ gone \subseteq Runs
      BY <3>1 DEF Init
    <3> QED
      BY <3>4, <3>6, <3>7 DEF AgentType
  <2>2. BrokerType
    BY BrokerAssumption, EmptySeq DEF Init, BrokerInit, BrokerType, Permits
  <2>3. /\ \A r \in Runs : task[r].at \in {"new", "rejected"} /\ task[r].turns = 0
                           /\ task[r].reason = "stop"
        /\ \A r \in Runs : agent[r].steps = 0 /\ agent[r].timeouts = 0
                           /\ agent[r].phase = "Observing" /\ agent[r].recent = <<>>
    BY DEF Init
  <2>4. StepsInv
    <3>1. \A r \in Runs : Limit(r) \in Nat
      BY AgentAssumption DEF Limit
    <3> QED
      BY <2>3, <3>1 DEF StepsInv, Ahead
  <2>5. QueueInv
    BY EmptySeq DEF Init, BrokerInit, QueueInv
  <2>6. SlotInv
    <3>1. \A r \in Runs : handlers[r] = 0
      BY DEF Init, BrokerInit
    <3>2. Running = {}
      BY <3>1, InRunning
    <3>3. free = Permits /\ Permits \in Nat
      BY BrokerAssumption DEF Init, BrokerInit, Permits
    <3> QED
      BY <3>2, <3>3, FS_EmptySet DEF SlotInv, SlotsExact
  <2>7. TimeoutInv
    BY <2>3 DEF Init, BrokerInit, TimeoutInv
  <2>8. StopInv
    BY <2>3 DEF StopInv
  <2>9. acted = [r \in Runs |-> <<>>] /\ Len(<<>>) = 0
    BY EmptySeq DEF Init
  <2>10. WindowInv
    <3>1. LastOf(<<>>, Window) = <<>>
      BY <2>9 DEF LastOf, Window
    <3> QED
      BY <2>3, <2>9, <3>1 DEF WindowInv
  <2>11. NoStagnantActs
    BY <2>9 DEF NoStagnantActs, Repeats, Window
  <2> QED
    BY <2>1, <2>2, <2>4, <2>5, <2>6, <2>7, <2>8, <2>10, <2>11 DEF AgentInv
<1>2. AgentInv /\ [Next]_vars => AgentInv'
  BY AgentTypeStep, BrokerStep, StepsInvStep, SlotInvStep, TimeoutInvStep, StopInvStep,
     WindowInvStep DEF AgentInv
<1> QED
  BY <1>1, <1>2, PTL DEF Spec

\* Every variable keeps its type, and permits are never created (broker.rs, engine.rs, agent.rs).
THEOREM AgentTypeCorrect == Spec => []TypeOK
<1>1. AgentInv => TypeOK
  <2> SUFFICES ASSUME AgentInv PROVE TypeOK
    OBVIOUS
  <2>1. free \in 0..Permits
    <3>1. /\ free \in Nat /\ Cardinality(Running) \in Nat
          /\ free + Cardinality(Running) = Permits
      BY FS_CardinalityType DEF AgentInv, BrokerType, SlotInv, SlotsExact
    <3>2. Permits \in Nat
      BY BrokerAssumption DEF Permits
    <3> QED
      BY <3>1, <3>2
  <2> QED
    BY <2>1 DEF AgentInv, AgentType, BrokerType, Agents, Tasks, TypeOK
<1> QED
  BY <1>1, AgentInductive, PTL

\* However many calls are timed out, dropped or abandoned, every permit is free or held by a
\* handler that runs (ToolBroker::execute_with_cancellation).
THEOREM SlotsStayExact == Spec => []SlotsExact
<1>1. AgentInv => SlotsExact
  BY DEF AgentInv, SlotInv
<1> QED
  BY <1>1, AgentInductive, PTL

\* No call follows one that timed out, and its run is told to have failed (AgentLoop::step).
THEOREM NothingFollowsTimeout == Spec => []NothingAfterTimeout
<1>1. AgentInv => NothingAfterTimeout
  <2> SUFFICES ASSUME AgentInv, NEW r \in Runs
               PROVE  /\ handlers[r] <= 1
                      /\ agent[r].timeouts > 0 =>
                            /\ agent[r].timeouts = 1
                            /\ call[r] = "none"
                            /\ task[r].at \in {"finish", "over"} => task[r].reason = "error"
    BY DEF NothingAfterTimeout
  <2> QED
    BY DEF AgentInv, TimeoutInv, Stopping
<1> QED
  BY <1>1, AgentInductive, PTL

\* The count of the loop and that of the endpoint agree whenever a step begins, so that the
\* limit of step() is never met (AgentLoop::step, retry_required_tool_call, agent.rs).
THEOREM CountsAgree == Spec => []StepsAgree
<1>1. AgentInv => StepsAgree
  <2> SUFFICES ASSUME AgentInv, NEW r \in Runs, task[r].at = "generate"
               PROVE  agent[r].steps = task[r].turns /\ agent[r].steps < Limit(r)
    BY DEF StepsAgree
  <2>1. agent[r].steps = task[r].turns + 0 /\ task[r].turns < Limit(r)
    BY DEF AgentInv, StepsInv, Ahead
  <2>2. task[r].turns \in Nat
    BY DEF AgentInv, AgentType, Tasks
  <2> QED
    BY <2>1, <2>2
<1> QED
  BY <1>1, AgentInductive, PTL

\* What a run executes is never stagnant (AgentLoop::is_stagnating).
THEOREM NeverActsStagnant == Spec => []NoStagnantActs
<1>1. AgentInv => NoStagnantActs
  BY DEF AgentInv
<1> QED
  BY <1>1, AgentInductive, PTL

\* A client that is told "stop" has a run that completed or used up its steps, and a required
\* tool was called (AgentLoop::step, the end of the loop in agent.rs).
THEOREM StopsHonestly == Spec => []HonestStop
<1>1. AgentInv => HonestStop
  BY DEF AgentInv, StopInv, HonestStop
<1> QED
  BY <1>1, AgentInductive, PTL

=============================================================================
