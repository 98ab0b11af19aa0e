---------------------------- MODULE AgentServer ----------------------------
(***************************************************************************)
(* The agent endpoint of crates/mivi-server/src/routes/agent.rs with the   *)
(* loop of crates/mivi-agent/src/engine.rs over the ToolBroker: a task per *)
(* run generates, lets AgentLoop::step execute the tool calls of what was  *)
(* generated, reports the results and goes on until the run completes,     *)
(* fails or has used up its steps.                                         *)
(*                                                                         *)
(* The engine is reduced to what a generation may bring: an output or a    *)
(* failure (an error, a deadline, a client that left).  An output is the   *)
(* sequence of the calls its codec finds in it; their rendering            *)
(* ("signature") is the sequence itself.  Timers carry no clock.           *)
(***************************************************************************)
EXTENDS ToolBroker, FiniteSets

CONSTANTS
    Finishing,       \* calls of finish and complete_task
    Allowed,         \* the calls allowed_tools lets each run make
    Required,        \* the runs with tool_choice "required"
    Retries,         \* min(tool_call_retries, 3), of each run
    MaxSteps,        \* max_steps of each request; 0 asks for the default
    DefaultSteps,    \* default_max_agent_steps
    StepsLimit,      \* MAX_AGENT_STEPS_LIMIT
    Says,            \* bound: the outputs the model may produce in each run
    Mixes,           \* bound: the sets of runs that are tried together
    Reading          \* the runs whose client reads until it leaves

\* A run makes its calls one at a time.
Runs == Callers

ASSUME AgentAssumption ==
    /\ Finishing \subseteq Calls
    /\ Allowed \in [Runs -> SUBSET Calls]
    /\ Required \subseteq Runs
    /\ Retries \in [Runs -> Nat]
    /\ MaxSteps \in [Runs -> Nat]
    /\ DefaultSteps \in Nat
    /\ StepsLimit \in Nat
    /\ Says \in [Runs -> SUBSET Seq(Calls)]
    /\ Mixes \subseteq SUBSET Runs
    /\ Reading \subseteq Runs

VARIABLES
    agent,    \* AgentLoop, of each run
    task,     \* the task: where it is and its locals
    gone,     \* the runs whose client has left
    acted     \* the calls of the steps that were executed; the code keeps no such record

vars == <<broker, agent, task, gone, acted>>

Limit(r) ==
    IF MaxSteps[r] = 0 THEN DefaultSteps
    ELSE IF MaxSteps[r] <= StepsLimit THEN MaxSteps[r] ELSE StepsLimit

\* STAGNATION_WINDOW_SIZE, and the length of the sliding window.
Repeats == 3
Window == 6

Goto(r, to) == task' = [task EXCEPT ![r].at = to]

EndWith(r, reason) == task' = [task EXCEPT ![r].at = "finish", ![r].reason = reason]

----------------------------------------------------------------------------
(* The task.  A send of an event waits for a client that does not read and *)
(* fails once it has left.                                                 *)

\* run_agent_task: bad parameters or documents, or no inference permit, are
\* answered with a status; otherwise the permit goes to the task.
Arrive(r) ==
    /\ task[r].at = "new"
    /\ \E to \in {"announce", "rejected"} : Goto(r, to)
    /\ UNCHANGED <<broker, agent, gone, acted>>

\* The role and "Initializing agent", then the first prompt is rendered.
Announce(r) ==
    /\ task[r].at = "announce"
    /\ \E to \in IF r \in gone THEN {"over"} ELSE {"admit", "fail"} : Goto(r, to)
    /\ UNCHANGED <<broker, agent, gone, acted>>

\* The head of the loop, and admit_model_context.
Admit(r) ==
    /\ task[r].at = "admit"
    /\ IF task[r].turns < Limit(r)
       THEN \E to \in {"generate", "fail"} : Goto(r, to)
       ELSE Goto(r, "finish")
    /\ UNCHANGED <<broker, agent, gone, acted>>

GenerationFails(r) ==
    /\ task[r].at = "generate"
    /\ Goto(r, "fail")
    /\ UNCHANGED <<broker, agent, gone, acted>>

----------------------------------------------------------------------------
(* AgentLoop::step.                                                        *)

\* What every step begins with.
Stepped(r) ==
    [agent[r] EXCEPT !.steps = @ + 1, !.missing = FALSE, !.timedOut = FALSE]

InStep(r, state, to) ==
    /\ task[r].at = "generate"
    /\ agent' = [agent EXCEPT ![r] = state]
    /\ Goto(r, to)
    /\ UNCHANGED <<broker, gone>>

\* The codec finds a call it cannot parse.
Unparsable(r) ==
    /\ InStep(r, [Stepped(r) EXCEPT !.phase = "Failed"], "judge")
    /\ UNCHANGED acted

\* No call: the run is complete, unless a tool has to be used first.
NoCalls(r) ==
    /\ <<>> \in Says[r]
    /\ InStep(r, IF r \in Required /\ ~agent[r].called
                 THEN [Stepped(r) EXCEPT !.phase = "Failed", !.missing = TRUE]
                 ELSE [Stepped(r) EXCEPT !.phase = "Completed"], "judge")
    /\ UNCHANGED acted

IsFinish(calls) == \E i \in DOMAIN calls : calls[i] \in Finishing

FinishCalls(r) ==
    /\ \E calls \in Says[r] : IsFinish(calls)
    /\ InStep(r, [Stepped(r) EXCEPT !.phase = "Completed", !.called = TRUE], "judge")
    /\ UNCHANGED acted

LastOf(s, n) == IF Len(s) <= n THEN s ELSE SubSeq(s, Len(s) - n + 1, Len(s))

Noted(recent, calls) == LastOf(Append(recent, calls), Window)

\* The last three are the same.
Repeated(w) ==
    /\ Len(w) >= Repeats
    /\ \A i \in (Len(w) - Repeats + 1)..Len(w) : w[i] = w[Len(w)]

\* Two that alternate fill the window.
Oscillating(w) ==
    /\ Len(w) = Window
    /\ w[1] # w[2]
    /\ \A i \in 3..Window : w[i] = w[i - 2]

RepeatsOnly(w) == Repeated(w)

Stagnant(w) == Repeated(w) \/ Oscillating(w)

\* The calls are executed, unless they repeat what was done before.
ActOrStagnate(r) ==
    \E calls \in Says[r] :
        LET noted == Noted(agent[r].recent, calls)
            next == [Stepped(r) EXCEPT !.called = TRUE, !.recent = noted]
        IN  /\ calls # <<>>
            /\ ~IsFinish(calls)
            /\ IF Stagnant(noted)
               THEN /\ InStep(r, [next EXCEPT !.phase = "Failed"], "judge")
                    /\ UNCHANGED acted
               ELSE /\ InStep(r, [next EXCEPT !.phase = "Acting", !.todo = calls], "act")
                    /\ acted' = [acted EXCEPT ![r] = Append(@, calls)]

\* The calls of a step run in turn; one that is not allowed is answered with an
\* error here, and the broker is asked for the others.
NextCall(r) ==
    /\ task[r].at = "act"
    /\ agent[r].todo # <<>>
    /\ IF Head(agent[r].todo) \in Allowed[r]
       THEN /\ Execute(r, Head(agent[r].todo))
            /\ Goto(r, "call")
            /\ UNCHANGED agent
       ELSE /\ agent' = [agent EXCEPT ![r].todo = Tail(@)]
            /\ UNCHANGED <<broker, task>>
    /\ UNCHANGED <<gone, acted>>

CallReturns(r) ==
    /\ task[r].at = "call"
    /\ TakeResult(r)
    /\ agent' = [agent EXCEPT ![r].todo = Tail(@)]
    /\ Goto(r, "act")
    /\ UNCHANGED <<gone, acted>>

TheOthers(r) == Tail(agent[r].todo)

\* The loop over the calls is left.
AfterTimeout(r) == <<>>

OnceStarted(r) == call[r] = "running"

\* The timer runs from the moment the broker is asked.
Timed(r) == call[r] \in {"waiting", "running"}

\* tool_timeout passes first: the future is dropped and the call cancelled.
CallTimesOut(r) ==
    /\ task[r].at = "call"
    /\ Timed(r)
    /\ Drop(r)
    /\ agent' = [agent EXCEPT ![r].todo = AfterTimeout(r),
                              ![r].timedOut = TRUE,
                              ![r].timeouts = @ + 1]
    /\ Goto(r, "act")
    /\ UNCHANGED <<gone, acted>>

EndStep(r) ==
    /\ task[r].at = "act"
    /\ agent[r].todo = <<>>
    /\ agent' = [agent EXCEPT ![r].phase = IF agent[r].timedOut THEN "Failed" ELSE "Observing"]
    /\ Goto(r, "judge")
    /\ UNCHANGED <<broker, gone, acted>>

----------------------------------------------------------------------------
(* Back in the task.                                                       *)

StepCounted(r) == [agent[r] EXCEPT !.missing = FALSE, !.phase = "Observing"]

\* retry_required_tool_call: the step is not counted.
Rearmed(r) == [agent[r] EXCEPT !.missing = FALSE, !.phase = "Observing", !.steps = @ - 1]

\* A required tool call that is missing may be asked for again.
Retry(r) ==
    /\ task[r].at = "judge"
    /\ agent[r].missing
    /\ task[r].retries > 0
    /\ agent' = [agent EXCEPT ![r] = Rearmed(r)]
    /\ \E to \in {"admit", "fail"} :
          task' = [task EXCEPT ![r].at = to, ![r].retries = @ - 1]
    /\ UNCHANGED <<broker, gone, acted>>

CountStep(r) ==
    /\ task[r].at = "judge"
    /\ ~(agent[r].missing /\ task[r].retries > 0)
    /\ task' = [task EXCEPT ![r].at = "report", ![r].turns = @ + 1]
    /\ UNCHANGED <<broker, agent, gone, acted>>

AlwaysStop(r) == "stop"

ReasonOf(r) == IF agent[r].phase = "Failed" THEN "error" ELSE task[r].reason

\* The results of the step are sent.  The run ends with a client that has left,
\* with a step that failed, and with one that completed it; otherwise the next
\* prompt is rendered.
Report(r) ==
    /\ task[r].at = "report"
    /\ IF r \in gone \/ agent[r].phase \in {"Failed", "Completed"}
       THEN EndWith(r, ReasonOf(r))
       ELSE \E to \in {"admit", "fail"} : Goto(r, to)
    /\ UNCHANGED <<broker, agent, gone, acted>>

\* The error event of any failure; whether it was sent does not matter.
Fail(r) ==
    /\ task[r].at = "fail"
    /\ EndWith(r, "error")
    /\ UNCHANGED <<broker, agent, gone, acted>>

\* The finish reason and [DONE]; the task ends and releases its permit.
Finish(r) ==
    /\ task[r].at = "finish"
    /\ Goto(r, "over")
    /\ UNCHANGED <<broker, agent, gone, acted>>

Leave(r) ==
    /\ task[r].at \notin {"new", "rejected", "over"}
    /\ gone' = gone \cup {r}
    /\ UNCHANGED <<broker, agent, task, acted>>

----------------------------------------------------------------------------
Init ==
    /\ BrokerInit
    /\ agent = [r \in Runs |->
          [phase |-> "Observing", steps |-> 0, called |-> FALSE, missing |-> FALSE,
           recent |-> <<>>, todo |-> <<>>, timedOut |-> FALSE, timeouts |-> 0]]
    /\ \E present \in Mixes :
          task = [r \in Runs |->
             [at |-> IF r \in present THEN "new" ELSE "rejected",
              turns |-> 0, retries |-> Retries[r], reason |-> "stop"]]
    /\ gone = {}
    /\ acted = [r \in Runs |-> <<>>]

\* The steps that wait for the client, unless it has left.
Sends(r) == Announce(r) \/ Report(r) \/ Fail(r) \/ Finish(r)

\* The others; a call that is not answered times out.
Proceeds(r) ==
    \/ Admit(r)
    \/ GenerationFails(r)
    \/ Unparsable(r)
    \/ NoCalls(r)
    \/ FinishCalls(r)
    \/ ActOrStagnate(r)
    \/ NextCall(r)
    \/ CallReturns(r)
    \/ CallTimesOut(r)
    \/ EndStep(r)
    \/ Retry(r)
    \/ CountStep(r)

Next ==
    \E r \in Runs :
        \/ Arrive(r)
        \/ Sends(r)
        \/ Proceeds(r)
        \/ Leave(r)
        \/ Broker(r) /\ UNCHANGED <<agent, task, gone, acted>>

Spec == Init /\ [][Next]_vars

\* The runtime polls every task, timers fire and the engine answers; a client
\* that reads lets every send finish, one that has left makes it fail.  Nothing
\* is assumed of the handlers: one may never return, or never start.
Fairness ==
    \A r \in Runs :
        /\ WF_vars(Proceeds(r))
        /\ WF_vars(r \in Reading \cup gone /\ Sends(r))

FairSpec == Spec /\ Fairness

----------------------------------------------------------------------------
(* Properties.                                                             *)

Places == {"new", "rejected", "announce", "admit", "generate", "act", "call", "judge",
           "report", "fail", "finish", "over"}

\* The shape of the state.
TypeOK ==
    /\ agent \in [Runs ->
          [phase : {"Observing", "Acting", "Completed", "Failed"}, steps : Nat,
           called : BOOLEAN, missing : BOOLEAN, recent : Seq(Seq(Calls)),
           todo : Seq(Calls), timedOut : BOOLEAN, timeouts : Nat]]
    /\ task \in [Runs ->
          [at : Places, turns : Nat, retries : Nat, reason : {"stop", "error"}]]
    /\ gone \subseteq Runs
    /\ call \in [Runs -> {"none", "waiting", "running", "answered"}]
    /\ waiting \in Seq(Runs)
    /\ free \in 0..Permits
    /\ handlers \in [Runs -> Nat]

\* The handlers that run: each caller's, numbered.
Running == UNION {{<<r, i>> : i \in 1..handlers[r]} : r \in Runs}

\* Every permit of the broker is free or held by a handler that runs, however
\* calls are timed out, dropped from the queue or abandoned: the bound on
\* concurrent handlers holds for those nobody waits for any more.
SlotsExact == free + Cardinality(Running) = Permits

\* A call that timed out may still take effect.  It is the last of its run: no
\* other is started or waits, the run fails, and so a run never has two
\* handlers at work.
NothingAfterTimeout ==
    \A r \in Runs :
        /\ handlers[r] <= 1
        /\ agent[r].timeouts > 0 =>
              /\ agent[r].timeouts = 1
              /\ call[r] = "none"
              /\ task[r].at \in {"finish", "over"} => task[r].reason = "error"

\* The loop's count of steps and the endpoint's agree when they are tested,
\* though a retry takes back one of them before the other has been increased:
\* step() never meets its own limit.
StepsAgree ==
    \A r \in Runs :
        task[r].at = "generate" =>
            /\ agent[r].steps = task[r].turns
            /\ agent[r].steps < Limit(r)

\* No run executes the same calls three times in succession, nor two in
\* alternation over six steps.
NoStagnantActs ==
    \A r \in Runs :
        LET a == acted[r] IN
        /\ \A i \in 1..(Len(a) - Repeats + 1) :
              \E j \in i..(i + Repeats - 1) : a[j] # a[i]
        /\ \A i \in 1..(Len(a) - Window + 1) :
              \/ a[i] = a[i + 1]
              \/ \E j \in (i + 2)..(i + Window - 1) : a[j] # a[j - 2]

\* A client that stays and is told "stop" has the results of a run that
\* completed or used up its steps; one that had to use a tool and completed
\* has called one.
HonestStop ==
    \A r \in Runs :
        task[r].at \in {"finish", "over"} /\ task[r].reason = "stop" /\ r \notin gone =>
            /\ agent[r].phase = "Completed" \/ task[r].turns = Limit(r)
            /\ r \in Required /\ agent[r].phase = "Completed" => agent[r].called

\* A run ends and releases its permit although handlers may block every slot
\* of the broker for ever, as long as its client reads or leaves.
EveryRunEnds ==
    \A r \in Runs :
        task[r].at \notin {"new", "rejected"} /\ r \in Reading \cup gone
            ~> task[r].at = "over"

============================================================================
