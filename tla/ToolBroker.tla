----------------------------- MODULE ToolBroker -----------------------------
(***************************************************************************)
(* crates/mivi-tools/src/broker.rs: tool handlers run on blocking threads, *)
(* as many at once as the semaphore has permits.  A caller awaits one call *)
(* at a time and may drop the future that does.  A handler cannot be       *)
(* stopped: it keeps its permit until it returns, whether or not somebody  *)
(* still awaits it, and it may never return.                               *)
(***************************************************************************)
EXTENDS Naturals, Sequences, SequencesExt

CONSTANTS
    Callers,
    Calls,
    Registered,      \* the calls that parse and name a registered tool
    MaxExecutions    \* max_concurrent_tool_executions

ASSUME BrokerAssumption ==
    /\ Registered \subseteq Calls
    /\ MaxExecutions \in Nat

VARIABLES
    call,       \* the call each caller awaits: none, waiting, running, answered
    waiting,    \* the callers in the queue of the semaphore
    free,       \* its permits
    handlers    \* how many handlers each caller has started that still run

broker == <<call, waiting, free, handlers>>

\* Zero is treated as one.
Permits == IF MaxExecutions = 0 THEN 1 ELSE MaxExecutions

----------------------------------------------------------------------------
\* execute_with_cancellation, up to its first wait.  A call that does not
\* parse, that names no tool or that was cancelled is answered at once.
Execute(c, k) ==
    /\ call[c] = "none"
    /\ IF k \in Registered
       THEN /\ waiting' = Append(waiting, c)
            /\ call' = [call EXCEPT ![c] = "waiting"]
       ELSE /\ call' = [call EXCEPT ![c] = "answered"]
            /\ UNCHANGED waiting
    /\ UNCHANGED <<free, handlers>>

\* The permit goes to the caller that has waited longest, and with it into the
\* blocking task.
Start(c) ==
    /\ free > 0
    /\ waiting # <<>>
    /\ c = Head(waiting)
    /\ waiting' = Tail(waiting)
    /\ free' = free - 1
    /\ handlers' = [handlers EXCEPT ![c] = @ + 1]
    /\ call' = [call EXCEPT ![c] = "running"]

\* A handler returns or panics: the permit is released, then the join handle,
\* if it still exists, yields.
Return(c) ==
    /\ handlers[c] > 0
    /\ handlers' = [handlers EXCEPT ![c] = @ - 1]
    /\ free' = free + 1
    /\ \/ call[c] = "running" /\ call' = [call EXCEPT ![c] = "answered"]
       \/ /\ handlers[c] > 1 \/ call[c] # "running"
          /\ UNCHANGED call
    /\ UNCHANGED waiting

TakeResult(c) ==
    /\ call[c] = "answered"
    /\ call' = [call EXCEPT ![c] = "none"]
    /\ UNCHANGED <<waiting, free, handlers>>

Stays(q, c) == q

\* A caller is in the queue once at most.
Leaves(q, c) ==
    IF c \in ToSet(q) THEN RemoveAt(q, CHOOSE i \in DOMAIN q : q[i] = c) ELSE q

Released(c) == IF call[c] = "running" THEN free + 1 ELSE free

KeptByHandler(c) == free

\* The future is dropped before it has a result.  A waiting call leaves the
\* queue; a handler that runs goes on and keeps its permit.
Drop(c) ==
    /\ call[c] \in {"waiting", "running"}
    /\ call' = [call EXCEPT ![c] = "none"]
    /\ waiting' = Leaves(waiting, c)
    /\ free' = KeptByHandler(c)
    /\ UNCHANGED handlers

----------------------------------------------------------------------------
BrokerInit ==
    /\ call = [c \in Callers |-> "none"]
    /\ waiting = <<>>
    /\ free = Permits
    /\ handlers = [c \in Callers |-> 0]

Broker(c) == Start(c) \/ Return(c)

BrokerNext ==
    \E c \in Callers :
        \/ Broker(c)
        \/ \E k \in Calls : Execute(c, k)
        \/ TakeResult(c)
        \/ Drop(c)

BrokerSpec == BrokerInit /\ [][BrokerNext]_broker

============================================================================
