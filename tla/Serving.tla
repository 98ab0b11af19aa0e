------------------------------ MODULE Serving ------------------------------
(***************************************************************************)
(* The life of a server process: run_serve (crates/mivi-cli/src/runners/   *)
(* serve.rs), the search for a port (bind_with_fallback, crates/mivi-      *)
(* server/src/lib.rs), the memory watchdog (watchdog.rs), and the three    *)
(* things that shut the server down gracefully.                            *)
(*                                                                         *)
(* Other processes take and give back ports while the server looks for     *)
(* one, and the memory of the process goes up and down by itself between   *)
(* two looks of the watchdog.                                              *)
(***************************************************************************)
EXTENDS Integers, Sequences

CONSTANTS
    Settings,       \* [port, attempts, loopback, apiKey, safelock]; port 0 lets the system choose
    PortNumbers,    \* ports that processes compete for
    PortLimit,      \* 65535
    MaxConnections, \* bound: connections at a time
    MaxLooks        \* bound: looks of the watchdog

ASSUME ServingAssumption ==
    /\ Settings \subseteq [port : Nat, attempts : Nat, loopback : BOOLEAN, apiKey : BOOLEAN,
                           safelock : BOOLEAN]
    /\ PortNumbers \subseteq 1..PortLimit
    /\ PortLimit \in Nat
    /\ MaxConnections \in Nat
    /\ MaxLooks \in Nat

VARIABLES
    settings,       \* what the server was started with
    foreign,        \* ports that other processes use
    seenTaken,      \* ports that were in use when the server tried them
    server,         \* "starting", "binding", "serving", "draining", "stopped" or "failed"
    offset,         \* of the port that is tried next
    boundTo,        \* the port of the listener, or -1
    connections,    \* open connections
    memoryUse,      \* what the process uses: "low", "high" (at warn_mb) or "over" (at kill_mb)
    watchdog,       \* "off", "watching" or "ended"
    warnedRecently,
    lock,           \* the watch channel: [value, unseen, open]
    signals,        \* what the future of each signal is: "waiting" or "done"
    looks,          \* what the watchdog saw and did
    cause           \* what ended shutdown_signal, or "none"

servingVars == <<settings, foreign, seenTaken, server, offset, boundTo, connections, memoryUse,
                 watchdog, warnedRecently, lock, signals, looks, cause>>

Signals == {"ctrl_c", "terminate"}

----------------------------------------------------------------------------
(* Start.                                                                  *)

\* validate_bind_security
MayBind(s) == s.loopback \/ s.apiKey

\* Everything before the listener: the address, the workspace, the profile, the model.
Prepare ==
    /\ server = "starting"
    /\ server' \in IF MayBind(settings) THEN {"binding", "failed"} ELSE {"failed"}
    /\ UNCHANGED <<settings, foreign, seenTaken, offset, boundTo, connections, memoryUse, watchdog,
                   warnedRecently, lock, signals, looks, cause>>

\* max_attempts.max(1)
Attempts == IF settings.attempts = 0 THEN 1 ELSE settings.attempts
TriedPort == settings.port + offset

\* The listener is bound, the watchdog spawned, the server started.
Bound(port) ==
    /\ server' = "serving"
    /\ boundTo' = port
    /\ watchdog' = IF settings.safelock THEN "watching" ELSE "ended"
    \* A watchdog that is not enabled returns at once and drops its end of the channel.
    /\ lock' = [value |-> FALSE, unseen |-> FALSE, open |-> settings.safelock]
    /\ UNCHANGED <<seenTaken, offset>>

BindFails ==
    /\ server' = "failed"
    /\ UNCHANGED <<seenTaken, offset, boundTo, watchdog, lock>>

NextPort ==
    /\ seenTaken' = seenTaken \cup ({TriedPort} \cap foreign)
    /\ offset' = offset + 1
    /\ UNCHANGED <<server, boundTo, watchdog, lock>>

\* The search goes on whatever the error was.
AnyError(port) == TRUE
AddressInUse(port) == port \in foreign

TryPort ==
    /\ server = "binding"
    /\ \/ /\ offset >= Attempts \/ TriedPort > PortLimit
          /\ BindFails
       \/ /\ offset < Attempts /\ TriedPort <= PortLimit
          /\ \/ TriedPort # 0 /\ TriedPort \notin foreign /\ Bound(TriedPort)
             \/ TriedPort = 0 /\ \E port \in PortNumbers \ foreign : Bound(port)
             \/ AddressInUse(TriedPort) /\ NextPort
             \/ BindFails       \* any other error ends the search
    /\ UNCHANGED <<settings, foreign, connections, memoryUse, warnedRecently, signals, looks, cause>>

----------------------------------------------------------------------------
(* The watchdog: run_loop, one tick of its interval.                       *)

Tells(value) == [lock EXCEPT !.value = value, !.unseen = TRUE, !.open = FALSE]

\* The warning is repeated on every look.
WarnsAlways == memoryUse = "high"
Warns == memoryUse = "high" /\ ~warnedRecently

Look ==
    /\ watchdog = "watching"
    /\ server \in {"serving", "draining"}
    /\ Len(looks) < MaxLooks
    /\ IF memoryUse = "over"
       THEN watchdog' = "ended" /\ lock' = Tells(TRUE) /\ UNCHANGED warnedRecently
       ELSE warnedRecently' = (memoryUse = "high") /\ UNCHANGED <<watchdog, lock>>
    /\ looks' = Append(looks, [saw |-> memoryUse, warned |-> Warns])
    /\ UNCHANGED <<settings, foreign, seenTaken, server, offset, boundTo, connections, memoryUse,
                   signals, cause>>

----------------------------------------------------------------------------
(* shutdown_signal, polled by axum::serve: three futures, the first one    *)
(* that completes ends it.                                                 *)

\* The signal arrives, or its handler could not be installed: both complete the future.
Arrives(signal) ==
    /\ server = "serving"
    /\ signals[signal] = "waiting"
    /\ signals' = [signals EXCEPT ![signal] = "done"]
    /\ UNCHANGED <<settings, foreign, seenTaken, server, offset, boundTo, connections, memoryUse,
                   watchdog, warnedRecently, lock, looks, cause>>

\* A closed channel taken for the event.
ClosedCounts == lock.unseen \/ ~lock.open
\* wait_for_safelock: an unseen value is delivered though the channel is closed; a closed
\* channel with nothing unseen waits for ever.
SafelockDone == lock.unseen /\ lock.value

Shutdown ==
    /\ server = "serving"
    /\ \/ \E signal \in Signals : signals[signal] = "done" /\ cause' = signal /\ UNCHANGED lock
       \/ SafelockDone /\ cause' = "safelock" /\ lock' = [lock EXCEPT !.unseen = FALSE]
    /\ server' = "draining"
    /\ UNCHANGED <<settings, foreign, seenTaken, offset, boundTo, connections, memoryUse, watchdog,
                   warnedRecently, signals, looks>>

\* axum: with the listener closed no connection is accepted; those that are open are served.
Accept ==
    /\ server = "serving"
    /\ connections < MaxConnections
    /\ connections' = connections + 1
    /\ UNCHANGED <<settings, foreign, seenTaken, server, offset, boundTo, memoryUse, watchdog,
                   warnedRecently, lock, signals, looks, cause>>

Close ==
    /\ server \in {"serving", "draining"}
    /\ connections > 0
    /\ connections' = connections - 1
    /\ UNCHANGED <<settings, foreign, seenTaken, server, offset, boundTo, memoryUse, watchdog,
                   warnedRecently, lock, signals, looks, cause>>

\* run_serve returns, and the process ends with its tasks.
Finish ==
    /\ server = "draining"
    /\ connections = 0
    /\ server' = "stopped"
    /\ watchdog' = "ended"
    /\ boundTo' = -1
    /\ UNCHANGED <<settings, foreign, seenTaken, offset, connections, memoryUse, warnedRecently,
                   lock, signals, looks, cause>>

----------------------------------------------------------------------------
(* The world.                                                              *)

PortTurns ==
    /\ server = "binding"
    /\ \E port \in PortNumbers :
          foreign' = IF port \in foreign THEN foreign \ {port} ELSE foreign \cup {port}
    /\ UNCHANGED <<settings, seenTaken, server, offset, boundTo, connections, memoryUse, watchdog,
                   warnedRecently, lock, signals, looks, cause>>

MemoryTurns ==
    /\ server \in {"serving", "draining"}
    /\ memoryUse' \in {"low", "high", "over"} \ {memoryUse}
    /\ UNCHANGED <<settings, foreign, seenTaken, server, offset, boundTo, connections, watchdog,
                   warnedRecently, lock, signals, looks, cause>>

ServingInit ==
    /\ settings \in Settings
    /\ foreign = {} /\ seenTaken = {}
    /\ server = "starting" /\ offset = 0 /\ boundTo = -1 /\ connections = 0
    /\ memoryUse = "low" /\ watchdog = "off" /\ warnedRecently = FALSE
    /\ lock = [value |-> FALSE, unseen |-> FALSE, open |-> TRUE]
    /\ signals = [s \in Signals |-> "waiting"]
    /\ looks = <<>> /\ cause = "none"

ServingNext ==
    \/ Prepare \/ TryPort \/ Look \/ Shutdown \/ Accept \/ Close \/ Finish
    \/ PortTurns \/ MemoryTurns
    \/ \E signal \in Signals : Arrives(signal)

ServingSpec == ServingInit /\ [][ServingNext]_servingVars

----------------------------------------------------------------------------
(* Properties.                                                             *)

\* The listener has the port asked for or the nearest one above it that was free when it was
\* tried, within the attempts allowed, and never one of another process.
NearestPort ==
    (boundTo # -1 /\ settings.port # 0) =>
        /\ boundTo = TriedPort /\ offset < Attempts /\ boundTo <= PortLimit
        /\ (settings.port..(boundTo - 1)) \subseteq seenTaken
        /\ boundTo \notin foreign

\* Nothing but a signal, or an enabled watchdog that saw too much memory, ends the server; what
\* an enabled watchdog saw is never lost, though it drops its end of the channel at once.
StopsForCause ==
    LET sawTooMuch == settings.safelock /\ \E i \in 1..Len(looks) : looks[i].saw = "over"
    IN  /\ cause = "safelock" => sawTooMuch
        /\ (server = "serving" /\ sawTooMuch) => SafelockDone

\* A rise of the memory over the warning level is reported once: between two warnings a look
\* has seen it below.
WarnsOncePerRise ==
    \A i, j \in 1..Len(looks) :
        (i < j /\ looks[i].warned /\ looks[j].warned) =>
            \E k \in i..j : looks[k].saw = "low"

\* When the process ends all its connections have been served, and a server that may not bind
\* an address never does.
LeavesNothingOpen ==
    /\ server = "stopped" => connections = 0 /\ boundTo = -1
    /\ ~MayBind(settings) => boundTo = -1 /\ server \in {"starting", "failed"}

ServingRight == NearestPort /\ StopsForCause /\ WarnsOncePerRise /\ LeavesNothingOpen

============================================================================
