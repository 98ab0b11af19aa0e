------------------------- MODULE ComponentsProofs -------------------------
(***************************************************************************)
(* Theorems about the components that one caller uses at a time: the start *)
(* of the server with its watchdog, for any settings, ports and number of  *)
(* looks, and the stores, for any contents and sizes.                      *)
(***************************************************************************)
EXTENDS MCStores, Serving, FunctionTheorems, FiniteSetTheorems, SequenceTheorems,
        WellFoundedInduction, TLAPS

----------------------------------------------------------------------------
(* The start of the server and the watchdog.                               *)

\* The types of a server process and of its watchdog
ServingType ==
    /\ settings \in [port : Nat, attempts : Nat, loopback : BOOLEAN, apiKey : BOOLEAN,
                     safelock : BOOLEAN]
    /\ foreign \subseteq PortNumbers
    /\ server \in {"starting", "binding", "serving", "draining", "stopped", "failed"}
    /\ offset \in Nat
    /\ boundTo \in Int
    /\ connections \in Nat
    /\ memoryUse \in {"low", "high", "over"}
    /\ watchdog \in {"off", "watching", "ended"}
    /\ warnedRecently \in BOOLEAN
    /\ lock \in [value : BOOLEAN, unseen : BOOLEAN, open : BOOLEAN]
    /\ signals \in [Signals -> {"waiting", "done"}]
    /\ looks \in Seq([saw : {"low", "high", "over"}, warned : BOOLEAN])
    /\ cause \in {"none", "safelock"} \cup Signals

\* The ports below the one that is tried next were all in use when they were tried.
SearchInv ==
    /\ server \in {"starting", "binding", "failed"} => boundTo = -1
    /\ settings.port..(settings.port + offset - 1) \subseteq seenTaken
    /\ server = "starting" => offset = 0
    /\ NearestPort

\* The watchdog saw the memory over its limit, and was to act on it.
SawTooMuch == settings.safelock /\ \E i \in 1..Len(looks) : looks[i].saw = "over"

\* Until the server ends, what the watchdog saw is what waits in the channel.
LockInv ==
    /\ server \in {"starting", "binding", "failed"} => looks = <<>> /\ watchdog = "off"
    /\ server \in {"starting", "binding", "failed"} => ~lock.unseen
    /\ watchdog = "watching" => settings.safelock /\ ~SawTooMuch
    /\ (\E i \in 1..Len(looks) : looks[i].saw = "over") => settings.safelock
    /\ lock.unseen => SawTooMuch
    /\ StopsForCause

\* While the watchdog watches, it remembers the warning after which it has seen no "low".
WarningInv ==
    /\ \A i \in 1..Len(looks) : looks[i].warned => looks[i].saw = "high"
    /\ watchdog = "watching" =>
          \A i \in 1..Len(looks) :
              looks[i].warned => warnedRecently \/ \E k \in i..Len(looks) : looks[k].saw = "low"
    /\ WarnsOncePerRise

\* A server that may not listen never gets to bind.
EndInv ==
    /\ server = "binding" => MayBind(settings)
    /\ LeavesNothingOpen

\* The inductive invariant of a server process
ServingInv == ServingType /\ SearchInv /\ LockInv /\ WarningInv /\ EndInv

\* Every step keeps the types.
LEMMA ServingTypeStep ==
    ASSUME ServingType, [ServingNext]_servingVars
    PROVE  ServingType'
<1> USE DEF ServingType, Signals
<1>1. CASE Prepare
  BY <1>1 DEF Prepare
<1>2. CASE TryPort
  <2>1. ASSUME NEW port \in Int, Bound(port) PROVE ServingType'
    BY <1>2, <2>1 DEF TryPort, Bound
  <2>2. CASE NextPort
    BY <1>2, <2>2 DEF TryPort, NextPort
  <2>3. CASE BindFails
    BY <1>2, <2>3 DEF TryPort, BindFails
  <2>4. TriedPort \in Int /\ PortNumbers \subseteq Int
    BY ServingAssumption DEF TriedPort
  <2> QED
    BY <1>2, <2>1, <2>2, <2>3, <2>4 DEF TryPort
<1>3. CASE Look
  <2>1. looks' \in Seq([saw : {"low", "high", "over"}, warned : BOOLEAN])
    BY <1>3, AppendProperties DEF Look, Warns
  <2>2. lock' \in [value : BOOLEAN, unseen : BOOLEAN, open : BOOLEAN]
    BY <1>3 DEF Look, Tells
  <2> QED
    BY <1>3, <2>1, <2>2 DEF Look
<1>4. CASE Shutdown
  BY <1>4, ServingAssumption DEF Shutdown
<1>5. CASE Accept
  BY <1>5 DEF Accept
<1>6. CASE Close
  BY <1>6 DEF Close
<1>7. CASE Finish
  BY <1>7 DEF Finish
<1>8. CASE PortTurns
  BY <1>8 DEF PortTurns
<1>9. CASE MemoryTurns
  BY <1>9 DEF MemoryTurns
<1>10. ASSUME NEW signal \in Signals, Arrives(signal) PROVE ServingType'
  BY <1>10 DEF Arrives
<1>11. CASE UNCHANGED servingVars
  BY <1>11 DEF servingVars
<1> QED
  BY <1>1, <1>2, <1>3, <1>4, <1>5, <1>6, <1>7, <1>8, <1>9, <1>10, <1>11 DEF ServingNext

\* The search for a port has seen every nearer port taken.
LEMMA SearchInvStep ==
    ASSUME ServingType, SearchInv, [ServingNext]_servingVars
    PROVE  SearchInv'
<1> USE DEF ServingType, SearchInv, NearestPort, TriedPort, Attempts
<1>1. CASE Prepare
  BY <1>1 DEF Prepare
<1>2. CASE TryPort
  <2>1. settings' = settings /\ foreign' = foreign /\ server = "binding"
    BY <1>2 DEF TryPort
  <2>2. CASE NextPort /\ AddressInUse(TriedPort)
    BY <2>1, <2>2 DEF NextPort, AddressInUse
  <2>3. CASE BindFails
    BY <2>1, <2>3 DEF BindFails
  <2>4. CASE /\ TriedPort # 0 /\ TriedPort \notin foreign /\ Bound(TriedPort)
             /\ offset < Attempts /\ TriedPort <= PortLimit
    BY <2>1, <2>4 DEF Bound
  <2>5. ASSUME TriedPort = 0, NEW port \in PortNumbers, Bound(port) PROVE SearchInv'
    BY <2>1, <2>5, ServingAssumption DEF Bound
  <2> QED
    BY <1>2, <2>2, <2>3, <2>4, <2>5 DEF TryPort
<1>3. CASE Look
  BY <1>3 DEF Look
<1>4. CASE Shutdown
  BY <1>4 DEF Shutdown
<1>5. CASE Accept
  BY <1>5 DEF Accept
<1>6. CASE Close
  BY <1>6 DEF Close
<1>7. CASE Finish
  BY <1>7 DEF Finish
<1>8. CASE PortTurns
  BY <1>8 DEF PortTurns
<1>9. CASE MemoryTurns
  BY <1>9 DEF MemoryTurns
<1>10. ASSUME NEW signal \in Signals, Arrives(signal) PROVE SearchInv'
  BY <1>10 DEF Arrives
<1>11. CASE UNCHANGED servingVars
  BY <1>11 DEF servingVars
<1> QED
  BY <1>1, <1>2, <1>3, <1>4, <1>5, <1>6, <1>7, <1>8, <1>9, <1>10, <1>11 DEF ServingNext

\* Only what the watchdog saw reaches the server, and only once.
LEMMA LockInvStep ==
    ASSUME ServingType, LockInv, [ServingNext]_servingVars
    PROVE  LockInv'
<1> USE DEF ServingType, LockInv, StopsForCause, SawTooMuch, SafelockDone
<1>1. CASE Prepare
  BY <1>1 DEF Prepare
<1>2. CASE TryPort
  BY <1>2 DEF TryPort, Bound, BindFails, NextPort
<1>3. CASE Look
  <2> DEFINE seen == [saw |-> memoryUse, warned |-> Warns]
  <2>1. /\ looks' = Append(looks, seen) /\ watchdog = "watching" /\ settings' = settings
        /\ server' = server /\ server \in {"serving", "draining"} /\ cause' = cause
        /\ settings.safelock /\ ~SawTooMuch
    BY <1>3 DEF Look
  <2>2. seen \in [saw : {"low", "high", "over"}, warned : BOOLEAN]
    BY DEF Warns
  <2>3. /\ Len(looks') = Len(looks) + 1
        /\ looks'[Len(looks) + 1] = seen
        /\ \A i \in 1..Len(looks) : looks'[i] = looks[i]
    BY <2>1, <2>2, AppendProperties
  <2>4. SawTooMuch' <=> memoryUse = "over"
    BY <2>1, <2>3
  <2>5. CASE memoryUse = "over"
    <3>1. watchdog' = "ended" /\ lock' = Tells(TRUE)
      BY <1>3, <2>5 DEF Look
    <3>2. lock'.unseen /\ lock'.value
      BY <3>1 DEF Tells
    <3> QED
      BY <2>1, <2>4, <2>5, <3>1, <3>2
  <2>6. CASE memoryUse # "over"
    <3>1. watchdog' = watchdog /\ lock' = lock
      BY <1>3, <2>6 DEF Look
    <3> QED
      BY <2>1, <2>3, <2>4, <2>6, <3>1
  <2> QED
    BY <2>5, <2>6
<1>4. CASE Shutdown
  <2>1. /\ server' = "draining" /\ looks' = looks /\ settings' = settings
        /\ watchdog' = watchdog /\ server = "serving"
    BY <1>4 DEF Shutdown
  <2>2. SawTooMuch' <=> SawTooMuch
    BY <2>1
  <2>3. lock'.unseen => lock.unseen
    BY <1>4 DEF Shutdown
  <2>4. cause' = "safelock" => SawTooMuch
    BY <1>4 DEF Shutdown, Signals
  <2> QED
    BY <2>1, <2>2, <2>3, <2>4
<1>5. CASE Accept
  BY <1>5 DEF Accept
<1>6. CASE Close
  BY <1>6 DEF Close
<1>7. CASE Finish
  BY <1>7 DEF Finish
<1>8. CASE PortTurns
  BY <1>8 DEF PortTurns
<1>9. CASE MemoryTurns
  BY <1>9 DEF MemoryTurns
<1>10. ASSUME NEW signal \in Signals, Arrives(signal) PROVE LockInv'
  BY <1>10 DEF Arrives
<1>11. CASE UNCHANGED servingVars
  BY <1>11 DEF servingVars
<1> QED
  BY <1>1, <1>2, <1>3, <1>4, <1>5, <1>6, <1>7, <1>8, <1>9, <1>10, <1>11 DEF ServingNext

\* The watchdog remembers its warning until the memory is low again.
LEMMA WarningInvStep ==
    ASSUME ServingType, LockInv, WarningInv, [ServingNext]_servingVars
    PROVE  WarningInv'
<1> USE DEF ServingType, WarningInv, WarnsOncePerRise
<1>1. CASE Prepare
  BY <1>1 DEF Prepare
<1>2. CASE TryPort
  <2>1. looks = <<>> /\ looks' = looks
    BY <1>2 DEF TryPort, LockInv
  <2> QED
    BY <2>1
<1>3. CASE Look
  <2> DEFINE seen == [saw |-> memoryUse, warned |-> Warns]
             last == Len(looks) + 1
  <2>1. looks' = Append(looks, seen) /\ watchdog = "watching"
    BY <1>3 DEF Look
  <2>2. seen \in [saw : {"low", "high", "over"}, warned : BOOLEAN]
    BY DEF Warns
  <2>3. /\ Len(looks') = last /\ looks'[last] = seen
        /\ \A i \in 1..Len(looks) : looks'[i] = looks[i]
    BY <2>1, <2>2, AppendProperties
  <2>4. seen.warned => seen.saw = "high" /\ ~warnedRecently
    BY DEF Warns
  <2>5. watchdog' = "watching" =>
           /\ warnedRecently' = (seen.saw = "high")
           /\ seen.saw # "over"
    BY <1>3 DEF Look
  <2>6. \A i \in 1..last : looks'[i].warned => looks'[i].saw = "high"
    BY <2>3, <2>4
  <2>7. ASSUME watchdog' = "watching", NEW i \in 1..last, looks'[i].warned
        PROVE  warnedRecently' \/ \E k \in i..last : looks'[k].saw = "low"
    <3>1. CASE seen.saw = "low"
      BY <2>3, <3>1
    <3>2. CASE seen.saw = "high"
      BY <2>5, <2>7, <3>2
    <3> QED
      BY <2>2, <2>5, <2>7, <3>1, <3>2
  <2>8. ASSUME NEW i \in 1..last, NEW j \in 1..last, i < j, looks'[i].warned, looks'[j].warned
        PROVE  \E k \in i..j : looks'[k].saw = "low"
    <3>1. i \in 1..Len(looks) /\ looks[i].warned
      BY <2>3, <2>8
    <3>2. CASE j = last
      <4>1. ~warnedRecently
        BY <2>3, <2>4, <2>8, <3>2
      <4>2. PICK k \in i..Len(looks) : looks[k].saw = "low"
        BY <2>1, <3>1, <4>1
      <4>3. k \in 1..Len(looks) /\ k \in i..j
        BY <3>1, <3>2
      <4> QED
        BY <2>3, <4>2, <4>3
    <3>3. CASE j # last
      <4>1. j \in 1..Len(looks) /\ looks[j].warned
        BY <2>3, <2>8, <3>3
      <4>2. PICK k \in i..j : looks[k].saw = "low"
        BY <2>8, <3>1, <4>1
      <4> QED
        BY <2>3, <3>1, <4>1, <4>2
    <3> QED
      BY <3>2, <3>3
  <2> QED
    BY <2>3, <2>6, <2>7, <2>8
<1>4. CASE Shutdown
  BY <1>4 DEF Shutdown
<1>5. CASE Accept
  BY <1>5 DEF Accept
<1>6. CASE Close
  BY <1>6 DEF Close
<1>7. CASE Finish
  BY <1>7 DEF Finish
<1>8. CASE PortTurns
  BY <1>8 DEF PortTurns
<1>9. CASE MemoryTurns
  BY <1>9 DEF MemoryTurns
<1>10. ASSUME NEW signal \in Signals, Arrives(signal) PROVE WarningInv'
  BY <1>10 DEF Arrives
<1>11. CASE UNCHANGED servingVars
  BY <1>11 DEF servingVars
<1> QED
  BY <1>1, <1>2, <1>3, <1>4, <1>5, <1>6, <1>7, <1>8, <1>9, <1>10, <1>11 DEF ServingNext

\* A server that ends leaves nothing open.
LEMMA EndInvStep ==
    ASSUME ServingType, EndInv, [ServingNext]_servingVars
    PROVE  EndInv'
<1> USE DEF ServingType, EndInv, LeavesNothingOpen, MayBind
<1>1. CASE Prepare
  BY <1>1 DEF Prepare
<1>2. CASE TryPort
  BY <1>2 DEF TryPort, Bound, BindFails, NextPort
<1>3. CASE Look
  BY <1>3 DEF Look
<1>4. CASE Shutdown
  BY <1>4 DEF Shutdown
<1>5. CASE Accept
  BY <1>5 DEF Accept
<1>6. CASE Close
  BY <1>6 DEF Close
<1>7. CASE Finish
  BY <1>7 DEF Finish
<1>8. CASE PortTurns
  BY <1>8 DEF PortTurns
<1>9. CASE MemoryTurns
  BY <1>9 DEF MemoryTurns
<1>10. ASSUME NEW signal \in Signals, Arrives(signal) PROVE EndInv'
  BY <1>10 DEF Arrives
<1>11. CASE UNCHANGED servingVars
  BY <1>11 DEF servingVars
<1> QED
  BY <1>1, <1>2, <1>3, <1>4, <1>5, <1>6, <1>7, <1>8, <1>9, <1>10, <1>11 DEF ServingNext

\* The search, the channel of the safelock, the warnings and the end keep together in every step
\* of the server, its watchdog, its clients and the signals (run_serve, ResourceWatchdog).
THEOREM ServingInductive == ServingSpec => []ServingInv
<1>1. ServingInit => ServingInv
  <2> SUFFICES ASSUME ServingInit PROVE ServingInv
    OBVIOUS
  <2>1. ServingType
    <3>1. <<>> \in Seq([saw : {"low", "high", "over"}, warned : BOOLEAN])
      BY EmptySeq
    <3>2. signals \in [Signals -> {"waiting", "done"}]
      BY DEF ServingInit
    <3>3. lock \in [value : BOOLEAN, unseen : BOOLEAN, open : BOOLEAN]
      BY DEF ServingInit
    <3>4. settings \in [port : Nat, attempts : Nat, loopback : BOOLEAN, apiKey : BOOLEAN,
                        safelock : BOOLEAN]
      BY ServingAssumption DEF ServingInit
    <3>5. /\ foreign = {} /\ server = "starting" /\ offset = 0 /\ boundTo = -1
          /\ connections = 0 /\ memoryUse = "low" /\ watchdog = "off"
          /\ warnedRecently = FALSE /\ looks = <<>> /\ cause = "none"
      BY DEF ServingInit
    <3>6. looks \in Seq([saw : {"low", "high", "over"}, warned : BOOLEAN])
      BY <3>1, <3>5
    <3>7. boundTo \in Int /\ offset \in Nat /\ connections \in Nat
      BY <3>5
    <3>8. warnedRecently \in BOOLEAN
      BY <3>5
    <3>9. foreign \subseteq PortNumbers /\ cause \in {"none", "safelock"} \cup Signals
      BY <3>5
    <3> QED
      BY <3>2, <3>3, <3>4, <3>5, <3>6, <3>7, <3>8, <3>9 DEF ServingType
  <2>2. looks = <<>> /\ Len(looks) = 0
    BY EmptySeq DEF ServingInit
  <2>3. SearchInv
    BY <2>1 DEF ServingInit, ServingType, SearchInv, NearestPort
  <2>4. LockInv
    BY <2>2 DEF ServingInit, LockInv, StopsForCause, SawTooMuch
  <2>5. WarningInv /\ EndInv
    BY <2>2 DEF ServingInit, WarningInv, WarnsOncePerRise, EndInv, LeavesNothingOpen
  <2> QED
    BY <2>1, <2>3, <2>4, <2>5 DEF ServingInv
<1>2. ServingInv /\ [ServingNext]_servingVars => ServingInv'
  BY ServingTypeStep, SearchInvStep, LockInvStep, WarningInvStep, EndInvStep DEF ServingInv
<1> QED
  BY <1>1, <1>2, PTL DEF ServingSpec

\* For any settings and ports, whatever other processes, signals and the memory do: the listener
\* has the nearest free port, only a cause ends the server, a rise of the memory is reported once
\* and nothing is left open (run_serve, bind_with_fallback, ResourceWatchdog, shutdown_signal).
THEOREM ServesRight == ServingSpec => []ServingRight
<1>1. ServingInv => ServingRight
  BY DEF ServingInv, SearchInv, LockInv, WarningInv, EndInv, ServingRight
<1> QED
  BY <1>1, ServingInductive, PTL

----------------------------------------------------------------------------
(* Numbers.                                                                *)

\* Every set of numbers has a least one.
LEMMA LeastNumber ==
    ASSUME NEW T \in SUBSET Nat, T # {}
    PROVE  \E n \in T : \A m \in T : n <= m
<1>1. PICK n \in T : \A m \in T : <<m, n>> \notin OpToRel(<, Nat)
  BY NatLessThanWellFounded, WFMin
<1>2. \A m \in T : <<m, n>> \in OpToRel(<, Nat) <=> m < n
  BY Zenon DEF OpToRel
<1>3. \A m \in T : ~(m < n)
  BY <1>1, <1>2, Zenon
<1>4. \A m \in T : m \in Int /\ n \in Int
  OBVIOUS
<1> QED BY <1>3, <1>4

\* A bounded set of numbers has a greatest one.
LEMMA GreatestNumber ==
    ASSUME NEW T \in SUBSET Nat, T # {}, NEW bound \in Nat, \A n \in T : n <= bound
    PROVE  \E n \in T : \A m \in T : m <= n
<1> DEFINE Gaps == {bound - n : n \in T}
<1>1. \A n \in T : bound - n \in Nat
  OBVIOUS
<1>2. Gaps \in SUBSET Nat /\ Gaps # {}
  BY <1>1
<1>3. PICK gap \in Gaps : \A other \in Gaps : gap <= other
  BY <1>2, LeastNumber
<1>4. PICK n \in T : gap = bound - n
  OBVIOUS
<1>5. \A m \in T : bound - n <= bound - m
  BY <1>3, <1>4
<1> QED BY <1>5

\* The smaller of two numbers.
LEMMA MinOfTwo ==
    ASSUME NEW a \in Nat, NEW b \in Nat
    PROVE  Min({a, b}) = IF a < b THEN a ELSE b
<1> DEFINE m == IF a < b THEN a ELSE b
<1>1. m \in {a, b} /\ \A y \in {a, b} : m <= y
  OBVIOUS
<1>2. \A x \in {a, b} : (\A y \in {a, b} : x <= y) => x = m
  OBVIOUS
<1> HIDE DEF m
<1>3. Min({a, b}) = m
  <2>1. Min({a, b}) = CHOOSE x \in {a, b} : \A y \in {a, b} : x <= y
    BY DEF Min
  <2> QED BY <1>1, <1>2, <2>1
<1> QED BY <1>3 DEF m

\* The greater of two numbers.
LEMMA MaxOfTwo ==
    ASSUME NEW a \in Nat, NEW b \in Nat
    PROVE  Max({a, b}) = IF a < b THEN b ELSE a
<1> DEFINE m == IF a < b THEN b ELSE a
<1>1. m \in {a, b} /\ \A y \in {a, b} : m >= y
  OBVIOUS
<1>2. \A x \in {a, b} : (\A y \in {a, b} : x >= y) => x = m
  OBVIOUS
<1> HIDE DEF m
<1>3. Max({a, b}) = m
  <2>1. Max({a, b}) = CHOOSE x \in {a, b} : \A y \in {a, b} : x >= y
    BY DEF Max
  <2> QED BY <1>1, <1>2, <2>1
<1> QED BY <1>3 DEF m

----------------------------------------------------------------------------
(* Sums.                                                                   *)

\* A mark for each of the things that were counted
Tally(counts, things) == {mark \in things \X Nat : mark[2] \in 1..counts[mark[1]]}

\* One thing has as many marks as its number.
LEMMA TallyOfOne ==
    ASSUME NEW counts, NEW x, counts[x] \in Nat
    PROVE  IsFiniteSet(Tally(counts, {x})) /\ Cardinality(Tally(counts, {x})) = counts[x]
<1> DEFINE n == counts[x]
           f == [k \in 1..n |-> <<x, k>>]
<1>1. Tally(counts, {x}) = {<<x, k>> : k \in 1..n}
  BY DEF Tally
<1>2. f \in Bijection(1..n, Tally(counts, {x}))
  <2>1. f \in [1..n -> Tally(counts, {x})]
    BY <1>1
  <2>2. \A i, j \in 1..n : f[i] = f[j] => i = j
    OBVIOUS
  <2>3. \A u \in Tally(counts, {x}) : \E i \in 1..n : f[i] = u
    BY <1>1
  <2> HIDE DEF f, n
  <2> QED BY <2>1, <2>2, <2>3 DEF Bijection, Injection, Surjection, IsInjective
<1>3. IsFiniteSet(1..n) /\ Cardinality(1..n) = n
  BY FS_Interval
<1>4. ExistsBijection(1..n, Tally(counts, {x}))
  BY <1>2 DEF ExistsBijection
<1> QED BY <1>3, <1>4, FS_Bijection

\* The marks of finitely many things are finitely many.
LEMMA TalliesAreFinite ==
    ASSUME NEW D, IsFiniteSet(D), NEW counts \in [D -> Nat]
    PROVE  \A s \in SUBSET D : IsFiniteSet(Tally(counts, s))
<1> DEFINE Bad == {Cardinality(s) : s \in {t \in SUBSET D : ~IsFiniteSet(Tally(counts, t))}}
<1>1. \A s \in SUBSET D : IsFiniteSet(s) /\ Cardinality(s) \in Nat
  BY FS_Subset, FS_CardinalityType
<1>2. Bad \in SUBSET Nat
  BY <1>1
<1>3. SUFFICES ASSUME Bad # {} PROVE FALSE
  OBVIOUS
<1>4. PICK n \in Bad : \A m \in Bad : n <= m
  BY <1>2, <1>3, LeastNumber
<1>5. PICK s \in SUBSET D : ~IsFiniteSet(Tally(counts, s)) /\ Cardinality(s) = n
  OBVIOUS
<1>6. s # {}
  <2>1. Tally(counts, {}) = {}
    BY DEF Tally
  <2> QED BY <1>5, <2>1, FS_EmptySet
<1>7. PICK x \in s : TRUE
  BY <1>6
<1>8. Cardinality(s \ {x}) = n - 1 /\ s \ {x} \in SUBSET D /\ n \in Nat
  BY <1>1, <1>5, <1>7, FS_RemoveElement
<1>9. IsFiniteSet(Tally(counts, s \ {x}))
  <2>1. n - 1 \notin Bad
    BY <1>4, <1>8
  <2> QED BY <1>8, <2>1
<1>10. Tally(counts, s) = Tally(counts, s \ {x}) \cup Tally(counts, {x})
  BY <1>7 DEF Tally
<1>11. IsFiniteSet(Tally(counts, {x}))
  BY TallyOfOne
<1>12. IsFiniteSet(Tally(counts, s \ {x}) \cup Tally(counts, {x}))
  BY <1>9, <1>11, FS_Union
<1> QED BY <1>5, <1>10, <1>12

\* Without one thing there are as many marks less as its number.
LEMMA TallyWithoutOne ==
    ASSUME NEW D, IsFiniteSet(D), NEW counts \in [D -> Nat], NEW s \in SUBSET D, NEW x \in s
    PROVE  Cardinality(Tally(counts, s)) = counts[x] + Cardinality(Tally(counts, s \ {x}))
<1>1. Tally(counts, s) = Tally(counts, {x}) \cup Tally(counts, s \ {x})
  BY DEF Tally
<1>2. Tally(counts, {x}) \cap Tally(counts, s \ {x}) = {}
  BY DEF Tally
<1>3. /\ IsFiniteSet(Tally(counts, {x})) /\ Cardinality(Tally(counts, {x})) = counts[x]
      /\ IsFiniteSet(Tally(counts, s \ {x}))
  BY TallyOfOne, TalliesAreFinite
<1>4. Cardinality(Tally(counts, s \ {x})) \in Nat
  BY <1>3, FS_CardinalityType
<1> DEFINE one == Tally(counts, {x})
           rest == Tally(counts, s \ {x})
<1>5. Cardinality(one \cup rest) = Cardinality(one) + Cardinality(rest) - Cardinality(one \cap rest)
  <2> HIDE DEF one, rest
  <2> QED BY <1>3, FS_Union DEF one, rest
<1>6. Cardinality(one \cap rest) = 0
  BY <1>2, FS_EmptySet
<1>7. counts[x] \in Nat
  OBVIOUS
<1> QED BY <1>1, <1>3, <1>4, <1>5, <1>6, <1>7

\* A fold that adds the numbers up counts their marks, whatever order it takes them in.
LEMMA SumIs ==
    ASSUME NEW D, IsFiniteSet(D), NEW counts \in [D -> Nat]
    PROVE  FoldFunction(LAMBDA a, b : a + b, 0, counts) = Cardinality(Tally(counts, D))
<1> DEFINE Ch(s) == CHOOSE x \in s : TRUE
           Step(h) == [s \in SUBSET D |-> IF s = {} THEN 0 ELSE counts[Ch(s)] + h[s \ {Ch(s)}]]
           iter == CHOOSE h : h = Step(h)
           g == [s \in SUBSET D |-> Cardinality(Tally(counts, s))]
<1>1. FoldFunction(LAMBDA a, b : a + b, 0, counts) = iter[D]
  BY Zenon DEF FoldFunction, FoldFunctionOnSet, MapThenFoldSet
<1>2. \A s \in SUBSET D : s # {} => Ch(s) \in s /\ s \ {Ch(s)} \in SUBSET D
  OBVIOUS
<1>3. g = Step(g)
  <2>1. ASSUME NEW s \in SUBSET D, s # {} PROVE g[s] = counts[Ch(s)] + g[s \ {Ch(s)}]
    <3>1. PICK x \in s : x = Ch(s)
      BY <2>1
    <3>2. g[s] = Cardinality(Tally(counts, s)) /\ g[s \ {x}] = Cardinality(Tally(counts, s \ {x}))
      OBVIOUS
    <3>3. Cardinality(Tally(counts, s)) = counts[x] + Cardinality(Tally(counts, s \ {x}))
      BY TallyWithoutOne
    <3> QED BY <3>1, <3>2, <3>3
  <2>2. g[{}] = 0
    <3>1. Tally(counts, {}) = {}
      BY DEF Tally
    <3> QED BY <3>1, FS_EmptySet
  <2> QED BY <2>1, <2>2
<1>4. iter = Step(iter)
  <2> HIDE DEF g, Step
  <2> QED BY <1>3
<1> DEFINE Bad == {Cardinality(s) : s \in {t \in SUBSET D : iter[t] # g[t]}}
<1>5. \A s \in SUBSET D : IsFiniteSet(s) /\ Cardinality(s) \in Nat
  BY FS_Subset, FS_CardinalityType
<1> HIDE DEF iter
<1>6. Bad = {}
  <2> SUFFICES ASSUME Bad # {} PROVE FALSE
    OBVIOUS
  <2>1. Bad \in SUBSET Nat
    BY <1>5
  <2>2. PICK n \in Bad : \A m \in Bad : n <= m
    BY <2>1, LeastNumber
  <2>3. PICK s \in SUBSET D : iter[s] # g[s] /\ Cardinality(s) = n
    OBVIOUS
  <2>4. s # {}
    <3>1. iter[{}] = 0 /\ g[{}] = 0
      BY <1>3, <1>4
    <3> QED BY <2>3, <3>1
  <2>5. iter[s] = counts[Ch(s)] + iter[s \ {Ch(s)}] /\ g[s] = counts[Ch(s)] + g[s \ {Ch(s)}]
    BY <1>3, <1>4, <2>4
  <2>6. Cardinality(s \ {Ch(s)}) = n - 1 /\ s \ {Ch(s)} \in SUBSET D /\ n \in Nat
    BY <1>2, <1>5, <2>3, <2>4, FS_RemoveElement
  <2>7. n - 1 \notin Bad
    <3>1. ~(n <= n - 1)
      BY <2>6
    <3> QED BY <2>2, <3>1
  <2>8. iter[s \ {Ch(s)}] = g[s \ {Ch(s)}]
    BY <2>6, <2>7
  <2> QED BY <2>3, <2>5, <2>8
<1>7. iter[D] = g[D]
  BY <1>6
<1> QED BY <1>1, <1>7

----------------------------------------------------------------------------
(* Rankings.                                                               *)

\* The number of those before an element of a strict order is its place, and no two have the
\* same.
LEMMA RankIsBijection ==
    ASSUME NEW P, IsFiniteSet(P), NEW R, NEW f,
           \A i \in P : <<i, i>> \notin R,
           \A i, j, k \in P : <<i, j>> \in R /\ <<j, k>> \in R => <<i, k>> \in R,
           \A i, j \in P : i = j \/ <<i, j>> \in R \/ <<j, i>> \in R,
           f = [j \in P |-> Cardinality({i \in P : <<i, j>> \in R}) + 1]
    PROVE  /\ f \in Bijection(P, 1..Cardinality(P))
           /\ \A i, j \in P : <<i, j>> \in R <=> f[i] < f[j]
<1> DEFINE Below(j) == {i \in P : <<i, j>> \in R}
<1>1. \A j \in P : /\ IsFiniteSet(Below(j)) /\ Cardinality(Below(j)) \in Nat
                   /\ f[j] = Cardinality(Below(j)) + 1
  <2> TAKE j \in P
  <2>1. Below(j) \in SUBSET P
    OBVIOUS
  <2>2. IsFiniteSet(Below(j))
    BY <2>1, FS_Subset
  <2> QED BY <2>2, FS_CardinalityType
<1>2. Cardinality(P) \in Nat
  BY FS_CardinalityType
<1>3. ASSUME NEW i \in P, NEW j \in P, <<i, j>> \in R PROVE f[i] < f[j]
  <2>1. Below(i) \in SUBSET Below(j) /\ i \in Below(j) /\ i \notin Below(i)
    BY <1>3
  <2>2. Cardinality(Below(i)) <= Cardinality(Below(j)) /\ Cardinality(Below(i)) # Cardinality(Below(j))
    <3> HIDE DEF Below
    <3> QED BY <1>1, <2>1, FS_Subset
  <2> HIDE DEF Below
  <2> QED BY <1>1, <2>2
<1>4. ASSUME NEW j \in P PROVE f[j] \in 1..Cardinality(P)
  <2>1. Below(j) \in SUBSET P /\ j \notin Below(j)
    OBVIOUS
  <2>2. Cardinality(Below(j)) <= Cardinality(P) /\ Cardinality(Below(j)) # Cardinality(P)
    <3> HIDE DEF Below
    <3> QED BY <1>1, <2>1, FS_Subset
  <2> HIDE DEF Below
  <2> QED BY <1>1, <1>2, <2>2
<1> HIDE DEF Below
<1>5. \A j \in P : f[j] \in Nat
  BY <1>1
<1>12. \A i, j \in P : f[i] = f[j] => i = j
  <2> SUFFICES ASSUME NEW i \in P, NEW j \in P, i # j PROVE f[i] # f[j]
    OBVIOUS
  <2>1. f[i] < f[j] \/ f[j] < f[i]
    BY <1>3
  <2> QED BY <1>5, <2>1
<1>6. f \in [P -> 1..Cardinality(P)]
  BY <1>4
<1>7. f \in Injection(P, 1..Cardinality(P))
  BY <1>6, <1>12, Fun_IsInj
<1>8. IsFiniteSet(1..Cardinality(P)) /\ Cardinality(1..Cardinality(P)) = Cardinality(P)
  <2>1. /\ IsFiniteSet(1..Cardinality(P))
        /\ Cardinality(1..Cardinality(P)) = IF 1 > Cardinality(P) THEN 0 ELSE Cardinality(P) - 1 + 1
    BY <1>2, FS_Interval
  <2> QED BY <1>2, <2>1
<1>9. f \in Surjection(P, 1..Cardinality(P))
  BY <1>7, <1>8, FS_Injection
<1>10. f \in Bijection(P, 1..Cardinality(P))
  BY <1>7, <1>9, Fun_IsBij
<1>11. ASSUME NEW i \in P, NEW j \in P, f[i] < f[j] PROVE <<i, j>> \in R
  <2>1. i # j
    BY <1>5, <1>11
  <2>2. ~(f[j] < f[i])
    BY <1>5, <1>11
  <2> QED BY <1>3, <2>1, <2>2
<1> QED BY <1>3, <1>10, <1>11

\* The items in the order of a rank: each of them once, at its place.
LEMMA InOrderIs ==
    ASSUME NEW S, NEW items, NEW P, NEW n \in Nat, NEW f \in Bijection(P, 1..n),
           IsFiniteSet(P), Cardinality(P) = n,
           \A i \in P : items[i] \in S
    PROVE  /\ InOrder(items, f) \in Seq(S) /\ Len(InOrder(items, f)) = n
           /\ \E c \in [1..n -> P] :
                 /\ \A r \in 1..n : f[c[r]] = r /\ InOrder(items, f)[r] = items[c[r]]
                 /\ \A i \in P : c[f[i]] = i /\ f[i] \in 1..n
<1> DEFINE c == [r \in 1..n |-> CHOOSE i \in P : f[i] = r]
           sorted == InOrder(items, f)
<1>1. /\ f \in [P -> 1..n] /\ DOMAIN f = P
      /\ \A i, j \in P : f[i] = f[j] => i = j
      /\ \A r \in 1..n : \E i \in P : f[i] = r
  BY DEF Bijection, Injection, Surjection, IsInjective
<1>2. \A r \in 1..n : c[r] \in P /\ f[c[r]] = r
  BY <1>1
<1>3. sorted = [r \in 1..n |-> items[CHOOSE i \in P : f[i] = r]]
  BY <1>1 DEF InOrder
<1>4. \A r \in 1..n : sorted[r] = items[c[r]]
  BY <1>3
<1>5. c \in [1..n -> P]
  BY <1>2
<1>6. sorted \in [1..n -> S]
  <2> HIDE DEF c
  <2>1. \A r \in 1..n : items[c[r]] \in S
    BY <1>2
  <2>2. DOMAIN sorted = 1..n /\ sorted = [r \in 1..n |-> sorted[r]]
    BY <1>3
  <2> HIDE DEF sorted
  <2> QED BY <1>4, <2>1, <2>2
<1> HIDE DEF c
<1>7. \A i \in P : f[i] \in 1..n /\ c[f[i]] = i
  BY <1>1, <1>2
<1> HIDE DEF sorted
<1>8. sorted \in Seq(S) /\ Len(sorted) = n
  BY <1>6
<1> QED BY <1>2, <1>4, <1>5, <1>7, <1>8 DEF sorted

\* Ranking keeps every item, and puts none before one of a greater score.
LEMMA RankedIs ==
    ASSUME NEW S, NEW items \in Seq(S), NEW scores,
           \A i \in DOMAIN items : scores[i] \in Int
    PROVE  /\ Ranked(items, scores) \in Seq(S)
           /\ Len(Ranked(items, scores)) = Len(items)
           /\ \E c \in [DOMAIN items -> DOMAIN items] :
                 /\ \A i \in DOMAIN items : Ranked(items, scores)[i] = items[c[i]]
                 /\ \A i, j \in DOMAIN items : c[i] = c[j] => i = j
                 /\ \A i \in DOMAIN items : \E j \in DOMAIN items : c[j] = i
                 /\ \A i, j \in DOMAIN items : i <= j => scores[c[i]] >= scores[c[j]]
<1> DEFINE P == DOMAIN items
           Before(i, j) == scores[i] > scores[j] \/ (scores[i] = scores[j] /\ i < j)
           R == {pair \in P \X P : Before(pair[1], pair[2])}
           f == [j \in P |-> Cardinality({i \in P : <<i, j>> \in R}) + 1]
<1>1. P = 1..Len(items) /\ Len(items) \in Nat /\ \A i \in P : items[i] \in S /\ i \in Nat
  BY LenProperties, ElementOfSeq
<1>2. IsFiniteSet(P) /\ Cardinality(P) = Len(items)
  <2>1. /\ IsFiniteSet(1..Len(items))
        /\ Cardinality(1..Len(items)) = IF 1 > Len(items) THEN 0 ELSE Len(items) - 1 + 1
    BY <1>1, FS_Interval
  <2> QED BY <1>1, <2>1
<1>3. \A i, j \in P : <<i, j>> \in R <=> Before(i, j)
  OBVIOUS
<1>4. \A i, j \in P : i \in Int /\ j \in Int /\ scores[i] \in Int /\ scores[j] \in Int
  BY <1>1
<1> HIDE DEF P
<1>5. \A i \in P : <<i, i>> \notin R
  BY <1>3, <1>4
<1>6. ASSUME NEW i \in P, NEW j \in P, NEW k \in P, <<i, j>> \in R, <<j, k>> \in R
      PROVE  <<i, k>> \in R
  <2>1. Before(i, j) /\ Before(j, k)
    BY <1>3, <1>6
  <2> HIDE DEF R
  <2>2. Before(i, k)
    BY <1>4, <2>1
  <2> QED BY <1>3, <2>2
<1>7. ASSUME NEW i \in P, NEW j \in P PROVE i = j \/ <<i, j>> \in R \/ <<j, i>> \in R
  <2>1. i = j \/ Before(i, j) \/ Before(j, i)
    BY <1>4
  <2> HIDE DEF R
  <2> QED BY <1>3, <2>1
<1>8. f \in Bijection(P, 1..Len(items)) /\ \A i, j \in P : <<i, j>> \in R <=> f[i] < f[j]
  <2> HIDE DEF R
  <2> QED BY <1>2, <1>5, <1>6, <1>7, RankIsBijection
<1>9. Ranked(items, scores) = InOrder(items, f)
  <2>1. \A j \in P : {i \in P : <<i, j>> \in R} = {i \in P : Before(i, j)}
    BY <1>3
  <2>2. f = [j \in P |-> Cardinality({i \in P : Before(i, j)}) + 1]
    BY <2>1
  <2> QED BY <2>2, Zenon DEF Ranked, P
<1> HIDE DEF f, R
<1>10. /\ Ranked(items, scores) \in Seq(S) /\ Len(Ranked(items, scores)) = Len(items)
       /\ \E c \in [1..Len(items) -> P] :
             /\ \A r \in 1..Len(items) :
                   f[c[r]] = r /\ Ranked(items, scores)[r] = items[c[r]]
             /\ \A i \in P : c[f[i]] = i /\ f[i] \in 1..Len(items)
  <2>1. \A i \in P : items[i] \in S
    BY <1>1
  <2>2. Len(items) \in Nat
    BY <1>1
  <2>3. f \in Bijection(P, 1..Len(items))
    BY <1>8
  <2> QED BY <1>2, <1>9, <2>1, <2>2, <2>3, InOrderIs
<1>11. PICK c \in [1..Len(items) -> P] :
             /\ \A r \in 1..Len(items) :
                   f[c[r]] = r /\ Ranked(items, scores)[r] = items[c[r]]
             /\ \A i \in P : c[f[i]] = i /\ f[i] \in 1..Len(items)
  BY <1>10
<1>12. \A i, j \in P : c[i] = c[j] => i = j
  BY <1>1, <1>11
<1>13. \A i \in P : \E j \in P : c[j] = i
  BY <1>1, <1>11
<1>14. ASSUME NEW i \in P, NEW j \in P, i <= j PROVE scores[c[i]] >= scores[c[j]]
  <2>1. ~(f[c[j]] < f[c[i]])
    BY <1>1, <1>4, <1>11, <1>14
  <2>2. c[i] \in P /\ c[j] \in P
    BY <1>1, <1>11
  <2>3. ~Before(c[j], c[i])
    BY <1>3, <1>8, <2>1, <2>2
  <2> QED BY <1>4, <2>2, <2>3
<1>15. \A i \in P : Ranked(items, scores)[i] = items[c[i]]
  BY <1>1, <1>11
<1>16. c \in [P -> P]
  BY <1>1, <1>11
<1> QED BY <1>10, <1>12, <1>13, <1>14, <1>15, <1>16 DEF P

\* Where each of the items that stay was: in the order they are in, and none is missing.
Placings(items, places) ==
    {c \in [DOMAIN Retained(items, places) -> places] :
        /\ \A i \in DOMAIN Retained(items, places) : Retained(items, places)[i] = items[c[i]]
        /\ \A i, j \in DOMAIN Retained(items, places) : c[i] < c[j] <=> i < j
        /\ \A i \in places : \E j \in DOMAIN Retained(items, places) : c[j] = i}

\* What is retained is in the order it was in.
LEMMA RetainedIs ==
    ASSUME NEW S, NEW items \in Seq(S), NEW places \in SUBSET DOMAIN items
    PROVE  Retained(items, places) \in Seq(S) /\ Placings(items, places) # {}
<1> DEFINE R == {pair \in places \X places : pair[1] < pair[2]}
           f == [j \in places |-> Cardinality({i \in places : <<i, j>> \in R}) + 1]
           n == Cardinality(places)
<1>1. /\ DOMAIN items = 1..Len(items) /\ Len(items) \in Nat
      /\ \A i \in places : items[i] \in S /\ i \in Nat
  BY LenProperties, ElementOfSeq
<1>2. IsFiniteSet(places) /\ n \in Nat
  <2>1. IsFiniteSet(1..Len(items))
    BY <1>1, FS_Interval
  <2>2. IsFiniteSet(places)
    BY <1>1, <2>1, FS_Subset
  <2> QED BY <2>2, FS_CardinalityType
<1>3. \A i, j \in places : <<i, j>> \in R <=> i < j
  OBVIOUS
<1>4. \A i \in places : <<i, i>> \notin R
  BY <1>1, <1>3
<1>5. \A i, j, k \in places : <<i, j>> \in R /\ <<j, k>> \in R => <<i, k>> \in R
  <2> HIDE DEF R
  <2> QED BY <1>1, <1>3
<1>6. ASSUME NEW i \in places, NEW j \in places
      PROVE  i = j \/ <<i, j>> \in R \/ <<j, i>> \in R
  <2>1. i = j \/ i < j \/ j < i
    BY <1>1
  <2> HIDE DEF R
  <2> QED BY <1>3, <2>1
<1>7. f \in Bijection(places, 1..n) /\ \A i, j \in places : <<i, j>> \in R <=> f[i] < f[j]
  <2> HIDE DEF R
  <2> QED BY <1>2, <1>4, <1>5, <1>6, RankIsBijection
<1>8. Retained(items, places) = InOrder(items, f)
  <2>1. \A j \in places : {i \in places : <<i, j>> \in R} = {i \in places : i < j}
    BY <1>3
  <2>2. f = [j \in places |-> Cardinality({i \in places : i < j}) + 1]
    BY <2>1
  <2> QED BY <2>2, Zenon DEF Retained
<1> DEFINE new == Retained(items, places)
<1> HIDE DEF R, f, n
<1>9. /\ new \in Seq(S) /\ Len(new) = n
      /\ \E c \in [1..n -> places] :
            /\ \A r \in 1..n : f[c[r]] = r /\ new[r] = items[c[r]]
            /\ \A i \in places : c[f[i]] = i /\ f[i] \in 1..n
  <2>1. n = Cardinality(places) /\ f \in Bijection(places, 1..n)
    BY <1>7 DEF n
  <2>2. \A i \in places : items[i] \in S
    BY <1>1
  <2> QED BY <1>2, <1>8, <2>1, <2>2, InOrderIs
<1> HIDE DEF new
<1>10. PICK c \in [1..n -> places] :
            /\ \A r \in 1..n : f[c[r]] = r /\ new[r] = items[c[r]]
            /\ \A i \in places : c[f[i]] = i /\ f[i] \in 1..n
  BY <1>9
<1>11. DOMAIN new = 1..n
  BY <1>9, LenProperties
<1>12. ASSUME NEW i \in 1..n, NEW j \in 1..n PROVE c[i] < c[j] <=> i < j
  <2>1. c[i] \in places /\ c[j] \in places /\ f[c[i]] = i /\ f[c[j]] = j
    BY <1>10
  <2>2. <<c[i], c[j]>> \in R <=> f[c[i]] < f[c[j]]
    BY <1>7, <2>1
  <2>3. <<c[i], c[j]>> \in R <=> c[i] < c[j]
    BY <1>3, <2>1
  <2> QED BY <2>1, <2>2, <2>3
<1>13. \A i \in places : \E j \in 1..n : c[j] = i
  BY <1>10
<1>14. \A i \in 1..n : new[i] = items[c[i]]
  BY <1>10
<1>15. c \in [DOMAIN new -> places]
  BY <1>11
<1>16. \A i, j \in DOMAIN new : c[i] < c[j] <=> i < j
  BY <1>11, <1>12
<1>17. (\A i \in DOMAIN new : new[i] = items[c[i]]) /\ \A i \in places : \E j \in DOMAIN new : c[j] = i
  BY <1>11, <1>13, <1>14
<1>18. c \in Placings(items, places)
  BY <1>15, <1>16, <1>17 DEF Placings, new
<1> QED BY <1>9, <1>18 DEF new

\* Where each of the best was: no two were at the same place, a greater score comes first,
\* and none that is missing has a greater score than one that is there.
Winners(items, scores, best) ==
    {c \in [DOMAIN items -> DOMAIN items] :
        /\ DOMAIN best \subseteq DOMAIN items
        /\ \A i \in DOMAIN best : best[i] = items[c[i]]
        /\ \A i, j \in DOMAIN best : c[i] = c[j] => i = j
        /\ \A i, j \in DOMAIN best : i <= j => scores[c[i]] >= scores[c[j]]
        /\ \A i \in DOMAIN items :
              \/ \E j \in DOMAIN best : c[j] = i
              \/ \A j \in DOMAIN best : scores[c[j]] >= scores[i]}

\* The best are the first of the ranking: nothing that is left out has a greater score.
LEMMA BestIs ==
    ASSUME NEW S, NEW items \in Seq(S), NEW scores, NEW count \in Nat,
           \A i \in DOMAIN items : scores[i] \in Int
    PROVE  /\ Best(items, scores, count) \in Seq(S)
           /\ Len(Best(items, scores, count)) = IF count < Len(items) THEN count ELSE Len(items)
           /\ Winners(items, scores, Best(items, scores, count)) # {}
<1> DEFINE N == Len(items)
           K == IF count < N THEN count ELSE N
           ranked == Ranked(items, scores)
           best == Best(items, scores, count)
<1>1. N \in Nat /\ DOMAIN items = 1..N
  BY LenProperties
<1>2. ranked \in Seq(S) /\ Len(ranked) = N
  BY RankedIs
<1>3. PICK c \in [DOMAIN items -> DOMAIN items] :
             /\ \A i \in DOMAIN items : ranked[i] = items[c[i]]
             /\ \A i, j \in DOMAIN items : c[i] = c[j] => i = j
             /\ \A i \in DOMAIN items : \E j \in DOMAIN items : c[j] = i
             /\ \A i, j \in DOMAIN items : i <= j => scores[c[i]] >= scores[c[j]]
  BY RankedIs
<1>4. best = SubSeq(ranked, 1, K)
  BY DEF Best
<1> HIDE DEF ranked, best
<1>5. K \in Nat /\ K <= N
  BY <1>1
<1> HIDE DEF N, K
<1>6. /\ best \in Seq(S) /\ Len(best) = K /\ DOMAIN best = 1..K
      /\ \A i \in 1..K : best[i] = ranked[i]
  <2>1. DOMAIN ranked = 1..N
    BY <1>2, LenProperties
  <2>2. \A i \in 1..K : i \in 1..N
    BY <1>1, <1>5
  <2>3. \A i \in 1..K : ranked[i] \in S
    BY <1>2, <2>1, <2>2, ElementOfSeq
  <2>4. /\ best \in Seq(S) /\ Len(best) = IF 1 <= K THEN K - 1 + 1 ELSE 0
        /\ \A i \in 1..K - 1 + 1 : best[i] = ranked[1 + i - 1]
    BY <1>4, <1>5, <2>3, SubSeqProperties
  <2>5. Len(best) = K /\ \A i \in 1..K : best[i] = ranked[i]
    BY <1>5, <2>4
  <2> QED BY <2>4, <2>5, LenProperties
<1>7. 1..K \subseteq 1..N
  BY <1>1, <1>5
<1>8. \A i \in 1..K : best[i] = items[c[i]]
  BY <1>1, <1>3, <1>6, <1>7
<1>9. \A i \in 1..N : (\E j \in 1..K : c[j] = i) \/ \A j \in 1..K : scores[c[j]] >= scores[i]
  <2> SUFFICES ASSUME NEW i \in 1..N, NEW j \in 1..K, ~\E k \in 1..K : c[k] = i
               PROVE  scores[c[j]] >= scores[i]
    OBVIOUS
  <2>1. PICK k \in 1..N : c[k] = i
    BY <1>1, <1>3
  <2>2. k \notin 1..K
    BY <2>1
  <2>3. j <= k
    BY <1>1, <1>5, <2>2
  <2>4. j \in DOMAIN items /\ k \in DOMAIN items
    BY <1>1, <1>7
  <2> QED BY <1>3, <2>1, <2>3, <2>4
<1>10. \A i, j \in 1..K : c[i] = c[j] => i = j
  BY <1>1, <1>3, <1>7
<1>11. \A i, j \in 1..K : i <= j => scores[c[i]] >= scores[c[j]]
  BY <1>1, <1>3, <1>7
<1>12. c \in Winners(items, scores, best)
  <2>1. DOMAIN items = 1..N /\ DOMAIN best = 1..K
    BY <1>1, <1>6
  <2> QED BY <1>7, <1>8, <1>9, <1>10, <1>11, <2>1 DEF Winners
<1> QED BY <1>6, <1>12 DEF best, K, N

----------------------------------------------------------------------------
(* The cells of the KV cache.                                              *)

\* What was exported is the whole of the cells that it was exported from.
ExportedWhole ==
    \E tokens \in Nat :
        /\ DOMAIN exported.data = 0..AllocatedLayers * tokens * ExportUnits - 1
        /\ \A layer \in Mapped, at \in 0..tokens - 1, unit \in 0..Units - 1 :
              exported.data[(LayerMap(layer) * tokens + at) * Units + unit]
                  = Expected(exported.cells[layer][at])[unit]

\* What try_new_selective_with_precision of the KV cache is called with
Formats == [layers : Seq(Nat), precision : Precisions, dimension : Nat]

\* The inductive invariant of the KV cache: either nothing is allocated, or the cells that
\* were written are where they are looked for, and what was exported is whole.
LayoutInv ==
    /\ cells = [layer \in 0..Layers - 1 |-> [at \in 0..Positions - 1 |-> cells[layer][at]]]
    /\ \/ /\ format.precision = "none"
          /\ \A layer \in 0..Layers - 1, at \in 0..Positions - 1 : cells[layer][at] = "none"
          /\ DOMAIN exported.data = {}
       \/ /\ format \in Formats
          /\ buffer = [i \in 0..Len(format.layers) * Positions * Units - 1 |-> buffer[i]]
          /\ CellsSeparate
          /\ ExportedWhole

\* The numbers of the units are no two the same.
LEMMA DistinctProducts ==
    ASSUME NEW m \in Nat, NEW n \in Nat, NEW s \in Nat, NEW u \in 0..s - 1, NEW v \in 0..s - 1,
           m * s + u = n * s + v
    PROVE  m = n /\ u = v
OBVIOUS

\* Quotient and remainder give back the number of a unit and the place in it.
LEMMA QuotientIs ==
    ASSUME NEW a \in Nat, NEW s \in Nat \ {0}, NEW r \in 0..s - 1
    PROVE  (a * s + r) \div s = a /\ (a * s + r) % s = r
OBVIOUS

\* Facts about products that the solver is not asked to find in a larger context
LEMMA ProductsGrow ==
    ASSUME NEW m \in Nat, NEW n \in Nat, NEW s \in Nat
    PROVE  /\ m * s \in Nat /\ m * s + s = (m + 1) * s /\ (m + n) * s = m * s + n * s
           /\ m <= n => m * s <= n * s
           /\ (m * n) * s = m * (n * s)
OBVIOUS

\* The unit of a place lies in the part of its layer.
LEMMA UnitsAreWithin ==
    ASSUME NEW all \in Nat, NEW places \in Nat, NEW units \in Nat,
           NEW c \in 0..all - 1, NEW at \in 0..places - 1, NEW u \in 0..units - 1
    PROVE  (c * places + at) * units + u \in 0..all * places * units - 1
<1>1. (c * places + at) + 1 <= all * places /\ c * places + at \in Nat /\ all * places \in Nat
  <2>1. c + 1 <= all /\ c \in Nat /\ c + 1 \in Nat /\ at + 1 <= places
    OBVIOUS
  <2>2. (c + 1) * places <= all * places /\ (c + 1) * places = c * places + places
    BY <2>1, ProductsGrow
  <2>3. c * places \in Nat /\ all * places \in Nat
    BY <2>1, ProductsGrow
  <2> QED BY <2>1, <2>2, <2>3
<1> DEFINE n == c * places + at
           m == all * places
<1>2. n \in Nat /\ m \in Nat /\ n + 1 <= m
  BY <1>1
<1> HIDE DEF n, m
<1>3. (n + 1) * units <= m * units /\ (n + 1) * units = n * units + units /\ n * units \in Nat
  BY <1>2, ProductsGrow
<1>4. n * units + u \in 0..m * units - 1
  BY <1>2, <1>3
<1> QED BY <1>4 DEF n, m

\* No two cells share a unit.
LEMMA UnitsAreDistinct ==
    ASSUME NEW places \in Nat, NEW units \in Nat,
           NEW c \in Nat, NEW at \in 0..places - 1, NEW u \in 0..units - 1,
           NEW d \in Nat, NEW bt \in 0..places - 1, NEW v \in 0..units - 1,
           (c * places + at) * units + u = (d * places + bt) * units + v
    PROVE  c = d /\ at = bt /\ u = v
<1> DEFINE n == c * places + at
           m == d * places + bt
<1>1. n \in Nat /\ m \in Nat
  BY ProductsGrow
<1>2. n * units + u = m * units + v
  OBVIOUS
<1> HIDE DEF n, m
<1>3. n = m /\ u = v
  BY <1>1, <1>2, DistinctProducts
<1>4. c * places + at = d * places + bt
  BY <1>3 DEF n, m
<1> QED BY <1>3, <1>4, DistinctProducts

\* A token takes some whole number of units, and no less when it is exported.
LEMMA UnitsAre ==
    format \in Formats =>
        Units \in Nat /\ ExportUnits \in Nat /\ Units <= ExportUnits
<1> SUFFICES ASSUME format \in Formats
             PROVE  Units \in Nat /\ ExportUnits \in Nat /\ Units <= ExportUnits
  OBVIOUS
<1>1. \A a \in Nat, b \in Nat \ {0} : CeilDiv(a, b) \in Nat /\ CeilDiv(a, b) * b >= a /\ CeilDiv(a, b) * b \in Nat
  <2> SUFFICES ASSUME NEW a \in Nat, NEW b \in Nat \ {0}
               PROVE  CeilDiv(a, b) \in Nat /\ CeilDiv(a, b) * b >= a /\ CeilDiv(a, b) * b \in Nat
    OBVIOUS
  <2> DEFINE i == a + b - 1
             q == i \div b
             r == i % b
  <2>1. i \in Nat
    OBVIOUS
  <2>2. q \in Nat /\ r \in 0..b - 1 /\ i = q * b + r
    <3> HIDE DEF i
    <3>1. i % b \in 0..b - 1
      BY <2>1
    <3>2. i \div b \in Int
      BY <2>1
    <3>3. i \div b >= 0
      BY <2>1
    <3>4. i = b * (i \div b) + (i % b)
      BY <2>1
    <3> QED BY <3>1, <3>2, <3>3, <3>4
  <2>3. CeilDiv(a, b) = q
    BY DEF CeilDiv
  <2> HIDE DEF q, r
  <2>4. q * b \in Nat
    BY <2>2, ProductsGrow
  <2>5. q * b >= a
    BY <2>2, <2>4
  <2> QED BY <2>2, <2>3, <2>4, <2>5
<1>2. /\ BlockSize \in Nat \ {0} /\ BlockBytes \in Nat /\ NormBytes \in Nat
      /\ WordBytes \in Nat \ {0} /\ format.dimension \in Nat /\ format.precision \in Precisions
      /\ 2 \in Nat \ {0} /\ 4 \in Nat \ {0}
  BY LayoutAssumption DEF Formats
<1> HIDE DEF CeilDiv
<1>3. Units \in Nat
  <2>1. CASE format.precision = "f32"
    BY <1>2, <2>1 DEF Units, UnitsOf
  <2>2. CASE format.precision = "q8_0"
    <3>1. CeilDiv(format.dimension, BlockSize) \in Nat
      BY <1>1, <1>2
    <3>2. CeilDiv(format.dimension, BlockSize) * BlockBytes \in Nat
      BY <1>2, <3>1, ProductsGrow
    <3> QED BY <2>2, <3>2 DEF Units, UnitsOf
  <2>3. CASE format.precision = "tq4"
    BY <1>1, <1>2, <2>3 DEF Units, UnitsOf
  <2>4. CASE format.precision = "tq2"
    BY <1>1, <1>2, <2>4 DEF Units, UnitsOf
  <2> QED BY <1>2, <2>1, <2>2, <2>3, <2>4 DEF Precisions
<1>4. ExportUnits \in Nat /\ Units <= ExportUnits
  BY <1>1, <1>2, <1>3 DEF ExportUnits
<1> QED BY <1>3, <1>4

\* A layer that is mapped has a place in the cache and shares it with no other.
Placed ==
    /\ \A layer \in Mapped : LayerMap(layer) \in 0..Len(format.layers) - 1
    /\ \A layer, other \in Mapped : LayerMap(layer) = LayerMap(other) => layer = other
    /\ \A layer \in Mapped : LayerMap(layer) < AllocatedLayers
    /\ AllocatedLayers \in 0..Len(format.layers)

\* layer_map: layers with attention have places of their own, without gaps.
LEMMA LayersHavePlaces == format \in Formats => Placed
<1> SUFFICES ASSUME format \in Formats PROVE Placed
  OBVIOUS
<1> DEFINE list == format.layers
           N == Len(list)
<1>1. N \in Nat /\ DOMAIN list = 1..N
  BY LenProperties DEF Formats
<1>2. ASSUME NEW layer \in Mapped
      PROVE  LayerMap(layer) \in 0..N - 1 /\ list[LayerMap(layer) + 1] = layer
  <2> DEFINE Holding == {j \in DOMAIN list : list[j] = layer}
             T == {-1} \cup {j - 1 : j \in Holding}
  <2>1. LayerMap(layer) = Max(T) /\ LayerMap(layer) >= 0
    BY DEF LayerMap, Mapped
  <2>2. \E n \in T : \A m \in T : n >= m
    <3>1. CASE Holding = {}
      BY <3>1
    <3>2. CASE Holding # {}
      <4>1. Holding \in SUBSET Nat /\ \A n \in Holding : n <= N /\ n >= 1
        BY <1>1
      <4> HIDE DEF Holding
      <4>2. PICK n \in Holding : \A m \in Holding : m <= n
        BY <1>1, <3>2, <4>1, GreatestNumber
      <4>3. n - 1 \in T /\ \A m \in T : n - 1 >= m
        BY <4>1, <4>2
      <4> QED BY <4>3
    <3> QED BY <3>1, <3>2
  <2>3. Max(T) \in T
    BY <2>2 DEF Max
  <2> HIDE DEF T
  <2>4. PICK j \in Holding : LayerMap(layer) = j - 1
    BY <2>1, <2>3 DEF T
  <2>5. j \in 1..N /\ list[j] = layer
    BY <1>1
  <2> HIDE DEF Holding
  <2>6. LayerMap(layer) + 1 = j
    BY <2>4, <2>5
  <2> QED BY <1>1, <2>4, <2>5, <2>6
<1>3. \A layer, other \in Mapped : LayerMap(layer) = LayerMap(other) => layer = other
  BY <1>2
<1> DEFINE After == {LayerMap(layer) + 1 : layer \in Mapped}
           All == {Cardinality(Mapped)} \cup After
<1>4. IsFiniteSet(Mapped) /\ Cardinality(Mapped) \in Nat /\ Cardinality(Mapped) <= N
  <2> DEFINE f == [layer \in Mapped |-> LayerMap(layer) + 1]
  <2>1. \A layer \in Mapped : f[layer] \in 1..N
    BY <1>1, <1>2
  <2>2. \A layer, other \in Mapped : f[layer] = f[other] => layer = other
    BY <1>1, <1>2, <1>3
  <2>3. f \in Injection(Mapped, 1..N)
    <3>1. f \in [Mapped -> 1..N]
      BY <2>1
    <3> HIDE DEF f
    <3> QED BY <2>2, <3>1 DEF Injection, IsInjective
  <2>4. /\ IsFiniteSet(1..N)
        /\ Cardinality(1..N) = IF 1 > N THEN 0 ELSE N - 1 + 1
    BY <1>1, FS_Interval
  <2>5. Cardinality(1..N) = N
    BY <1>1, <2>4
  <2> HIDE DEF f
  <2>6. IsFiniteSet(Mapped) /\ Cardinality(Mapped) <= Cardinality(1..N)
    BY <2>3, <2>4, FS_Injection
  <2> QED BY <2>5, <2>6, FS_CardinalityType
<1>5. All \in SUBSET Nat /\ All # {} /\ \A n \in All : n <= N
  BY <1>1, <1>2, <1>4
<1>6. \A layer \in Mapped : LayerMap(layer) + 1 \in All
  OBVIOUS
<1>7. AllocatedLayers = Max(All)
  BY DEF AllocatedLayers
<1> HIDE DEF All, After, N, list
<1>8. PICK n \in All : \A m \in All : m <= n
  BY <1>1, <1>5, GreatestNumber
<1>9. Max(All) \in All /\ \A m \in All : Max(All) >= m
  <2>1. \A m \in All : n >= m
    BY <1>5, <1>8
  <2> QED BY <2>1, Zenon DEF Max
<1>10. PICK allocated \in Nat :
          allocated = Max(All) /\ allocated <= N /\ \A m \in All : m \in Nat /\ m <= allocated
  <2>1. Max(All) \in Nat /\ Max(All) <= N
    BY <1>5, <1>9
  <2>2. \A m \in All : m \in Nat /\ m <= Max(All)
    BY <1>5, <1>9, <2>1
  <2> QED BY <2>1, <2>2
<1>11. AllocatedLayers = allocated
  BY <1>7, <1>10
<1>12. AllocatedLayers \in 0..N
  BY <1>1, <1>10, <1>11
<1>13. \A layer \in Mapped : LayerMap(layer) < AllocatedLayers
  BY <1>1, <1>2, <1>6, <1>10, <1>11
<1> QED BY <1>2, <1>3, <1>12, <1>13 DEF Placed, N, list

\* The unit of a cell, in the buffer.
LEMMA CellIs ==
    ASSUME LayoutInv, format \in Formats,
           NEW layer \in Mapped, NEW at \in 0..Positions - 1, NEW unit \in 0..Units - 1
    PROVE  /\ (LayerMap(layer) * Positions + at) * Units + unit
                  \in 0..Len(format.layers) * Positions * Units - 1
           /\ (LayerMap(layer) * Positions + at) * Units + unit \in DOMAIN buffer
           /\ buffer[(LayerMap(layer) * Positions + at) * Units + unit]
                  = Expected(cells[layer][at])[unit]
<1>1. format.precision # "none"
  BY DEF Formats, Precisions
<1>2. /\ buffer = [i \in 0..Len(format.layers) * Positions * Units - 1 |-> buffer[i]]
      /\ CellsSeparate
  BY <1>1 DEF LayoutInv
<1>3. (LayerMap(layer) * Positions + at) * Units + unit \in 0..Len(format.layers) * Positions * Units - 1
  <2>1. Units \in Nat /\ Positions \in Nat /\ Len(format.layers) \in Nat
    BY UnitsAre, LayoutAssumption, LenProperties DEF Formats
  <2>2. LayerMap(layer) \in 0..Len(format.layers) - 1
    BY LayersHavePlaces DEF Placed
  <2> QED BY <2>1, <2>2, UnitsAreWithin
<1>4. Cell(layer, at) = Expected(cells[layer][at])
  BY <1>1, <1>2 DEF CellsSeparate
<1>5. Cell(layer, at)[unit] = buffer[(LayerMap(layer) * Positions + at) * Units + unit]
  BY DEF Cell, Offset
<1>6. DOMAIN buffer = 0..Len(format.layers) * Positions * Units - 1
  BY <1>2
<1> QED BY <1>3, <1>4, <1>5, <1>6

\* The cells are whole if each of their units is.
UnitsWhole ==
    \A layer \in Mapped, at \in 0..Positions - 1, unit \in 0..Units - 1 :
        buffer[(LayerMap(layer) * Positions + at) * Units + unit] = Expected(cells[layer][at])[unit]

\* A cache whose units are right gives back every cell.
LEMMA CellsAreUnits == UnitsWhole => CellsSeparate
<1> SUFFICES ASSUME UnitsWhole, NEW layer \in Mapped, NEW at \in 0..Positions - 1
             PROVE  Cell(layer, at) = Expected(cells[layer][at])
  BY DEF CellsSeparate
<1>1. Cell(layer, at) = [unit \in 0..Units - 1 |-> Expected(cells[layer][at])[unit]]
  BY DEF Cell, Offset, UnitsWhole
<1>2. Expected(cells[layer][at])
          = [unit \in 0..Units - 1 |-> Expected(cells[layer][at])[unit]]
  BY DEF Expected
<1> QED BY <1>1, <1>2

\* A cache that was just allocated holds nothing in any cell.
LEMMA AllocateKeeps ==
    ASSUME LayoutInv, Allocate
    PROVE  LayoutInv'
<1>1. PICK layers \in LayerLists, precision \in Precisions, dimension \in Dimensions :
         /\ format' = [layers |-> layers, precision |-> precision, dimension |-> dimension]
         /\ buffer' = [i \in 0..Len(layers) * Positions * UnitsOf(precision, dimension) - 1 |->
                          Unwritten]
  BY DEF Allocate
<1>2. UNCHANGED <<cells, exported>> /\ format.precision = "none"
  BY DEF Allocate
<1>3. /\ \A layer \in 0..Layers - 1, at \in 0..Positions - 1 : cells[layer][at] = "none"
      /\ DOMAIN exported.data = {}
  BY <1>2 DEF LayoutInv, Formats, Precisions
<1>4. format' \in Formats /\ format'.layers = layers /\ format'.precision = precision /\ format'.dimension = dimension
  BY <1>1, LayoutAssumption DEF Formats
<1>5. Units' = UnitsOf(precision, dimension)
  BY <1>4 DEF Units
<1>6. buffer' = [i \in 0..Len(format'.layers) * Positions * Units' - 1 |-> buffer'[i]]
      /\ \A i \in 0..Len(format'.layers) * Positions * Units' - 1 : buffer'[i] = Unwritten
  BY <1>1, <1>4, <1>5
<1>7. Units' \in Nat /\ ExportUnits' \in Nat /\ Placed'
  <2>1. (format \in Formats => Units \in Nat /\ ExportUnits \in Nat /\ Units <= ExportUnits)'
    BY UnitsAre, PTL
  <2>2. (format \in Formats => Placed)'
    BY LayersHavePlaces, PTL
  <2> QED BY <1>4, <2>1, <2>2
<1>8. CellsSeparate'
  <2>1. ASSUME NEW layer \in Mapped', NEW at \in 0..Positions - 1, NEW unit \in 0..Units' - 1
        PROVE  buffer'[(LayerMap(layer)' * Positions + at) * Units' + unit]
                   = Expected(cells[layer][at])'[unit]
    <3>1. (LayerMap(layer)' * Positions + at) * Units' + unit
             \in 0..Len(format'.layers) * Positions * Units' - 1
      <4>1. Units' \in Nat /\ Positions \in Nat /\ Len(format'.layers) \in Nat
        BY <1>4, <1>7, LayoutAssumption, LenProperties DEF Formats
      <4>2. LayerMap(layer)' \in 0..Len(format'.layers) - 1
        BY <1>7 DEF Placed
      <4> QED BY <4>1, <4>2, UnitsAreWithin
    <3>2. cells'[layer][at] = "none"
      BY <1>2, <1>3 DEF Mapped
    <3>3. Expected(cells[layer][at])'[unit] = Unwritten
      BY <3>2 DEF Expected
    <3> QED BY <1>6, <3>1, <3>3
  <2>2. UnitsWhole'
    BY <2>1 DEF UnitsWhole
  <2>3. (UnitsWhole => CellsSeparate)'
    BY CellsAreUnits, PTL
  <2> QED BY <2>2, <2>3
<1>9. ExportedWhole'
  <2>1. AllocatedLayers' \in Nat
    BY <1>7 DEF Placed
  <2>2. \A a, b \in Nat : a * 0 * b = 0
    OBVIOUS
  <2>3. DOMAIN exported'.data = 0..AllocatedLayers' * 0 * ExportUnits' - 1
    <3>1. AllocatedLayers' * 0 * ExportUnits' = 0
      BY <1>7, <2>1, <2>2
    <3>2. 0..0 - 1 = {}
      OBVIOUS
    <3> QED BY <1>2, <1>3, <3>1, <3>2
  <2> QED BY <2>3 DEF ExportedWhole
<1> QED BY <1>2, <1>4, <1>6, <1>8, <1>9 DEF LayoutInv

\* Where the cells are does not change while the format stays.
LEMMA FormatStays ==
    ASSUME UNCHANGED format
    PROVE  /\ Units' = Units /\ ExportUnits' = ExportUnits /\ AllocatedLayers' = AllocatedLayers
           /\ Mapped' = Mapped
           /\ \A layer : LayerMap(layer)' = LayerMap(layer)
           /\ \A value : Expected(value)' = Expected(value)
BY DEF Units, ExportUnits, AllocatedLayers, Mapped, LayerMap, Expected

\* store writes the units of one cell, and no other cell's.
LEMMA StoreKeeps ==
    ASSUME LayoutInv, NEW layer \in 0..Layers, NEW at \in 0..Positions, NEW value \in Values,
           Store(layer, at, value)
    PROVE  LayoutInv'
<1>1. /\ layer \in Mapped /\ at < Positions /\ format.precision # "none"
      /\ buffer' = AfterStore(layer, at, value)
      /\ cells' = [cells EXCEPT ![layer][at] = value]
      /\ UNCHANGED <<format, exported>>
  BY DEF Store
<1>2. format \in Formats /\ Positions \in Nat /\ at \in 0..Positions - 1
  BY <1>1, LayoutAssumption DEF LayoutInv
<1>3. Units \in Nat /\ Placed
  BY <1>2, UnitsAre, LayersHavePlaces
<1>4. /\ buffer = [i \in 0..Len(format.layers) * Positions * Units - 1 |-> buffer[i]]
      /\ ExportedWhole
      /\ cells = [l \in 0..Layers - 1 |-> [a \in 0..Positions - 1 |-> cells[l][a]]]
  BY <1>1 DEF LayoutInv
<1>5. /\ cells' = [l \in 0..Layers - 1 |-> [a \in 0..Positions - 1 |-> cells'[l][a]]]
      /\ \A l \in 0..Layers - 1, a \in 0..Positions - 1 :
            cells'[l][a] = IF l = layer /\ a = at THEN value ELSE cells[l][a]
  <2>1. DOMAIN cells = 0..Layers - 1
    BY <1>4
  <2>2. \A l \in 0..Layers - 1 : cells[l] = [a \in 0..Positions - 1 |-> cells[l][a]]
    BY <1>4
  <2>3. cells' = [l \in 0..Layers - 1 |->
                     IF l = layer THEN [cells[layer] EXCEPT ![at] = value] ELSE cells[l]]
    BY <1>1, <2>1
  <2>4. layer \in 0..Layers - 1
    BY <1>1 DEF Mapped
  <2>5. [cells[layer] EXCEPT ![at] = value]
           = [a \in 0..Positions - 1 |-> IF a = at THEN value ELSE cells[layer][a]]
    BY <2>2, <2>4
  <2>6. ASSUME NEW l \in 0..Layers - 1
        PROVE  cells'[l] = [a \in 0..Positions - 1 |->
                               IF l = layer /\ a = at THEN value ELSE cells[l][a]]
    <3>1. CASE l = layer
      BY <2>3, <2>5, <3>1
    <3>2. CASE l # layer
      BY <2>2, <2>3, <3>2
    <3> QED BY <3>1, <3>2
  <2>7. \A l \in 0..Layers - 1, a \in 0..Positions - 1 :
            cells'[l][a] = IF l = layer /\ a = at THEN value ELSE cells[l][a]
    BY <2>6
  <2>8. \A l \in 0..Layers - 1 : cells'[l] = [a \in 0..Positions - 1 |-> cells'[l][a]]
    BY <2>6
  <2>9. cells' = [l \in 0..Layers - 1 |-> cells'[l]]
    BY <2>3
  <2>10. cells' = [l \in 0..Layers - 1 |-> [a \in 0..Positions - 1 |-> cells'[l][a]]]
    BY <2>8, <2>9, Zenon
  <2> QED BY <2>7, <2>10
<1> DEFINE start == (LayerMap(layer) * Positions + at) * Units
<1>6. /\ buffer' = [i \in 0..Len(format.layers) * Positions * Units - 1 |-> buffer'[i]]
      /\ \A i \in 0..Len(format.layers) * Positions * Units - 1 :
            buffer'[i] = IF i - start \in 0..Units - 1
                         THEN [value |-> value, unit |-> i - start] ELSE buffer[i]
  <2>1. AfterStore(layer, at, value) =
           [i \in DOMAIN buffer |-> IF i - start \in 0..Units - 1
                                    THEN [value |-> value, unit |-> i - start] ELSE buffer[i]]
    BY DEF AfterStore, Offset
  <2>2. DOMAIN buffer = 0..Len(format.layers) * Positions * Units - 1
    BY <1>4
  <2> HIDE DEF start
  <2> QED BY <1>1, <2>1, <2>2
<1>7. ASSUME NEW l \in Mapped, NEW a \in 0..Positions - 1, NEW unit \in 0..Units - 1
      PROVE  buffer'[(LayerMap(l) * Positions + a) * Units + unit] = Expected(cells'[l][a])[unit]
  <2>1. l \in 0..Layers - 1 /\ LayerMap(l) \in Nat /\ LayerMap(layer) \in Nat
    BY <1>1, <1>3 DEF Mapped, Placed
  <2> DEFINE i == (LayerMap(l) * Positions + a) * Units + unit
  <2>2. /\ i \in 0..Len(format.layers) * Positions * Units - 1
        /\ buffer[i] = Expected(cells[l][a])[unit]
    BY <1>2, CellIs
  <2>3. buffer'[i] = IF i - start \in 0..Units - 1
                     THEN [value |-> value, unit |-> i - start] ELSE buffer[i]
    BY <1>6, <2>2
  <2>4. start \in Nat /\ i \in Nat
    <3>1. LayerMap(layer) * Positions + at \in Nat
      BY <1>2, <2>1, ProductsGrow
    <3>2. LayerMap(l) * Positions + a \in Nat
      BY <1>2, <2>1, ProductsGrow
    <3>3. (LayerMap(l) * Positions + a) * Units \in Nat
      BY <1>3, <3>2, ProductsGrow
    <3>4. start \in Nat
      BY <1>3, <3>1, ProductsGrow
    <3> QED BY <3>3, <3>4
  <2>5. CASE i - start \in 0..Units - 1
    <3>1. PICK v \in 0..Units - 1 : v = i - start
      BY <2>5
    <3>2. i = start + v
      BY <2>4, <3>1
    <3>3. LayerMap(l) = LayerMap(layer) /\ a = at /\ unit = v
      BY <1>2, <1>3, <2>1, <3>2, UnitsAreDistinct
    <3>4. l = layer
      BY <1>1, <1>3, <3>3 DEF Placed
    <3>5. cells'[l][a] = value
      BY <1>5, <2>1, <3>3, <3>4
    <3>6. Expected(value)[unit] = [value |-> value, unit |-> unit]
      BY LayoutAssumption DEF Expected
    <3>7. i - start = unit
      BY <3>1, <3>3
    <3>8. buffer'[i] = [value |-> value, unit |-> unit]
      BY <2>3, <2>5, <3>7
    <3> QED BY <3>5, <3>6, <3>8
  <2>6. CASE i - start \notin 0..Units - 1
    <3>1. ~(l = layer /\ a = at)
      <4> SUFFICES ASSUME l = layer, a = at PROVE FALSE
        OBVIOUS
      <4>1. i = start + unit
        OBVIOUS
      <4> HIDE DEF i, start
      <4> QED BY <1>3, <2>4, <2>6, <4>1
    <3>2. cells'[l][a] = cells[l][a]
      BY <1>5, <2>1, <3>1
    <3> QED BY <2>2, <2>3, <2>6, <3>2
  <2> QED BY <2>5, <2>6
<1>8. /\ Units' = Units /\ ExportUnits' = ExportUnits /\ AllocatedLayers' = AllocatedLayers
      /\ Mapped' = Mapped
      /\ \A l : LayerMap(l)' = LayerMap(l)
      /\ \A v : Expected(v)' = Expected(v)
  BY <1>1, FormatStays
<1>9. CellsSeparate'
  <2>1. UnitsWhole'
    BY <1>7, <1>8 DEF UnitsWhole
  <2>2. (UnitsWhole => CellsSeparate)'
    BY CellsAreUnits, PTL
  <2> QED BY <2>1, <2>2
<1>10. ExportedWhole'
  BY <1>1, <1>4, <1>8 DEF ExportedWhole
<1>11. format' \in Formats /\ Len(format'.layers) = Len(format.layers)
  BY <1>1, <1>2
<1> HIDE DEF start
<1> QED BY <1>5, <1>6, <1>8, <1>9, <1>10, <1>11 DEF LayoutInv

\* A unit of an interval: the interval of its layer, and its place there.
LEMMA IntervalIs ==
    ASSUME NEW tokens \in Nat, NEW units \in Nat, NEW c \in Nat,
           NEW at \in 0..tokens - 1, NEW u \in 0..units - 1
    PROVE  /\ tokens * units \in Nat \ {0}
           /\ at * units + u \in 0..tokens * units - 1
           /\ (c * tokens + at) * units + u = c * (tokens * units) + (at * units + u)
           /\ ((c * tokens + at) * units + u) \div (tokens * units) = c
           /\ ((c * tokens + at) * units + u) % (tokens * units) = at * units + u
<1> DEFINE span == tokens * units
           place == at * units + u
<1>1. /\ at \in Nat /\ at + 1 <= tokens /\ at + 1 \in Nat /\ at * units \in Nat /\ span \in Nat
      /\ (at + 1) * units <= tokens * units /\ (at + 1) * units = at * units + units
  BY ProductsGrow
<1>2. place \in 0..span - 1
  BY <1>1
<1>3. span \in Nat \ {0}
  BY <1>1, <1>2
<1>4. (c * tokens + at) * units + u = c * span + place
  <2>1. c * tokens \in Nat
    BY ProductsGrow
  <2>2. (c * tokens + at) * units = (c * tokens) * units + at * units
    BY <1>1, <2>1, ProductsGrow
  <2>3. (c * tokens) * units = c * span
    BY ProductsGrow
  <2>4. (c * tokens) * units \in Nat
    BY <2>1, ProductsGrow
  <2> QED BY <1>1, <2>2, <2>3, <2>4
<1> HIDE DEF span, place
<1>5. (c * span + place) \div span = c /\ (c * span + place) % span = place
  BY <1>2, <1>3, QuotientIs
<1>6. ((c * tokens + at) * units + u) \div span = c /\ ((c * tokens + at) * units + u) % span = place
  BY <1>4, <1>5
<1> QED BY <1>2, <1>3, <1>4, <1>6 DEF span, place

\* An interval of a layer that is in the cache is in the buffer.
LEMMA IntervalsFit ==
    ASSUME LayoutInv, format \in Formats, NEW c \in 0..Len(format.layers) - 1,
           NEW start \in Nat, NEW tokens \in Nat, InRange(start, tokens)
    PROVE  IntervalFits(c, start, tokens)
<1>1. PICK all \in Nat : all = Len(format.layers)
  BY LenProperties DEF Formats
<1>2. PICK units \in Nat : units = Units
  BY UnitsAre
<1>3. PICK places \in Nat : places = Positions
  BY LayoutAssumption
<1>4. DOMAIN buffer = 0..all * places * units - 1
  BY <1>1, <1>2, <1>3 DEF LayoutInv, Formats, Precisions
<1>5. start + tokens <= places
  BY <1>3, LayoutAssumption DEF InRange
<1>6. c \in Nat /\ c + 1 <= all /\ c + 1 \in Nat
  BY <1>1
<1>7. all * places * units \in Nat /\ Cardinality(DOMAIN buffer) = all * places * units
  <2>1. all * places * units \in Nat
    BY ProductsGrow
  <2> DEFINE n == all * places * units
  <2>2. n \in Nat
    BY <2>1
  <2> HIDE DEF n
  <2>3. Cardinality(0..n - 1) = IF 0 > n - 1 THEN 0 ELSE n - 1 - 0 + 1
    BY <2>2, FS_Interval
  <2>4. Cardinality(0..n - 1) = n
    BY <2>2, <2>3
  <2> QED BY <1>4, <2>1, <2>4 DEF n
<1>8. (c * places + start) * units + tokens * units <= all * places * units
  <2>1. /\ c * places \in Nat /\ (c + 1) * places <= all * places
        /\ (c + 1) * places = c * places + places /\ all * places \in Nat
    BY <1>6, ProductsGrow
  <2>2. c * places + start \in Nat /\ c * places + start + tokens <= all * places
    BY <1>5, <2>1
  <2>3. (c * places + start) * units + tokens * units = (c * places + start + tokens) * units
    BY <2>2, ProductsGrow
  <2>4. c * places + start + tokens \in Nat
    BY <2>2
  <2>5. (c * places + start + tokens) * units <= (all * places) * units
    BY <2>1, <2>2, <2>4, ProductsGrow
  <2> QED BY <2>3, <2>5
<1> QED BY <1>2, <1>3, <1>7, <1>8 DEF IntervalFits, Offset

\* export_state_range copies the cells of an interval, layer after layer.
LEMMA ExportKeeps ==
    ASSUME LayoutInv, NEW start \in 0..Positions, NEW tokens \in 0..Positions,
           ExportStateRange(start, tokens)
    PROVE  LayoutInv'
<1>1. /\ format.precision # "none" /\ InRange(start, tokens)
      /\ exported'.data = Exported(start, tokens)
      /\ exported'.cells = [l \in 0..Layers - 1 |-> [a \in 0..tokens - 1 |-> cells[l][start + a]]]
      /\ UNCHANGED <<format, buffer, cells>>
  BY DEF ExportStateRange
<1>2. format \in Formats /\ Positions \in Nat /\ start \in Nat /\ tokens \in Nat
  BY <1>1, LayoutAssumption DEF LayoutInv
<1>3. /\ Units \in Nat /\ ExportUnits \in Nat /\ Units <= ExportUnits /\ Placed
      /\ AllocatedLayers \in Nat /\ Len(format.layers) \in Nat
  BY <1>2, UnitsAre, LayersHavePlaces, LenProperties DEF Placed, Formats
<1> DEFINE span == tokens * Units
<1>4. exported'.data = [i \in 0..AllocatedLayers * tokens * ExportUnits - 1 |->
           IF i \div span < AllocatedLayers /\ IntervalFits(i \div span, start, tokens)
           THEN buffer[Offset(i \div span, start) + (i % span)] ELSE Unwritten]
  BY <1>1 DEF Exported
<1>5. ASSUME NEW layer \in Mapped, NEW at \in 0..tokens - 1, NEW unit \in 0..Units - 1
      PROVE  exported'.data[(LayerMap(layer) * tokens + at) * Units + unit]
                 = Expected(exported'.cells[layer][at])[unit]
  <2>1. PICK c \in Nat : c = LayerMap(layer) /\ c \in 0..Len(format.layers) - 1 /\ c < AllocatedLayers
    BY <1>3 DEF Placed
  <2> DEFINE i == (c * tokens + at) * Units + unit
             place == at * Units + unit
  <2>2. /\ span \in Nat \ {0} /\ place \in 0..span - 1 /\ i = c * span + place
        /\ i \div span = c /\ i % span = place
    BY <1>2, <1>3, IntervalIs
  <2>3. i \in 0..AllocatedLayers * tokens * ExportUnits - 1
    <3>1. i \in 0..AllocatedLayers * tokens * Units - 1
      <4>1. c \in 0..AllocatedLayers - 1
        BY <1>3, <2>1
      <4> QED BY <1>2, <1>3, <4>1, UnitsAreWithin
    <3>2. AllocatedLayers * tokens \in Nat
      BY <1>2, <1>3, ProductsGrow
    <3>3. /\ AllocatedLayers * tokens * Units <= AllocatedLayers * tokens * ExportUnits
          /\ AllocatedLayers * tokens * Units \in Nat /\ AllocatedLayers * tokens * ExportUnits \in Nat
      <4>1. \A n, a, b \in Nat : a <= b => n * a <= n * b /\ n * a \in Nat /\ n * b \in Nat
        OBVIOUS
      <4> QED BY <1>3, <3>2, <4>1
    <3> HIDE DEF i
    <3> QED BY <3>1, <3>3
  <2>4. IntervalFits(c, start, tokens)
    BY <1>1, <1>2, <2>1, IntervalsFit
  <2>5. exported'.data[i] = buffer[Offset(c, start) + place]
    <3> HIDE DEF i, place, span
    <3> QED BY <1>4, <2>1, <2>2, <2>3, <2>4
  <2>6. Offset(c, start) + place = (c * Positions + (start + at)) * Units + unit
    <3>1. c * Positions \in Nat /\ c * Positions + start \in Nat /\ at \in Nat
      BY <1>2, ProductsGrow
    <3>2. (c * Positions + start + at) * Units = (c * Positions + start) * Units + at * Units
      BY <1>3, <3>1, ProductsGrow
    <3>3. c * Positions + start + at = c * Positions + (start + at)
      BY <1>2, <3>1
    <3>4. (c * Positions + start) * Units \in Nat /\ at * Units \in Nat
      BY <1>3, <3>1, ProductsGrow
    <3> QED BY <3>2, <3>3, <3>4 DEF Offset
  <2>7. start + at \in 0..Positions - 1
    BY <1>1, <1>2 DEF InRange
  <2>8. buffer[(c * Positions + (start + at)) * Units + unit] = Expected(cells[layer][start + at])[unit]
    BY <1>2, <2>1, <2>7, CellIs
  <2>9. exported'.cells[layer][at] = cells[layer][start + at]
    BY <1>1 DEF Mapped
  <2> QED BY <2>1, <2>5, <2>6, <2>8, <2>9
<1>6. /\ Units' = Units /\ ExportUnits' = ExportUnits /\ AllocatedLayers' = AllocatedLayers
      /\ Mapped' = Mapped
      /\ \A l : LayerMap(l)' = LayerMap(l)
      /\ \A v : Expected(v)' = Expected(v)
  BY <1>1, FormatStays
<1>7. ExportedWhole'
  <2>1. DOMAIN exported'.data = 0..AllocatedLayers' * tokens * ExportUnits' - 1
    BY <1>4, <1>6
  <2>2. \A layer \in Mapped', at \in 0..tokens - 1, unit \in 0..Units' - 1 :
           exported'.data[(LayerMap(layer)' * tokens + at) * Units' + unit]
               = Expected(exported.cells[layer][at])'[unit]
    <3> HIDE DEF span
    <3>1. \A layer, at : Expected(exported.cells[layer][at])' = Expected(exported'.cells[layer][at])
      BY <1>6 DEF Expected
    <3> QED BY <1>5, <1>6, <3>1
  <2> HIDE DEF span
  <2> QED BY <1>2, <2>1, <2>2 DEF ExportedWhole
<1>8. CellsSeparate'
  <2>1. CellsSeparate => CellsSeparate'
    <3> HIDE DEF span
    <3> QED BY <1>1, <1>6 DEF CellsSeparate, Cell, Offset
  <2> QED BY <1>1, <2>1 DEF LayoutInv
<1> HIDE DEF span
<1>9. buffer = [i \in 0..Len(format.layers) * Positions * Units - 1 |-> buffer[i]]
  BY <1>1 DEF LayoutInv
<1>10. cells = [layer \in 0..Layers - 1 |-> [at \in 0..Positions - 1 |-> cells[layer][at]]]
  BY DEF LayoutInv
<1> QED BY <1>1, <1>2, <1>6, <1>7, <1>8, <1>9, <1>10 DEF LayoutInv

\* import_state_at writes the cells of an interval that was exported, moved to its
\* target, and no others.
LEMMA ImportKeeps ==
    ASSUME LayoutInv, NEW target \in 0..Positions, NEW tokens \in 0..Positions,
           ImportAt(target, tokens)
    PROVE  LayoutInv'
<1>1. /\ format.precision # "none" /\ InRange(target, tokens)
      /\ Cardinality(DOMAIN exported.data) = AllocatedLayers * tokens * ExportUnits
      /\ buffer' = Imported(target, tokens, exported.data)
      /\ cells' = [layer \in 0..Layers - 1 |-> [at \in 0..Positions - 1 |->
                    IF at >= target /\ at < target + tokens THEN exported.cells[layer][at - target]
                    ELSE cells[layer][at]]]
      /\ UNCHANGED <<format, exported>>
  BY DEF ImportAt
<1>2. format \in Formats /\ Positions \in Nat /\ target \in Nat /\ tokens \in Nat
  BY <1>1, LayoutAssumption DEF LayoutInv
<1>3. /\ Units \in Nat /\ ExportUnits \in Nat /\ Units <= ExportUnits /\ Placed
      /\ AllocatedLayers \in Nat /\ Len(format.layers) \in Nat
  BY <1>2, UnitsAre, LayersHavePlaces, LenProperties DEF Placed, Formats
<1>4. /\ buffer = [i \in 0..Len(format.layers) * Positions * Units - 1 |-> buffer[i]]
      /\ ExportedWhole
  BY <1>1 DEF LayoutInv
<1>5. PICK count \in Nat :
         /\ DOMAIN exported.data = 0..AllocatedLayers * count * ExportUnits - 1
         /\ \A layer \in Mapped, at \in 0..count - 1, unit \in 0..Units - 1 :
               exported.data[(LayerMap(layer) * count + at) * Units + unit]
                   = Expected(exported.cells[layer][at])[unit]
  BY <1>4 DEF ExportedWhole
<1>6. ASSUME AllocatedLayers > 0, Units > 0 PROVE count = tokens
  <2> DEFINE n == AllocatedLayers * count * ExportUnits
  <2>1. AllocatedLayers * count \in Nat /\ n \in Nat
    BY <1>3, ProductsGrow
  <2>2. Cardinality(0..n - 1) = IF 0 > n - 1 THEN 0 ELSE n - 1 - 0 + 1
    <3> HIDE DEF n
    <3> QED BY <2>1, FS_Interval
  <2>3. Cardinality(0..n - 1) = n
    <3> HIDE DEF n
    <3> QED BY <2>1, <2>2
  <2>4. AllocatedLayers * count * ExportUnits = AllocatedLayers * tokens * ExportUnits
    BY <1>1, <1>5, <2>3
  <2>5. \A a, b \in Nat \ {0}, m, k \in Nat : a * m * b = a * k * b => m = k
    <3> SUFFICES ASSUME NEW a \in Nat \ {0}, NEW b \in Nat \ {0}, NEW m \in Nat, NEW k \in Nat,
                        a * m * b = a * k * b
                 PROVE  m = k
      OBVIOUS
    <3>1. \A p, q \in Nat, r \in Nat \ {0} : p * r = q * r => p = q
      OBVIOUS
    <3>2. a * m \in Nat /\ a * k \in Nat /\ a * m = m * a /\ a * k = k * a
      OBVIOUS
    <3>3. a * m = a * k
      BY <3>1, <3>2
    <3> QED BY <3>1, <3>2, <3>3
  <2>6. AllocatedLayers \in Nat \ {0} /\ ExportUnits \in Nat \ {0}
    BY <1>3, <1>6
  <2> QED BY <1>2, <2>4, <2>5, <2>6
<1> DEFINE span == tokens * Units
           Layer(i) == i \div (Positions * Units)
           Place(i) == i - (Layer(i) * Positions + target) * Units
<1>7. buffer' = [i \in DOMAIN buffer |->
           IF Layer(i) < AllocatedLayers /\ IntervalFits(Layer(i), target, tokens) /\ Place(i) \in 0..span - 1
           THEN exported.data[Layer(i) * span + Place(i)] ELSE buffer[i]]
  BY <1>1 DEF Imported, Offset
<1>8. ASSUME NEW layer \in Mapped, NEW at \in 0..Positions - 1, NEW unit \in 0..Units - 1
      PROVE  buffer'[(LayerMap(layer) * Positions + at) * Units + unit]
                 = Expected(cells'[layer][at])[unit]
  <2>1. PICK c \in Nat : c = LayerMap(layer) /\ c \in 0..Len(format.layers) - 1 /\ c < AllocatedLayers
    BY <1>3 DEF Placed
  <2> DEFINE i == (c * Positions + at) * Units + unit
  <2>2. i \in DOMAIN buffer /\ i \in Nat /\ buffer[i] = Expected(cells[layer][at])[unit]
    <3>1. /\ i \in 0..Len(format.layers) * Positions * Units - 1
          /\ i \in DOMAIN buffer /\ buffer[i] = Expected(cells[layer][at])[unit]
      BY <1>2, <2>1, CellIs
    <3> QED BY <3>1
  <2>3. Layer(i) = c
    BY <1>2, <1>3, IntervalIs
  <2>4. IntervalFits(c, target, tokens)
    BY <1>1, <1>2, <2>1, IntervalsFit
  <2>5. PICK first \in Nat : first = (c * Positions + target) * Units
    <3>1. c * Positions + target \in Nat
      BY <1>2, ProductsGrow
    <3> QED BY <1>3, <3>1, ProductsGrow
  <2>6. Place(i) = i - first
    BY <2>3, <2>5
  <2>7. span \in Nat
    BY <1>2, <1>3, ProductsGrow
  <2>8. buffer'[i] = IF i - first \in 0..span - 1 THEN exported.data[c * span + (i - first)] ELSE buffer[i]
    <3> HIDE DEF i, Layer, Place, span
    <3> QED BY <1>7, <2>1, <2>2, <2>3, <2>4, <2>6
  <2>9. cells'[layer][at] = IF at >= target /\ at < target + tokens
                            THEN exported.cells[layer][at - target] ELSE cells[layer][at]
    BY <1>1 DEF Mapped
  <2>10. CASE at < target
    <3>1. at + 1 <= target /\ at \in Nat /\ at + 1 \in Nat
      BY <1>2, <2>10
    <3>2. c * Positions \in Nat /\ c * Positions + at \in Nat /\ c * Positions + target \in Nat
      BY <1>2, ProductsGrow
    <3>3. /\ (c * Positions + at + 1) * Units <= (c * Positions + target) * Units
          /\ (c * Positions + at + 1) * Units = (c * Positions + at) * Units + Units
          /\ (c * Positions + at) * Units \in Nat
      <4>1. c * Positions + at + 1 <= c * Positions + target /\ c * Positions + at + 1 \in Nat
        BY <1>2, <3>1, <3>2
      <4> DEFINE n == c * Positions + at
                 m == c * Positions + target
      <4>2. n \in Nat /\ m \in Nat /\ n + 1 <= m /\ n + 1 \in Nat
        BY <3>2, <4>1
      <4> HIDE DEF n, m
      <4>3. (n + 1) * Units <= m * Units /\ (n + 1) * Units = n * Units + Units /\ n * Units \in Nat
        BY <1>3, <4>2, ProductsGrow
      <4> QED BY <4>3 DEF n, m
    <3>4. i < first
      BY <1>3, <2>5, <3>3
    <3>5. i - first \notin 0..span - 1
      <4> HIDE DEF i, span
      <4> QED BY <2>2, <2>5, <2>7, <3>4
    <3>6. ~(at >= target)
      BY <1>2, <2>10
    <3> HIDE DEF i, span, Layer, Place
    <3>7. buffer'[i] = buffer[i] /\ cells'[layer][at] = cells[layer][at]
      BY <2>8, <2>9, <3>5, <3>6
    <3> QED BY <2>1, <2>2, <3>7 DEF i
  <2>11. CASE at >= target
    <3>1. PICK k \in Nat : k = at - target /\ at = target + k
      BY <1>2, <2>11
    <3>2. i = first + (k * Units + unit)
      <4>1. c * Positions \in Nat /\ c * Positions + target \in Nat
        BY <1>2, ProductsGrow
      <4>2. (c * Positions + target + k) * Units = (c * Positions + target) * Units + k * Units
        BY <1>3, <4>1, ProductsGrow
      <4>3. c * Positions + at = c * Positions + target + k
        BY <1>2, <3>1, <4>1
      <4>4. k * Units \in Nat
        BY <1>3, ProductsGrow
      <4> QED BY <2>5, <4>2, <4>3, <4>4
    <3>3. k * Units \in Nat
      BY <1>3, ProductsGrow
    <3>4. i - first = k * Units + unit
      <4> HIDE DEF i
      <4> QED BY <2>2, <2>5, <3>2, <3>3
    <3>5. CASE k < tokens
      <4>1. k \in 0..tokens - 1
        BY <1>2, <3>5
      <4>2. /\ k * Units + unit \in 0..span - 1
            /\ (c * tokens + k) * Units + unit = c * span + (k * Units + unit)
        BY <1>2, <1>3, <4>1, IntervalIs
      <4>3. count = tokens
        BY <1>3, <1>6, <2>1
      <4>4. exported.data[(c * tokens + k) * Units + unit] = Expected(exported.cells[layer][k])[unit]
        BY <1>5, <2>1, <4>1, <4>3
      <4>5. at < target + tokens
        BY <1>2, <3>1, <3>5
      <4>6. cells'[layer][at] = exported.cells[layer][k]
        BY <2>9, <2>11, <3>1, <4>5
      <4> HIDE DEF i, span, Layer, Place
      <4>7. buffer'[i] = exported.data[c * span + (k * Units + unit)]
        BY <2>8, <3>4, <4>2
      <4>8. buffer'[i] = Expected(cells'[layer][at])[unit]
        BY <4>2, <4>4, <4>6, <4>7
      <4> QED BY <2>1, <4>8 DEF i
    <3>6. CASE k >= tokens
      <4>1. tokens * Units <= k * Units
        BY <1>2, <1>3, <3>6, ProductsGrow
      <4>2. i - first \notin 0..span - 1
        <5>1. i - first >= span
          BY <2>7, <3>3, <3>4, <4>1
        <5> HIDE DEF i, span
        <5> QED BY <2>2, <2>5, <2>7, <5>1
      <4>3. ~(at < target + tokens)
        BY <1>2, <3>1, <3>6
      <4> HIDE DEF i, span, Layer, Place
      <4>4. buffer'[i] = buffer[i] /\ cells'[layer][at] = cells[layer][at]
        BY <2>8, <2>9, <4>2, <4>3
      <4> QED BY <2>1, <2>2, <4>4 DEF i
    <3> QED BY <1>2, <3>5, <3>6
  <2> QED BY <1>2, <2>10, <2>11
<1> HIDE DEF span, Layer, Place
<1>9. /\ Units' = Units /\ ExportUnits' = ExportUnits /\ AllocatedLayers' = AllocatedLayers
      /\ Mapped' = Mapped
      /\ \A l : LayerMap(l)' = LayerMap(l)
      /\ \A v : Expected(v)' = Expected(v)
  BY <1>1, FormatStays
<1>10. CellsSeparate'
  <2>1. UnitsWhole'
    BY <1>8, <1>9 DEF UnitsWhole
  <2>2. (UnitsWhole => CellsSeparate)'
    BY CellsAreUnits, PTL
  <2> QED BY <2>1, <2>2
<1>11. ExportedWhole'
  BY <1>1, <1>4, <1>9 DEF ExportedWhole
<1>12. buffer' = [i \in 0..Len(format'.layers) * Positions * Units' - 1 |-> buffer'[i]]
  <2>1. DOMAIN buffer = 0..Len(format.layers) * Positions * Units - 1
    BY <1>4
  <2>2. buffer' = [i \in DOMAIN buffer |-> buffer'[i]]
    BY <1>7
  <2> QED BY <1>1, <1>9, <2>1, <2>2
<1>13. cells' = [layer \in 0..Layers - 1 |-> [at \in 0..Positions - 1 |-> cells'[layer][at]]]
  BY <1>1
<1>14. format' \in Formats
  BY <1>1, <1>2
<1> QED BY <1>10, <1>11, <1>12, <1>13, <1>14 DEF LayoutInv

\* The inductive invariant of the KV cache (KvCache of cache.rs), whatever is allocated, stored,
\* exported and imported, in whatever order.
THEOREM LayoutInvariant == LayoutSpec => []LayoutInv
<1>1. LayoutInit => LayoutInv
  BY DEF LayoutInit, LayoutInv
<1>2. LayoutInv /\ [LayoutNext]_layoutVars => LayoutInv'
  <2> SUFFICES ASSUME LayoutInv, [LayoutNext]_layoutVars PROVE LayoutInv'
    OBVIOUS
  <2>1. CASE Allocate
    BY <2>1, AllocateKeeps
  <2>2. CASE \E layer \in 0..Layers, at \in 0..Positions, value \in Values : Store(layer, at, value)
    BY <2>2, StoreKeeps
  <2>3. ASSUME NEW start \in 0..Positions, NEW tokens \in 0..Positions,
               \/ ExportStateRange(start, tokens)
               \/ ImportStateAt(start, tokens)
               \/ ImportStateRange(start, tokens)
        PROVE  LayoutInv'
    BY <2>3, ExportKeeps, ImportKeeps DEF ImportStateAt, ImportStateRange
  <2>4. ASSUME NEW tokens \in 0..Positions, ImportState(tokens) PROVE LayoutInv'
    <3>1. 0 \in 0..Positions
      BY LayoutAssumption
    <3> QED BY <2>4, <3>1, ImportKeeps DEF ImportState
  <2>5. ASSUME UNCHANGED <<format, buffer, exported, cells>> PROVE LayoutInv'
    <3>1. /\ Units' = Units /\ ExportUnits' = ExportUnits /\ AllocatedLayers' = AllocatedLayers
          /\ Mapped' = Mapped
          /\ \A l : LayerMap(l)' = LayerMap(l)
          /\ \A v : Expected(v)' = Expected(v)
      BY <2>5, FormatStays
    <3>2. CellsSeparate => CellsSeparate'
      BY <2>5, <3>1 DEF CellsSeparate, Cell, Offset
    <3>3. ExportedWhole => ExportedWhole'
      BY <2>5, <3>1 DEF ExportedWhole
    <3>4. (format \in Formats) => (format' \in Formats)
      BY <2>5
    <3>5. cells' = cells /\ buffer' = buffer /\ format' = format /\ exported' = exported
      BY <2>5
    <3> QED BY <3>1, <3>2, <3>3, <3>4, <3>5 DEF LayoutInv
  <2>6. CASE Reset \/ UNCHANGED layoutVars
    BY <2>5, <2>6 DEF Reset, layoutVars
  <2> QED BY <2>1, <2>2, <2>3, <2>4, <2>6 DEF LayoutNext
<1> QED BY <1>1, <1>2, PTL DEF LayoutSpec

\* No two cells share a unit and every interval arrives whole, for every number of layers
\* and positions, every dimension and every precision (checked_offset, checked_q8_offset,
\* checked_tq_offset).
THEOREM CellsAreSeparate == LayoutSpec => []CellsSeparate
<1>1. LayoutInv => CellsSeparate
  BY DEF LayoutInv, CellsSeparate
<1> QED BY <1>1, LayoutInvariant, PTL

----------------------------------------------------------------------------
(* The context store.                                                      *)

\* What the store keeps of the blocks that were offered to it
Blocks == {BlockOf(offer, pinned, serial) : offer \in Offers, pinned \in BOOLEAN, serial \in Nat}

\* The similarity of the query to each block that has an embedding
CosineAt == [i \in DOMAIN Embedded |-> Cosine(Embedded[i])]

\* The blocks are what was added less what had to leave; a search found the best of them.
ContextInv ==
    /\ capacity \in Nat \/ (capacity = -1 /\ blocks = <<>> /\ added = <<>>)
    /\ blocks \in Seq(Blocks) /\ added \in Seq(Blocks)
    /\ \A i \in DOMAIN added : added[i].serial = i - 1
    /\ HoldsLatest
    /\ SlicesCharacters
    /\ output.kind = "search" =>
          /\ output.count \in Nat
          /\ output.found = IF output.dimension # Dimension THEN <<>>
                            ELSE Best(Embedded, CosineAt, output.count)

\* RemoveAt takes one item out and leaves the others in their order.
LEMMA RemovedIs ==
    ASSUME NEW S, NEW s \in Seq(S), NEW k \in DOMAIN s
    PROVE  /\ RemoveAt(s, k) \in Seq(S)
           /\ Len(RemoveAt(s, k)) = Len(s) - 1
           /\ \A i \in DOMAIN RemoveAt(s, k) :
                 RemoveAt(s, k)[i] = s[IF i < k THEN i ELSE i + 1]
<1> DEFINE N == Len(s)
           head == SubSeq(s, 1, k - 1)
           tail == SubSeq(s, k + 1, N)
<1>1. N \in Nat /\ DOMAIN s = 1..N /\ k \in 1..N /\ \A i \in 1..N : s[i] \in S
  BY LenProperties, ElementOfSeq
<1> HIDE DEF N
<1>2. /\ head \in Seq(S) /\ Len(head) = k - 1
      /\ \A i \in 1..k - 1 : head[i] = s[i]
  <2>1. (\A i \in 1..k - 1 : s[i] \in S) /\ 1 \in Int /\ k - 1 \in Int
    BY <1>1
  <2>2. /\ head \in Seq(S) /\ Len(head) = IF 1 <= k - 1 THEN (k - 1) - 1 + 1 ELSE 0
        /\ \A i \in 1..(k - 1) - 1 + 1 : head[i] = s[1 + i - 1]
    BY <2>1, SubSeqProperties
  <2>3. Len(head) = k - 1
    BY <1>1, <2>2
  <2>4. \A i \in 1..k - 1 : i \in 1..(k - 1) - 1 + 1 /\ 1 + i - 1 = i
    BY <1>1
  <2> QED BY <2>2, <2>3, <2>4
<1>3. /\ tail \in Seq(S) /\ Len(tail) = N - k
      /\ \A i \in 1..N - k : tail[i] = s[k + i]
  <2>1. (\A i \in k + 1..N : s[i] \in S) /\ k + 1 \in Int /\ N \in Int
    BY <1>1
  <2>2. /\ tail \in Seq(S) /\ Len(tail) = IF k + 1 <= N THEN N - (k + 1) + 1 ELSE 0
        /\ \A i \in 1..N - (k + 1) + 1 : tail[i] = s[(k + 1) + i - 1]
    BY <2>1, SubSeqProperties
  <2>3. Len(tail) = N - k
    BY <1>1, <2>2
  <2>4. \A i \in 1..N - k : i \in 1..N - (k + 1) + 1 /\ (k + 1) + i - 1 = k + i
    BY <1>1
  <2> QED BY <2>2, <2>3, <2>4
<1>4. RemoveAt(s, k) = head \o tail
  BY DEF RemoveAt, N
<1> HIDE DEF head, tail
<1> DEFINE new == head \o tail
<1>5. /\ new \in Seq(S) /\ Len(new) = (k - 1) + (N - k)
      /\ \A i \in 1..(k - 1) + (N - k) :
            new[i] = IF i <= k - 1 THEN head[i] ELSE tail[i - (k - 1)]
  <2>1. /\ new \in Seq(S) /\ Len(new) = Len(head) + Len(tail)
        /\ \A i \in 1..Len(head) + Len(tail) :
              new[i] = IF i <= Len(head) THEN head[i] ELSE tail[i - Len(head)]
    BY <1>2, <1>3, ConcatProperties, Zenon
  <2> QED BY <1>2, <1>3, <2>1
<1>6. Len(new) = N - 1 /\ DOMAIN new = 1..N - 1
  BY <1>1, <1>5, LenProperties
<1> HIDE DEF new
<1>7. ASSUME NEW i \in 1..N - 1 PROVE new[i] = s[IF i < k THEN i ELSE i + 1]
  <2>1. i \in 1..(k - 1) + (N - k)
    BY <1>1
  <2>2. CASE i < k
    <3>1. i <= k - 1 /\ i \in 1..k - 1
      BY <1>1, <2>2
    <3> QED BY <1>2, <1>5, <2>1, <2>2, <3>1
  <2>3. CASE ~(i < k)
    <3>1. ~(i <= k - 1) /\ i - (k - 1) \in 1..N - k /\ k + (i - (k - 1)) = i + 1
      BY <1>1, <2>3
    <3>2. new[i] = tail[i - (k - 1)]
      BY <1>5, <2>1, <3>1
    <3> QED BY <1>3, <2>3, <3>1, <3>2
  <2> QED BY <2>2, <2>3
<1> QED BY <1>4, <1>5, <1>6, <1>7 DEF new, N

\* Tail is RemoveAt of the first item.
LEMMA TailIs ==
    ASSUME NEW S, NEW s \in Seq(S), s # <<>>
    PROVE  /\ Tail(s) \in Seq(S)
           /\ Len(Tail(s)) = Len(s) - 1
           /\ 1 \in DOMAIN s
           /\ \A i \in DOMAIN Tail(s) : Tail(s)[i] = s[IF i < 1 THEN i ELSE i + 1]
<1>1. /\ Tail(s) \in Seq(S) /\ Len(Tail(s)) = Len(s) - 1 /\ Len(s) \in Nat /\ DOMAIN s = 1..Len(s)
      /\ \A i \in 1..Len(Tail(s)) : Tail(s)[i] = s[i + 1]
  BY HeadTailProperties, LenProperties
<1>2. Len(s) # 0
  BY EmptySeq
<1>3. DOMAIN Tail(s) = 1..Len(Tail(s)) /\ Len(Tail(s)) \in Nat
  BY <1>1, LenProperties
<1>4. \A i \in 1..Len(Tail(s)) : ~(i < 1)
  BY <1>3
<1> QED BY <1>1, <1>2, <1>3, <1>4

\* The oldest unpinned block is unpinned, and the older ones are pinned.
LEMMA OldestUnpinnedIs ==
    ASSUME blocks \in Seq(Blocks)
    PROVE  IF OldestUnpinned = 0 THEN \A i \in DOMAIN blocks : blocks[i].pinned
           ELSE /\ OldestUnpinned \in DOMAIN blocks
                /\ ~blocks[OldestUnpinned].pinned
                /\ \A i \in DOMAIN blocks : i < OldestUnpinned => blocks[i].pinned
<1> DEFINE I == {i \in 1..Len(blocks) : ~blocks[i].pinned}
<1>1. DOMAIN blocks = 1..Len(blocks) /\ Len(blocks) \in Nat
  BY LenProperties
<1>2. OldestUnpinned = IF I # {} THEN Min(I) ELSE 0
  BY DEF OldestUnpinned, SelectInSeq
<1>3. CASE I = {}
  BY <1>1, <1>2, <1>3
<1>4. CASE I # {}
  <2>1. I \in SUBSET Nat
    OBVIOUS
  <2>2. \E n \in I : \A m \in I : n <= m
    BY <1>4, <2>1, LeastNumber
  <2>3. Min(I) = CHOOSE n \in I : \A m \in I : n <= m
    BY DEF Min
  <2> HIDE DEF I
  <2>4. Min(I) \in I /\ \A m \in I : Min(I) <= m
    BY <2>2, <2>3
  <2>5. OldestUnpinned \in I /\ \A m \in I : OldestUnpinned <= m
    BY <1>2, <1>4, <2>4
  <2>6. OldestUnpinned # 0 /\ OldestUnpinned \in 1..Len(blocks) /\ ~blocks[OldestUnpinned].pinned
    BY <2>5 DEF I
  <2>7. ASSUME NEW i \in 1..Len(blocks), i < OldestUnpinned PROVE blocks[i].pinned
    <3>1. ~(OldestUnpinned <= i)
      BY <1>1, <2>6, <2>7
    <3>2. i \notin I
      BY <2>5, <3>1
    <3> QED BY <3>2 DEF I
  <2> QED BY <1>1, <2>6, <2>7
<1> QED BY <1>3, <1>4

\* A block that is new takes its place behind what stays: nothing, or all but the block at
\* one place, which is the oldest that may go.
LEMMA OneGoes ==
    ASSUME NEW kept \in Seq(Blocks), NEW k \in DOMAIN blocks, NEW block \in Blocks,
           ContextInv, blocks' \in Seq(Blocks), capacity \in Nat, Len(blocks) >= capacity,
           block.serial = Len(added),
           Len(kept) = Len(blocks) - 1,
           \A i \in DOMAIN kept : kept[i] = blocks[IF i < k THEN i ELSE i + 1],
           blocks' = Append(kept, block), ToSet(added') = ToSet(added) \cup {block},
           \/ ~blocks[k].pinned /\ \A i \in DOMAIN blocks : i < k => blocks[i].pinned
           \/ k = 1 /\ block.pinned /\ \A i \in DOMAIN blocks : blocks[i].pinned
    PROVE  /\ Len(blocks') <= capacity \/ (Len(blocks') = 1 /\ blocks'[1].pinned)
           /\ ToSet(blocks') \subseteq ToSet(added')
           /\ \A i, j \in DOMAIN blocks' : i < j => blocks'[i].serial < blocks'[j].serial
           /\ \A gone \in ToSet(added') \ ToSet(blocks') :
                 /\ Len(blocks') >= capacity
                 /\ \A other \in ToSet(blocks') :
                       other.serial > gone.serial \/ (other.pinned /\ ~gone.pinned)
                 /\ gone.pinned => blocks' # <<>> /\ \A other \in ToSet(blocks') : other.pinned
<1> DEFINE N == Len(blocks)
           Kept(i) == IF i < k THEN i ELSE i + 1
<1>1. /\ N \in Nat /\ DOMAIN blocks = 1..N /\ k \in 1..N
      /\ \A i \in 1..N : blocks[i] \in Blocks /\ blocks[i] \in ToSet(blocks)
  BY LenProperties, ElementOfSeq DEF ContextInv, ToSet
<1>2. DOMAIN kept = 1..N - 1 /\ Len(kept) = N - 1
  BY <1>1, LenProperties
<1>3. /\ Len(blocks') = N /\ DOMAIN blocks' = 1..N /\ blocks' # <<>>
      /\ blocks'[N] = block /\ \A i \in 1..N - 1 : blocks'[i] = blocks[Kept(i)] /\ Kept(i) \in 1..N /\ Kept(i) # k
  <2>1. /\ Len(blocks') = Len(kept) + 1 /\ blocks' # <<>> /\ blocks'[Len(kept) + 1] = block
        /\ \A i \in 1..Len(kept) : blocks'[i] = kept[i]
    BY AppendProperties
  <2>2. N - 1 + 1 = N
    BY <1>1
  <2>3. DOMAIN blocks' = 1..Len(blocks')
    BY LenProperties
  <2>4. \A i \in 1..N - 1 : Kept(i) \in 1..N /\ Kept(i) # k
    BY <1>1
  <2> QED BY <1>2, <2>1, <2>2, <2>3, <2>4
<1>4. \A old \in ToSet(added) : old.serial \in Nat /\ old.serial < block.serial
  <2>1. /\ Len(added) \in Nat /\ DOMAIN added = 1..Len(added)
        /\ \A i \in DOMAIN added : added[i].serial = i - 1
    BY LenProperties DEF ContextInv
  <2>2. \A i \in 1..Len(added) : i - 1 \in Nat /\ i - 1 < Len(added)
    BY <2>1
  <2> QED BY <2>1, <2>2 DEF ToSet
<1>5. /\ ToSet(blocks) \subseteq ToSet(added)
      /\ N <= capacity \/ (N = 1 /\ blocks[1].pinned)
      /\ \A i, j \in 1..N : i < j => blocks[i].serial < blocks[j].serial
      /\ \A gone \in ToSet(added) \ ToSet(blocks) :
            /\ \A other \in ToSet(blocks) :
                  other.serial > gone.serial \/ (other.pinned /\ ~gone.pinned)
            /\ gone.pinned => \A other \in ToSet(blocks) : other.pinned
  <2>1. HoldsLatest /\ capacity >= 0
    BY DEF ContextInv
  <2> QED BY <1>1, <2>1, Zenon DEF HoldsLatest
<1>6. \A other \in ToSet(blocks') :
         other = block \/ \E i \in 1..N : i # k /\ other = blocks[i] /\ other \in ToSet(blocks)
  <2>1. ToSet(blocks') = {blocks'[i] : i \in 1..N}
    BY <1>3 DEF ToSet
  <2>2. \A i \in 1..N : i = N \/ i \in 1..N - 1
    BY <1>1
  <2>3. \A i \in 1..N - 1 : /\ blocks'[i] = blocks[Kept(i)] /\ Kept(i) \in 1..N /\ Kept(i) # k
                            /\ blocks[Kept(i)] \in ToSet(blocks)
    BY <1>1, <1>3
  <2> HIDE DEF Kept, N
  <2> QED BY <1>3, <2>1, <2>2, <2>3
<1>7. block \in ToSet(blocks') /\ \A i \in 1..N : i # k => blocks[i] \in ToSet(blocks')
  <2>1. ToSet(blocks') = {blocks'[i] : i \in 1..N} /\ N \in 1..N
    BY <1>1, <1>3 DEF ToSet
  <2>2. ASSUME NEW i \in 1..N, i # k PROVE blocks[i] \in ToSet(blocks')
    <3>1. CASE i < k
      <4>1. i \in 1..N - 1 /\ Kept(i) = i
        BY <1>1, <3>1
      <4> QED BY <1>3, <2>1, <4>1
    <3>2. CASE ~(i < k)
      <4>1. i - 1 \in 1..N - 1 /\ i - 1 \in 1..N /\ Kept(i - 1) = i
        BY <1>1, <2>2, <3>2
      <4> HIDE DEF Kept
      <4> QED BY <1>3, <2>1, <4>1
    <3> QED BY <3>1, <3>2
  <2> QED BY <1>3, <2>1, <2>2
<1>8. Len(blocks') <= capacity \/ (Len(blocks') = 1 /\ blocks'[1].pinned)
  <2>1. CASE N = 1 /\ blocks[1].pinned
    <3>1. k = 1 /\ block.pinned
      BY <1>1, <2>1
    <3> QED BY <1>3, <2>1, <3>1
  <2> QED BY <1>3, <1>5, <2>1
<1>9. ToSet(blocks') \subseteq ToSet(added')
  BY <1>5, <1>6
<1>10. ASSUME NEW i \in 1..N, NEW j \in 1..N, i < j PROVE blocks'[i].serial < blocks'[j].serial
  <2>1. i \in 1..N - 1
    BY <1>1, <1>10
  <2>2. blocks'[i] = blocks[Kept(i)] /\ Kept(i) \in 1..N
    BY <1>3, <2>1
  <2>3. CASE j = N
    BY <1>1, <1>3, <1>4, <1>5, <2>2, <2>3
  <2>4. CASE j # N
    <3>1. j \in 1..N - 1 /\ Kept(i) < Kept(j)
      BY <1>1, <1>10, <2>4
    <3>2. blocks'[j] = blocks[Kept(j)] /\ Kept(j) \in 1..N
      BY <1>3, <3>1
    <3> HIDE DEF Kept
    <3> QED BY <1>5, <2>2, <3>1, <3>2
  <2> QED BY <2>3, <2>4
<1>11. ASSUME NEW gone \in ToSet(added') \ ToSet(blocks')
       PROVE  /\ \A other \in ToSet(blocks') :
                    other.serial > gone.serial \/ (other.pinned /\ ~gone.pinned)
              /\ gone.pinned => \A other \in ToSet(blocks') : other.pinned
  <2>1. gone \in ToSet(added) /\ gone.serial \in Nat /\ gone.serial < block.serial
    BY <1>4, <1>7
  <2>2. block.serial > gone.serial /\ block.serial \in Nat
    <3>1. block.serial \in Nat
      BY LenProperties DEF ContextInv
    <3> QED BY <2>1, <3>1
  <2>3. CASE gone \notin ToSet(blocks)
    <3>1. \A other \in ToSet(blocks') :
             other.serial > gone.serial \/ (other.pinned /\ ~gone.pinned)
      BY <1>5, <1>6, <2>1, <2>2, <2>3
    <3>2. gone.pinned => \A other \in ToSet(blocks') : other.pinned
      BY <1>1, <1>5, <1>6, <2>1, <2>3
    <3> QED BY <3>1, <3>2
  <2>4. CASE gone \in ToSet(blocks)
    <3>1. PICK i \in 1..N : gone = blocks[i]
      BY <1>1, <2>4 DEF ToSet
    <3>2. i = k
      BY <1>7, <3>1
    <3>3. ASSUME NEW other \in ToSet(blocks')
          PROVE  other.serial > gone.serial \/ (other.pinned /\ ~gone.pinned)
      <4>1. CASE other = block
        BY <2>2, <4>1
      <4>2. CASE other # block
        <5>1. PICK j \in 1..N : j # k /\ other = blocks[j] /\ other \in ToSet(blocks)
          BY <1>6, <4>2
        <5>2. CASE j < k
          BY <1>1, <3>1, <3>2, <5>1, <5>2
        <5>3. CASE k < j
          <6>1. gone.serial < other.serial
            BY <1>1, <1>5, <3>1, <3>2, <5>1, <5>3
          <6>2. other.serial \in Nat /\ gone.serial \in Nat
            BY <1>4, <1>5, <2>1, <5>1
          <6> QED BY <6>1, <6>2
        <5> QED BY <1>1, <5>1, <5>2, <5>3
      <4> QED BY <4>1, <4>2
    <3>4. gone.pinned => \A other \in ToSet(blocks') : other.pinned
      BY <1>1, <1>6, <3>1, <3>2
    <3> QED BY <3>3, <3>4
  <2> QED BY <2>3, <2>4
<1> QED BY <1>3, <1>8, <1>9, <1>10, <1>11

\* A block keeps what it was made from.
LEMMA BlocksAre ==
    ASSUME NEW offer \in Offers, NEW pinned \in BOOLEAN, NEW n \in Nat
    PROVE  /\ BlockOf(offer, pinned, n) \in Blocks
           /\ BlockOf(offer, pinned, n).serial = n /\ BlockOf(offer, pinned, n).pinned = pinned
<1> QED BY DEF Blocks, BlockOf

\* The fields of a block that the store looks at
LEMMA BlocksHave ==
    ASSUME NEW block \in Blocks
    PROVE  /\ block.pinned \in BOOLEAN /\ block.serial \in Nat /\ block.content \in Seq(Nat)
           /\ Similarity[block.embedding.direction] \in Int
<1>1. PICK offer \in Offers, pinned \in BOOLEAN, n \in Nat : block = BlockOf(offer, pinned, n)
  BY DEF Blocks
<1>2. Quantized(offer.embedding).direction = offer.embedding.direction
  BY DEF Quantized
<1> QED BY <1>1, <1>2, ContextAssumption DEF BlockOf

\* add_block_with_embedding evicts the oldest unpinned block of a full store, or the oldest
\* of all, before it pushes the new one.
LEMMA AddBlockKeeps ==
    ASSUME ContextInv, NEW offer \in Offers, NEW pinned \in BOOLEAN, AddBlock(offer, pinned)
    PROVE  ContextInv'
<1> DEFINE block == BlockOf(offer, pinned, Len(added))
           k == OldestUnpinned
<1>1. /\ capacity \in Nat /\ capacity' = capacity /\ output' = NoOutput
      /\ blocks' = IF Rejected(pinned) THEN blocks ELSE Append(Evicted(pinned), block)
      /\ added' = Append(added, block)
  BY DEF AddBlock, ContextInv
<1>2. block \in Blocks /\ block.serial = Len(added) /\ block.pinned = pinned /\ Len(added) \in Nat
  BY BlocksAre, LenProperties DEF ContextInv
<1>3. blocks \in Seq(Blocks) /\ added \in Seq(Blocks)
  BY DEF ContextInv
<1>4. /\ added' \in Seq(Blocks) /\ ToSet(added') = ToSet(added) \cup {block}
      /\ \A i \in DOMAIN added' : added'[i].serial = i - 1
  <2> DEFINE N == Len(added)
  <2>1. N \in Nat /\ DOMAIN added = 1..N
    BY <1>3, LenProperties
  <2>2. /\ added' \in Seq(Blocks) /\ Len(added') = N + 1
        /\ (\A i \in 1..N : added'[i] = added[i]) /\ added'[N + 1] = block
    BY <1>1, <1>2, <1>3, AppendProperties
  <2>3. DOMAIN added' = 1..N + 1
    BY <2>2, LenProperties
  <2> HIDE DEF block
  <2>4. \A i \in 1..N + 1 : i \in 1..N \/ i = N + 1
    BY <2>1
  <2>5. \A i \in DOMAIN added' : added'[i].serial = i - 1
    <3>1. \A i \in 1..N : added[i].serial = i - 1
      BY <2>1 DEF ContextInv
    <3>2. N + 1 - 1 = N
      BY <2>1
    <3> QED BY <1>2, <2>2, <2>3, <2>4, <3>1, <3>2
  <2>6. ToSet(added) = {added[i] : i \in 1..N} /\ ToSet(added') = {added'[i] : i \in 1..N + 1}
    BY <2>1, <2>3 DEF ToSet
  <2>7. 1..N + 1 = (1..N) \cup {N + 1}
    BY <2>1
  <2>8. ToSet(added') = ToSet(added) \cup {block}
    BY <2>2, <2>6, <2>7
  <2> QED BY <2>2, <2>5, <2>8
<1> HIDE DEF block
<1>5. blocks' \in Seq(Blocks) /\ HoldsLatest'
  <2> SUFFICES /\ blocks' \in Seq(Blocks)
               /\ Len(blocks') <= capacity \/ (Len(blocks') = 1 /\ blocks'[1].pinned)
               /\ ToSet(blocks') \subseteq ToSet(added')
               /\ \A i, j \in DOMAIN blocks' : i < j => blocks'[i].serial < blocks'[j].serial
               /\ \A gone \in ToSet(added') \ ToSet(blocks') :
                     /\ Len(blocks') >= capacity
                     /\ \A other \in ToSet(blocks') :
                           other.serial > gone.serial \/ (other.pinned /\ ~gone.pinned)
                     /\ gone.pinned => blocks' # <<>> /\ \A other \in ToSet(blocks') : other.pinned
    BY <1>1, Zenon DEF HoldsLatest
  <2>1. /\ DOMAIN blocks = 1..Len(blocks) /\ Len(blocks) \in Nat
        /\ \A i \in 1..Len(blocks) : blocks[i] \in ToSet(blocks)
    BY <1>3, LenProperties DEF ToSet
  <2>2. /\ Len(blocks) <= capacity \/ (Len(blocks) = 1 /\ blocks[1].pinned)
        /\ ToSet(blocks) \subseteq ToSet(added)
        /\ \A i, j \in DOMAIN blocks : i < j => blocks[i].serial < blocks[j].serial
        /\ \A gone \in ToSet(added) \ ToSet(blocks) :
              /\ Len(blocks) >= capacity
              /\ \A other \in ToSet(blocks) :
                    other.serial > gone.serial \/ (other.pinned /\ ~gone.pinned)
              /\ gone.pinned => blocks # <<>> /\ \A other \in ToSet(blocks) : other.pinned
    <3>1. HoldsLatest /\ capacity >= 0
      BY <1>1 DEF ContextInv
    <3> QED BY <3>1, Zenon DEF HoldsLatest
  <2>3. CASE Rejected(pinned)
    <3>1. blocks' = blocks /\ ~pinned /\ Len(blocks) >= capacity
          /\ \A other \in ToSet(blocks) : other.pinned
      BY <1>1, <2>3 DEF Rejected, ToSet
    <3>2. ASSUME NEW gone \in ToSet(added') \ ToSet(blocks')
          PROVE  /\ \A other \in ToSet(blocks') :
                           other.serial > gone.serial \/ (other.pinned /\ ~gone.pinned)
                 /\ gone.pinned => blocks' # <<>> /\ \A other \in ToSet(blocks') : other.pinned
      <4>1. CASE gone = block
        BY <1>2, <3>1, <4>1
      <4>2. CASE gone \in ToSet(added) \ ToSet(blocks)
        BY <2>2, <3>1, <4>2
      <4> QED BY <1>4, <3>1, <4>1, <4>2
    <3>3. ToSet(blocks') \subseteq ToSet(added')
      BY <1>4, <2>2, <3>1
    <3> QED BY <1>3, <2>2, <3>1, <3>2, <3>3
  <2>4. CASE ~Rejected(pinned) /\ Len(blocks) < capacity
    <3>1. blocks' = Append(blocks, block)
      BY <1>1, <2>4 DEF Evicted
    <3> DEFINE N == Len(blocks)
    <3>2. /\ blocks' \in Seq(Blocks) /\ Len(blocks') = N + 1
          /\ (\A i \in 1..N : blocks'[i] = blocks[i]) /\ blocks'[N + 1] = block
      BY <1>2, <1>3, <3>1, AppendProperties
    <3>3. DOMAIN blocks' = 1..N + 1 /\ N + 1 <= capacity
      BY <1>1, <2>1, <2>4, <3>2, LenProperties
    <3>4. ToSet(blocks) = ToSet(added)
      <4>1. ~(Len(blocks) >= capacity)
        BY <1>1, <2>1, <2>4
      <4> QED BY <2>2, <4>1
    <3>5. ToSet(blocks') = ToSet(blocks) \cup {block}
      <4>1. ToSet(blocks) = {blocks[i] : i \in 1..N} /\ ToSet(blocks') = {blocks'[i] : i \in 1..N + 1}
        BY <2>1, <3>3 DEF ToSet
      <4>2. 1..N + 1 = (1..N) \cup {N + 1}
        BY <2>1
      <4> QED BY <3>2, <4>1, <4>2
    <3>6. ASSUME NEW i \in 1..N + 1, NEW j \in 1..N + 1, i < j
          PROVE  blocks'[i].serial < blocks'[j].serial
      <4>1. i \in 1..N /\ (j \in 1..N \/ j = N + 1)
        BY <2>1, <3>6
      <4>2. CASE j \in 1..N
        BY <2>1, <2>2, <3>2, <3>6, <4>1, <4>2
      <4>3. CASE j = N + 1
        <5>1. blocks[i] \in ToSet(added)
          BY <2>1, <2>2, <4>1
        <5>2. PICK a \in DOMAIN added : blocks[i] = added[a]
          BY <5>1 DEF ToSet
        <5>3. added[a].serial = a - 1 /\ a \in 1..Len(added)
          BY <1>3, <5>2, LenProperties DEF ContextInv
        <5> QED BY <1>2, <3>2, <4>1, <4>3, <5>2, <5>3
      <4> QED BY <4>1, <4>2, <4>3
    <3> QED BY <1>4, <3>2, <3>3, <3>4, <3>5, <3>6
  <2>5. CASE ~Rejected(pinned) /\ ~(Len(blocks) < capacity)
    <3> DEFINE E == Evicted(pinned)
    <3>1. Len(blocks) >= capacity
      BY <1>1, <2>1, <2>5
    <3>2. blocks' = Append(E, block)
      BY <1>1, <2>5
    <3>3. CASE blocks = <<>>
      <4>1. OldestUnpinned = 0
        BY <1>3, <2>1, <3>3, OldestUnpinnedIs
      <4>2. E = <<>>
        BY <2>5, <3>3, <4>1 DEF Evicted
      <4>3. blocks' = <<block>>
        BY <3>2, <4>2
      <4>4. pinned
        BY <1>2, <2>5, <3>1, <3>3 DEF Rejected
      <4>5. /\ blocks' \in Seq(Blocks) /\ Len(blocks') = 1 /\ DOMAIN blocks' = {1}
            /\ blocks'[1] = block /\ ToSet(blocks') = {block} /\ blocks' # <<>>
        BY <1>2, <4>3 DEF ToSet
      <4>6. capacity = 0
        BY <1>1, <3>1, <3>3
      <4>7. ASSUME NEW gone \in ToSet(added') \ ToSet(blocks')
            PROVE  block.serial > gone.serial
        <5>1. gone \in ToSet(added)
          BY <1>4, <4>5
        <5>2. PICK a \in DOMAIN added : gone = added[a]
          BY <5>1 DEF ToSet
        <5>3. added[a].serial = a - 1 /\ a \in 1..Len(added)
          BY <1>3, <5>2, LenProperties DEF ContextInv
        <5> QED BY <1>2, <5>2, <5>3
      <4>8. ToSet(blocks') \subseteq ToSet(added')
        BY <1>4, <4>5
      <4>9. /\ \A i, j \in DOMAIN blocks' : ~(i < j)
            /\ Len(blocks') >= capacity /\ blocks'[1].pinned /\ \A other \in ToSet(blocks') : other.pinned
        <5>1. \A i, j \in DOMAIN blocks' : ~(i < j)
          BY <4>5
        <5>2. block.pinned
          BY <1>2, <4>4
        <5> QED BY <4>5, <4>6, <5>1, <5>2
      <4>10. \A gone \in ToSet(added') \ ToSet(blocks') :
                \A other \in ToSet(blocks') : other.serial > gone.serial
        BY <4>5, <4>7
      <4> QED BY <4>5, <4>8, <4>9, <4>10
    <3>4. CASE blocks # <<>> /\ OldestUnpinned # 0
      <4>1. /\ k \in DOMAIN blocks /\ ~blocks[k].pinned
            /\ \A i \in DOMAIN blocks : i < k => blocks[i].pinned
        BY <1>3, <3>4, OldestUnpinnedIs
      <4> HIDE DEF k
      <4>2. E = RemoveAt(blocks, k)
        BY <2>5, <3>4 DEF Evicted, k
      <4>3. /\ E \in Seq(Blocks) /\ Len(E) = Len(blocks) - 1
            /\ \A i \in DOMAIN E : E[i] = blocks[IF i < k THEN i ELSE i + 1]
        BY <1>3, <4>1, <4>2, RemovedIs
      <4> HIDE DEF E
      <4>4. blocks' \in Seq(Blocks)
        BY <1>2, <3>2, <4>3, AppendProperties
      <4>5. /\ Len(blocks') <= capacity \/ (Len(blocks') = 1 /\ blocks'[1].pinned)
            /\ ToSet(blocks') \subseteq ToSet(added')
            /\ \A i, j \in DOMAIN blocks' : i < j => blocks'[i].serial < blocks'[j].serial
            /\ \A gone \in ToSet(added') \ ToSet(blocks') :
                  /\ Len(blocks') >= capacity
                  /\ \A other \in ToSet(blocks') :
                        other.serial > gone.serial \/ (other.pinned /\ ~gone.pinned)
                  /\ gone.pinned => blocks' # <<>> /\ \A other \in ToSet(blocks') : other.pinned
        BY <1>1, <1>2, <1>4, <3>1, <3>2, <4>1, <4>3, <4>4, OneGoes, Zenon
      <4> QED BY <4>4, <4>5
    <3>5. CASE blocks # <<>> /\ OldestUnpinned = 0
      <4>1. \A i \in DOMAIN blocks : blocks[i].pinned
        BY <1>3, <3>5, OldestUnpinnedIs
      <4>2. pinned
        BY <1>2, <2>5, <3>1, <4>1 DEF Rejected
      <4>3. E = Tail(blocks)
        BY <2>5, <3>5 DEF Evicted
      <4>4. /\ E \in Seq(Blocks) /\ Len(E) = Len(blocks) - 1 /\ 1 \in DOMAIN blocks
            /\ \A i \in DOMAIN E : E[i] = blocks[IF i < 1 THEN i ELSE i + 1]
        BY <1>3, <3>5, <4>3, TailIs
      <4> HIDE DEF E
      <4>5. blocks' \in Seq(Blocks)
        BY <1>2, <3>2, <4>4, AppendProperties
      <4>6. block.pinned
        BY <1>2, <4>2
      <4>7. /\ Len(blocks') <= capacity \/ (Len(blocks') = 1 /\ blocks'[1].pinned)
            /\ ToSet(blocks') \subseteq ToSet(added')
            /\ \A i, j \in DOMAIN blocks' : i < j => blocks'[i].serial < blocks'[j].serial
            /\ \A gone \in ToSet(added') \ ToSet(blocks') :
                  /\ Len(blocks') >= capacity
                  /\ \A other \in ToSet(blocks') :
                        other.serial > gone.serial \/ (other.pinned /\ ~gone.pinned)
                  /\ gone.pinned => blocks' # <<>> /\ \A other \in ToSet(blocks') : other.pinned
        BY <1>1, <1>2, <1>4, <3>1, <3>2, <4>1, <4>4, <4>5, <4>6, OneGoes, Zenon
      <4> QED BY <4>5, <4>7
    <3> QED BY <3>3, <3>4, <3>5
  <2> QED BY <2>3, <2>4, <2>5
<1>6. SlicesCharacters'
  BY <1>1 DEF SlicesCharacters, NoOutput
<1>7. output'.kind # "search"
  BY <1>1 DEF NoOutput
<1> QED BY <1>1, <1>4, <1>5, <1>6, <1>7 DEF ContextInv

\* The bounds of a slice are those of its characters.
LEMMA SliceKeeps ==
    ASSUME ContextInv, NEW name \in Names, NEW start \in Nat, NEW end \in Nat, Slice(name, start, end)
    PROVE  ContextInv'
<1> DEFINE content == blocks[FoundAt(name)].content
           Kept(index) == WidthOf(content, IF index < Len(content) THEN index ELSE Len(content))
<1>1. /\ UNCHANGED <<capacity, blocks, added>>
      /\ output' = IF FoundAt(name) = 0 THEN [kind |-> "not found"]
                   ELSE IF start >= Len(content)
                        THEN [kind |-> "out of bounds", content |-> content, start |-> start]
                   ELSE [kind |-> "slice", content |-> content, start |-> start, end |-> end,
                         bytes |-> <<Kept(start), IF end <= start THEN Kept(start) ELSE Kept(end)>>]
  BY DEF Slice, Answered
<1>2. HoldsLatest'
  BY <1>1 DEF ContextInv, HoldsLatest
<1>3. output'.kind # "search"
  BY <1>1
<1>4. SlicesCharacters'
  <2> SUFFICES ASSUME output'.kind = "slice"
               PROVE  \E first, last \in 0..Len(output'.content) :
                         /\ output'.bytes = <<WidthOf(output'.content, first), WidthOf(output'.content, last)>>
                         /\ first = output'.start
                         /\ last = Max({first, Min({output'.end, Len(output'.content)})})
    BY DEF SlicesCharacters
  <2>1. /\ FoundAt(name) # 0 /\ ~(start >= Len(content)) 
        /\ output' = [kind |-> "slice", content |-> content, start |-> start, end |-> end,
                      bytes |-> <<Kept(start), IF end <= start THEN Kept(start) ELSE Kept(end)>>]
    BY <1>1
  <2>2. Len(content) \in Nat
    <3>1. FoundAt(name) \in DOMAIN blocks
      <4> DEFINE I == {i \in 1..Len(blocks) : blocks[i].source = name \/ blocks[i].id = name}
      <4>1. FoundAt(name) = IF I # {} THEN Min(I) ELSE 0
        BY DEF FoundAt, SelectInSeq
      <4>2. I # {}
        BY <2>1, <4>1
      <4>3. I \in SUBSET Nat
        OBVIOUS
      <4>4. \E n \in I : \A m \in I : n <= m
        BY <4>2, <4>3, LeastNumber
      <4>5. FoundAt(name) \in I
        <5>1. FoundAt(name) = CHOOSE n \in I : \A m \in I : n <= m
          BY <4>1, <4>2 DEF Min
        <5> HIDE DEF I
        <5> QED BY <4>4, <5>1
      <4> QED BY <4>5, LenProperties DEF ContextInv
    <3>2. content \in Seq(Nat)
      BY <3>1, BlocksHave, ElementOfSeq DEF ContextInv
    <3> QED BY <3>2, LenProperties
  <2> DEFINE n == Len(content)
             last == IF end <= start THEN start ELSE IF end < n THEN end ELSE n
  <2>3. /\ output'.content = content /\ output'.start = start /\ output'.end = end
        /\ output'.bytes = <<Kept(start), IF end <= start THEN Kept(start) ELSE Kept(end)>>
    BY <2>1
  <2>4. start \in 0..n /\ last \in 0..n
    BY <2>1, <2>2
  <2>5. Kept(start) = WidthOf(content, start)
    BY <2>1, <2>2
  <2>6. (IF end <= start THEN Kept(start) ELSE Kept(end)) = WidthOf(content, last)
    BY <2>5
  <2>7. last = Max({start, Min({end, n})})
    <3>1. Min({end, n}) = IF end < n THEN end ELSE n
      BY <2>2, MinOfTwo
    <3> DEFINE m == IF end < n THEN end ELSE n
    <3>2. m \in Nat
      BY <2>2
    <3>3. Max({start, m}) = IF start < m THEN m ELSE start
      BY <3>2, MaxOfTwo
    <3>4. (IF start < m THEN m ELSE start) = last
      BY <2>1, <2>2
    <3> QED BY <3>1, <3>3, <3>4
  <2> HIDE DEF content, Kept, n, last
  <2>8. Len(output'.content) = n
    BY <2>3 DEF n
  <2> QED BY <2>3, <2>4, <2>5, <2>6, <2>7, <2>8
<1> QED BY <1>1, <1>2, <1>3, <1>4 DEF ContextInv

\* search_semantic answers with the best of the embedded blocks and changes none.
LEMMA SearchSemanticKeeps ==
    ASSUME ContextInv, NEW dimension, NEW count \in Nat, SearchSemantic(dimension, count)
    PROVE  ContextInv'
<1>1. /\ UNCHANGED <<capacity, blocks, added>>
      /\ output' = [kind |-> "search", dimension |-> dimension, count |-> count,
                    found |-> IF dimension # Dimension THEN <<>> ELSE Best(Embedded, CosineAt, count)]
  BY DEF SearchSemantic, Answered, CosineAt
<1>2. HoldsLatest'
  BY <1>1 DEF ContextInv, HoldsLatest
<1>3. SlicesCharacters'
  BY <1>1 DEF SlicesCharacters
<1>4. Embedded' = Embedded /\ CosineAt' = CosineAt
  BY <1>1 DEF Embedded, CosineAt, Cosine
<1>5. /\ output'.count = count /\ output'.dimension = dimension
      /\ output'.found = IF dimension # Dimension THEN <<>> ELSE Best(Embedded', CosineAt', count)
  BY <1>1, <1>4
<1> QED BY <1>1, <1>2, <1>3, <1>5 DEF ContextInv

\* The inductive invariant of the context store (ContextStore of store.rs), whatever is added,
\* sliced and searched.
THEOREM ContextInvariant == ContextSpec => []ContextInv
<1>1. ContextInit => ContextInv
  <2> SUFFICES ASSUME ContextInit PROVE ContextInv
    OBVIOUS
  <2>1. capacity = -1 /\ blocks = <<>> /\ added = <<>> /\ output = [kind |-> "none"]
    BY DEF ContextInit, NoOutput
  <2>2. HoldsLatest /\ SlicesCharacters
    BY <2>1 DEF HoldsLatest, SlicesCharacters
  <2> QED BY <2>1, <2>2 DEF ContextInv
<1>2. ContextInv /\ [ContextNext]_contextVars => ContextInv'
  <2> SUFFICES ASSUME ContextInv, [ContextNext]_contextVars PROVE ContextInv'
    OBVIOUS
  <2>1. CASE Create
    <3>1. /\ capacity = -1 /\ blocks = <<>> /\ added = <<>> /\ capacity' \in Nat
          /\ UNCHANGED <<blocks, added, output>>
      BY <2>1, ContextAssumption DEF Create, ContextInv
    <3>2. HoldsLatest'
      BY <3>1 DEF HoldsLatest, ToSet
    <3>3. SlicesCharacters'
      BY <3>1 DEF ContextInv, SlicesCharacters
    <3>4. Embedded' = Embedded /\ CosineAt' = CosineAt
      BY <3>1 DEF Embedded, CosineAt, Cosine
    <3> QED BY <3>1, <3>2, <3>3, <3>4 DEF ContextInv
  <2>2. ASSUME NEW offer \in Offers, NEW pinned \in BOOLEAN, AddBlock(offer, pinned)
        PROVE  ContextInv'
    BY <2>2, AddBlockKeeps
  <2>3. ASSUME NEW name \in Names, NEW start \in 0..3, NEW end \in 0..3, Slice(name, start, end)
        PROVE  ContextInv'
    BY <2>3, SliceKeeps
  <2>4. ASSUME NEW dimension \in {Dimension, Dimension + 1}, NEW count \in 0..2,
               SearchSemantic(dimension, count)
        PROVE  ContextInv'
    BY <2>4, SearchSemanticKeeps
  <2>5. CASE UNCHANGED contextVars
    <3>1. UNCHANGED <<capacity, blocks, added, output>>
      BY <2>5 DEF contextVars
    <3>2. HoldsLatest'
      BY <3>1 DEF ContextInv, HoldsLatest
    <3>3. SlicesCharacters'
      BY <3>1 DEF ContextInv, SlicesCharacters
    <3>4. Embedded' = Embedded /\ CosineAt' = CosineAt
      BY <3>1 DEF Embedded, CosineAt, Cosine
    <3> QED BY <3>1, <3>2, <3>3, <3>4 DEF ContextInv
  <2> QED BY <2>1, <2>2, <2>3, <2>4, <2>5 DEF ContextNext
<1> QED BY <1>1, <1>2, PTL DEF ContextSpec

\* The best of the blocks that can be compared is what a search should give.
LEMMA FoundIsSimilar == ContextInv => FindsMostSimilar
<1> SUFFICES ASSUME ContextInv, output.kind = "search", output.dimension = Dimension
             PROVE  IsBest(output.found, Embedded, Cosine, output.count)
  BY DEF ContextInv, FindsMostSimilar
<1> DEFINE best == output.found
           count == output.count
           places == {i \in DOMAIN blocks : /\ blocks[i].embedding.dimension > 0
                                            /\ blocks[i].embedding.norm > 0}
<1>1. blocks \in Seq(Blocks) /\ count \in Nat /\ best = Best(Embedded, CosineAt, count)
  BY DEF ContextInv
<1>2. /\ DOMAIN blocks = 1..Len(blocks) /\ Len(blocks) \in Nat
      /\ \A i \in DOMAIN blocks : blocks[i] \in Blocks
  BY <1>1, LenProperties, ElementOfSeq
<1>3. /\ Embedded \in Seq(Blocks)
      /\ \A i, j \in DOMAIN Embedded : Embedded[i] = Embedded[j] => i = j
  <2>1. places \in SUBSET DOMAIN blocks
    OBVIOUS
  <2>2. Embedded = Retained(blocks, places)
    BY DEF Embedded
  <2> HIDE DEF places
  <2>4. PICK c \in [DOMAIN Embedded -> places] :
              /\ \A i \in DOMAIN Embedded : Embedded[i] = blocks[c[i]]
              /\ \A i, j \in DOMAIN Embedded : c[i] < c[j] <=> i < j
    <3>1. PICK d \in Placings(blocks, places) : TRUE
      BY <1>1, <2>1, RetainedIs
    <3> QED BY <2>2, <3>1 DEF Placings
  <2>5. Embedded \in Seq(Blocks)
    BY <1>1, <2>1, <2>2, RetainedIs
  <2>6. DOMAIN Embedded = 1..Len(Embedded) /\ Len(Embedded) \in Nat
    BY <2>5, LenProperties
  <2>7. \A i, j \in DOMAIN blocks : i < j => blocks[i].serial < blocks[j].serial
    <3>1. CASE capacity \in Nat
      <4>1. HoldsLatest /\ capacity >= 0
        BY <3>1 DEF ContextInv
      <4> QED BY <4>1, Zenon DEF HoldsLatest
    <3>2. CASE blocks = <<>>
      BY <1>2, <3>2
    <3> QED BY <3>1, <3>2 DEF ContextInv
  <2>8. ASSUME NEW i \in DOMAIN Embedded, NEW j \in DOMAIN Embedded, i < j
        PROVE  Embedded[i] # Embedded[j]
    <3>1. c[i] \in DOMAIN blocks /\ c[j] \in DOMAIN blocks /\ c[i] < c[j]
      BY <2>1, <2>4, <2>8
    <3>2. blocks[c[i]].serial < blocks[c[j]].serial /\ blocks[c[i]].serial \in Nat
      BY <1>2, <2>7, <3>1, BlocksHave
    <3>3. blocks[c[i]].serial # blocks[c[j]].serial
      BY <1>2, <3>1, <3>2, BlocksHave
    <3> QED BY <2>4, <3>3
  <2>9. \A i, j \in DOMAIN Embedded : i = j \/ i < j \/ j < i
    BY <2>6
  <2> QED BY <2>5, <2>8, <2>9
<1> HIDE DEF places, best, count
<1>4. \A i \in DOMAIN Embedded : Cosine(Embedded[i]) \in Int /\ CosineAt[i] = Cosine(Embedded[i])
  <2>1. \A i \in DOMAIN Embedded : Embedded[i] \in Blocks
    BY <1>3, ElementOfSeq
  <2> QED BY <2>1, BlocksHave DEF Cosine, CosineAt
<1>5. /\ best \in Seq(Blocks)
      /\ Len(best) = IF count < Len(Embedded) THEN count ELSE Len(Embedded)
  BY <1>1, <1>3, <1>4, BestIs
<1>6. PICK c \in [DOMAIN Embedded -> DOMAIN Embedded] :
         /\ DOMAIN best \subseteq DOMAIN Embedded
         /\ \A i \in DOMAIN best : best[i] = Embedded[c[i]]
         /\ \A i, j \in DOMAIN best : c[i] = c[j] => i = j
         /\ \A i, j \in DOMAIN best : i <= j => CosineAt[c[i]] >= CosineAt[c[j]]
         /\ \A i \in DOMAIN Embedded :
               \/ \E j \in DOMAIN best : c[j] = i
               \/ \A j \in DOMAIN best : CosineAt[c[j]] >= CosineAt[i]
  <2>1. \A i \in DOMAIN Embedded : CosineAt[i] \in Int
    BY <1>4
  <2>2. Winners(Embedded, CosineAt, Best(Embedded, CosineAt, count)) # {}
    BY <1>1, <1>3, <2>1, BestIs
  <2> QED BY <1>1, <2>2 DEF Winners
<1>7. \A i \in DOMAIN best : c[i] \in DOMAIN Embedded /\ CosineAt[c[i]] = Cosine(best[i])
  BY <1>4, <1>6
<1>8. ASSUME NEW i \in DOMAIN best, NEW j \in DOMAIN best, i < j
      PROVE  best[i] # best[j] /\ Cosine(best[i]) >= Cosine(best[j])
  <2>1. i \in Nat /\ j \in Nat
    BY <1>3, <1>6, LenProperties
  <2>2. i # j /\ i <= j
    BY <1>8, <2>1
  <2>3. c[i] # c[j]
    BY <1>6, <2>2
  <2>4. Embedded[c[i]] # Embedded[c[j]]
    BY <1>3, <1>7, <2>3
  <2>5. best[i] # best[j]
    BY <1>6, <2>4
  <2>6. CosineAt[c[i]] >= CosineAt[c[j]]
    BY <1>6, <2>2
  <2> QED BY <1>7, <2>5, <2>6
<1>9. ASSUME NEW i \in DOMAIN Embedded, ~\E j \in DOMAIN best : best[j] = Embedded[i]
      PROVE  \A j \in DOMAIN best : Cosine(best[j]) >= Cosine(Embedded[i])
  <2>1. ~\E j \in DOMAIN best : c[j] = i
    BY <1>6, <1>9
  <2>2. \A j \in DOMAIN best : CosineAt[c[j]] >= CosineAt[i]
    BY <1>6, <2>1
  <2> QED BY <1>4, <1>7, <2>2
<1>10. IsBest(best, Embedded, Cosine, count)
  BY <1>5, <1>8, <1>9 DEF IsBest
<1> QED BY <1>10 DEF best, count

\* The store holds the latest blocks that fit, cuts slices at characters and finds the most
\* similar blocks (add_block_with_embedding, search_semantic, op_slice).
THEOREM StoreIsRight == ContextSpec => []ContextRight
<1>1. ContextInv => ContextRight
  BY FoundIsSimilar DEF ContextInv, ContextRight
<1> QED BY <1>1, ContextInvariant, PTL

----------------------------------------------------------------------------
(* The semantic anchors.                                                   *)

\* What insert_anchor is called with
Anchors == [pos : Nat, prefix : Seq(Nat), state : Nat]

\* The positions for which an anchor was ever inserted
AnchorPositions == {inserts[j].pos : j \in DOMAIN inserts}

\* What is not kept any more was replaced, or made room for others.
Accounted(i) ==
    \/ inserts[i] \in ToSet(anchors)
    \/ Overwritten(i)
    \/ Cardinality(AnchorPositions \ {inserts[i].pos}) >= budget

\* The inductive invariant of the anchor cache: anchors at distinct positions, all
\* of them inserted, and none gone without a reason.
AnchorInv ==
    /\ budget \in Nat
    /\ anchors \in Seq(Anchors)
    /\ inserts \in Seq(Anchors)
    /\ budget = 0 => anchors = <<>> /\ inserts = <<>>
    /\ Len(anchors) <= budget
    /\ \A i, j \in DOMAIN anchors : anchors[i].pos = anchors[j].pos => i = j
    /\ \A anchor \in ToSet(anchors) : \E i \in DOMAIN inserts : inserts[i] = anchor /\ ~Overwritten(i)
    /\ \A i \in DOMAIN inserts : Accounted(i)
    /\ deepest # Unasked =>
          /\ deepest.tokens \in AnchorPrefixes
          /\ deepest.found =>
                /\ deepest.anchor \in Matching(deepest.tokens)
                /\ \A other \in Matching(deepest.tokens) : other.pos <= deepest.anchor.pos
          /\ ~deepest.found => Matching(deepest.tokens) = {}

\* The anchor at a position is found if there is one.
LEMMA AtFinds ==
    ASSUME anchors \in Seq(Anchors), NEW pos \in Nat
    PROVE  \/ At(pos) \in DOMAIN anchors /\ anchors[At(pos)].pos = pos
           \/ At(pos) = 0 /\ \A i \in DOMAIN anchors : anchors[i].pos # pos
<1> DEFINE Found == {i \in 1..Len(anchors) : anchors[i].pos = pos}
<1>1. Len(anchors) \in Nat /\ DOMAIN anchors = 1..Len(anchors)
  BY LenProperties
<1>2. At(pos) = IF Found # {} THEN Min(Found) ELSE 0
  BY DEF At, SelectInSeq
<1>3. CASE Found = {}
  BY <1>1, <1>2, <1>3
<1>4. CASE Found # {}
  <2>1. Found \in SUBSET Nat
    BY <1>1
  <2> HIDE DEF Found
  <2>2. PICK least \in Found : \A i \in Found : least <= i
    BY <1>4, <2>1, LeastNumber
  <2>3. Min(Found) \in Found
    BY <2>2 DEF Min
  <2> QED BY <1>1, <1>2, <1>4, <2>3 DEF Found
<1> QED BY <1>3, <1>4

\* What an insertion does to the anchors: it takes the place of the one at its position,
\* or is added, for which the oldest goes if there is no room.
LEMMA ReplacedIs ==
    ASSUME AnchorInv, budget > 0, NEW anchor \in Anchors
    PROVE  LET new == Replaced(anchor)
           IN  /\ new \in Seq(Anchors)
               /\ Len(new) <= budget
               /\ \A i, j \in DOMAIN new : new[i].pos = new[j].pos => i = j
               /\ anchor \in ToSet(new)
               /\ \A other \in ToSet(new) :
                     other = anchor \/ (other \in ToSet(anchors) /\ other.pos # anchor.pos)
               /\ \A old \in ToSet(anchors) :
                     \/ old \in ToSet(new)
                     \/ old.pos = anchor.pos
                     \/ Len(new) = budget /\ \A other \in ToSet(new) : other.pos # old.pos
<1>1. /\ anchors \in Seq(Anchors) /\ budget \in Nat \ {0} /\ Len(anchors) <= budget
      /\ \A i, j \in DOMAIN anchors : anchors[i].pos = anchors[j].pos => i = j
      /\ Len(anchors) \in Nat /\ DOMAIN anchors = 1..Len(anchors)
      /\ anchor.pos \in Nat
  BY LenProperties DEF AnchorInv, Anchors
<1>2. \A i \in DOMAIN anchors : anchors[i] \in Anchors
  BY <1>1
<1>3. CASE At(anchor.pos) # 0
  <2> DEFINE k == At(anchor.pos)
             new == [anchors EXCEPT ![k] = anchor]
  <2>1. k \in DOMAIN anchors /\ anchors[k].pos = anchor.pos
    BY <1>1, <1>3, AtFinds
  <2>2. Replaced(anchor) = new
    BY <1>3 DEF Replaced
  <2> HIDE DEF k
  <2>3. /\ new \in Seq(Anchors) /\ DOMAIN new = DOMAIN anchors /\ Len(new) = Len(anchors)
        /\ new[k] = anchor /\ \A i \in DOMAIN anchors : i # k => new[i] = anchors[i]
    BY <1>1, <2>1, ExceptSeq
  <2> HIDE DEF new
  <2>4. \A i, j \in DOMAIN new : new[i].pos = new[j].pos => i = j
    BY <1>1, <2>1, <2>3
  <2>5. anchor \in ToSet(new)
    BY <2>1, <2>3 DEF ToSet
  <2>6. \A other \in ToSet(new) :
            other = anchor \/ (other \in ToSet(anchors) /\ other.pos # anchor.pos)
    BY <1>1, <2>1, <2>3 DEF ToSet
  <2>7. \A old \in ToSet(anchors) : old \in ToSet(new) \/ old.pos = anchor.pos
    BY <1>1, <2>1, <2>3 DEF ToSet
  <2> QED BY <1>1, <2>2, <2>3, <2>4, <2>5, <2>6, <2>7
<1>4. CASE At(anchor.pos) = 0 /\ Len(anchors) < budget
  <2> DEFINE new == Append(anchors, anchor)
  <2>1. \A i \in DOMAIN anchors : anchors[i].pos # anchor.pos
    BY <1>1, <1>4, AtFinds
  <2>2. Replaced(anchor) = new
    BY <1>1, <1>4 DEF Replaced
  <2>3. /\ new \in Seq(Anchors) /\ Len(new) = Len(anchors) + 1
        /\ DOMAIN new = 1..Len(anchors) + 1
        /\ new[Len(anchors) + 1] = anchor /\ \A i \in 1..Len(anchors) : new[i] = anchors[i]
    BY <1>1, AppendProperties, LenProperties
  <2> HIDE DEF new
  <2>4. \A i, j \in DOMAIN new : new[i].pos = new[j].pos => i = j
    BY <1>1, <2>1, <2>3
  <2>5. anchor \in ToSet(new)
    BY <1>1, <2>3 DEF ToSet
  <2>6. \A other \in ToSet(new) :
            other = anchor \/ (other \in ToSet(anchors) /\ other.pos # anchor.pos)
    BY <1>1, <2>1, <2>3 DEF ToSet
  <2>7. \A old \in ToSet(anchors) : old \in ToSet(new)
    BY <1>1, <2>3 DEF ToSet
  <2> QED BY <1>1, <1>4, <2>2, <2>3, <2>4, <2>5, <2>6, <2>7
<1>5. CASE At(anchor.pos) = 0 /\ Len(anchors) >= budget
  <2> DEFINE new == Append(Tail(anchors), anchor)
  <2>1. \A i \in DOMAIN anchors : anchors[i].pos # anchor.pos
    BY <1>1, <1>5, AtFinds
  <2>2. Replaced(anchor) = new
    BY <1>5 DEF Replaced
  <2>3. Len(anchors) = budget /\ anchors # <<>>
    <3>1. Len(anchors) = budget
      <4>1. \A a, b \in Nat : a <= b /\ a >= b => a = b
        OBVIOUS
      <4> QED BY <1>1, <1>5, <4>1
    <3>2. anchors = <<>> => Len(anchors) = 0
      BY EmptySeq
    <3> QED BY <1>1, <3>1, <3>2
  <2>4. /\ Tail(anchors) \in Seq(Anchors) /\ Len(Tail(anchors)) = budget - 1
        /\ \A i \in 1..budget - 1 : Tail(anchors)[i] = anchors[i + 1]
    BY <1>1, <2>3, HeadTailProperties
  <2>5. /\ new \in Seq(Anchors) /\ Len(new) = budget /\ DOMAIN new = 1..budget
        /\ new[budget] = anchor /\ \A i \in 1..budget - 1 : new[i] = anchors[i + 1]
    <3>1. /\ new \in Seq(Anchors) /\ Len(new) = Len(Tail(anchors)) + 1
          /\ \A i \in 1..Len(Tail(anchors)) : new[i] = Tail(anchors)[i]
          /\ new[Len(Tail(anchors)) + 1] = anchor
      BY <2>4, AppendProperties
    <3>2. Len(Tail(anchors)) + 1 = budget
      <4>1. \A a, b \in Nat : a = b - 1 => a + 1 = b
        OBVIOUS
      <4>2. Len(Tail(anchors)) \in Nat /\ budget \in Nat
        BY <1>1, <2>4, LenProperties
      <4> QED BY <2>4, <4>1, <4>2
    <3> QED BY <2>4, <3>1, <3>2, LenProperties
  <2> HIDE DEF new
  <2>6. \A i \in 1..budget - 1 : i + 1 \in DOMAIN anchors /\ i + 1 # 1
    BY <1>1, <2>3
  <2>7. \A i, j \in DOMAIN new : new[i].pos = new[j].pos => i = j
    <3> SUFFICES ASSUME NEW i \in 1..budget, NEW j \in 1..budget, new[i].pos = new[j].pos
                 PROVE  i = j
      BY <2>5
    <3> DEFINE Low == 1..budget - 1
    <3>0. \A h \in Low : new[h].pos # anchor.pos
      BY <2>1, <2>5, <2>6
    <3>1. CASE i = budget \/ j = budget
      <4>1. \A h \in 1..budget : h = budget \/ h \in Low
        BY <1>1
      <4>2. new[budget].pos = anchor.pos
        BY <2>5
      <4> HIDE DEF Low
      <4> QED BY <3>0, <3>1, <4>1, <4>2
    <3>2. CASE i # budget /\ j # budget
      <4>1. i \in 1..budget - 1 /\ j \in 1..budget - 1
        BY <1>1, <3>2
      <4>2. anchors[i + 1].pos = anchors[j + 1].pos
        BY <2>5, <4>1
      <4>3. i + 1 \in DOMAIN anchors /\ j + 1 \in DOMAIN anchors
        BY <2>6, <4>1
      <4>4. i + 1 = j + 1
        BY <1>1, <4>2, <4>3
      <4> QED BY <4>1, <4>4
    <3> QED BY <3>1, <3>2
  <2>8. anchor \in ToSet(new)
    BY <1>1, <2>5 DEF ToSet
  <2>9. \A i \in DOMAIN new : i = budget \/ i \in 1..budget - 1
    BY <1>1, <2>5
  <2>10. \A other \in ToSet(new) :
            other = anchor \/ (other \in ToSet(anchors) /\ other.pos # anchor.pos)
    BY <2>1, <2>5, <2>6, <2>9 DEF ToSet
  <2>11. \A other \in ToSet(new) : other.pos # anchors[1].pos
    <3>1. 1 \in DOMAIN anchors
      BY <1>1, <2>3
    <3>2. new[budget].pos # anchors[1].pos
      BY <2>1, <2>5, <3>1
    <3>3. ASSUME NEW i \in 1..budget - 1 PROVE new[i].pos # anchors[1].pos
      <4>1. new[i] = anchors[i + 1] /\ i + 1 \in DOMAIN anchors /\ i + 1 # 1
        BY <2>5, <2>6
      <4> QED BY <1>1, <3>1, <4>1
    <3>4. \A i \in DOMAIN new : new[i].pos # anchors[1].pos
      BY <2>9, <3>2, <3>3
    <3> QED BY <3>4 DEF ToSet
  <2>12. \A old \in ToSet(anchors) : old \in ToSet(new) \/ old = anchors[1]
    <3> SUFFICES ASSUME NEW i \in 1..budget, i # 1 PROVE anchors[i] \in ToSet(new)
      BY <1>1, <2>3 DEF ToSet
    <3>1. i - 1 \in 1..budget - 1 /\ i - 1 \in DOMAIN new /\ (i - 1) + 1 = i
      BY <1>1, <2>5
    <3> QED BY <2>5, <3>1 DEF ToSet
  <2> QED BY <1>1, <2>2, <2>5, <2>7, <2>8, <2>10, <2>11, <2>12
<1> QED BY <1>1, <1>3, <1>4, <1>5

\* The positions of the insertions are finitely many.
LEMMA FinitelyManyPositions ==
    ASSUME inserts \in Seq(Anchors)
    PROVE  IsFiniteSet(AnchorPositions)
<1> DEFINE f == [i \in DOMAIN inserts |-> inserts[i].pos]
<1>1. IsFiniteSet(DOMAIN inserts)
  <2>1. DOMAIN inserts = 1..Len(inserts) /\ Len(inserts) \in Nat
    BY LenProperties
  <2> QED BY <2>1, FS_Interval
<1>2. f \in Surjection(DOMAIN inserts, AnchorPositions)
  BY Fun_IsSurj DEF AnchorPositions
<1> QED BY <1>1, <1>2, FS_Surjection

\* As many positions as there are anchors, all of them inserted and none of them this one.
LEMMA OthersFillTheRoom ==
    ASSUME NEW new \in Seq(Anchors), NEW others, IsFiniteSet(others),
           \A i \in DOMAIN new : new[i].pos \in others,
           \A i, j \in DOMAIN new : new[i].pos = new[j].pos => i = j
    PROVE  Cardinality(others) >= Len(new)
<1> DEFINE f == [i \in 1..Len(new) |-> new[i].pos]
<1>1. DOMAIN new = 1..Len(new) /\ Len(new) \in Nat
  BY LenProperties
<1>2. f \in [1..Len(new) -> others] /\ \A i, j \in 1..Len(new) : f[i] = f[j] => i = j
  BY <1>1
<1> HIDE DEF f
<1>3. f \in Injection(1..Len(new), others)
  BY <1>2, Fun_IsInj
<1>4. Cardinality(1..Len(new)) <= Cardinality(others)
  BY <1>3, FS_Injection
<1>5. Cardinality(1..Len(new)) = Len(new)
  <2>1. 0 \in Int /\ 1 \in Int /\ Len(new) \in Int
    BY <1>1
  <2>2. Cardinality(1..Len(new)) = IF 1 > Len(new) THEN 0 ELSE Len(new) - 1 + 1
    BY <2>1, FS_Interval
  <2> QED BY <1>1, <2>2
<1>6. Cardinality(others) \in Nat
  BY FS_CardinalityType
<1> QED BY <1>1, <1>4, <1>5, <1>6

\* An insertion is accounted for, and so is every one before it.
LEMMA InsertAnchorKeeps ==
    ASSUME AnchorInv, NEW pos \in Nat, NEW prefix \in Seq(Nat), InsertAnchor(pos, prefix)
    PROVE  AnchorInv'
<1> DEFINE anchor == [pos |-> pos, prefix |-> prefix, state |-> Len(inserts)]
<1>1. /\ anchors' = Replaced(anchor) /\ inserts' = Append(inserts, anchor)
      /\ deepest' = Unasked /\ budget' = budget /\ budget > 0
  BY DEF InsertAnchor
<1>2. /\ budget \in Nat /\ anchors \in Seq(Anchors) /\ inserts \in Seq(Anchors)
      /\ Len(inserts) \in Nat /\ DOMAIN inserts = 1..Len(inserts)
  BY LenProperties DEF AnchorInv
<1>m. PICK m \in Nat : m = Len(inserts)
  BY <1>2
<1>3. anchor \in Anchors /\ anchor.pos = pos
  BY <1>2 DEF Anchors
<1> HIDE DEF anchor
<1>4. /\ anchors' \in Seq(Anchors) /\ Len(anchors') <= budget
      /\ \A i, j \in DOMAIN anchors' : anchors'[i].pos = anchors'[j].pos => i = j
      /\ anchor \in ToSet(anchors')
      /\ \A other \in ToSet(anchors') :
            other = anchor \/ (other \in ToSet(anchors) /\ other.pos # pos)
      /\ \A old \in ToSet(anchors) :
            \/ old \in ToSet(anchors')
            \/ old.pos = pos
            \/ Len(anchors') = budget /\ \A other \in ToSet(anchors') : other.pos # old.pos
  BY <1>1, <1>3, ReplacedIs
<1>5. /\ inserts' \in Seq(Anchors) /\ DOMAIN inserts' = 1..m + 1
      /\ inserts'[m + 1] = anchor /\ \A i \in 1..m : inserts'[i] = inserts[i]
  <2>1. /\ inserts' \in Seq(Anchors) /\ Len(inserts') = m + 1
        /\ inserts'[m + 1] = anchor /\ \A i \in 1..m : inserts'[i] = inserts[i]
    BY <1>1, <1>2, <1>m, <1>3, AppendProperties
  <2> QED BY <2>1, LenProperties
<1>6. /\ 1..m \subseteq 1..m + 1 /\ m + 1 \in 1..m + 1
      /\ \A i \in 1..m + 1 : i = m + 1 \/ i \in 1..m
      /\ \A i \in 1..m : m + 1 > i /\ i # m + 1
  BY <1>2, <1>m
<1>7. /\ ~Overwritten(m + 1)'
      /\ \A i \in 1..m : Overwritten(i)' <=> Overwritten(i) \/ inserts[i].pos = pos
  <2>1. ~Overwritten(m + 1)'
    BY <1>2, <1>m, <1>5 DEF Overwritten
  <2>2. ASSUME NEW i \in 1..m, Overwritten(i) \/ inserts[i].pos = pos
        PROVE  \E j \in 1..m + 1 : j > i /\ inserts'[j].pos = inserts'[i].pos
    <3>1. CASE Overwritten(i)
      BY <1>2, <1>m, <1>5, <1>6, <3>1 DEF Overwritten
    <3>2. CASE inserts[i].pos = pos
      BY <1>3, <1>5, <1>6, <3>2
    <3> QED BY <2>2, <3>1, <3>2
  <2>3. ASSUME NEW i \in 1..m, NEW j \in 1..m + 1, j > i, inserts'[j].pos = inserts'[i].pos
        PROVE  Overwritten(i) \/ inserts[i].pos = pos
    <3>1. CASE j = m + 1
      BY <1>3, <1>5, <2>3, <3>1
    <3>2. CASE j \in 1..m
      BY <1>2, <1>m, <1>5, <2>3, <3>2 DEF Overwritten
    <3> QED BY <1>6, <3>1, <3>2
  <2> QED BY <1>5, <2>1, <2>2, <2>3 DEF Overwritten
<1>8. \A other \in ToSet(anchors') : \E i \in 1..m + 1 : inserts'[i] = other /\ ~Overwritten(i)'
  <2> SUFFICES ASSUME NEW other \in ToSet(anchors')
               PROVE  \E i \in 1..m + 1 : inserts'[i] = other /\ ~Overwritten(i)'
    OBVIOUS
  <2>1. CASE other = anchor
    BY <1>5, <1>6, <1>7, <2>1
  <2>2. CASE other \in ToSet(anchors) /\ other.pos # pos
    <3>1. PICK i \in 1..m : inserts[i] = other /\ ~Overwritten(i)
      BY <1>2, <1>m, <2>2 DEF AnchorInv
    <3> QED BY <1>5, <1>6, <1>7, <2>2, <3>1
  <2> QED BY <1>4, <2>1, <2>2
<1>9. /\ AnchorPositions' = {inserts'[i].pos : i \in 1..m + 1}
      /\ AnchorPositions \subseteq AnchorPositions' /\ IsFiniteSet(AnchorPositions) /\ IsFiniteSet(AnchorPositions')
  <2>1. AnchorPositions' = {inserts'[i].pos : i \in 1..m + 1}
    BY <1>5 DEF AnchorPositions
  <2>2. AnchorPositions \subseteq AnchorPositions'
    BY <1>2, <1>m, <1>5, <1>6, <2>1 DEF AnchorPositions
  <2>3. IsFiniteSet(AnchorPositions)
    BY <1>2, <1>m, FinitelyManyPositions
  <2>4. AnchorPositions' = AnchorPositions \cup {pos}
    BY <1>2, <1>m, <1>3, <1>5, <1>6, <2>1 DEF AnchorPositions
  <2>5. IsFiniteSet(AnchorPositions \cup {pos})
    BY <2>3, FS_AddElement
  <2> QED BY <2>1, <2>2, <2>3, <2>4, <2>5
<1>10. ASSUME NEW i \in 1..m PROVE Accounted(i)'
  <2> DEFINE p == inserts[i].pos
  <2>1. inserts'[i] = inserts[i]
    BY <1>5
  <2>2. Accounted(i)
    BY <1>2, <1>m DEF AnchorInv
  <2>3. CASE Overwritten(i) \/ p = pos
    BY <1>7, <2>3 DEF Accounted
  <2>4. CASE Cardinality(AnchorPositions \ {p}) >= budget
    <3>1. IsFiniteSet(AnchorPositions' \ {p}) /\ IsFiniteSet(AnchorPositions \ {p})
      BY <1>9, FS_RemoveElement
    <3>2. AnchorPositions \ {p} \in SUBSET (AnchorPositions' \ {p})
      BY <1>9
    <3>3. Cardinality(AnchorPositions \ {p}) <= Cardinality(AnchorPositions' \ {p})
      BY <3>1, <3>2, FS_Subset
    <3>4. Cardinality(AnchorPositions \ {p}) \in Nat /\ Cardinality(AnchorPositions' \ {p}) \in Nat
      BY <3>1, FS_CardinalityType
    <3>5. Cardinality(AnchorPositions' \ {p}) >= budget
      BY <1>2, <1>m, <2>4, <3>3, <3>4
    <3> QED BY <1>1, <2>1, <3>5 DEF Accounted
  <2>5. CASE inserts[i] \in ToSet(anchors) /\ p # pos
    <3>1. CASE inserts[i] \in ToSet(anchors')
      BY <2>1, <3>1 DEF Accounted
    <3>2. CASE Len(anchors') = budget /\ \A other \in ToSet(anchors') : other.pos # p
      <4>1. \A other \in ToSet(anchors') : other.pos \in AnchorPositions' \ {p}
        BY <1>8, <1>9, <3>2
      <4>2. \A j \in DOMAIN anchors' : anchors'[j].pos \in AnchorPositions' \ {p}
        BY <4>1 DEF ToSet
      <4>3. IsFiniteSet(AnchorPositions' \ {p})
        BY <1>9, FS_RemoveElement
      <4>4. Cardinality(AnchorPositions' \ {p}) >= Len(anchors')
        BY <1>4, <4>2, <4>3, OthersFillTheRoom
      <4> QED BY <1>1, <2>1, <3>2, <4>4 DEF Accounted
    <3> QED BY <1>4, <2>5, <3>1, <3>2
  <2> QED BY <2>2, <2>3, <2>4, <2>5 DEF Accounted
<1>11. Accounted(m + 1)'
  BY <1>4, <1>5 DEF Accounted
<1>12. \A i \in DOMAIN inserts' : Accounted(i)'
  BY <1>5, <1>6, <1>10, <1>11
<1>13. budget' \in Nat /\ budget' # 0 /\ Len(anchors') <= budget'
  BY <1>1, <1>2, <1>4
<1>14. \A other \in ToSet(anchors') : \E i \in DOMAIN inserts' : inserts'[i] = other /\ ~Overwritten(i)'
  BY <1>5, <1>8
<1> QED BY <1>1, <1>4, <1>5, <1>12, <1>13, <1>14 DEF AnchorInv

\* A search finds the deepest of the anchors that match.
LEMMA FindDeepestKeeps ==
    ASSUME AnchorInv, NEW tokens \in AnchorPrefixes, FindDeepestAnchor(tokens)
    PROVE  AnchorInv'
<1>1. /\ UNCHANGED <<budget, anchors, inserts>>
      /\ deepest' = IF Matching(tokens) = {} THEN [Unasked EXCEPT !.tokens = tokens]
                    ELSE [tokens |-> tokens, found |-> TRUE,
                          anchor |-> CHOOSE best \in Matching(tokens) :
                                        \A other \in Matching(tokens) : other.pos <= best.pos]
  BY DEF FindDeepestAnchor
<1>2. Matching(tokens)' = Matching(tokens)
  BY <1>1 DEF Matching
<1>3. tokens \in Seq(Nat)
  BY AnchorAssumption
<1>4. CASE Matching(tokens) = {}
  <2>1. deepest'.tokens = tokens /\ deepest'.found = FALSE
    BY <1>1, <1>4 DEF Unasked
  <2> QED BY <1>1, <1>2, <1>4, <2>1 DEF AnchorInv, Accounted, Overwritten, AnchorPositions, Matching
<1>5. CASE Matching(tokens) # {}
  <2> DEFINE Depths == {anchor.pos : anchor \in Matching(tokens)}
             Deepest(best) == \A other \in Matching(tokens) : other.pos <= best.pos
  <2>1. \A anchor \in Matching(tokens) : anchor.pos \in Nat /\ anchor.pos <= Len(tokens)
    <3>1. \A anchor \in ToSet(anchors) : anchor \in Anchors
      BY ElementOfSeq DEF AnchorInv, ToSet
    <3> QED BY <3>1 DEF Matching, Anchors
  <2>2. Depths \in SUBSET Nat /\ Depths # {} /\ \A depth \in Depths : depth <= Len(tokens)
    BY <1>5, <2>1
  <2>3. PICK depth \in Depths : \A other \in Depths : other <= depth
    BY <1>3, <2>2, LenProperties, GreatestNumber
  <2>4. \E best \in Matching(tokens) : Deepest(best)
    BY <2>3
  <2>5. deepest'.tokens = tokens /\ deepest'.found /\ deepest'.anchor \in Matching(tokens)
        /\ \A other \in Matching(tokens) : other.pos <= deepest'.anchor.pos
    BY <1>1, <1>5, <2>4
  <2>6. (deepest # Unasked =>
            /\ deepest.tokens \in AnchorPrefixes
            /\ deepest.found =>
                  /\ deepest.anchor \in Matching(deepest.tokens)
                  /\ \A other \in Matching(deepest.tokens) : other.pos <= deepest.anchor.pos
            /\ ~deepest.found => Matching(deepest.tokens) = {})'
    BY <1>1, <2>5 DEF Matching
  <2>7. \A i \in DOMAIN inserts : Accounted(i)' /\ (Overwritten(i)' <=> Overwritten(i))
    BY <1>1 DEF AnchorInv, Accounted, Overwritten, AnchorPositions
  <2> QED BY <1>1, <2>6, <2>7 DEF AnchorInv
<1> QED BY <1>4, <1>5

\* The inductive invariant of the anchors (insert_anchor and find_deepest_anchor of semantic.rs).
THEOREM AnchorsAreAccountedFor == AnchorSpec => []AnchorInv
<1>1. AnchorInit => AnchorInv
  BY EmptySeq DEF AnchorInit, AnchorInv, ToSet
<1>2. AnchorInv /\ [AnchorNext]_anchorVars => AnchorInv'
  <2> SUFFICES ASSUME AnchorInv, [AnchorNext]_anchorVars PROVE AnchorInv'
    OBVIOUS
  <2>1. ASSUME CreateAnchors PROVE AnchorInv'
    <3>1. /\ budget = 0 /\ UNCHANGED <<anchors, inserts, deepest>>
          /\ \E asked \in Budgets : budget' = Max({asked, MinAnchors})
      BY <2>1 DEF CreateAnchors
    <3>2. budget' \in Nat
      <4>1. PICK asked \in Budgets : budget' = Max({asked, MinAnchors})
        BY <3>1
      <4>2. asked \in Nat /\ MinAnchors \in Nat
        BY AnchorAssumption
      <4>3. Max({asked, MinAnchors}) \in {asked, MinAnchors}
        BY <4>2 DEF Max
      <4> QED BY <4>1, <4>2, <4>3
    <3>3. anchors = <<>> /\ inserts = <<>>
      BY <3>1 DEF AnchorInv
    <3>4. Len(anchors') = 0 /\ DOMAIN inserts' = {} /\ DOMAIN anchors' = {} /\ ToSet(anchors') = {}
      BY <3>1, <3>3, EmptySeq DEF ToSet
    <3>5. \A tokens : Matching(tokens)' = Matching(tokens)
      BY <3>1 DEF Matching
    <3> QED BY <3>1, <3>2, <3>3, <3>4, <3>5 DEF AnchorInv
  <2>2. ASSUME NEW prefix \in AnchorPrefixes, NEW pos \in {Len(prefix), OddPos},
               InsertAnchor(pos, prefix)
        PROVE  AnchorInv'
    <3>1. prefix \in Seq(Nat) /\ pos \in Nat
      BY AnchorAssumption, LenProperties
    <3> QED BY <2>2, <3>1, InsertAnchorKeeps
  <2>3. ASSUME NEW tokens \in AnchorPrefixes, FindDeepestAnchor(tokens) PROVE AnchorInv'
    BY <2>3, FindDeepestKeeps
  <2>4. ASSUME ClearAnchors PROVE AnchorInv'
    <3>1. anchors' = <<>> /\ inserts' = <<>> /\ deepest' = Unasked /\ budget' = budget
      BY <2>4 DEF ClearAnchors
    <3> QED BY <3>1, EmptySeq DEF AnchorInv, ToSet
  <2>5. CASE UNCHANGED anchorVars
    BY <2>5 DEF anchorVars, AnchorInv, Accounted, Overwritten, AnchorPositions, Matching
  <2> QED BY <2>1, <2>2, <2>3, <2>4, <2>5 DEF AnchorNext
<1> QED BY <1>1, <1>2, PTL DEF AnchorSpec

\* find_deepest_anchor answers with the latest anchor for a position, and no deeper one fits
\* the prompt that is still kept.
THEOREM DeepestAnchorsAreFound == AnchorSpec => []DeepestIsFound
<1>1. AnchorInv => DeepestIsFound
  <2> SUFFICES ASSUME AnchorInv, deepest # Unasked
               PROVE  /\ deepest.found =>
                            \E i \in Usable(deepest.tokens) :
                               inserts[i] = deepest.anchor /\ ~Overwritten(i)
                      /\ \A i \in Usable(deepest.tokens) :
                            \/ deepest.found /\ deepest.anchor.pos >= inserts[i].pos
                            \/ Overwritten(i)
                            \/ Cardinality({inserts[j].pos : j \in DOMAIN inserts}
                                           \ {inserts[i].pos}) >= budget
    BY DEF DeepestIsFound
  <2> DEFINE tokens == deepest.tokens
  <2>1. tokens \in Seq(Nat) /\ Len(tokens) \in Nat
    BY AnchorAssumption, LenProperties DEF AnchorInv
  <2>2. \A anchor \in ToSet(anchors) : anchor \in Anchors
    BY ElementOfSeq DEF AnchorInv, ToSet
  <2> HIDE DEF tokens
  <2>3. ASSUME NEW i \in DOMAIN inserts, inserts[i] \in Matching(tokens) PROVE i \in Usable(tokens)
    <3>1. /\ inserts[i].pos \in Nat /\ inserts[i].prefix \in Seq(Nat)
          /\ inserts[i].pos <= Len(tokens)
          /\ SubSeq(tokens, 1, inserts[i].pos) = inserts[i].prefix
      BY <2>2, <2>3 DEF Matching, Anchors
    <3>2. Len(inserts[i].prefix) = inserts[i].pos
      BY <2>1, <3>1, SubSeqProperties
    <3>3. SubSeq(inserts[i].prefix, 1, Len(inserts[i].prefix)) = inserts[i].prefix
      BY <3>1, SubSeqFull
    <3> QED BY <3>1, <3>2, <3>3 DEF Usable, IsPrefix
  <2>4. ASSUME NEW i \in Usable(tokens), inserts[i] \in ToSet(anchors)
        PROVE  inserts[i] \in Matching(tokens)
    <3>1. /\ inserts[i].pos = Len(inserts[i].prefix) /\ inserts[i].prefix \in Seq(Nat)
          /\ IsPrefix(inserts[i].prefix, tokens)
      BY <2>2, <2>4 DEF Usable, Anchors
    <3>2. SubSeq(inserts[i].prefix, 1, Len(inserts[i].prefix)) = inserts[i].prefix
      BY <3>1, SubSeqFull
    <3> QED BY <2>4, <3>1, <3>2 DEF Matching, IsPrefix
  <2>5. ASSUME deepest.found
        PROVE  \E i \in Usable(tokens) : inserts[i] = deepest.anchor /\ ~Overwritten(i)
    <3>1. deepest.anchor \in Matching(tokens)
      BY <2>5 DEF AnchorInv, tokens
    <3>2. PICK i \in DOMAIN inserts : inserts[i] = deepest.anchor /\ ~Overwritten(i)
      BY <3>1 DEF AnchorInv, Matching
    <3> QED BY <2>3, <3>1, <3>2
  <2>6. ASSUME NEW i \in Usable(tokens), ~Overwritten(i),
               ~(Cardinality(AnchorPositions \ {inserts[i].pos}) >= budget)
        PROVE  deepest.found /\ deepest.anchor.pos >= inserts[i].pos
    <3>1. i \in DOMAIN inserts
      BY DEF Usable
    <3>2. inserts[i] \in ToSet(anchors)
      BY <2>6, <3>1 DEF AnchorInv, Accounted
    <3>3. inserts[i] \in Matching(tokens)
      BY <2>4, <3>2
    <3>4. deepest.found
      BY <3>3 DEF AnchorInv, tokens
    <3>5. inserts[i].pos <= deepest.anchor.pos /\ deepest.anchor \in Matching(tokens)
      BY <3>3, <3>4 DEF AnchorInv, tokens
    <3>6. inserts[i].pos \in Nat /\ deepest.anchor.pos \in Nat
      BY <2>2, <3>2, <3>5 DEF Matching, Anchors
    <3> QED BY <3>4, <3>5, <3>6
  <2> QED BY <2>5, <2>6 DEF AnchorPositions, tokens
<1> QED BY <1>1, AnchorsAreAccountedFor, PTL

----------------------------------------------------------------------------
(* The index of the memory.                                                *)

\* What the index keeps of a record
Entries == [id : RecordIds, vector : Vectors]

\* The similarity of the query to each entry
Scores == [i \in DOMAIN entries |-> Score(entries[i])]

\* One entry for each record, with the vector that was last added for it
EntriesAreCurrent ==
    /\ entries \in Seq(Entries)
    /\ \A i, j \in DOMAIN entries : entries[i].id = entries[j].id => i = j
    /\ DOMAIN current = {entries[i].id : i \in DOMAIN entries}
    /\ \A i \in DOMAIN entries : current[entries[i].id] = entries[i].vector

\* One entry for each record of the index, with the vector that it was last given,
\* and what a search found is of the entries as they are.
IndexInv ==
    /\ EntriesAreCurrent
    /\ \/ result.kind \in {"none", "error"}
       \/ /\ result.kind = "found"
          /\ result.count \in Nat
          /\ result.best = Best(entries, Scores, result.count)

\* The entries of the others are those of the others, each of them once.
LEMMA OthersStay ==
    ASSUME EntriesAreCurrent, NEW id
    PROVE  /\ OtherEntries(id) \in Seq(Entries)
           /\ \A i, j \in DOMAIN OtherEntries(id) :
                 OtherEntries(id)[i].id = OtherEntries(id)[j].id => i = j
           /\ {OtherEntries(id)[i].id : i \in DOMAIN OtherEntries(id)} = DOMAIN current \ {id}
           /\ \A i \in DOMAIN OtherEntries(id) :
                 OtherEntries(id)[i].id # id /\ current[OtherEntries(id)[i].id] = OtherEntries(id)[i].vector
<1> DEFINE places == {i \in DOMAIN entries : entries[i].id # id}
           others == OtherEntries(id)
<1>1. places \in SUBSET DOMAIN entries /\ entries \in Seq(Entries)
  BY DEF EntriesAreCurrent
<1>2. others = Retained(entries, places)
  BY DEF OtherEntries
<1> HIDE DEF others, places
<1>3. others \in Seq(Entries)
  BY <1>1, <1>2, RetainedIs
<1>4. PICK c \in [DOMAIN others -> places] :
            /\ \A i \in DOMAIN others : others[i] = entries[c[i]]
            /\ \A i, j \in DOMAIN others : c[i] < c[j] <=> i < j
            /\ \A i \in places : \E j \in DOMAIN others : c[j] = i
  <2>1. PICK d \in Placings(entries, places) : TRUE
    BY <1>1, RetainedIs
  <2> QED BY <1>2, <2>1 DEF Placings
<1>5. \A i \in DOMAIN others : c[i] \in DOMAIN entries /\ entries[c[i]].id # id /\ others[i] = entries[c[i]]
  BY <1>4 DEF places
<1>6. ASSUME NEW i \in DOMAIN others, NEW j \in DOMAIN others, others[i].id = others[j].id
      PROVE  i = j
  <2>1. c[i] = c[j]
    BY <1>5, <1>6 DEF EntriesAreCurrent
  <2>2. c[i] \in Nat /\ i \in Nat /\ j \in Nat
    BY <1>1, <1>3, <1>5, LenProperties
  <2>3. ~ c[i] < c[j] /\ ~ c[j] < c[i]
    BY <2>1, <2>2
  <2>4. ~ i < j /\ ~ j < i
    BY <1>4, <2>3
  <2> QED BY <2>2, <2>4
<1>7. {others[i].id : i \in DOMAIN others} = DOMAIN current \ {id}
  <2>1. ASSUME NEW i \in DOMAIN others PROVE others[i].id \in DOMAIN current \ {id}
    BY <1>5 DEF EntriesAreCurrent
  <2>2. ASSUME NEW other \in DOMAIN current \ {id} PROVE \E i \in DOMAIN others : others[i].id = other
    <3>1. PICK k \in DOMAIN entries : entries[k].id = other
      BY DEF EntriesAreCurrent
    <3>2. k \in places
      BY <3>1 DEF places
    <3>3. PICK j \in DOMAIN others : c[j] = k
      BY <1>4, <3>2
    <3> QED BY <1>5, <3>1, <3>3
  <2> QED BY <2>1, <2>2
<1>8. \A i \in DOMAIN others : others[i].id # id /\ current[others[i].id] = others[i].vector
  BY <1>5 DEF EntriesAreCurrent
<1> QED BY <1>3, <1>6, <1>7, <1>8 DEF others

\* add_record replaces the entry of a record that is in the index already.
LEMMA AddRecordKeeps ==
    ASSUME IndexInv, NEW id \in RecordIds, NEW vector \in Vectors, AddRecord(id, vector)
    PROVE  IndexInv'
<1>1. result'.kind = "none"
  BY DEF AddRecord, Unsearched
<1>2. CASE vector.dimension # IndexDimension
  <2>1. UNCHANGED <<entries, current>>
    BY <1>2 DEF AddRecord
  <2> QED BY <1>1, <2>1 DEF IndexInv, EntriesAreCurrent
<1>3. CASE vector.dimension = IndexDimension
  <2>1. /\ entries' = Append(OtherEntries(id), [id |-> id, vector |-> vector])
        /\ current' = [r \in DOMAIN current \cup {id} |-> IF r = id THEN vector ELSE current[r]]
    BY <1>3 DEF AddRecord
  <2>2. PICK others \in Seq(Entries) :
           /\ others = OtherEntries(id)
           /\ \A i, j \in DOMAIN others : others[i].id = others[j].id => i = j
           /\ {others[i].id : i \in DOMAIN others} = DOMAIN current \ {id}
           /\ \A i \in DOMAIN others : others[i].id # id /\ current[others[i].id] = others[i].vector
    BY OthersStay DEF IndexInv
  <2>3. PICK n \in Nat : n = Len(others)
    BY <2>2, LenProperties
  <2>4. PICK entry \in Entries : entry = [id |-> id, vector |-> vector] /\ entry.id = id /\ entry.vector = vector
    <3>1. /\ [id |-> id, vector |-> vector] \in Entries
          /\ [id |-> id, vector |-> vector].id = id /\ [id |-> id, vector |-> vector].vector = vector
      BY DEF Entries
    <3> QED BY <3>1, Zenon
  <2>5. /\ entries' \in Seq(Entries) /\ DOMAIN others = 1..n /\ DOMAIN entries' = 1..n + 1
        /\ \A i \in 1..n : entries'[i] = others[i]
        /\ entries'[n + 1] = entry
    BY <2>1, <2>2, <2>3, <2>4, AppendProperties, LenProperties
  <2>6. \A i \in 1..n + 1 : i = n + 1 \/ i \in 1..n
    OBVIOUS
  <2>7. ASSUME NEW i \in DOMAIN entries', NEW j \in DOMAIN entries', entries'[i].id = entries'[j].id
        PROVE  i = j
    BY <2>2, <2>4, <2>5, <2>6, <2>7
  <2>8. DOMAIN current' = {entries'[i].id : i \in DOMAIN entries'}
    <3>1. \A i \in DOMAIN entries' : entries'[i].id \in DOMAIN current'
      BY <2>1, <2>2, <2>4, <2>5, <2>6
    <3>2. ASSUME NEW r \in DOMAIN current' PROVE \E i \in DOMAIN entries' : entries'[i].id = r
      <4>1. CASE r = id
        BY <2>4, <2>5, <4>1
      <4>2. CASE r \in DOMAIN current \ {id}
        <5>1. PICK i \in 1..n : others[i].id = r
          BY <2>2, <2>5, <4>2
        <5> QED BY <2>5, <5>1
      <4> QED BY <2>1, <4>1, <4>2
    <3> QED BY <3>1, <3>2
  <2>9. ASSUME NEW i \in DOMAIN entries' PROVE current'[entries'[i].id] = entries'[i].vector
    <3>1. CASE i = n + 1
      BY <2>1, <2>4, <2>5, <3>1
    <3>2. CASE i \in 1..n
      <4>1. others[i].id \in DOMAIN current /\ others[i].id # id
        BY <2>2, <2>5, <3>2
      <4> QED BY <2>1, <2>2, <2>5, <3>2, <4>1
    <3> QED BY <2>5, <2>6, <3>1, <3>2
  <2> QED BY <1>1, <2>5, <2>7, <2>8, <2>9 DEF IndexInv, EntriesAreCurrent
<1> QED BY <1>2, <1>3

\* remove_record takes out the only entry of a record.
LEMMA RemoveRecordKeeps ==
    ASSUME IndexInv, NEW id \in RecordIds, RemoveRecord(id)
    PROVE  IndexInv'
<1>1. result'.kind = "none"
  BY DEF RemoveRecord, Unsearched
<1>2. /\ entries' = OtherEntries(id)
      /\ current' = [r \in DOMAIN current \ {id} |-> current[r]]
  BY DEF RemoveRecord, Restrict
<1>3. PICK others \in Seq(Entries) :
         /\ others = OtherEntries(id)
         /\ \A i, j \in DOMAIN others : others[i].id = others[j].id => i = j
         /\ {others[i].id : i \in DOMAIN others} = DOMAIN current \ {id}
         /\ \A i \in DOMAIN others : others[i].id # id /\ current[others[i].id] = others[i].vector
  BY OthersStay DEF IndexInv
<1>4. entries' = others
  BY <1>2, <1>3
<1>5. \A i \in DOMAIN others : others[i].id \in DOMAIN current \ {id}
  BY <1>3
<1>6. \A i \in DOMAIN others : current'[others[i].id] = others[i].vector
  BY <1>2, <1>3, <1>5
<1>7. DOMAIN current' = {others[i].id : i \in DOMAIN others}
  BY <1>2, <1>3
<1> QED BY <1>1, <1>3, <1>4, <1>6, <1>7 DEF IndexInv, EntriesAreCurrent

\* search answers with the best entries and changes none.
LEMMA SearchIndexKeeps ==
    ASSUME IndexInv, NEW dimension, NEW count \in 0..2, SearchIndex(dimension, count)
    PROVE  IndexInv'
<1>1. UNCHANGED <<entries, current>>
  BY DEF SearchIndex
<1>2. EntriesAreCurrent' /\ Scores' = Scores
  BY <1>1 DEF IndexInv, EntriesAreCurrent, Scores, Score
<1>3. CASE dimension # IndexDimension
  <2>1. result' = [kind |-> "error"]
    BY <1>3 DEF SearchIndex
  <2> QED BY <1>2, <2>1 DEF IndexInv
<1>4. CASE dimension = IndexDimension
  <2>1. result' = [kind |-> "found", count |-> count, best |-> Best(entries, Scores, count)]
    BY <1>4 DEF SearchIndex, Scores
  <2>2. /\ result'.kind = "found" /\ result'.count = count
        /\ result'.best = Best(entries, Scores, count)
    BY <2>1
  <2>3. Best(entries', Scores', result'.count) = Best(entries, Scores, count)
    BY <1>1, <1>2, <2>2
  <2> QED BY <1>2, <2>2, <2>3 DEF IndexInv
<1> QED BY <1>3, <1>4

\* In every state of the index the entries are those of the records, and what was
\* found is what the entries give (TurboMemoryIndex of index.rs).
THEOREM IndexInvariant == IndexSpec => []IndexInv
<1>1. IndexInit => IndexInv
  <2> SUFFICES ASSUME IndexInit PROVE IndexInv
    OBVIOUS
  <2>1. entries = <<>> /\ DOMAIN current = {} /\ result.kind = "none"
    BY DEF IndexInit, Unsearched
  <2>2. entries \in Seq(Entries) /\ DOMAIN entries = {}
    BY <2>1, EmptySeq
  <2> QED BY <2>1, <2>2 DEF IndexInv, EntriesAreCurrent
<1>2. IndexInv /\ [IndexNext]_indexVars => IndexInv'
  <2> SUFFICES ASSUME IndexInv, [IndexNext]_indexVars PROVE IndexInv'
    OBVIOUS
  <2>1. CASE \E id \in RecordIds, vector \in Vectors : AddRecord(id, vector)
    BY <2>1, AddRecordKeeps
  <2>2. CASE \E id \in RecordIds : RemoveRecord(id)
    BY <2>2, RemoveRecordKeeps
  <2>3. CASE \E dimension \in {IndexDimension, IndexDimension + 1}, count \in 0..2 :
                SearchIndex(dimension, count)
    BY <2>3, SearchIndexKeeps
  <2>4. CASE UNCHANGED indexVars
    BY <2>4 DEF indexVars, IndexInv, EntriesAreCurrent, Scores, Score
  <2> QED BY <2>1, <2>2, <2>3, <2>4 DEF IndexNext
<1> QED BY <1>1, <1>2, PTL DEF IndexSpec

\* What a search gave as best is best among the current vectors of the records.
LEMMA FoundIsCurrent == IndexInv => SearchesCurrent
<1> SUFFICES ASSUME IndexInv, result.kind = "found" PROVE SearchesCurrent
  BY DEF SearchesCurrent
<1> DEFINE records == [i \in DOMAIN entries |->
                          [id |-> entries[i].id, vector |-> current[entries[i].id]]]
           best == result.best
           count == result.count
           N == Len(entries)
<1>1. /\ entries \in Seq(Entries) /\ count \in Nat /\ best = Best(entries, Scores, count)
      /\ \A i, j \in DOMAIN entries : entries[i].id = entries[j].id => i = j
  BY DEF IndexInv, EntriesAreCurrent
<1>2. N \in Nat /\ DOMAIN entries = 1..N /\ \A i \in DOMAIN entries : entries[i] \in Entries
  BY <1>1, LenProperties, ElementOfSeq
<1>3. \A i \in DOMAIN entries : Score(entries[i]) \in Int /\ Scores[i] = Score(entries[i])
  BY <1>2, IndexAssumption DEF Score, Scores, Entries
<1>4. records = entries
  <2>1. \A i \in DOMAIN entries : records[i] = entries[i]
    BY <1>2 DEF IndexInv, EntriesAreCurrent, Entries
  <2>2. entries = [i \in DOMAIN entries |-> entries[i]]
    BY <1>1
  <2> QED BY <2>1, <2>2
<1> HIDE DEF records, best, count, N
<1>5. /\ best \in Seq(Entries)
      /\ Len(best) = IF count < Len(entries) THEN count ELSE Len(entries)
  BY <1>1, <1>3, BestIs
<1>6. PICK c \in [DOMAIN entries -> DOMAIN entries] :
         /\ DOMAIN best \subseteq DOMAIN entries
         /\ \A i \in DOMAIN best : best[i] = entries[c[i]]
         /\ \A i, j \in DOMAIN best : c[i] = c[j] => i = j
         /\ \A i, j \in DOMAIN best : i <= j => Scores[c[i]] >= Scores[c[j]]
         /\ \A i \in DOMAIN entries :
               \/ \E j \in DOMAIN best : c[j] = i
               \/ \A j \in DOMAIN best : Scores[c[j]] >= Scores[i]
  <2>1. \A i \in DOMAIN entries : Scores[i] \in Int
    BY <1>3
  <2>2. Winners(entries, Scores, Best(entries, Scores, count)) # {}
    BY <1>1, <2>1, BestIs
  <2> QED BY <1>1, <2>2 DEF Winners
<1>7. \A i \in DOMAIN best : c[i] \in DOMAIN entries /\ Scores[c[i]] = Score(best[i])
  BY <1>3, <1>6
<1>8. ASSUME NEW i \in DOMAIN best, NEW j \in DOMAIN best, i < j
      PROVE  best[i] # best[j] /\ Score(best[i]) >= Score(best[j])
  <2>1. i \in Nat /\ j \in Nat
    BY <1>2, <1>6
  <2>2. i # j /\ i <= j
    BY <1>8, <2>1
  <2>3. c[i] # c[j]
    BY <1>6, <2>2
  <2>4. entries[c[i]] # entries[c[j]]
    BY <1>1, <1>7, <2>3
  <2>5. best[i] # best[j]
    BY <1>6, <2>4
  <2>6. Scores[c[i]] >= Scores[c[j]]
    BY <1>6, <2>2
  <2> QED BY <1>7, <2>5, <2>6
<1>9. ASSUME NEW i \in DOMAIN entries, ~\E j \in DOMAIN best : best[j] = entries[i]
      PROVE  \A j \in DOMAIN best : Score(best[j]) >= Score(entries[i])
  <2>1. ~\E j \in DOMAIN best : c[j] = i
    BY <1>6, <1>9
  <2>2. \A j \in DOMAIN best : Scores[c[j]] >= Scores[i]
    BY <1>6, <2>1
  <2> QED BY <1>3, <1>7, <2>2
<1>10. IsBest(best, entries, Score, count)
  BY <1>5, <1>8, <1>9 DEF IsBest
<1>11. IsBest(result.best, records, Score, result.count)
  BY <1>4, <1>10 DEF best, count
<1> QED BY <1>11 DEF SearchesCurrent, IndexInv, EntriesAreCurrent, records

\* A search finds the best of what the records are now, never a replaced or removed vector
\* (add_record, remove_record, search of index.rs).
THEOREM SearchesAreCurrent == IndexSpec => []SearchesCurrent
<1> QED BY IndexInvariant, FoundIsCurrent, PTL

----------------------------------------------------------------------------
(* The heat of the experts.                                                *)

\* The map holds every expert that was active once, in any order.
HeatInv ==
    /\ DOMAIN heat \subseteq Experts
    /\ heat \in [DOMAIN heat -> Nat]
    /\ order \in Orders(DOMAIN heat)
    /\ DOMAIN activations \subseteq Experts
    /\ activations \in [DOMAIN activations -> Nat]
    /\ tokensSeen = Cardinality(Tally(activations, DOMAIN activations))

\* A sequence that holds nothing twice holds as many things as it is long.
LEMMA DistinctAre ==
    ASSUME NEW S, NEW s \in Seq(S), \A i, j \in DOMAIN s : s[i] = s[j] => i = j
    PROVE  IsFiniteSet(ToSet(s)) /\ Cardinality(ToSet(s)) = Len(s)
<1> DEFINE T == ToSet(s)
           n == Len(s)
<1>1. n \in Nat /\ DOMAIN s = 1..n
  BY LenProperties
<1>2. T = {s[i] : i \in 1..n}
  BY <1>1 DEF ToSet
<1>3. s \in [1..n -> T] /\ (\A i, j \in 1..n : s[i] = s[j] => i = j) /\ \A t \in T : \E i \in 1..n : s[i] = t
  <2>1. s = [i \in 1..n |-> s[i]]
    BY <1>1
  <2> HIDE DEF T, n
  <2> QED BY <1>1, <1>2, <2>1
<1> HIDE DEF T, n
<1>4. s \in Bijection(1..n, T)
  <2>1. s \in Injection(1..n, T)
    BY <1>3, Fun_IsInj
  <2>2. s \in Surjection(1..n, T)
    BY <1>3, Fun_IsSurj
  <2> QED BY <2>1, <2>2, Fun_IsBij
<1>5. ExistsBijection(1..n, T)
  BY <1>4 DEF ExistsBijection
<1> QED BY <1>1, <1>5, FS_CountingElements, FS_NatBijection DEF T, n

\* The first of a sequence that descends are the hottest of it.
LEMMA FirstAreHottest ==
    ASSUME NEW S, NEW s \in Seq(S), NEW count \in Nat,
           \A i, j \in DOMAIN s : s[i] = s[j] => i = j,
           \A i \in DOMAIN s : heat[s[i]] \in Int,
           \A i, j \in DOMAIN s : i <= j => heat[s[i]] >= heat[s[j]]
    PROVE  Hottest(ToSet(SubSeq(s, 1, Min({count, Len(s)}))), ToSet(s), count)
<1> DEFINE n == Len(s)
           k == Min({count, n})
           first == SubSeq(s, 1, k)
<1>1. n \in Nat /\ DOMAIN s = 1..n /\ \A i \in 1..n : s[i] \in S
  BY LenProperties, ElementOfSeq
<1>2. k \in Nat /\ k <= n
  <2>1. k = IF count < n THEN count ELSE n
    BY <1>1, MinOfTwo
  <2> HIDE DEF k, n
  <2> QED BY <1>1, <2>1
<1> HIDE DEF k, n
<1>3. /\ first \in Seq(S) /\ Len(first) = k /\ DOMAIN first = 1..k
      /\ \A i \in 1..k : first[i] = s[i] /\ i \in 1..n
  <2>1. \A i \in 1..k : i \in 1..n
    BY <1>1, <1>2
  <2>2. \A i \in 1..k : s[i] \in S
    BY <1>1, <2>1
  <2>3. /\ first \in Seq(S) /\ Len(first) = IF 1 <= k THEN k - 1 + 1 ELSE 0
        /\ \A i \in 1..k - 1 + 1 : first[i] = s[1 + i - 1]
    BY <1>2, <2>2, SubSeqProperties
  <2>4. Len(first) = k /\ \A i \in 1..k : first[i] = s[i]
    BY <1>2, <2>3
  <2> QED BY <2>1, <2>3, <2>4, LenProperties
<1> HIDE DEF first
<1>4. Cardinality(ToSet(first)) = k
  <2>1. \A i, j \in DOMAIN first : first[i] = first[j] => i = j
    BY <1>1, <1>3
  <2> QED BY <1>3, <2>1, DistinctAre
<1>5. Cardinality(ToSet(first)) = Min({count, Cardinality(ToSet(s))})
  <2>1. Cardinality(ToSet(s)) = n
    BY DistinctAre DEF n
  <2> QED BY <1>4, <2>1 DEF k
<1>6. ASSUME NEW expert \in ToSet(first), NEW other \in ToSet(s) \ ToSet(first)
      PROVE  heat[other] <= heat[expert]
  <2>1. PICK i \in 1..k : first[i] = expert
    BY <1>3 DEF ToSet
  <2>2. PICK j \in 1..n : s[j] = other
    BY <1>1 DEF ToSet
  <2>3. j \notin 1..k
    <3> SUFFICES ASSUME j \in 1..k PROVE FALSE
      OBVIOUS
    <3>1. first[j] = other
      BY <1>3, <2>2
    <3> QED BY <1>3, <3>1 DEF ToSet
  <2>4. i <= j /\ i \in DOMAIN s /\ j \in DOMAIN s
    BY <1>1, <1>2, <1>3, <2>3
  <2>5. heat[s[i]] >= heat[s[j]] /\ heat[s[i]] \in Int /\ heat[s[j]] \in Int
    BY <2>4
  <2>6. s[i] = expert
    BY <1>3, <2>1
  <2> QED BY <2>2, <2>5, <2>6
<1>7. ToSet(first) \subseteq ToSet(s)
  BY <1>1, <1>3 DEF ToSet
<1> QED BY <1>5, <1>6, <1>7 DEF Hottest, first, k, n

\* The order of the map holds every expert once.
LEMMA OrdersAre ==
    ASSUME HeatInv
    PROVE  /\ order \in Seq(DOMAIN heat)
           /\ IsFiniteSet(DOMAIN heat) /\ Len(order) = Cardinality(DOMAIN heat)
           /\ \A i, j \in DOMAIN order : order[i] = order[j] => i = j
           /\ ToSet(order) = DOMAIN heat
<1> DEFINE D == DOMAIN heat
           n == Cardinality(D)
<1>1. IsFiniteSet(D) /\ n \in Nat
  <2>1. IsFiniteSet(D)
    BY HeatAssumption, FS_Subset DEF HeatInv
  <2> QED BY <2>1, FS_CardinalityType
<1>2. order \in [1..n -> D] /\ \A i, j \in 1..n : i # j => order[i] # order[j]
  BY DEF HeatInv, Orders, SetToSeqs
<1> HIDE DEF D, n
<1>3. order \in Seq(D) /\ Len(order) = n /\ DOMAIN order = 1..n
  BY <1>1, <1>2
<1>4. order \in Injection(1..n, D)
  <2>1. \A i, j \in 1..n : order[i] = order[j] => i = j
    BY <1>2
  <2> QED BY <1>2, <2>1, Fun_IsInj
<1>5. order \in Surjection(1..n, D)
  <2>1. /\ IsFiniteSet(1..n)
        /\ Cardinality(1..n) = IF 1 > n THEN 0 ELSE n - 1 + 1
    BY <1>1, FS_Interval
  <2>2. Cardinality(1..n) = Cardinality(D)
    BY <1>1, <2>1 DEF n
  <2> QED BY <1>1, <1>4, <2>1, <2>2, FS_Injection
<1>6. \A expert \in D : \E i \in 1..n : order[i] = expert
  BY <1>5 DEF Surjection
<1>7. ToSet(order) = D
  <2>1. \A i \in 1..n : order[i] \in D
    BY <1>2
  <2> QED BY <1>3, <1>6, <2>1 DEF ToSet
<1> QED BY <1>1, <1>2, <1>3, <1>7 DEF D, n

\* The hottest are ranked, each of them once and the hottest of all first.
LEMMA HottestAre ==
    ASSUME HeatInv, NEW count \in Nat
    PROVE  LET ranked == HottestExperts(count)
           IN  /\ ranked \in Seq(DOMAIN heat)
               /\ Len(ranked) = Min({count, Cardinality(DOMAIN heat)})
               /\ \A i \in DOMAIN ranked : heat[ranked[i]] \in Int
               /\ \A i, j \in DOMAIN ranked : ranked[i] = ranked[j] => i = j
               /\ \A i, j \in DOMAIN ranked : i <= j => heat[ranked[i]] >= heat[ranked[j]]
               /\ \A expert \in DOMAIN heat :
                     \/ expert \in ToSet(ranked)
                     \/ \A i \in DOMAIN ranked : heat[ranked[i]] >= heat[expert]
<1> DEFINE scores == [i \in DOMAIN order |-> HeatOf(order[i])]
           ranked == HottestExperts(count)
<1>1. /\ order \in Seq(DOMAIN heat)
      /\ IsFiniteSet(DOMAIN heat) /\ Len(order) = Cardinality(DOMAIN heat)
      /\ \A i, j \in DOMAIN order : order[i] = order[j] => i = j
      /\ ToSet(order) = DOMAIN heat
  BY OrdersAre
<1>2. \A i \in DOMAIN order : order[i] \in DOMAIN heat
  BY <1>1 DEF ToSet
<1>3. \A expert \in DOMAIN heat : heat[expert] \in Int
  BY DEF HeatInv
<1>4. \A i \in DOMAIN order : scores[i] \in Int /\ scores[i] = heat[order[i]]
  BY <1>2, <1>3 DEF HeatOf
<1>5. ranked = Best(order, scores, count)
  BY DEF HottestExperts
<1> HIDE DEF ranked, scores
<1>6. /\ ranked \in Seq(DOMAIN heat)
      /\ Len(ranked) = IF count < Len(order) THEN count ELSE Len(order)
  BY <1>1, <1>4, <1>5, BestIs
<1>7. PICK c \in [DOMAIN order -> DOMAIN order] :
         /\ DOMAIN ranked \subseteq DOMAIN order
         /\ \A i \in DOMAIN ranked : ranked[i] = order[c[i]]
         /\ \A i, j \in DOMAIN ranked : c[i] = c[j] => i = j
         /\ \A i, j \in DOMAIN ranked : i <= j => scores[c[i]] >= scores[c[j]]
         /\ \A i \in DOMAIN order :
               \/ \E j \in DOMAIN ranked : c[j] = i
               \/ \A j \in DOMAIN ranked : scores[c[j]] >= scores[i]
  <2>1. \A i \in DOMAIN order : scores[i] \in Int
    BY <1>4
  <2>2. Winners(order, scores, Best(order, scores, count)) # {}
    BY <1>1, <2>1, BestIs
  <2> QED BY <1>5, <2>2 DEF Winners
<1>8. \A i \in DOMAIN ranked : c[i] \in DOMAIN order /\ scores[c[i]] = heat[ranked[i]]
  BY <1>4, <1>7
<1>9. Len(ranked) = Min({count, Cardinality(DOMAIN heat)})
  <2>1. Len(order) \in Nat
    BY <1>1, LenProperties
  <2> QED BY <1>1, <1>6, <2>1, MinOfTwo
<1>10. \A i \in DOMAIN ranked : heat[ranked[i]] \in Int
  BY <1>4, <1>8
<1>11. ASSUME NEW i \in DOMAIN ranked, NEW j \in DOMAIN ranked, ranked[i] = ranked[j] PROVE i = j
  <2>1. order[c[i]] = order[c[j]]
    BY <1>7, <1>11
  <2>2. c[i] = c[j]
    BY <1>1, <1>8, <2>1
  <2> QED BY <1>7, <2>2
<1>12. \A i, j \in DOMAIN ranked : i <= j => heat[ranked[i]] >= heat[ranked[j]]
  BY <1>7, <1>8
<1>13. ASSUME NEW expert \in DOMAIN heat, expert \notin ToSet(ranked), NEW i \in DOMAIN ranked
       PROVE  heat[ranked[i]] >= heat[expert]
  <2>1. PICK k \in DOMAIN order : order[k] = expert
    BY <1>1 DEF ToSet
  <2>2. ~\E j \in DOMAIN ranked : c[j] = k
    BY <1>7, <1>13, <2>1 DEF ToSet
  <2>3. scores[c[i]] >= scores[k]
    BY <1>7, <2>2
  <2> QED BY <1>4, <1>8, <2>1, <2>3
<1> QED BY <1>6, <1>9, <1>10, <1>11, <1>12, <1>13 DEF ranked

\* should_pin_expert, globally: as many experts as asked for are pinned, none colder than one
\* that is not.
LEMMA HottestArePinned ==
    ASSUME HeatInv, NEW count \in Nat
    PROVE  Hottest(PinnedGlobally(count), DOMAIN heat, count)
<1> DEFINE ranked == HottestExperts(count)
<1>1. /\ ranked \in Seq(DOMAIN heat)
      /\ Len(ranked) = Min({count, Cardinality(DOMAIN heat)})
      /\ \A i, j \in DOMAIN ranked : ranked[i] = ranked[j] => i = j
      /\ \A expert \in DOMAIN heat :
            expert \in ToSet(ranked) \/ \A i \in DOMAIN ranked : heat[ranked[i]] >= heat[expert]
  BY HottestAre
<1>2. \A expert \in DOMAIN heat : heat[expert] \in Int
  BY DEF HeatInv
<1> HIDE DEF ranked
<1>3. Cardinality(ToSet(ranked)) = Min({count, Cardinality(DOMAIN heat)})
  BY <1>1, DistinctAre
<1>4. ASSUME NEW expert \in ToSet(ranked), NEW other \in DOMAIN heat \ ToSet(ranked)
      PROVE  heat[other] <= heat[expert]
  <2>1. PICK i \in DOMAIN ranked : ranked[i] = expert
    BY DEF ToSet
  <2>2. expert \in DOMAIN heat
    BY <1>1, <2>1, ElementOfSeq, LenProperties
  <2>3. heat[ranked[i]] >= heat[other]
    BY <1>1
  <2> QED BY <1>2, <2>1, <2>2, <2>3
<1>5. ToSet(ranked) \subseteq DOMAIN heat
  BY <1>1, ElementOfSeq, LenProperties DEF ToSet
<1> QED BY <1>3, <1>4, <1>5 DEF Hottest, PinnedGlobally, ranked

\* should_pin_expert, by layer: the hottest of the layer among the experts that are ranked.
LEMMA HottestRankedArePinned ==
    ASSUME HeatInv, NEW count \in Nat, NEW layer
    PROVE  Hottest(PinnedInLayer(layer, count),
                   {expert \in ToSet(HottestExperts(RankLimit)) : expert.layer = layer}, count)
<1> DEFINE ranked == HottestExperts(RankLimit)
           places == {i \in DOMAIN ranked : ranked[i].layer = layer}
           ofLayer == Retained(ranked, places)
<1>1. /\ ranked \in Seq(DOMAIN heat)
      /\ \A i \in DOMAIN ranked : heat[ranked[i]] \in Int
      /\ \A i, j \in DOMAIN ranked : ranked[i] = ranked[j] => i = j
      /\ \A i, j \in DOMAIN ranked : i <= j => heat[ranked[i]] >= heat[ranked[j]]
  BY HeatAssumption, HottestAre
<1>2. PinnedInLayer(layer, count) = ToSet(SubSeq(ofLayer, 1, Min({count, Len(ofLayer)})))
  BY DEF PinnedInLayer
<1>3. places \in SUBSET DOMAIN ranked
  OBVIOUS
<1> HIDE DEF ranked
<1>4. \A i \in places : ranked[i].layer = layer
  OBVIOUS
<1>5. \A i \in DOMAIN ranked : ranked[i].layer = layer => i \in places
  OBVIOUS
<1> HIDE DEF places
<1>6. ofLayer \in Seq(DOMAIN heat)
  BY <1>1, <1>3, RetainedIs
<1>7. PICK c \in [DOMAIN ofLayer -> places] :
            /\ \A i \in DOMAIN ofLayer : ofLayer[i] = ranked[c[i]]
            /\ \A i, j \in DOMAIN ofLayer : c[i] < c[j] <=> i < j
            /\ \A i \in places : \E j \in DOMAIN ofLayer : c[j] = i
  <2>1. PICK d \in Placings(ranked, places) : TRUE
    BY <1>1, <1>3, RetainedIs
  <2> QED BY <2>1 DEF Placings
<1> HIDE DEF ofLayer
<1>8. /\ \A i \in DOMAIN ofLayer : c[i] \in places /\ c[i] \in DOMAIN ranked /\ c[i] \in Nat /\ i \in Nat
      /\ \A i \in DOMAIN ofLayer : ofLayer[i] = ranked[c[i]]
  BY <1>1, <1>3, <1>6, <1>7, LenProperties
<1>9. ASSUME NEW i \in DOMAIN ofLayer, NEW j \in DOMAIN ofLayer, i <= j
      PROVE  c[i] <= c[j]
  <2>1. ~ c[j] < c[i]
    BY <1>7, <1>8, <1>9
  <2> QED BY <1>8, <2>1
<1>10. ASSUME NEW i \in DOMAIN ofLayer, NEW j \in DOMAIN ofLayer, ofLayer[i] = ofLayer[j]
       PROVE  i = j
  <2>1. c[i] = c[j]
    BY <1>1, <1>8, <1>10
  <2>2. ~ c[i] < c[j] /\ ~ c[j] < c[i]
    BY <1>8, <2>1
  <2>3. ~ i < j /\ ~ j < i
    BY <1>7, <2>2
  <2> QED BY <1>8, <2>3
<1>11. \A i \in DOMAIN ofLayer : heat[ofLayer[i]] \in Int
  BY <1>1, <1>8
<1>12. \A i, j \in DOMAIN ofLayer : i <= j => heat[ofLayer[i]] >= heat[ofLayer[j]]
  BY <1>1, <1>8, <1>9
<1>13. Hottest(ToSet(SubSeq(ofLayer, 1, Min({count, Len(ofLayer)}))), ToSet(ofLayer), count)
  BY <1>6, <1>10, <1>11, <1>12, FirstAreHottest
<1>14. ToSet(ofLayer) = {expert \in ToSet(ranked) : expert.layer = layer}
  <2>1. ASSUME NEW expert \in ToSet(ofLayer)
        PROVE  expert \in ToSet(ranked) /\ expert.layer = layer
    <3>1. PICK i \in DOMAIN ofLayer : ofLayer[i] = expert
      BY DEF ToSet
    <3> QED BY <1>4, <1>8, <3>1 DEF ToSet
  <2>2. ASSUME NEW expert \in ToSet(ranked), expert.layer = layer
        PROVE  expert \in ToSet(ofLayer)
    <3>1. PICK i \in DOMAIN ranked : ranked[i] = expert
      BY DEF ToSet
    <3>2. i \in places
      BY <1>5, <2>2, <3>1
    <3>3. PICK j \in DOMAIN ofLayer : c[j] = i
      BY <1>7, <3>2
    <3>4. ofLayer[j] = expert
      BY <1>8, <3>1, <3>3
    <3> QED BY <3>4 DEF ToSet
  <2> QED BY <2>1, <2>2
<1> QED BY <1>2, <1>13, <1>14 DEF ranked

\* What is pinned of a layer are its hottest experts, and all that are asked for unless more
\* experts than are ranked were active: one that is not ranked is colder than all that are.
LEMMA HottestOfALayerArePinned ==
    ASSUME HeatInv, NEW count \in Nat, NEW layer
    PROVE  LET pinned == PinnedInLayer(layer, count)
           IN  /\ pinned \subseteq OfLayer(layer)
               /\ Cardinality(pinned) <= count
               /\ \A expert \in pinned, other \in OfLayer(layer) \ pinned : heat[other] <= heat[expert]
               /\ Cardinality(DOMAIN heat) <= RankLimit => Hottest(pinned, OfLayer(layer), count)
<1> DEFINE pinned == PinnedInLayer(layer, count)
           ranked == HottestExperts(RankLimit)
           R == {expert \in ToSet(ranked) : expert.layer = layer}
<1>1. /\ ranked \in Seq(DOMAIN heat)
      /\ Len(ranked) = Min({RankLimit, Cardinality(DOMAIN heat)})
      /\ \A i, j \in DOMAIN ranked : ranked[i] = ranked[j] => i = j
      /\ \A expert \in DOMAIN heat :
            expert \in ToSet(ranked) \/ \A i \in DOMAIN ranked : heat[ranked[i]] >= heat[expert]
  BY HeatAssumption, HottestAre
<1>2. /\ Hottest(pinned, R, count)
      /\ IsFiniteSet(DOMAIN heat) /\ Cardinality(DOMAIN heat) \in Nat
      /\ \A expert \in DOMAIN heat : heat[expert] \in Int
  BY HottestRankedArePinned, OrdersAre, FS_CardinalityType DEF HeatInv
<1> HIDE DEF ranked, pinned
<1>3. ToSet(ranked) \subseteq DOMAIN heat
  BY <1>1, ElementOfSeq, LenProperties DEF ToSet
<1>4. R \subseteq OfLayer(layer)
  BY <1>3 DEF OfLayer
<1>5. pinned \subseteq R
  BY <1>2 DEF Hottest
<1>6. Cardinality(pinned) <= count
  <2>1. IsFiniteSet(R) /\ Cardinality(R) \in Nat
    <3>1. R \in SUBSET DOMAIN heat
      BY <1>3
    <3> QED BY <1>2, <3>1, FS_Subset, FS_CardinalityType
  <2>2. Min({count, Cardinality(R)}) = IF count < Cardinality(R) THEN count ELSE Cardinality(R)
    BY <2>1, MinOfTwo
  <2>3. Cardinality(pinned) = Min({count, Cardinality(R)})
    BY <1>2 DEF Hottest
  <2> HIDE DEF R
  <2> QED BY <2>1, <2>2, <2>3
<1>7. ASSUME NEW expert \in pinned, NEW other \in OfLayer(layer) \ pinned
      PROVE  heat[other] <= heat[expert]
  <2>1. CASE other \in R
    BY <1>2, <2>1 DEF Hottest
  <2>2. CASE other \notin R
    <3>1. other \in DOMAIN heat /\ other \notin ToSet(ranked)
      BY <2>2 DEF OfLayer
    <3>2. PICK i \in DOMAIN ranked : ranked[i] = expert
      BY <1>5 DEF ToSet
    <3>3. heat[ranked[i]] >= heat[other] /\ expert \in DOMAIN heat
      BY <1>1, <1>3, <1>5, <3>1
    <3> QED BY <1>2, <3>1, <3>2, <3>3
  <2> QED BY <2>1, <2>2
<1>8. ASSUME Cardinality(DOMAIN heat) <= RankLimit PROVE Hottest(pinned, OfLayer(layer), count)
  <2>1. Len(ranked) = Cardinality(DOMAIN heat)
    BY <1>1, <1>2, <1>8, HeatAssumption, MinOfTwo
  <2>2. Cardinality(ToSet(ranked)) = Cardinality(DOMAIN heat)
    BY <1>1, <2>1, DistinctAre
  <2>3. ToSet(ranked) = DOMAIN heat
    BY <1>2, <1>3, <2>2, FS_Subset
  <2>4. R = OfLayer(layer)
    BY <2>3 DEF OfLayer
  <2> QED BY <1>2, <2>4
<1> QED BY <1>4, <1>5, <1>6, <1>7, <1>8 DEF pinned

\* One more token leaves one more mark.
LEMMA OneMoreToken ==
    ASSUME NEW D, IsFiniteSet(D), NEW counts \in [D -> Nat], NEW expert, NEW raised,
           raised = Raised(counts, expert, 1)
    PROVE  /\ DOMAIN raised = D \cup {expert}
           /\ raised \in [D \cup {expert} -> Nat]
           /\ Cardinality(Tally(raised, D \cup {expert})) = Cardinality(Tally(counts, D)) + 1
<1> DEFINE n == raised[expert]
<1>1. raised = [other \in D \cup {expert} |->
                  (IF other \in D THEN counts[other] ELSE 0) + (IF other = expert THEN 1 ELSE 0)]
  BY DEF Raised
<1>2. DOMAIN raised = D \cup {expert} /\ raised \in [D \cup {expert} -> Nat]
  BY <1>1
<1>3. /\ n \in Nat /\ n = (IF expert \in D THEN counts[expert] ELSE 0) + 1
      /\ \A other \in D : other # expert => raised[other] = counts[other]
  BY <1>1
<1>4. Tally(raised, D \cup {expert}) = Tally(counts, D) \cup {<<expert, n>>}
  <2>1. ASSUME NEW other \in D, other # expert, NEW k \in Nat
        PROVE  k \in 1..raised[other] <=> k \in 1..counts[other]
    BY <1>3, <2>1
  <2>2. \A k \in Nat : k \in 1..n <=> k = n \/ (expert \in D /\ k \in 1..counts[expert])
    <3>1. CASE expert \in D
      <4>1. counts[expert] \in Nat
        BY <3>1
      <4> QED BY <1>3, <3>1, <4>1
    <3>2. CASE expert \notin D
      BY <1>3, <3>2
    <3> QED BY <3>1, <3>2
  <2>5. ASSUME NEW other \in D \cup {expert}, NEW k \in Nat
        PROVE  /\ <<other, k>> \in Tally(raised, D \cup {expert}) <=> k \in 1..raised[other]
               /\ <<other, k>> \in Tally(counts, D) <=> other \in D /\ k \in 1..counts[other]
    BY DEF Tally
  <2>6. ASSUME NEW other \in D \cup {expert}, NEW k \in Nat
        PROVE  <<other, k>> \in Tally(raised, D \cup {expert})
                  <=> <<other, k>> \in Tally(counts, D) \cup {<<expert, n>>}
    <3>1. CASE other = expert
      <4>1. <<other, k>> = <<expert, n>> <=> k = n
        BY <3>1
      <4>2. n \in Nat /\ (n \in 1..n)
        BY <1>3
      <4> QED BY <2>2, <2>5, <3>1, <4>1
    <3>2. CASE other # expert
      <4>1. other \in D /\ <<other, k>> # <<expert, n>>
        BY <3>2
      <4> QED BY <2>1, <2>5, <3>2, <4>1
    <3> QED BY <3>1, <3>2
  <2>7. /\ Tally(raised, D \cup {expert}) \subseteq (D \cup {expert}) \X Nat
        /\ Tally(counts, D) \cup {<<expert, n>>} \subseteq (D \cup {expert}) \X Nat
    BY <1>3 DEF Tally
  <2>8. ASSUME NEW A \in SUBSET ((D \cup {expert}) \X Nat), NEW B \in SUBSET ((D \cup {expert}) \X Nat),
               \A other \in D \cup {expert}, k \in Nat : <<other, k>> \in A <=> <<other, k>> \in B
        PROVE  A = B
    BY <2>8
  <2> DEFINE new == Tally(raised, D \cup {expert})
             old == Tally(counts, D) \cup {<<expert, n>>}
  <2>9. new \in SUBSET ((D \cup {expert}) \X Nat) /\ old \in SUBSET ((D \cup {expert}) \X Nat)
    BY <2>7
  <2>10. \A other \in D \cup {expert}, k \in Nat : <<other, k>> \in new <=> <<other, k>> \in old
    BY <2>6
  <2> HIDE DEF new, old
  <2>11. new = old
    BY <2>8, <2>9, <2>10, Zenon
  <2> QED BY <2>11 DEF new, old
<1>5. <<expert, n>> \notin Tally(counts, D)
  <2>1. expert \in D => ~(n \in 1..counts[expert])
    <3>1. expert \in D => counts[expert] \in Nat
      OBVIOUS
    <3> QED BY <1>3, <3>1
  <2> QED BY <2>1 DEF Tally
<1>6. IsFiniteSet(Tally(counts, D))
  BY TalliesAreFinite
<1> HIDE DEF n
<1> QED BY <1>2, <1>4, <1>5, <1>6, FS_AddElement


\* Whatever the experts did, in whatever order the map has them, the heat is a number
\* and every expert that has one is in the map once (record_activation, decay_heat).
THEOREM HeatInvariant == HeatSpec => []HeatInv
<1>1. HeatInit => HeatInv
  <2> SUFFICES ASSUME HeatInit PROVE HeatInv
    OBVIOUS
  <2>1. DOMAIN heat = {} /\ heat = [expert \in {} |-> 0] /\ order = <<>>
    BY DEF HeatInit
  <2>2. Cardinality({}) = 0
    BY FS_EmptySet
  <2>3. order \in SetToSeqs({})
    BY <2>1, <2>2 DEF SetToSeqs
  <2>4. DOMAIN activations = {} /\ activations = [expert \in {} |-> 0] /\ tokensSeen = 0
    BY DEF HeatInit
  <2>5. Tally(activations, {}) = {}
    BY DEF Tally
  <2>6. tokensSeen = Cardinality(Tally(activations, DOMAIN activations))
    BY <2>2, <2>4, <2>5
  <2> QED BY <2>1, <2>3, <2>4, <2>6 DEF HeatInv, Orders
<1>2. HeatInv /\ [HeatNext]_heatVars => HeatInv'
  <2> SUFFICES ASSUME HeatInv, [HeatNext]_heatVars PROVE HeatInv'
    OBVIOUS
  <2>1. ASSUME NEW expert \in Experts, RecordActivation(expert) PROVE HeatInv'
    <3>1. /\ DOMAIN heat' = DOMAIN heat \cup {expert}
          /\ heat' = [other \in DOMAIN heat \cup {expert} |->
                (IF other \in DOMAIN heat THEN heat[other] ELSE 0)
                + (IF other = expert THEN Activation ELSE 0)]
      BY <2>1 DEF RecordActivation, Raised
    <3>2. \A other \in DOMAIN heat : heat[other] \in Nat
      BY DEF HeatInv
    <3>3. heat' \in [DOMAIN heat' -> Nat]
      BY <3>1, <3>2, HeatAssumption
    <3>4. order' \in Orders(DOMAIN heat')
      <4>1. CASE expert \in DOMAIN heat
        <5>1. DOMAIN heat' = DOMAIN heat /\ order' = order
          BY <2>1, <3>1, <4>1 DEF RecordActivation
        <5> QED BY <5>1 DEF HeatInv
      <4>2. CASE expert \notin DOMAIN heat
        BY <2>1, <3>1, <4>2 DEF RecordActivation
      <4> QED BY <4>1, <4>2
    <3>5. DOMAIN heat' \subseteq Experts
      BY <3>1 DEF HeatInv
    <3>6. IsFiniteSet(DOMAIN activations) /\ activations \in [DOMAIN activations -> Nat]
      BY HeatAssumption, FS_Subset DEF HeatInv
    <3>7. activations' = Raised(activations, expert, 1) /\ tokensSeen' = tokensSeen + 1
      BY <2>1 DEF RecordActivation
    <3>8. /\ DOMAIN activations' = DOMAIN activations \cup {expert}
          /\ activations' \in [DOMAIN activations \cup {expert} -> Nat]
          /\ Cardinality(Tally(activations', DOMAIN activations \cup {expert}))
                = Cardinality(Tally(activations, DOMAIN activations)) + 1
      BY <3>6, <3>7, OneMoreToken, Zenon
    <3>9. /\ DOMAIN activations' \subseteq Experts /\ activations' \in [DOMAIN activations' -> Nat]
          /\ tokensSeen' = Cardinality(Tally(activations', DOMAIN activations'))
      BY <3>7, <3>8 DEF HeatInv
    <3> QED BY <3>3, <3>4, <3>5, <3>9 DEF HeatInv, Orders
  <2>2. CASE DecayHeat
    <3>1. heat' = [expert \in DOMAIN heat |-> heat[expert] \div 2] /\ order' = order
      BY <2>2 DEF DecayHeat
    <3>2. \A expert \in DOMAIN heat : heat[expert] \div 2 \in Nat
      <4>1. \A n \in Nat : n \div 2 \in Nat
        OBVIOUS
      <4> QED BY <4>1 DEF HeatInv
    <3>3. UNCHANGED <<activations, tokensSeen>>
      BY <2>2 DEF DecayHeat
    <3> QED BY <3>1, <3>2, <3>3 DEF HeatInv, Orders
  <2>3. CASE Reload
    BY <2>3 DEF Reload, HeatInv, Orders
  <2>4. CASE UNCHANGED heatVars
    BY <2>4 DEF heatVars, HeatInv, Orders
  <2> QED BY <2>1, <2>2, <2>3, <2>4 DEF HeatNext
<1> QED BY <1>1, <1>2, PTL DEF HeatSpec

\* No expert that is left out is hotter than one that is pinned, of all experts and of every
\* layer, whatever the order of the map and however many experts there are; as many are
\* pinned as are asked for, of a layer unless more experts than are ranked were active
\* (get_hottest_experts, should_pin_expert).
THEOREM HottestExpertsArePinned == HeatSpec => []PinsHottest
<1>1. HeatInv => PinsHottest
  <2> SUFFICES ASSUME HeatInv PROVE PinsHottest
    OBVIOUS
  <2>1. ASSUME NEW count \in 0..Cardinality(Experts) PROVE count \in Nat
    BY HeatAssumption, FS_CardinalityType
  <2>2. ASSUME NEW count \in 0..Cardinality(Experts)
        PROVE  Hottest(PinnedGlobally(count), DOMAIN heat, count)
    BY <2>1, HottestArePinned
  <2>3. ASSUME NEW count \in 0..Cardinality(Experts), NEW layer
        PROVE  LET pinned == PinnedInLayer(layer, count)
               IN  /\ pinned \subseteq OfLayer(layer)
                   /\ Cardinality(pinned) <= count
                   /\ \A expert \in pinned, other \in OfLayer(layer) \ pinned : heat[other] <= heat[expert]
                   /\ Cardinality(DOMAIN heat) <= RankLimit => Hottest(pinned, OfLayer(layer), count)
    BY <2>1, HottestOfALayerArePinned
  <2> QED BY <2>2, <2>3, Zenon DEF PinsHottest
<1> QED BY <1>1, HeatInvariant, PTL

\* Every token that was seen is an activation of one expert, so that the activations add
\* up to the tokens (total_inference_tokens, total_activations).
THEOREM TokensAreCounted == HeatSpec => []TokensAddUp
<1>1. HeatInv => TokensAddUp
  <2> SUFFICES ASSUME HeatInv PROVE TokensAddUp
    OBVIOUS
  <2>1. IsFiniteSet(DOMAIN activations) /\ activations \in [DOMAIN activations -> Nat]
    BY HeatAssumption, FS_Subset DEF HeatInv
  <2>2. FoldFunction(LAMBDA a, b : a + b, 0, activations)
           = Cardinality(Tally(activations, DOMAIN activations))
    BY <2>1, SumIs
  <2> QED BY <2>2 DEF HeatInv, TokensAddUp
<1> QED BY <1>1, HeatInvariant, PTL

----------------------------------------------------------------------------
(* All of them.                                                            *)

\* What is stored is found again, and never something else in its place, in each of the
\* stores, however many cells, blocks, anchors, records and experts there are.
THEOREM StoresAreRight ==
    LayoutSpec /\ ContextSpec /\ AnchorSpec /\ IndexSpec /\ HeatSpec => []StoresRight
<1>1. CellsSeparate /\ ContextRight /\ DeepestIsFound /\ SearchesCurrent /\ PinsHottest /\ TokensAddUp
         => StoresRight
  BY DEF StoresRight, HeatRight
<1> QED BY <1>1, CellsAreSeparate, StoreIsRight, DeepestAnchorsAreFound, SearchesAreCurrent,
           HottestExpertsArePinned, TokensAreCounted, PTL

=============================================================================
