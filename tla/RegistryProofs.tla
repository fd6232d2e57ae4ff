---------------------------- MODULE RegistryProofs ----------------------------
(***************************************************************************)
(* For any number of nodes and any timing: a node that keeps its time is   *)
(* not evicted (NoFalseEviction), and one that has unregistered stays out  *)
(* of the table (OffStaysOff).                                             *)
(***************************************************************************)
EXTENDS Registry, TLAPS

\* How long a prover may take over a step that names none.
USE ZenonT(60), SMTT(60)

\* No Register of a clean node is in flight but the one it waits for; once
\* its Unregister has been served it is out of the table.
Clean(n) ==
    clean[n] =>
        /\ late[n]["Register"] = 0
        /\ phase[n] = "Register" => copies[n] <= IF replied[n] THEN 0 ELSE 1
        /\ phase[n] = "Unregister" /\ replied[n] => n \notin services
        /\ phase[n] = "off" /\ acked[n] => n \notin services

\* When the network and the threads keep their time, a node that is up has
\* left nothing in flight,
Quiet(n) ==
    phase[n] \in {"Register", "loop", "Heartbeat", "arm", "pause"} =>
        /\ \A t \in CallPhases : late[n][t] = 0
        /\ phase[n] \in CallPhases => copies[n] <= IF replied[n] THEN 0 ELSE 1

\* and the age of its entry is bounded by where its heartbeat thread is.
Young(n) ==
    /\ phase[n] \in CallPhases => timer[n] <= MaxDelay
    /\ phase[n] = "pause" => timer[n] <= Interval
    /\ phase[n] = "Register" /\ replied[n] => n \in services /\ age[n] <= timer[n]
    /\ phase[n] = "loop" => n \in services /\ age[n] <= MaxDelay + Interval
    /\ phase[n] = "Heartbeat" => n \in services
    /\ phase[n] = "Heartbeat" /\ ~replied[n] => age[n] <= MaxDelay + Interval + timer[n]
    /\ phase[n] = "Heartbeat" /\ replied[n] => age[n] <= timer[n]
    /\ phase[n] = "arm" => n \in services /\ age[n] <= MaxDelay
    /\ phase[n] = "pause" => n \in services /\ age[n] <= MaxDelay + timer[n]

\* A call has no more copies in flight than it made attempts.
CopiesInv == \A n \in Nodes : copies[n] <= attempts[n]
CleanInv == \A n \in Nodes : Clean(n)
QuietInv == reliable => \A n \in Nodes : Quiet(n)
YoungInv == reliable /\ HeartbeatTimeout >= Interval + 2 * MaxDelay =>
                \A n \in Nodes : Young(n)

IInv == TypeOK /\ CopiesInv /\ CleanInv /\ QuietInv /\ YoungInv

-----------------------------------------------------------------------------

\* The timers can count to the bounds of Young.
LEMMA TimerBound == MaxTimer \in Nat /\ MaxDelay <= MaxTimer /\ Interval <= MaxTimer
  BY TimingAssumption, SMTT(60) DEF MaxTimer

\* The copies of finished calls.
Lates == [Nodes -> [CallPhases -> 0..MaxLate]]

\* LeaveBehind only adds the copies of the call that is over.
LEMMA LeaveBehindLate ==
    ASSUME TypeOK, NEW n \in Nodes, LeaveBehind(n)
    PROVE  /\ late' \in Lates
           /\ \A m \in Nodes, t \in CallPhases :
                 m # n \/ t # phase[n] \/ copies[n] = 0 => late'[m][t] = late[m][t]
<1>1. late \in Lates /\ copies[n] \in Nat /\ MaxLate \in Nat
  BY TimingAssumption, SMTT(60) DEF TypeOK, Lates
<1>2. CASE phase[n] \notin CallPhases
  BY <1>1, <1>2 DEF LeaveBehind
<1>3. CASE phase[n] \in CallPhases
  <2> DEFINE x == late[n][phase[n]]
             y == IF x + copies[n] > MaxLate THEN MaxLate ELSE x + copies[n]
  <2>1. x \in 0..MaxLate
    BY <1>1, <1>3 DEF Lates
  <2>2. y \in 0..MaxLate /\ (copies[n] = 0 => y = x)
    BY <1>1, <2>1, SMTT(60)
  <2>3. late' = [late EXCEPT ![n] = [late[n] EXCEPT ![phase[n]] = y]]
    BY <1>3 DEF LeaveBehind
  <2> HIDE DEF y
  <2> QED
    BY <1>1, <1>3, <2>2, <2>3 DEF Lates
<1> QED
  BY <1>2, <1>3

\* One copy fewer is in flight.
LEMMA OneLess ==
    ASSUME late \in Lates, NEW n \in Nodes, NEW t \in CallPhases, late[n][t] > 0,
           late' = [late EXCEPT ![n][t] = @ - 1]
    PROVE  /\ late' \in Lates
           /\ \A m \in Nodes, u \in CallPhases : late'[m][u] <= late[m][u]
  BY TimingAssumption, SMTT(60) DEF Lates

\* start(): a new Register call.
LEMMA StartInv ==
    ASSUME IInv, NEW n \in Nodes, Start(n)
    PROVE  IInv'
<1>1. TypeOK'
  BY TimingAssumption, TimerBound, SMTT(60) DEF IInv, TypeOK, CopiesInv, Start, BeginCall,
     registry, call, Phases, CallPhases
<1>2. CopiesInv'
  BY SMTT(60)
  DEF IInv, TypeOK, CopiesInv, Start, BeginCall, registry, call, Phases, CallPhases
<1>3. CleanInv'
  BY SMTT(60) DEF IInv, TypeOK, CleanInv, Clean, Start, BeginCall, registry, call, Phases,
      CallPhases
<1>4. QuietInv'
  BY SMTT(60) DEF IInv, TypeOK, QuietInv, Quiet, Start, BeginCall, registry, call, Phases,
      CallPhases
<1>5. YoungInv'
  BY TimingAssumption, TimerBound, SMTT(60)
  DEF IInv, TypeOK, QuietInv, Quiet, YoungInv, Young,
     Start, BeginCall, registry, call, Phases, CallPhases
<1> QED
  BY <1>1, <1>2, <1>3, <1>4, <1>5 DEF IInv

\* The channel sends a second attempt.
LEMMA RetryInv ==
    ASSUME IInv, NEW n \in Nodes, Retry(n)
    PROVE  IInv'
<1>1. TypeOK'
  BY TimingAssumption, TimerBound, SMTT(60)
  DEF IInv, TypeOK, CopiesInv, Retry, MayRetry,
     registry, call, Phases, CallPhases
<1>2. CopiesInv'
  BY SMTT(60)
  DEF IInv, TypeOK, CopiesInv, Retry, MayRetry, registry, call, Phases, CallPhases
<1>3. CleanInv'
  BY DEF IInv, TypeOK, CleanInv, Clean, Retry, MayRetry, registry, call, Phases,
      CallPhases
<1>4. QuietInv'
  BY DEF IInv, TypeOK, QuietInv, Quiet, Retry, MayRetry, registry, call, Phases,
      CallPhases
<1>5. YoungInv'
  BY TimingAssumption, TimerBound DEF IInv, TypeOK, QuietInv, Quiet, YoungInv, Young,
     Retry, MayRetry, registry, call, Phases, CallPhases
<1> QED
  BY <1>1, <1>2, <1>3, <1>4, <1>5 DEF IInv

\* The end of a call, answered or not.
LEMMA EndCallFacts ==
    ASSUME IInv, NEW n \in Nodes, NEW success \in BOOLEAN, EndCall(n, success)
    PROVE  /\ late' \in Lates /\ phase' \in [Nodes -> Phases] /\ acked' \in [Nodes -> BOOLEAN]
           /\ copies' = [copies EXCEPT ![n] = 0]
           /\ \A m \in Nodes, t \in CallPhases :
                 m # n \/ t # phase[n] \/ copies[n] = 0 => late'[m][t] = late[m][t]
           /\ phase[n] \in CallPhases
           /\ phase[n] = "Register" => phase'[n] = "loop"
           /\ phase[n] = "Heartbeat" => phase'[n] \in {"exit", "arm"}
           /\ phase[n] = "Unregister" => phase'[n] = "off" /\ acked'[n] = success
           /\ \A m \in Nodes : m # n => phase'[m] = phase[m] /\ acked'[m] = acked[m]
           /\ UNCHANGED <<registry, stop, stopping, attempts, replied, timer>>
<1>1. LeaveBehind(n) /\ phase[n] \in CallPhases
  BY DEF EndCall
<1>2. /\ late' \in Lates /\ copies' = [copies EXCEPT ![n] = 0]
      /\ \A m \in Nodes, t \in CallPhases :
            m # n \/ t # phase[n] \/ copies[n] = 0 => late'[m][t] = late[m][t]
  BY <1>1, LeaveBehindLate, ZenonT(60) DEF IInv, LeaveBehind
<1>3. /\ phase[n] = "Register" => After(n) = "loop"
      /\ phase[n] = "Heartbeat" => After(n) \in {"exit", "arm"}
      /\ phase[n] = "Unregister" => After(n) = "off"
  BY DEF After
<1>4. After(n) \in Phases
  BY <1>1, <1>3 DEF CallPhases, Phases
<1>5. phase' = [phase EXCEPT ![n] = After(n)]
  BY DEF EndCall
<1>6. /\ phase' \in [Nodes -> Phases] /\ phase'[n] = After(n)
      /\ \A m \in Nodes : m # n => phase'[m] = phase[m]
  BY <1>4, <1>5 DEF IInv, TypeOK
<1> DEFINE a == IF phase[n] = "Heartbeat" THEN acked[n] ELSE success
<1>7. acked' = [acked EXCEPT ![n] = a] /\ acked \in [Nodes -> BOOLEAN]
  BY DEF EndCall, IInv, TypeOK
<1>8. a \in BOOLEAN /\ (phase[n] = "Unregister" => a = success)
  BY <1>7
<1> HIDE DEF a
<1>9. /\ acked' \in [Nodes -> BOOLEAN] /\ acked'[n] = a
      /\ \A m \in Nodes : m # n => acked'[m] = acked[m]
  BY <1>7, <1>8
<1> QED
  BY <1>1, <1>2, <1>3, <1>6, <1>8, <1>9 DEF EndCall

\* A call is answered.
LEMMA CallSucceedsInv ==
    ASSUME IInv, NEW n \in Nodes, CallSucceeds(n)
    PROVE  IInv'
<1>1. EndCall(n, TRUE) /\ TRUE \in BOOLEAN
  BY ZenonT(60) DEF CallSucceeds
<1>2. /\ late' \in Lates /\ phase' \in [Nodes -> Phases] /\ acked' \in [Nodes -> BOOLEAN]
      /\ copies' = [copies EXCEPT ![n] = 0]
      /\ \A m \in Nodes, t \in CallPhases :
            m # n \/ t # phase[n] \/ copies[n] = 0 => late'[m][t] = late[m][t]
      /\ phase[n] \in CallPhases
      /\ phase[n] = "Register" => phase'[n] = "loop"
      /\ phase[n] = "Heartbeat" => phase'[n] \in {"exit", "arm"}
      /\ phase[n] = "Unregister" => phase'[n] = "off" /\ acked'[n] = TRUE
      /\ \A m \in Nodes : m # n => phase'[m] = phase[m] /\ acked'[m] = acked[m]
      /\ UNCHANGED <<registry, stop, stopping, attempts, replied, timer>>
  BY <1>1, EndCallFacts, ZenonT(60)
<1>3. replied[n] /\ clean' = clean
  BY DEF CallSucceeds
<1>4. TypeOK'
  BY <1>2, <1>3, SMTT(60) DEF IInv, TypeOK, registry, Lates
<1>5. CopiesInv'
  BY <1>2, SMTT(60) DEF IInv, TypeOK, CopiesInv
<1>6. CleanInv'
  BY <1>2, <1>3, SMTT(60) DEF IInv, TypeOK, CleanInv, Clean, registry, CallPhases
<1>7. QuietInv'
  BY <1>2, <1>3, SMTT(60) DEF IInv, TypeOK, QuietInv, Quiet, registry, CallPhases
<1>8. YoungInv'
  BY <1>2, <1>3, TimingAssumption, SMTT(60)
  DEF IInv, TypeOK, YoungInv, Young, registry, CallPhases
<1> QED
  BY <1>4, <1>5, <1>6, <1>7, <1>8 DEF IInv

\* A call fails.
LEMMA CallFailsInv ==
    ASSUME IInv, NEW n \in Nodes, CallFails(n)
    PROVE  IInv'
<1>1. EndCall(n, FALSE) /\ FALSE \in BOOLEAN
  BY ZenonT(60) DEF CallFails
<1>2. /\ late' \in Lates /\ phase' \in [Nodes -> Phases] /\ acked' \in [Nodes -> BOOLEAN]
      /\ copies' = [copies EXCEPT ![n] = 0]
      /\ \A m \in Nodes, t \in CallPhases :
            m # n \/ t # phase[n] \/ copies[n] = 0 => late'[m][t] = late[m][t]
      /\ phase[n] \in CallPhases
      /\ phase[n] = "Register" => phase'[n] = "loop"
      /\ phase[n] = "Heartbeat" => phase'[n] \in {"exit", "arm"}
      /\ phase[n] = "Unregister" => phase'[n] = "off" /\ acked'[n] = FALSE
      /\ \A m \in Nodes : m # n => phase'[m] = phase[m] /\ acked'[m] = acked[m]
      /\ UNCHANGED <<registry, stop, stopping, attempts, replied, timer>>
  BY <1>1, EndCallFacts, ZenonT(60)
<1>2a. clean' \in [Nodes -> BOOLEAN]
  BY DEF CallFails, IInv, TypeOK
<1>3. /\ ~reliable
      /\ clean'[n] => clean[n] /\ phase[n] # "Register"
      /\ \A m \in Nodes : m # n => clean'[m] = clean[m]
  BY DEF CallFails, IInv, TypeOK
<1>4. TypeOK'
  <2>1. copies' \in [Nodes -> 0..2]
    BY <1>2, SMTT(60) DEF IInv, TypeOK
  <2>2. UNCHANGED <<reliable, services, age, found, stop, stopping, attempts, replied, timer>>
    BY <1>2 DEF registry
  <2>3. late' \in Lates /\ phase' \in [Nodes -> Phases] /\ acked' \in [Nodes -> BOOLEAN]
    BY <1>2
  <2> QED
    BY <1>2a, <2>1, <2>2, <2>3, Zenon DEF IInv, TypeOK, Lates
<1>5. CopiesInv'
  BY <1>2, SMTT(60) DEF IInv, TypeOK, CopiesInv
<1>6. CleanInv'
  BY <1>2, <1>3, SMTT(60) DEF IInv, TypeOK, CleanInv, Clean, registry, CallPhases
<1>7. QuietInv'
  BY <1>2, <1>3 DEF IInv, TypeOK, QuietInv, Quiet, registry, CallPhases
<1>8. YoungInv'
  BY <1>2, <1>3, TimingAssumption
  DEF IInv, TypeOK, YoungInv, Young, registry, CallPhases
<1> QED
  BY <1>4, <1>5, <1>6, <1>7, <1>8 DEF IInv

\* A copy is lost.
LEMMA LoseInv ==
    ASSUME IInv, NEW n \in Nodes, Lose(n)
    PROVE  IInv'
<1>1. /\ UNCHANGED <<registry, phase, stop, stopping, attempts, replied, timer, acked, clean>>
      /\ ~reliable
  BY DEF Lose
<1>2. late \in Lates /\ copies \in [Nodes -> 0..2]
  BY DEF IInv, TypeOK, Lates
<1>3. /\ late' \in Lates /\ copies' \in [Nodes -> 0..2]
      /\ \A m \in Nodes : copies'[m] <= copies[m]
      /\ \A m \in Nodes, u \in CallPhases : late'[m][u] <= late[m][u]
  <2>1. CASE copies[n] > 0 /\ copies' = [copies EXCEPT ![n] = @ - 1] /\ UNCHANGED late
    <3>1. copies' \in [Nodes -> 0..2] /\ \A m \in Nodes : copies'[m] <= copies[m]
      BY <1>2, <2>1, SMTT(60)
    <3>2. \A m \in Nodes, u \in CallPhases : late[m][u] \in Int
      BY <1>2, TimingAssumption, SMTT(60) DEF Lates
    <3> QED
      BY <1>2, <2>1, <3>1, <3>2, SMTT(60)
  <2>2. CASE /\ \E t \in CallPhases : late[n][t] > 0 /\ late' = [late EXCEPT ![n][t] = @ - 1]
             /\ UNCHANGED copies
    <3>1. late' \in Lates /\ \A m \in Nodes, u \in CallPhases : late'[m][u] <= late[m][u]
      BY <1>2, <2>2, OneLess, ZenonT(60)
    <3>2. \A m \in Nodes : copies[m] \in Int
      BY <1>2, SMTT(60)
    <3> QED
      BY <1>2, <2>2, <3>1, <3>2, SMTT(60)
  <2> QED
    BY <2>1, <2>2 DEF Lose
<1>4. TypeOK'
  BY <1>1, <1>3 DEF IInv, TypeOK, registry, Lates
<1>5. CopiesInv'
  <2>1. ASSUME NEW m \in Nodes
        PROVE  copies'[m] <= attempts[m]
    <3>1. copies'[m] \in Int /\ copies[m] \in Int /\ attempts[m] \in Int
      BY <1>2, <1>3, SMTT(60) DEF IInv, TypeOK
    <3> QED
      BY <1>3, <3>1, SMTT(60) DEF IInv, CopiesInv
  <2> QED
    BY <1>1, <2>1 DEF CopiesInv
<1>6. ASSUME NEW m \in Nodes, clean[m]
      PROVE  late'[m]["Register"] = 0
  <2>1. late[m]["Register"] = 0 /\ late'[m]["Register"] \in Nat /\ late'[m]["Register"] <= 0
    BY <1>2, <1>3, <1>6, TimingAssumption, SMTT(60)
    DEF IInv, CleanInv, Clean, CallPhases, Lates
  <2> QED
    BY <2>1, SMTT(60)
<1>7. ASSUME NEW m \in Nodes, clean[m], phase[m] = "Register"
      PROVE  copies'[m] <= IF replied[m] THEN 0 ELSE 1
  BY <1>2, <1>3, <1>7, SMTT(60) DEF IInv, CleanInv, Clean
<1>8. CleanInv'
  BY <1>1, <1>6, <1>7 DEF IInv, CleanInv, Clean, registry
<1>9. QuietInv' /\ YoungInv'
  BY <1>1 DEF QuietInv, YoungInv, registry
<1> QED
  BY <1>4, <1>5, <1>8, <1>9 DEF IInv

\* heartbeatLoop: the next heartbeat, or the end of the loop.
LEMMA LoopCheckInv ==
    ASSUME IInv, NEW n \in Nodes, LoopCheck(n)
    PROVE  IInv'
<1>1. TypeOK'
  <2>1. CASE BeginCall(n, "Heartbeat")
    BY <2>1, TimerBound, SMTT(60)
    DEF IInv, TypeOK, LoopCheck, BeginCall, registry, Phases, CallPhases
  <2>2. CASE phase' = [phase EXCEPT ![n] = "exit"] /\ UNCHANGED <<call, timer>>
    BY <2>2 DEF IInv, TypeOK, LoopCheck, registry, call, Phases
  <2> QED
    BY <2>1, <2>2 DEF LoopCheck
<1>2. CopiesInv'
  BY SMTT(60) DEF IInv, TypeOK, CopiesInv, LoopCheck, BeginCall, registry, call, Phases,
      CallPhases
<1>3. CleanInv'
  BY DEF IInv, TypeOK, CleanInv, Clean, LoopCheck, BeginCall, registry, call, Phases,
     CallPhases
<1>4. QuietInv'
  BY SMTT(60)
  DEF IInv, TypeOK, QuietInv, Quiet, LoopCheck, BeginCall, registry, call, Phases,
     CallPhases
<1>5. YoungInv'
  BY TimingAssumption, TimerBound, SMTT(60)
  DEF IInv, TypeOK, QuietInv, Quiet, YoungInv, Young,
     LoopCheck, BeginCall, registry, call, Phases, CallPhases
<1> QED
  BY <1>1, <1>2, <1>3, <1>4, <1>5 DEF IInv

\* wait_for begins.
LEMMA BlockInv ==
    ASSUME IInv, NEW n \in Nodes, Block(n)
    PROVE  IInv'
<1>1. TypeOK'
  BY TimingAssumption, TimerBound, SMTT(60)
  DEF IInv, TypeOK, CopiesInv, Block, registry, call,
     Phases, CallPhases
<1>2. CopiesInv'
  BY DEF IInv, TypeOK, CopiesInv, Block, registry, call, Phases, CallPhases
<1>3. CleanInv'
  BY DEF IInv, TypeOK, CleanInv, Clean, Block, registry, call, Phases, CallPhases
<1>4. QuietInv'
  BY DEF IInv, TypeOK, QuietInv, Quiet, Block, registry, call, Phases, CallPhases
<1>5. YoungInv'
  BY TimingAssumption, TimerBound, SMTT(60)
  DEF IInv, TypeOK, QuietInv, Quiet, YoungInv, Young,
     Block, registry, call, Phases, CallPhases
<1> QED
  BY <1>1, <1>2, <1>3, <1>4, <1>5 DEF IInv

\* wait_for times out.
LEMMA IntervalOverInv ==
    ASSUME IInv, NEW n \in Nodes, IntervalOver(n)
    PROVE  IInv'
<1>1. TypeOK'
  BY TimingAssumption, TimerBound DEF IInv, TypeOK, CopiesInv, IntervalOver, TimedOut,
     registry, call, Phases, CallPhases
<1>2. CopiesInv'
  BY DEF IInv, TypeOK, CopiesInv, IntervalOver, TimedOut, registry, call, Phases,
      CallPhases
<1>3. CleanInv'
  BY DEF IInv, TypeOK, CleanInv, Clean, IntervalOver, TimedOut, registry, call, Phases,
     CallPhases
<1>4. QuietInv'
  BY DEF IInv, TypeOK, QuietInv, Quiet, IntervalOver, TimedOut, registry, call, Phases,
     CallPhases
<1>5. YoungInv'
  BY TimingAssumption, TimerBound, SMTT(60)
  DEF IInv, TypeOK, QuietInv, Quiet, YoungInv, Young,
     IntervalOver, TimedOut, registry, call, Phases, CallPhases
<1> QED
  BY <1>1, <1>2, <1>3, <1>4, <1>5 DEF IInv

\* stopHeartbeat() sets stop_.
LEMMA SetStopInv ==
    ASSUME IInv, NEW n \in Nodes, SetStop(n)
    PROVE  IInv'
<1>1. TypeOK'
  BY TimingAssumption, TimerBound DEF IInv, TypeOK, CopiesInv, SetStop, registry, call,
     Phases, CallPhases
<1>2. CopiesInv'
  BY DEF IInv, TypeOK, CopiesInv, SetStop, registry, call, Phases, CallPhases
<1>3. CleanInv'
  BY DEF IInv, TypeOK, CleanInv, Clean, SetStop, registry, call, Phases, CallPhases
<1>4. QuietInv'
  BY DEF IInv, TypeOK, QuietInv, Quiet, SetStop, registry, call, Phases, CallPhases
<1>5. YoungInv'
  BY TimingAssumption, TimerBound DEF IInv, TypeOK, QuietInv, Quiet, YoungInv, Young,
     SetStop, registry, call, Phases, CallPhases
<1> QED
  BY <1>1, <1>2, <1>3, <1>4, <1>5 DEF IInv

\* stopHeartbeat() notifies.
LEMMA NotifyStopInv ==
    ASSUME IInv, NEW n \in Nodes, NotifyStop(n)
    PROVE  IInv'
<1>1. TypeOK'
  BY TimingAssumption, TimerBound DEF IInv, TypeOK, CopiesInv, NotifyStop, registry,
     call, Phases, CallPhases
<1>2. CopiesInv'
  BY DEF IInv, TypeOK, CopiesInv, NotifyStop, registry, call, Phases, CallPhases
<1>3. CleanInv'
  BY DEF IInv, TypeOK, CleanInv, Clean, NotifyStop, registry, call, Phases, CallPhases
<1>4. QuietInv'
  BY DEF IInv, TypeOK, QuietInv, Quiet, NotifyStop, registry, call, Phases, CallPhases
<1>5. YoungInv'
  BY TimingAssumption, TimerBound, SMTT(60)
  DEF IInv, TypeOK, QuietInv, Quiet, YoungInv, Young,
     NotifyStop, registry, call, Phases, CallPhases
<1> QED
  BY <1>1, <1>2, <1>3, <1>4, <1>5 DEF IInv

\* stopHeartbeat() has joined the thread.
LEMMA JoinedInv ==
    ASSUME IInv, NEW n \in Nodes, Joined(n)
    PROVE  IInv'
<1>1. TypeOK'
  BY TimingAssumption, TimerBound DEF IInv, TypeOK, CopiesInv, Joined, registry, call,
     Phases, CallPhases
<1>2. CopiesInv'
  BY DEF IInv, TypeOK, CopiesInv, Joined, registry, call, Phases, CallPhases
<1>3. CleanInv'
  BY DEF IInv, TypeOK, CleanInv, Clean, Joined, registry, call, Phases, CallPhases
<1>4. QuietInv'
  BY DEF IInv, TypeOK, QuietInv, Quiet, Joined, registry, call, Phases, CallPhases
<1>5. YoungInv'
  BY TimingAssumption, TimerBound DEF IInv, TypeOK, QuietInv, Quiet, YoungInv, Young,
     Joined, registry, call, Phases, CallPhases
<1> QED
  BY <1>1, <1>2, <1>3, <1>4, <1>5 DEF IInv

\* shutdown(): an Unregister call.
LEMMA unregisterSelfInv ==
    ASSUME IInv, NEW n \in Nodes, unregisterSelf(n)
    PROVE  IInv'
<1>1. TypeOK'
  BY TimingAssumption, TimerBound, SMTT(60) DEF IInv, TypeOK, CopiesInv, unregisterSelf,
     BeginCall, registry, call, Phases, CallPhases
<1>2. CopiesInv'
  BY SMTT(60)
  DEF IInv, TypeOK, CopiesInv, unregisterSelf, BeginCall, registry, call, Phases,
     CallPhases
<1>3. CleanInv'
  BY DEF IInv, TypeOK, CleanInv, Clean, unregisterSelf, BeginCall, registry, call,
     Phases, CallPhases
<1>4. QuietInv'
  BY DEF IInv, TypeOK, QuietInv, Quiet, unregisterSelf, BeginCall, registry, call,
     Phases, CallPhases
<1>5. YoungInv'
  BY TimingAssumption, TimerBound, SMTT(60)
  DEF IInv, TypeOK, QuietInv, Quiet, YoungInv, Young,
     unregisterSelf, BeginCall, registry, call, Phases, CallPhases
<1> QED
  BY <1>1, <1>2, <1>3, <1>4, <1>5 DEF IInv

\* A node dies.
LEMMA CrashInv ==
    ASSUME IInv, NEW n \in Nodes, Crash(n)
    PROVE  IInv'
<1>0. LeaveBehind(n) /\ late' \in Lates
      /\ copies' = [copies EXCEPT ![n] = 0]
      /\ \A m \in Nodes, t \in CallPhases :
            m # n \/ t # phase[n] \/ copies[n] = 0 => late'[m][t] = late[m][t]
  BY LeaveBehindLate, ZenonT(60) DEF IInv, LeaveBehind, Crash
<1>1. TypeOK'
  BY <1>0, TimingAssumption, TimerBound, SMTT(60)
  DEF IInv, TypeOK, CopiesInv, Crash, registry,
     call, Phases, CallPhases, Lates
<1>2. CopiesInv'
  BY <1>0, SMTT(60)
  DEF IInv, TypeOK, CopiesInv, Crash, registry, call, Phases, CallPhases, Lates
<1>3. CleanInv'
  BY <1>0, ZenonT(60)
  DEF IInv, TypeOK, CleanInv, Clean, Crash, registry, call, Phases, CallPhases,
     Lates
<1>4. QuietInv'
  BY <1>0 DEF IInv, TypeOK, QuietInv, Quiet, Crash, registry, call, Phases, CallPhases,
     Lates
<1>5. YoungInv'
  BY <1>0, TimingAssumption, TimerBound DEF IInv, TypeOK, QuietInv, Quiet, YoungInv,
     Young, Crash, registry, call, Phases, CallPhases, Lates
<1> QED
  BY <1>1, <1>2, <1>3, <1>4, <1>5 DEF IInv

\* The registry serves the call a node waits for.
LEMMA ServeInv ==
    ASSUME IInv, NEW n \in Nodes, Serve(n)
    PROVE  IInv'
<1>1. TypeOK'
  BY TimingAssumption, TimerBound, SMTT(60)
  DEF IInv, TypeOK, CopiesInv, Serve, Apply, Register,
     Heartbeat, Unregister, registry, call, Phases, CallPhases
<1>2. CopiesInv'
  BY SMTT(60) DEF IInv, TypeOK, CopiesInv, Serve, Apply, Register, Heartbeat, Unregister,
     registry, call, Phases, CallPhases
<1>3. CleanInv'
  BY SMTT(60)
  DEF IInv, TypeOK, CleanInv, Clean, Serve, Apply, Register, Heartbeat, Unregister,
     registry, call, Phases, CallPhases
<1>4. QuietInv'
  BY SMTT(60)
  DEF IInv, TypeOK, QuietInv, Quiet, Serve, Apply, Register, Heartbeat, Unregister,
     registry, call, Phases, CallPhases
<1>5. YoungInv'
  BY TimingAssumption, TimerBound, SMTT(60)
  DEF IInv, TypeOK, QuietInv, Quiet, YoungInv, Young,
     Serve, Apply, Register, Heartbeat, Unregister, registry, call, Phases, CallPhases
<1> QED
  BY <1>1, <1>2, <1>3, <1>4, <1>5 DEF IInv

\* The registry serves a copy that a finished call left behind.
LEMMA ServeLateInv ==
    ASSUME IInv, NEW n \in Nodes, NEW t \in CallPhases, ServeLate(n, t)
    PROVE  IInv'
<1>1. /\ UNCHANGED <<reliable, found, phase, stop, stopping, attempts, copies, replied,
                     timer, acked, clean>>
      /\ late[n][t] > 0 /\ late' = [late EXCEPT ![n][t] = @ - 1]
  BY DEF ServeLate, call
<1>2. late \in Lates
  BY DEF IInv, TypeOK, Lates
<1>3. late' \in Lates /\ \A m \in Nodes, u \in CallPhases : late'[m][u] <= late[m][u]
  BY <1>1, <1>2, OneLess, ZenonT(60)
<1>4. \A m \in Nodes, u \in CallPhases :
         late[m][u] = 0 => late'[m][u] = 0 /\ (m = n => u # t)
  <2>1. \A m \in Nodes, u \in CallPhases : late[m][u] \in Nat /\ late'[m][u] \in Nat
    BY <1>2, <1>3, TimingAssumption, SMTT(60) DEF Lates
  <2> QED
    BY <1>1, <1>3, <2>1, SMTT(60)
<1>5. /\ services' \subseteq Nodes /\ age' \in [Nodes -> 0..(HeartbeatTimeout + 1)]
      /\ t # "Register" => services' \subseteq services
      /\ \A m \in Nodes : m # n => (m \in services' <=> m \in services) /\ age'[m] = age[m]
  BY TimingAssumption, SMTT(60)
  DEF ServeLate, Apply, Register, Heartbeat, Unregister, IInv, TypeOK
<1>6. TypeOK'
  <2>1. found' \subseteq Nodes /\ reliable' \in BOOLEAN
    BY <1>1 DEF IInv, TypeOK
  <2> QED
    BY <1>1, <1>3, <1>5, <2>1, Zenon DEF IInv, TypeOK, Lates
<1>7. CopiesInv'
  BY <1>1 DEF IInv, CopiesInv
<1>8. CleanInv'
  <2>1. ASSUME NEW m \in Nodes, clean[m]
        PROVE  late'[m]["Register"] = 0 /\ (m \in services' => m \in services)
    BY <1>4, <1>5, <2>1 DEF IInv, CleanInv, Clean, CallPhases
  <2> QED
    BY <1>1, <2>1 DEF IInv, CleanInv, Clean
<1>9. QuietInv'
  BY <1>1, <1>4 DEF IInv, QuietInv, Quiet
<1>10. YoungInv'
  <2>1. ASSUME reliable, NEW m \in Nodes,
               phase[m] \in {"Register", "loop", "Heartbeat", "arm", "pause"}
        PROVE  (m \in services' <=> m \in services) /\ age'[m] = age[m]
    <3>1. m # n
      BY <1>4, <2>1 DEF IInv, QuietInv, Quiet
    <3> QED
      BY <1>5, <3>1
  <2> QED
    BY <1>1, <2>1 DEF IInv, YoungInv, Young
<1> QED
  BY <1>6, <1>7, <1>8, <1>9, <1>10 DEF IInv

\* purgeExpired, in the eviction thread or in Discover, takes no young node.
LEMMA PurgeInv ==
    ASSUME IInv, evictionLoop \/ Discover
    PROVE  IInv'
<1>1. /\ services' = Live /\ found' \in {found, services'}
      /\ UNCHANGED <<reliable, age, phase, stop, stopping, attempts, copies, replied,
                     timer, late, acked, clean>>
  BY DEF evictionLoop, Discover, purgeExpired, node, call
<1>2. services' \subseteq services
  BY <1>1 DEF Live
<1>3. TypeOK'
  BY <1>1, <1>2 DEF IInv, TypeOK
<1>4. CopiesInv' /\ QuietInv'
  BY <1>1 DEF IInv, CopiesInv, QuietInv, Quiet
<1>5. CleanInv'
  BY <1>1, <1>2 DEF IInv, CleanInv, Clean
<1>6. YoungInv'
  BY <1>1, TimingAssumption, SMTT(60)
  DEF IInv, TypeOK, YoungInv, Young, Live, Expired, CallPhases
<1> QED
  BY <1>3, <1>4, <1>5, <1>6 DEF IInv

\* Time passes for the entries and for the nodes alike.
LEMMA TickInv ==
    ASSUME IInv, Tick
    PROVE  IInv'
<1>1. /\ age' \in [Nodes -> 0..(HeartbeatTimeout + 1)] /\ timer' \in [Nodes -> 0..MaxTimer]
      /\ \A n \in Nodes : /\ age'[n] <= age[n] + 1
                          /\ timer[n] < MaxTimer => timer'[n] = timer[n] + 1
  BY TimingAssumption, TimerBound, SMTT(60) DEF Tick, Older, IInv, TypeOK
<1>2. UNCHANGED <<reliable, services, found, phase, stop, stopping, attempts, copies, replied,
                  late, acked, clean>>
  BY DEF Tick, call
<1>3. TypeOK'
  BY <1>1, <1>2 DEF IInv, TypeOK
<1>4. CopiesInv' /\ QuietInv' /\ CleanInv'
  BY <1>2 DEF IInv, CopiesInv, QuietInv, Quiet, CleanInv, Clean
<1>5. ASSUME reliable, HeartbeatTimeout >= Interval + 2 * MaxDelay, NEW n \in Nodes
      PROVE  Young(n)'
  <2>1. Young(n) /\ OnTime(n)
    BY <1>5 DEF IInv, YoungInv, Tick
  <2> QED
    BY <1>1, <1>2, <2>1, TimingAssumption, TimerBound, SMTT(60)
    DEF Young, OnTime, IInv, TypeOK,
       CallPhases
<1>6. YoungInv'
  BY <1>2, <1>5 DEF YoungInv
<1> QED
  BY <1>3, <1>4, <1>6 DEF IInv

-----------------------------------------------------------------------------

\* The invariant holds in every reachable state.
LEMMA Invariant == Spec => []IInv
<1>1. Init => IInv
  <2> SUFFICES ASSUME Init PROVE IInv
    OBVIOUS
  <2>1. TypeOK
    BY TimingAssumption, TimerBound, SMTT(60) DEF Init, TypeOK, Phases
  <2>2. CopiesInv /\ CleanInv /\ QuietInv /\ YoungInv
    BY SMTT(60) DEF Init, CopiesInv, CleanInv, Clean, QuietInv, Quiet, YoungInv, Young,
        CallPhases
  <2> QED
    BY <2>1, <2>2 DEF IInv
<1>2. IInv /\ [Next]_vars => IInv'
  <2> SUFFICES ASSUME IInv, [Next]_vars PROVE IInv'
    OBVIOUS
  <2>1. ASSUME NEW n \in Nodes, NodeStep(n)
        PROVE  IInv'
    BY <2>1, StartInv, RetryInv, CallSucceedsInv, CallFailsInv, LoseInv, LoopCheckInv,
       BlockInv, IntervalOverInv, SetStopInv, NotifyStopInv, JoinedInv,
           unregisterSelfInv,
       CrashInv DEF NodeStep
  <2>2. CASE UNCHANGED vars
    BY <2>2 DEF IInv, TypeOK, CopiesInv, CleanInv, Clean, QuietInv, Quiet, YoungInv,
        Young,
       vars, registry, node, call
  <2> QED
    BY <2>1, <2>2, ServeInv, ServeLateInv, PurgeInv, TickInv DEF Next
<1> QED
  BY <1>1, <1>2, PTL DEF Spec

\* Types, for every number of nodes and every timing.
THEOREM RegistryTypes == Spec => []TypeOK
<1>1. IInv => TypeOK
  BY DEF IInv
<1> QED
  BY Invariant, <1>1, PTL

\* A node that unregistered stays out of the table, whatever heartbeats it left
\* in flight (RegistryServiceImpl.cpp:157).
THEOREM UnregisteredStaysOff == Spec => []OffStaysOff
<1>1. IInv => OffStaysOff
  BY DEF IInv, CleanInv, Clean, OffStaysOff
<1> QED
  BY Invariant, <1>1, PTL

\* A heartbeat timeout of an interval and two calls is enough for every
\* interval and every duration of a call (RegistryServiceImpl.cpp:52).
THEOREM TimeoutSuffices == Spec => []NoFalseEviction
<1>1. IInv => NoFalseEviction
  BY TimingAssumption, SMTT(60)
  DEF IInv, TypeOK, YoungInv, Young, NoFalseEviction, Live, Expired,
     CallPhases
<1> QED
  BY Invariant, <1>1, PTL

\* Discover never answers with an expired node (RegistryServiceImpl.cpp:135).
THEOREM DiscoverAnswersLive == Spec => DiscoverLive
<1>1. IInv /\ [Next]_vars =>
         [Discover => \A n \in found' : age[n] <= HeartbeatTimeout]_vars
  BY TimingAssumption, SMTT(60) DEF IInv, TypeOK, Discover, purgeExpired, Live, Expired
<1> QED
  BY Invariant, <1>1, PTL DEF Spec, DiscoverLive
=============================================================================
