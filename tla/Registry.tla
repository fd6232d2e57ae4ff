------------------------------- MODULE Registry -------------------------------
(***************************************************************************)
(* The registry (src/registry/RegistryServiceImpl.cpp) and the service     *)
(* nodes that register with it (src/rpc/RpcServiceNode.cpp).               *)
(*                                                                         *)
(* Time is a Tick that ages everything; an instant is kept as the ticks    *)
(* since then, so `now - lastHeartbeat > heartbeatTimeout_' is             *)
(* `age > HeartbeatTimeout'.  A node talks to the registry through an      *)
(* RpcChannel with one retry: a call may put two copies of its request in  *)
(* flight, may fail while copies are still in flight, and the registry's   *)
(* thread pool serves whatever copies reach it in any order.  Copies left  *)
(* behind by a finished call are `late'.                                   *)
(*                                                                         *)
(* In a behaviour with reliable = TRUE the network and the processes keep  *)
(* their time: nothing is lost, every call returns within MaxDelay ticks   *)
(* and a thread that is ready to run does so before the next tick.         *)
(***************************************************************************)
EXTENDS Integers, FiniteSets

CONSTANTS
    Nodes,
    HeartbeatTimeout,   \* heartbeatTimeout_, in ticks
    Interval,           \* heartbeatIntervalMs_, in ticks
    MaxDelay,           \* bound on a call's duration when reliable
    MaxLate             \* bound: late copies kept per node and request type

ASSUME TimingAssumption ==
    /\ HeartbeatTimeout \in Nat \ {0}
    /\ Interval \in Nat \ {0}
    /\ MaxDelay \in Nat
    /\ MaxLate \in Nat \ {0}

VARIABLES
    reliable,   \* the kind of behaviour this is; never changes
    services,   \* the nodes in the registry's table
    age,        \* ticks since lastHeartbeat of a node in the table
    found,      \* the answer of the last Discover
    phase,      \* where a node is
    stop, stopping,      \* stop_, and how far stopHeartbeat() is
    attempts, copies, replied,   \* the node's current call
    timer,      \* ticks since the current call or wait began
    late,       \* copies left behind by finished calls
    acked,      \* the last Register or Unregister call succeeded
    clean       \* history: no Register of this node was left in flight

registry == <<reliable, services, age, found>>
call == <<attempts, copies, replied>>
node == <<phase, stop, stopping, call, timer, late, acked, clean>>
vars == <<registry, node>>

\* A phase in which a call is in progress is named after it.
CallPhases == {"Register", "Heartbeat", "Unregister"}
Phases == CallPhases \cup {"down", "loop", "arm", "pause", "exit", "off", "gone"}

MaxTimer == IF Interval > MaxDelay THEN Interval ELSE MaxDelay

Init ==
    /\ reliable \in BOOLEAN
    /\ services = {} /\ age = [n \in Nodes |-> 0] /\ found = {}
    /\ phase = [n \in Nodes |-> "down"]
    /\ stop = [n \in Nodes |-> FALSE] /\ stopping = [n \in Nodes |-> "no"]
    /\ attempts = [n \in Nodes |-> 0] /\ copies = [n \in Nodes |-> 0]
    /\ replied = [n \in Nodes |-> FALSE] /\ timer = [n \in Nodes |-> 0]
    /\ late = [n \in Nodes |-> [t \in CallPhases |-> 0]]
    /\ acked = [n \in Nodes |-> FALSE] /\ clean = [n \in Nodes |-> TRUE]

-----------------------------------------------------------------------------
(* The registry; every operation runs under mutex_.                        *)

\* Fault: >= in place of >.
ExpiredAtTimeout(n) == age[n] >= HeartbeatTimeout

Expired(n) == age[n] > HeartbeatTimeout

Live == {n \in services : ~Expired(n)}

\* Fault: nothing is erased.
PurgeNothing == UNCHANGED services

purgeExpired == services' = Live

\* evictionLoop: one scan of the background thread that finds something.
evictionLoop ==
    /\ Live # services
    /\ purgeExpired
    /\ UNCHANGED <<reliable, age, found, node>>

\* Discover: purgeExpired, then the nodes that are left.
Discover ==
    /\ purgeExpired
    /\ found' = services'
    /\ UNCHANGED <<reliable, age, node>>

Register(n) ==
    /\ services' = services \cup {n}
    /\ age' = [age EXCEPT ![n] = 0]

Unregister(n) ==
    /\ services' = services \ {n}
    /\ UNCHANGED age

\* Fault: operator[] makes an entry for an unknown node.
HeartbeatInserts(n) ==
    /\ services' = services \cup {n}
    /\ age' = [age EXCEPT ![n] = 0]

\* Heartbeat refreshes a node of the table and rejects any other; both are
\* answers, and the node does not look at resp.error_code().
Heartbeat(n) ==
    /\ UNCHANGED services
    /\ age' = IF n \in services THEN [age EXCEPT ![n] = 0] ELSE age

Apply(n, type) ==
    \/ type = "Register" /\ Register(n)
    \/ type = "Heartbeat" /\ Heartbeat(n)
    \/ type = "Unregister" /\ Unregister(n)

\* The registry serves a copy of node n's current call.
Serve(n) ==
    /\ copies[n] > 0
    /\ Apply(n, phase[n])
    /\ copies' = [copies EXCEPT ![n] = @ - 1]
    /\ replied' = [replied EXCEPT ![n] = TRUE]
    /\ UNCHANGED <<reliable, found, phase, stop, stopping, attempts, timer, late,
                   acked, clean>>

\* The registry serves a copy of a call that is over: nobody reads the answer.
ServeLate(n, type) ==
    /\ late[n][type] > 0
    /\ Apply(n, type)
    /\ late' = [late EXCEPT ![n][type] = @ - 1]
    /\ UNCHANGED <<reliable, found, phase, stop, stopping, call, timer, acked,
                   clean>>

-----------------------------------------------------------------------------
(* A service node.                                                         *)

\* A stub call begins: the first attempt is sent.
BeginCall(n, type) ==
    /\ phase' = [phase EXCEPT ![n] = type]
    /\ attempts' = [attempts EXCEPT ![n] = 1]
    /\ copies' = [copies EXCEPT ![n] = 1]
    /\ replied' = [replied EXCEPT ![n] = FALSE]
    /\ timer' = [timer EXCEPT ![n] = 0]

\* start(): the server is up, registerSelf() is called.  A node that has
\* stopped may be started again at the same address; when reliable, that takes
\* longer than what it left in flight.
Start(n) ==
    /\ phase[n] \in {"down", "off", "gone"}
    /\ reliable => \A t \in CallPhases : late[n][t] = 0
    /\ BeginCall(n, "Register")
    /\ stop' = [stop EXCEPT ![n] = FALSE]
    /\ stopping' = [stopping EXCEPT ![n] = "no"]
    /\ acked' = [acked EXCEPT ![n] = FALSE]
    /\ clean' = [clean EXCEPT ![n] = late[n]["Register"] = 0]
    /\ UNCHANGED <<registry, late>>

\* attempt < maxRetry + 1, with the one retry a node's channels have.
MayRetry(n) == attempts[n] = 1

\* The first attempt of a call times out and the channel sends a second one.
Retry(n) ==
    /\ ~reliable
    /\ phase[n] \in CallPhases
    /\ MayRetry(n)
    /\ attempts' = [attempts EXCEPT ![n] = @ + 1]
    /\ copies' = [copies EXCEPT ![n] = @ + 1]
    /\ clean' = [clean EXCEPT ![n] = @ /\ phase[n] # "Register"]
    /\ UNCHANGED <<registry, phase, stop, stopping, replied, timer, late, acked>>

\* What is still in flight of node n's call stays in flight.
LeaveBehind(n) ==
    /\ late' = IF phase[n] \in CallPhases
               THEN [late EXCEPT ![n][phase[n]] =
                        IF @ + copies[n] > MaxLate THEN MaxLate
                                                   ELSE @ + copies[n]]
               ELSE late
    /\ copies' = [copies EXCEPT ![n] = 0]

\* What follows a call: the heartbeat thread after registerSelf(), whatever its
\* outcome; the predicate of wait_for after a heartbeat; the end of shutdown().
After(n) ==
    CASE phase[n] = "Register" -> "loop"
      [] phase[n] = "Heartbeat" -> IF stop[n] THEN "exit" ELSE "arm"
      [] phase[n] = "Unregister" -> "off"

EndCall(n, success) ==
    /\ phase[n] \in CallPhases
    /\ phase' = [phase EXCEPT ![n] = After(n)]
    /\ acked' = [acked EXCEPT ![n] =
                    IF phase[n] = "Heartbeat" THEN @ ELSE success]
    /\ LeaveBehind(n)
    /\ UNCHANGED <<registry, stop, stopping, attempts, replied, timer>>

CallSucceeds(n) ==
    /\ replied[n]
    /\ EndCall(n, TRUE)
    /\ UNCHANGED clean

\* The call times out twice, or the connection fails at any point.
CallFails(n) ==
    /\ ~reliable
    /\ EndCall(n, FALSE)
    /\ clean' = [clean EXCEPT ![n] = @ /\ phase[n] # "Register"]

\* A request in flight is lost with its connection.
Lose(n) ==
    /\ ~reliable
    /\ \/ /\ copies[n] > 0
          /\ copies' = [copies EXCEPT ![n] = @ - 1]
          /\ UNCHANGED late
       \/ /\ \E t \in CallPhases :
                /\ late[n][t] > 0
                /\ late' = [late EXCEPT ![n][t] = @ - 1]
          /\ UNCHANGED copies
    /\ UNCHANGED <<registry, phase, stop, stopping, attempts, replied, timer,
                   acked, clean>>

\* heartbeatLoop: while (!stop_).
LoopCheck(n) ==
    /\ phase[n] = "loop"
    /\ \/ /\ stop[n]
          /\ phase' = [phase EXCEPT ![n] = "exit"]
          /\ UNCHANGED <<call, timer>>
       \/ /\ ~stop[n]
          /\ BeginCall(n, "Heartbeat")
    /\ UNCHANGED <<registry, stop, stopping, late, acked, clean>>

\* wait_for has seen stop_ false and blocks.
Block(n) ==
    /\ phase[n] = "arm"
    /\ phase' = [phase EXCEPT ![n] = "pause"]
    /\ timer' = [timer EXCEPT ![n] = 0]
    /\ UNCHANGED <<registry, stop, stopping, call, late, acked, clean>>

\* Fault: wait in place of wait_for.
NoTimeout(n) == FALSE

TimedOut(n) == timer[n] >= Interval

\* wait_for ends by its timeout.
IntervalOver(n) ==
    /\ phase[n] = "pause"
    /\ TimedOut(n)
    /\ phase' = [phase EXCEPT ![n] = "loop"]
    /\ UNCHANGED <<registry, stop, stopping, call, timer, late, acked, clean>>

\* stopHeartbeat(): stop_ = true, without cvMutex_.  start() has returned.
SetStop(n) ==
    /\ phase[n] \in {"loop", "Heartbeat", "arm", "pause"}
    /\ ~stop[n]
    /\ stop' = [stop EXCEPT ![n] = TRUE]
    /\ stopping' = [stopping EXCEPT ![n] = "flagged"]
    /\ UNCHANGED <<registry, phase, call, timer, late, acked, clean>>

\* cv_.notify_all()
NotifyStop(n) ==
    /\ stopping[n] = "flagged"
    /\ stopping' = [stopping EXCEPT ![n] = "notified"]
    /\ phase' = [phase EXCEPT ![n] = IF @ = "pause" THEN "loop" ELSE @]
    /\ UNCHANGED <<registry, stop, call, timer, late, acked, clean>>

\* The join returns; stopHeartbeat() alone leaves the node in the table.
Joined(n) ==
    /\ phase[n] = "exit"
    /\ stopping[n] = "notified"
    /\ stopping' = [stopping EXCEPT ![n] = "joined"]
    /\ phase' = [phase EXCEPT ![n] = "gone"]
    /\ UNCHANGED <<registry, stop, call, timer, late, acked, clean>>

\* The second half of shutdown(), directly after its stopHeartbeat() or in a
\* later shutdown().
unregisterSelf(n) ==
    /\ phase[n] \in {"gone", "off"}
    /\ stopping[n] = "joined"
    /\ BeginCall(n, "Unregister")
    /\ UNCHANGED <<registry, stop, stopping, late, acked, clean>>

\* The process of the node dies.
Crash(n) ==
    /\ phase[n] \notin {"down", "off", "gone"}
    /\ phase' = [phase EXCEPT ![n] = "gone"]
    /\ LeaveBehind(n)
    /\ clean' = [clean EXCEPT ![n] = @ /\ phase[n] # "Register"]
    /\ stop' = [stop EXCEPT ![n] = FALSE]
    /\ stopping' = [stopping EXCEPT ![n] = "no"]
    /\ UNCHANGED <<registry, attempts, replied, timer, acked>>

-----------------------------------------------------------------------------

\* A node that keeps its time allows the clock to advance.
OnTime(n) ==
    /\ phase[n] \notin {"loop", "arm"}
    /\ phase[n] \in CallPhases => timer[n] < MaxDelay
    /\ phase[n] = "pause" => timer[n] < Interval

Older(x, cap) == IF x < cap THEN x + 1 ELSE x

Tick ==
    /\ reliable => \A n \in Nodes : OnTime(n)
    /\ age' = [n \in Nodes |-> Older(age[n], HeartbeatTimeout + 1)]
    /\ timer' = [n \in Nodes |-> Older(timer[n], MaxTimer)]
    /\ UNCHANGED <<reliable, services, found, phase, stop, stopping, call, late,
                   acked, clean>>

NodeStep(n) ==
    \/ Start(n) \/ Retry(n) \/ CallSucceeds(n) \/ CallFails(n) \/ Lose(n)
    \/ LoopCheck(n) \/ Block(n) \/ IntervalOver(n)
    \/ SetStop(n) \/ NotifyStop(n) \/ Joined(n) \/ unregisterSelf(n)
    \/ Crash(n)

Next ==
    \/ \E n \in Nodes : NodeStep(n) \/ Serve(n)
    \/ \E n \in Nodes, t \in CallPhases : ServeLate(n, t)
    \/ evictionLoop \/ Discover \/ Tick

Spec == Init /\ [][Next]_vars

\* Time passes and the threads run; a call ends, by its timeouts if not by its
\* answer; a request in flight is served or lost with its connection.
Fairness ==
    /\ WF_vars(Tick) /\ WF_vars(evictionLoop)
    /\ \A n \in Nodes :
          /\ WF_vars(Serve(n)) /\ WF_vars(CallSucceeds(n) \/ CallFails(n))
          /\ WF_vars(LoopCheck(n) \/ Block(n) \/ IntervalOver(n))
          /\ WF_vars(NotifyStop(n)) /\ WF_vars(Joined(n))
    /\ \A n \in Nodes, t \in CallPhases :
          WF_vars(ServeLate(n, t) \/ (Lose(n) /\ late'[n][t] < late[n][t]))

FairSpec == Spec /\ Fairness

-----------------------------------------------------------------------------
(* Properties.                                                             *)

\* The values of the table and of each node; a call never has more than its
\* two attempts.
TypeOK ==
    /\ reliable \in BOOLEAN
    /\ services \subseteq Nodes /\ found \subseteq Nodes
    /\ age \in [Nodes -> 0..(HeartbeatTimeout + 1)]
    /\ phase \in [Nodes -> Phases]
    /\ stop \in [Nodes -> BOOLEAN]
    /\ stopping \in [Nodes -> {"no", "flagged", "notified", "joined"}]
    /\ attempts \in [Nodes -> 0..2] /\ copies \in [Nodes -> 0..2]
    /\ replied \in [Nodes -> BOOLEAN] /\ timer \in [Nodes -> 0..MaxTimer]
    /\ late \in [Nodes -> [CallPhases -> 0..MaxLate]]
    /\ acked \in [Nodes -> BOOLEAN] /\ clean \in [Nodes -> BOOLEAN]

\* A node whose registration was answered at its first attempt and whose
\* shutdown() had its Unregister answered is out of the table and stays out,
\* also when heartbeats it sent earlier are served afterwards: Heartbeat
\* refreshes entries and never makes one.
OffStaysOff ==
    \A n \in Nodes :
        phase[n] = "off" /\ acked[n] /\ clean[n] => n \notin services

\* While calls are answered within MaxDelay, a node that registered is never
\* evicted as long as its heartbeat thread is in its loop, so Discover does not
\* lose it: the timeout covers one interval and two calls, and the comparison
\* in purgeExpired is strict.
NoFalseEviction ==
    reliable /\ HeartbeatTimeout >= Interval + 2 * MaxDelay =>
        \A n \in Nodes :
            phase[n] \in {"loop", "Heartbeat", "arm", "pause"} => n \in Live

\* "Discover returns live nodes only" (docs/decisions.md:38): no answer holds a
\* node whose last accepted heartbeat is older than the timeout, whether or
\* not the eviction thread has scanned since it expired.
DiscoverLive ==
    [][Discover => \A n \in found' : age[n] <= HeartbeatTimeout]_vars

\* A node that is gone without Unregister leaves the table for good unless it
\* is started again: heartbeats and registrations it left in flight are
\* finitely many and the eviction thread comes back.
GoneIsEvicted ==
    \A n \in Nodes : <>[](phase[n] = "gone") => <>[](n \notin services)

\* stopHeartbeat() returns unless the process dies first: a notification that
\* falls between the predicate and the sleep of the heartbeat thread, which
\* setting stop_ without cvMutex_ allows, costs an interval and no more.
StopJoins ==
    \A n \in Nodes :
        stopping[n] = "flagged" ~> stopping[n] \in {"joined", "no"}

=============================================================================
