-------------------------- MODULE LoadBalanceChannel --------------------------
(***************************************************************************)
(* The load-balancing channel of src/rpc/LoadBalanceChannel.cpp with the   *)
(* selectors of src/rpc/LoadBalancer.cpp.                                  *)
(*                                                                         *)
(* mutex_ is held for a whole CallMethod, so there is one call at a time;  *)
(* what the registry would answer (`listed') and which nodes answer calls  *)
(* (`alive') change under it at any moment.  A call to one node, retries   *)
(* inside its RpcChannel included, is one step.  Nodes are numbered in the *)
(* order in which Discover sorts them.                                     *)
(***************************************************************************)
EXTENDS Integers, FiniteSets, Sequences, Functions

CONSTANTS
    Nodes,          \* numbers, in the (host, port) order of Discover
    Keys,           \* request contents, the keys of consistent hashing
    Points,         \* hash64 of a node's virtual nodes
    NoKey,          \* the empty one
    KeyHash,        \* hash64 of a key
    Hashing,        \* type_ = kConsistentHash
    IndexModulus    \* 2^64 in the code: index_ is a size_t

ASSUME BalanceAssumption ==
    /\ Nodes \subseteq Nat /\ IsFiniteSet(Nodes) /\ 0 \notin Nodes
    /\ Points \in [Nodes -> SUBSET Nat] /\ \A n \in Nodes : Points[n] # {}
    /\ KeyHash \in [Keys -> Nat]
    /\ Hashing \in BOOLEAN
    /\ IndexModulus \in Nat \ {0} /\ IndexModulus % 2 = 0

VARIABLES
    nodes, index, expired, failedNodeKey,   \* the channel's members
    pc, key, ctl, done, attempt, nodeKey,   \* the call in progress
    controller, tried, doneRuns,            \* and its outcome
    listed, alive                           \* the registry and the nodes

members == <<nodes, index, expired, failedNodeKey>>
args == <<key, ctl, done>>
env == <<listed, alive>>
vars == <<members, pc, args, attempt, nodeKey, controller, tried, doneRuns, env>>

NoNode == 0
ConnectionCodes == {"closed", "system", "timeout"}
Codes == {"ok", "noService", "business"} \cup ConnectionCodes

Init ==
    /\ nodes = <<>> /\ index = 0 /\ expired = TRUE /\ failedNodeKey = NoNode
    /\ pc = "idle" /\ key \in Keys /\ ctl = TRUE /\ done = FALSE
    /\ attempt = 0 /\ nodeKey = NoNode
    /\ controller = "ok" /\ tried = {} /\ doneRuns = 0
    /\ listed = Nodes /\ alive = Nodes

-----------------------------------------------------------------------------
(* Selection.                                                              *)

\* RoundRobin::next, the i-th call from now.
RoundRobinNext(i) == ((index + i) % IndexModulus) % Len(nodes)

\* Fault: the key's hash is taken modulo the number of nodes.
ModuloSelect(k, s) == s[(KeyHash[k] % Len(s)) + 1]

\* ConsistentHash: the node of the first point at or after the key's, or of
\* the first point of all; of nodes that share a point the last one set wins.
selectNode(k, s) ==
    LET ring == UNION {Points[s[i]] : i \in DOMAIN s}
        after == {p \in ring : p >= KeyHash[k]}
        lower == IF after = {} THEN ring ELSE after
        point == CHOOSE p \in lower : \A q \in lower : p <= q
        owners == {i \in DOMAIN s : point \in Points[s[i]]}
    IN  s[CHOOSE i \in owners : \A j \in owners : j <= i]

\* index_.fetch_add, n times.
Advance(n) == index' = (index + n) % IndexModulus

\* selectNodeKey: a request that serialises to nothing has no key to hash.
Select ==
    IF Hashing /\ key # NoKey
    THEN nodeKey' = selectNode(key, nodes) /\ UNCHANGED index
    ELSE /\ nodeKey' = nodes[RoundRobinNext(0) + 1]
         /\ Advance(1)

\* Fault: the next node is taken whatever it is.
SelectNextForRetry ==
    /\ nodeKey' = nodes[RoundRobinNext(0) + 1]
    /\ Advance(1)

\* selectNodeKeyForRetry: round robin until a node other than the failed one,
\* at most once around.
SelectForRetry ==
    LET others == {i \in 0..(Len(nodes) - 1) :
                      nodes[RoundRobinNext(i) + 1] # failedNodeKey}
    IN  IF others = {}
        THEN /\ nodeKey' = failedNodeKey
             /\ Advance(Len(nodes))
        ELSE LET i == CHOOSE i \in others : \A j \in others : i <= j
             IN  /\ nodeKey' = nodes[RoundRobinNext(i) + 1]
                 /\ Advance(i + 1)

-----------------------------------------------------------------------------
(* CallMethod.                                                             *)

needRefresh == nodes = <<>> \/ expired

Begin ==
    /\ pc = "idle"
    /\ key' \in Keys /\ ctl' \in BOOLEAN /\ done' \in BOOLEAN
    /\ controller' = "ok" /\ tried' = {} /\ doneRuns' = 0
    /\ attempt' = 0
    /\ pc' = IF needRefresh THEN "refresh" ELSE "select"
    /\ UNCHANGED <<members, nodeKey, env>>

\* The lists that hold S in order, of which there is one.
Sorted(S) ==
    {s \in [1..Cardinality(S) -> S] : \A i, j \in DOMAIN s : i < j => s[i] < s[j]}

\* refreshNodes: the registry's answer replaces the list, or Discover fails and
\* the old list stays.
refreshNodes ==
    \/ /\ nodes' \in Sorted(listed)
       /\ expired' = FALSE
    \/ UNCHANGED <<nodes, expired>>

Refresh ==
    /\ pc = "refresh"
    /\ refreshNodes
    /\ pc' = "select"
    /\ UNCHANGED <<index, failedNodeKey, args, attempt, nodeKey, controller,
                   tried, doneRuns, env>>

NoService ==
    /\ pc = "select"
    /\ nodes = <<>>
    /\ controller' = IF ctl THEN "noService" ELSE controller
    /\ doneRuns' = IF done THEN 1 ELSE 0
    /\ pc' = "idle"
    /\ UNCHANGED <<members, args, attempt, nodeKey, tried, env>>

SelectNode ==
    /\ pc = "select"
    /\ nodes # <<>>
    /\ IF attempt = 0 THEN Select ELSE SelectForRetry
    /\ pc' = "call"
    /\ UNCHANGED <<nodes, expired, failedNodeKey, args, attempt, controller,
                   tried, doneRuns, env>>

\* Fault: a call with a closure is retried too.
AttemptsAlways == 2

maxAttempts == IF done THEN 1 ELSE 2

\* RpcChannel::CallMethod on the node's channel, and what CallMethod makes of
\* its outcome.  Without a controller a failure goes unseen.
Call ==
    /\ pc = "call"
    /\ \E code \in IF nodeKey \in alive THEN Codes \ {"noService"}
                                        ELSE ConnectionCodes :
          /\ controller' = IF ctl THEN code ELSE controller
          /\ pc' = IF ctl /\ code \in ConnectionCodes /\ Len(nodes) > 1
                   THEN "failed" ELSE "idle"
    /\ tried' = tried \cup {nodeKey}
    /\ doneRuns' = doneRuns + (IF done THEN 1 ELSE 0)
    /\ UNCHANGED <<members, args, attempt, nodeKey, env>>

\* Fault: the call gives up when the refresh brings no new list.
GoesOnIfChanged == nodes' # nodes /\ Len(nodes') > 1

\* There is another node to try after the refresh.
GoesOn == Len(nodes') > 1

\* The rest of the loop body: remember the node, refresh, and go round unless
\* one node or none is left or the attempts are used up.
Failed ==
    /\ pc = "failed"
    /\ refreshNodes
    /\ failedNodeKey' = nodeKey
    /\ attempt' = attempt + 1
    /\ pc' = IF GoesOn /\ attempt + 1 < maxAttempts THEN "select" ELSE "idle"
    /\ UNCHANGED <<index, args, nodeKey, controller, tried, doneRuns, env>>

-----------------------------------------------------------------------------
(* The rest of the world.                                                  *)

Expire ==
    /\ ~expired
    /\ expired' = TRUE
    /\ UNCHANGED <<nodes, index, failedNodeKey, pc, args, attempt, nodeKey,
                   controller, tried, doneRuns, env>>

\* Nodes come and go, and the registry learns of it sooner or later.
Environment ==
    /\ \E n \in Nodes :
          \/ alive' \in {alive \cup {n}, alive \ {n}} /\ UNCHANGED listed
          \/ listed' \in {listed \cup {n}, listed \ {n}} /\ UNCHANGED alive
    /\ UNCHANGED <<members, pc, args, attempt, nodeKey, controller, tried,
                   doneRuns>>

Next ==
    \/ Begin \/ Refresh \/ NoService \/ SelectNode \/ Call \/ Failed
    \/ Expire \/ Environment

Spec == Init /\ [][Next]_vars

-----------------------------------------------------------------------------
(* Properties.                                                             *)

\* The values of the channel's members and of the call in progress; the
\* round-robin counter wraps.
TypeOK ==
    /\ nodes \in Seq(Nodes) /\ index \in 0..(IndexModulus - 1)
    /\ expired \in BOOLEAN /\ failedNodeKey \in Nodes \cup {NoNode}
    /\ pc \in {"idle", "refresh", "select", "call", "failed"}
    /\ key \in Keys /\ ctl \in BOOLEAN /\ done \in BOOLEAN
    /\ attempt \in 0..2 /\ nodeKey \in Nodes \cup {NoNode}
    /\ controller \in Codes /\ tried \subseteq Nodes /\ doneRuns \in Nat
    /\ listed \subseteq Nodes /\ alive \subseteq Nodes

\* A retry goes to a node other than the one that failed, whatever the refresh
\* in between made of the list and wherever the round-robin counter stands,
\* its overflow included.
RetryElsewhere ==
    pc = "call" /\ attempt = 1 => nodeKey # failedNodeKey

\* The closure of a call runs once, on the early return and after failures as
\* well as on success: with a closure there is no second attempt, "so that the
\* callback is not called several times" (LoadBalanceChannel.cpp:143).
DoneOnce ==
    /\ doneRuns <= 1
    /\ pc = "idle" /\ done => doneRuns = 1

\* Consistent hashing: a refresh moves a key away from a node that stays only
\* to a node that is new, also where virtual nodes of two nodes collide.
HashStable ==
    [][nodes' # nodes /\ nodes # <<>> /\ nodes' # <<>> =>
         \A k \in Keys :
            LET old == selectNode(k, nodes)
                new == selectNode(k, nodes')
            IN  old = new \/ old \notin Range(nodes') \/ new \notin Range(nodes)]_nodes

\* "a call that fails at connection level refreshes the list and is retried
\* once on another node" (docs/decisions.md:42), as long as the list has more
\* than one: a call without a closure reports such a failure only after two
\* different nodes, whatever the refreshes made of the list.
FailoverTried ==
    pc = "idle" /\ ctl /\ ~done /\ controller \in ConnectionCodes
        /\ Len(nodes) > 1
        => Cardinality(tried) = 2

=============================================================================
