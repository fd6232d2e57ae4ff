----------------------- MODULE LoadBalanceChannelProofs -----------------------
(***************************************************************************)
(* TLAPS proofs about LoadBalanceChannel, for every set of nodes, ring,    *)
(* key, list and value of the round-robin counter.                         *)
(***************************************************************************)
EXTENDS LoadBalanceChannel, FiniteSetTheorems, WellFoundedInduction, TLAPS

\* How long a prover may take over a step that names none.
USE ZenonT(60), SMTT(60)

-----------------------------------------------------------------------------
(* Numbers.                                                                *)

\* A set of naturals has a least element: the first point of the ring.
LEMMA Least ==
    ASSUME NEW T \in SUBSET Nat, T # {}
    PROVE  \E x \in T : \A y \in T : x <= y
<1> DEFINE R == OpToRel(<, Nat)
<1>1. IsWellFoundedOn(R, Nat)
  BY NatLessThanWellFounded, Zenon
<1>2. \A x, y \in Nat : x < y => <<x, y>> \in R
  BY DEF OpToRel
<1> HIDE DEF R
<1>3. PICK x \in T : \A y \in T : ~(<<y, x>> \in R)
  BY <1>1, WFMin, Zenon
<1>4. ASSUME NEW y \in T
      PROVE  x <= y
  <2>1. x \in Nat /\ y \in Nat
    OBVIOUS
  <2>2. ~(y < x)
    BY <1>2, <1>3, <2>1, Zenon
  <2>3. QED
    BY <2>1, <2>2, SMTT(60)
<1>5. QED
  BY <1>4

\* A bounded set of naturals has a greatest element: the owner of a point that
\* virtual nodes share is the last in the list.
LEMMA Greatest ==
    ASSUME NEW n \in Nat, NEW T \in SUBSET (1..n), T # {}
    PROVE  \E x \in T : \A y \in T : y <= x
<1> DEFINE D == {n - x : x \in T}
<1>1. D \in SUBSET Nat /\ D # {}
  <2>1. \A x \in T : n - x \in Nat
    BY SMTT(60)
  <2>2. QED
    BY <2>1
<1>2. PICK d \in D : \A e \in D : d <= e
  BY <1>1, Least
<1>3. PICK x \in T : d = n - x
  OBVIOUS
<1>4. ASSUME NEW y \in T
      PROVE  y <= x
  <2>1. n - y \in D
    OBVIOUS
  <2>2. d <= n - y
    BY <1>2, <2>1
  <2>3. QED
    BY <1>3, <2>2, SMTT(60)
<1>5. QED
  BY <1>4

\* Division with remainder.
LEMMA Division ==
    ASSUME NEW x \in Nat, NEW m \in Nat \ {0}
    PROVE  /\ x \div m \in Nat /\ x % m \in 0..(m - 1)
           /\ x = m * (x \div m) + (x % m)
BY SMTT(60)

\* No multiple of a number above one is one.
LEMMA NoUnit ==
    ASSUME NEW a \in Int, NEW m \in Nat, m >= 2
    PROVE  m * a # 1
<1>1. CASE a <= 0
  <2>1. m * a <= 0
    BY <1>1, SMTT(60)
  <2>2. QED
    BY <2>1, SMTT(60)
<1>2. CASE a >= 1
  <2>1. m * a >= m
    BY <1>2, SMTT(60)
  <2>2. QED
    BY <2>1, SMTT(60)
<1>3. QED
  BY <1>1, <1>2, SMTT(60)

\* Two consecutive values of index_ are different modulo two nodes or more.
LEMMA Consecutive ==
    ASSUME NEW x \in Nat, NEW m \in Nat, m >= 2
    PROVE  x % m # (x + 1) % m
<1> DEFINE q == x \div m
           p == (x + 1) \div m
           r == x % m
           o == (x + 1) % m
<1>1. q \in Nat /\ r \in Nat /\ x = m * q + r
  BY Division, SMTT(60)
<1>2. p \in Nat /\ o \in Nat /\ x + 1 = m * p + o
  BY Division, SMTT(60)
<1> HIDE DEF q, p, r, o
<1> DEFINE u == m * p
           v == m * q
<1>3. u \in Nat /\ v \in Nat /\ x = v + r /\ x + 1 = u + o
  BY <1>1, <1>2, SMTT(60)
<1>4. u - v # 1
  <2>1. m * (p - q) = m * p - m * q /\ p - q \in Int
    BY <1>1, <1>2, SMTT(60)
  <2>2. m * (p - q) # 1
    BY <2>1, NoUnit
  <2>3. QED
    BY <2>1, <2>2
<1> HIDE DEF u, v
<1>5. r # o
  BY <1>1, <1>2, <1>3, <1>4, SMTT(60)
<1>6. QED
  BY <1>5 DEF r, o

-----------------------------------------------------------------------------
(* The ring.                                                               *)

\* The elements of a list.
LEMMA Elements ==
    ASSUME NEW S, NEW s \in Seq(S)
    PROVE  DOMAIN s = 1..Len(s) /\ \A i \in 1..Len(s) : s[i] \in S
BY SMTT(60)

Ascending(s) == \A i, j \in DOMAIN s : i < j => s[i] < s[j]

Ring(s) == UNION {Points[s[i]] : i \in DOMAIN s}

\* p is where the search from the key's hash ends.
Found(p, k, s) ==
    /\ p \in Ring(s)
    /\ IF \E q \in Ring(s) : q >= KeyHash[k]
       THEN p >= KeyHash[k] /\ \A q \in Ring(s) : q >= KeyHash[k] => p <= q
       ELSE \A q \in Ring(s) : p <= q

\* n owns p among the nodes of s.
Owns(n, p, s) ==
    /\ n \in Range(s) /\ p \in Points[n]
    /\ \A m \in Range(s) : p \in Points[m] => m <= n

\* selectNode finds a point and takes the node that owns it.
LEMMA Selected ==
    ASSUME NEW k \in Keys, NEW s \in Seq(Nodes), s # <<>>, Ascending(s)
    PROVE  \E p \in Nat : Found(p, k, s) /\ Owns(selectNode(k, s), p, s)
<1> USE BalanceAssumption
<1> DEFINE ring == Ring(s)
           after == {p \in ring : p >= KeyHash[k]}
           lower == IF after = {} THEN ring ELSE after
           point == CHOOSE p \in lower : \A q \in lower : p <= q
           owners == {i \in DOMAIN s : point \in Points[s[i]]}
           last == CHOOSE i \in owners : \A j \in owners : j <= i
<1>1. /\ \A i \in 1..Len(s) : s[i] \in Nodes
      /\ DOMAIN s = 1..Len(s) /\ Len(s) \in Nat /\ 1 \in 1..Len(s)
  BY SMTT(60)
<1>2. ring \subseteq Nat /\ ring # {}
  <2>1. \A i \in 1..Len(s) : Points[s[i]] \subseteq Nat /\ Points[s[i]] # {}
    BY <1>1
  <2>2. QED
    BY <1>1, <2>1, SMTT(60) DEF Ring
<1>3. lower \subseteq ring /\ lower # {}
  <2>1. CASE after = {}
    BY <1>2, <2>1
  <2>2. CASE after # {}
    BY <2>2
  <2>3. QED
    BY <2>1, <2>2
<1>4. \E p \in lower : \A q \in lower : p <= q
  BY <1>2, <1>3, Least
<1>5. point \in lower /\ \A q \in lower : point <= q
  BY <1>4, Zenon
<1> HIDE DEF point
<1>6. Found(point, k, s) /\ point \in Nat
  <2>1. point \in ring /\ point \in Nat
    BY <1>2, <1>3, <1>5
  <2>2. CASE after = {}
    BY <1>5, <2>1, <2>2 DEF Found
  <2>3. CASE after # {}
    BY <1>5, <2>1, <2>3 DEF Found
  <2>4. QED
    BY <2>1, <2>2, <2>3
<1>7. owners \subseteq 1..Len(s) /\ owners # {}
  BY <1>1, <1>6, SMTT(60) DEF Found, Ring
<1>8. \E i \in owners : \A j \in owners : j <= i
  BY <1>1, <1>7, Greatest
<1>9. last \in owners /\ \A j \in owners : j <= last
  BY <1>8, Zenon
<1>10. selectNode(k, s) = s[last]
  BY Zenon DEF selectNode, point, Ring
<1> HIDE DEF last
<1>11. Owns(s[last], point, s)
  <2>1. last \in 1..Len(s) /\ point \in Points[s[last]]
    BY <1>7, <1>9
  <2>2. ASSUME NEW i \in 1..Len(s), point \in Points[s[i]]
        PROVE  s[i] <= s[last]
    <3>1. i <= last
      BY <1>1, <1>9, <2>2
    <3>2. s[i] \in Nat /\ s[last] \in Nat
      BY <1>1, <2>1
    <3>3. CASE i = last
      BY <3>2, <3>3, SMTT(60)
    <3>4. CASE i < last
      <4>1. s[i] < s[last]
        BY <1>1, <2>1, <3>4, Zenon DEF Ascending
      <4>2. QED
        BY <3>2, <4>1, SMTT(60)
    <3>5. QED
      BY <2>1, <3>1, <3>3, <3>4, SMTT(60)
  <2>3. QED
    BY <1>1, <2>1, <2>2 DEF Owns, Range
<1>12. QED
  BY <1>6, <1>10, <1>11

\* A node that is selected from one list and is still in another, whose node is
\* in the first, is selected from both.
LEMMA SameSelection ==
    ASSUME NEW k \in Keys, NEW s \in Seq(Nodes), NEW t \in Seq(Nodes),
           s # <<>>, t # <<>>, Ascending(s), Ascending(t),
           selectNode(k, s) \in Range(t), selectNode(k, t) \in Range(s)
    PROVE  selectNode(k, s) = selectNode(k, t)
<1> DEFINE a == selectNode(k, s)
           b == selectNode(k, t)
<1>1. PICK p \in Nat : Found(p, k, s) /\ Owns(a, p, s)
  BY Selected, Zenon
<1>2. PICK q \in Nat : Found(q, k, t) /\ Owns(b, q, t)
  BY Selected, Zenon
<1>3. a \in Range(t) /\ b \in Range(s)
  OBVIOUS
<1>4. a \in Nat /\ b \in Nat
  <2>1. Range(s) \subseteq Nodes /\ Range(t) \subseteq Nodes
    BY SMTT(60) DEF Range
  <2>2. QED
    BY <1>3, <2>1, BalanceAssumption
<1>5. KeyHash[k] \in Nat
  BY BalanceAssumption
<1> HIDE DEF a, b
<1>6. p \in Ring(t) /\ q \in Ring(s)
  BY <1>1, <1>2, <1>3 DEF Owns, Ring, Range
<1>7. p = q
  BY <1>1, <1>2, <1>5, <1>6, SMTT(60) DEF Found
<1>8. a <= b /\ b <= a
  BY <1>1, <1>2, <1>3, <1>7 DEF Owns
<1>9. a = b
  BY <1>4, <1>8, SMTT(60)
<1>10. QED
  BY <1>9 DEF a, b
-----------------------------------------------------------------------------
(* Round robin.                                                            *)

\* The counter before, at and behind its overflow.
LEMMA Overflow ==
    ASSUME NEW m \in Nat, m >= 2
    PROVE  /\ m % m = 0 /\ (m + 1) % m = 1 /\ 0 % m = 0
           /\ \A x \in 0..(m - 1) : x % m = x
<1>1. m % m = 0
  BY SMTT(60)
<1>2. (m + 1) % m = 1
  BY SMTT(60)
<1>3. 0 % m = 0 /\ \A x \in 0..(m - 1) : x % m = x
  BY SMTT(60)
<1>4. QED
  BY <1>1, <1>2, <1>3

RoundRobinOK ==
    /\ nodes \in Seq(Nodes) /\ Ascending(nodes)
    /\ index \in 0..(IndexModulus - 1)

\* The round-robin position is one of the list's.
LEMMA Position ==
    ASSUME RoundRobinOK, nodes # <<>>, NEW i \in Nat
    PROVE  /\ RoundRobinNext(i) + 1 \in 1..Len(nodes)
           /\ nodes[RoundRobinNext(i) + 1] \in Nodes
           /\ (index + i) % IndexModulus \in 0..(IndexModulus - 1)
<1> DEFINE x == (index + i) % IndexModulus
<1>1. x \in 0..(IndexModulus - 1)
  BY Division, BalanceAssumption, SMTT(60) DEF RoundRobinOK
<1> HIDE DEF x
<1>2. Len(nodes) \in Nat \ {0} /\ x \in Nat
  BY <1>1, BalanceAssumption, SMTT(60) DEF RoundRobinOK
<1>3. x % Len(nodes) \in 0..(Len(nodes) - 1)
  BY <1>2, Division, Zenon
<1>4. (x % Len(nodes)) + 1 \in 1..Len(nodes)
  BY <1>2, <1>3, SMTT(60)
<1>5. RoundRobinNext(i) = x % Len(nodes)
  BY DEF RoundRobinNext, x
<1>6. QED
  BY <1>1, <1>4, <1>5, SMTT(60) DEF RoundRobinOK, x

\* Among two nodes or more, one turn of the counter, its overflow included,
\* visits two positions.
LEMMA TwoPositions ==
    ASSUME RoundRobinOK, Len(nodes) > 1
    PROVE  \E i, j \in 0..(Len(nodes) - 1) : RoundRobinNext(i) # RoundRobinNext(j)
<1> DEFINE M == IndexModulus
           L == Len(nodes)
<1>1. M \in Nat /\ M >= 2 /\ M % 2 = 0
  BY BalanceAssumption, SMTT(60)
<1>2. L \in Nat /\ L >= 2 /\ index \in 0..(M - 1)
  BY SMTT(60) DEF RoundRobinOK
<1>3. \A i \in Nat : RoundRobinNext(i) = ((index + i) % M) % L
  BY DEF RoundRobinNext
<1> HIDE DEF M, L
<1>4. CASE index + 1 < M
  <2>1. RoundRobinNext(0) = index % L /\ RoundRobinNext(1) = (index + 1) % L
    <3>1. (index + 0) % M = index /\ (index + 1) % M = index + 1
      BY <1>1, <1>2, <1>4, Overflow, SMTT(60)
    <3>2. QED
      BY <1>3, <3>1
  <2>2. index % L # (index + 1) % L
    <3>1. index \in Nat
      BY <1>1, <1>2, SMTT(60)
    <3>2. QED
      BY <1>2, <3>1, Consecutive, Zenon
  <2>3. QED
    BY <1>2, <2>1, <2>2, SMTT(60) DEF L
<1>5. CASE index + 1 = M /\ L = 2
  <2>1. RoundRobinNext(0) = (M - 1) % 2 /\ RoundRobinNext(1) = 0 % 2
    <3>1. index + 0 = M - 1 /\ index + 1 = M /\ M - 1 \in 0..(M - 1)
      BY <1>1, <1>2, <1>5, SMTT(60)
    <3>2. (M - 1) % M = M - 1 /\ M % M = 0
      BY <1>1, <3>1, Overflow
    <3>3. QED
      BY <1>3, <1>5, <3>1, <3>2, SMTT(60)
  <2>2. (M - 1) % 2 # M % 2
    <3>1. M - 1 \in Nat /\ (M - 1) + 1 = M
      BY <1>1, SMTT(60)
    <3>2. (M - 1) % 2 # ((M - 1) + 1) % 2
      BY <3>1, Consecutive, SMTT(60)
    <3>3. QED
      BY <3>1, <3>2
  <2>3. QED
    BY <1>1, <1>5, <2>1, <2>2, SMTT(60) DEF L
<1>6. CASE index + 1 = M /\ L > 2
  <2>1. RoundRobinNext(1) = 0 % L /\ RoundRobinNext(2) = 1 % L
    <3>1. index + 1 = M /\ index + 2 = M + 1
      BY <1>1, <1>2, <1>6, SMTT(60)
    <3>2. M % M = 0 /\ (M + 1) % M = 1
      BY <1>1, Overflow
    <3>3. QED
      BY <1>3, <3>1, <3>2
  <2>2. 0 % L = 0 /\ 1 % L = 1
    BY <1>2, Overflow, SMTT(60)
  <2>3. 1 \in 0..(L - 1) /\ 2 \in 0..(L - 1)
    BY <1>2, <1>6, SMTT(60)
  <2>4. QED
    BY <2>1, <2>2, <2>3, SMTT(60) DEF L
<1>7. QED
  BY <1>1, <1>2, <1>4, <1>5, <1>6, SMTT(60)

\* selectNodeKeyForRetry finds a node other than the one that failed.
LEMMA RetrySelects ==
    ASSUME RoundRobinOK, Len(nodes) > 1, SelectForRetry
    PROVE  /\ nodeKey' \in Nodes /\ nodeKey' # failedNodeKey
           /\ index' \in 0..(IndexModulus - 1)
<1> DEFINE at(i) == nodes[RoundRobinNext(i) + 1]
           others == {i \in 0..(Len(nodes) - 1) : at(i) # failedNodeKey}
<1>1. Len(nodes) \in Nat /\ nodes # <<>>
  BY SMTT(60) DEF RoundRobinOK
<1>2. others # {}
  <2>1. PICK i \in 0..(Len(nodes) - 1), j \in 0..(Len(nodes) - 1) :
            RoundRobinNext(i) # RoundRobinNext(j)
    BY TwoPositions
  <2>2. /\ RoundRobinNext(i) + 1 \in 1..Len(nodes)
        /\ RoundRobinNext(j) + 1 \in 1..Len(nodes)
        /\ RoundRobinNext(i) + 1 # RoundRobinNext(j) + 1
    <3> i \in Nat /\ j \in Nat
      BY <1>1, SMTT(60)
    <3>1. /\ RoundRobinNext(i) + 1 \in 1..Len(nodes)
          /\ RoundRobinNext(j) + 1 \in 1..Len(nodes)
      BY <1>1, Position, Zenon
    <3>2. RoundRobinNext(i) \in Int /\ RoundRobinNext(j) \in Int
      BY BalanceAssumption, SMTT(60) DEF RoundRobinNext, RoundRobinOK
    <3>3. QED
      BY <2>1, <3>1, <3>2, SMTT(60)
  <2>3. ASSUME NEW a \in 1..Len(nodes), NEW b \in 1..Len(nodes), a # b
        PROVE  nodes[a] # nodes[b]
    <3>1. /\ a \in DOMAIN nodes /\ b \in DOMAIN nodes
          /\ nodes[a] \in Nat /\ nodes[b] \in Nat
      <4>1. nodes \in Seq(Nodes) /\ Nodes \subseteq Nat
        BY BalanceAssumption, Zenon DEF RoundRobinOK
      <4>2. QED
        BY <4>1, Elements, Zenon
    <3>2. a < b \/ b < a
      BY <1>1, <2>3, SMTT(60)
    <3>3. nodes[a] < nodes[b] \/ nodes[b] < nodes[a]
      BY <3>1, <3>2, Zenon DEF RoundRobinOK, Ascending
    <3>4. QED
      BY <3>1, <3>3, SMTT(60)
  <2>4. at(i) # at(j)
    BY <2>2, <2>3
  <2>5. QED
    BY <2>4, SMTT(60)
<1> DEFINE first == CHOOSE i \in others : \A j \in others : i <= j
<1>3. first \in others
  <2>1. others \subseteq Nat
    BY <1>1, SMTT(60)
  <2>2. \E i \in others : \A j \in others : i <= j
    BY <1>2, <2>1, Least
  <2>3. QED
    BY <2>2, Zenon
<1>4. nodeKey' = at(first) /\ index' = (index + (first + 1)) % IndexModulus
  BY <1>2, Zenon DEF SelectForRetry, Advance
<1> HIDE DEF first
<1>5. at(first) \in Nodes /\ at(first) # failedNodeKey /\ first \in Nat
  <2>1. first \in Nat /\ at(first) # failedNodeKey
    BY <1>1, <1>3, SMTT(60)
  <2>2. QED
    BY <1>1, <2>1, Position, Zenon
<1>6. (index + (first + 1)) % IndexModulus \in 0..(IndexModulus - 1)
  <2>1. first + 1 \in Nat
    BY <1>5, SMTT(60)
  <2>2. QED
    BY <1>1, <2>1, Position, Zenon
<1>7. QED
  BY <1>4, <1>5, <1>6

-----------------------------------------------------------------------------
(* The invariant.                                                          *)

\* The channel's members: the list is in the order of Discover.
MembersOK ==
    /\ RoundRobinOK
    /\ expired \in BOOLEAN /\ failedNodeKey \in Nodes \cup {NoNode}
    /\ listed \subseteq Nodes /\ alive \subseteq Nodes

CallOK ==
    /\ pc \in {"idle", "refresh", "select", "call", "failed"}
    /\ key \in Keys /\ ctl \in BOOLEAN /\ done \in BOOLEAN
    /\ attempt \in 0..2 /\ nodeKey \in Nodes \cup {NoNode}
    /\ controller \in Codes /\ tried \subseteq Nodes

\* Which nodes a call has been to, by the place it has come to.
TriedInv ==
    /\ pc = "refresh" => attempt = 0 /\ tried = {}
    /\ pc \in {"select", "call"} =>
          \/ attempt = 0 /\ tried = {}
          \/ /\ attempt = 1 /\ ctl /\ ~done
             /\ tried = {failedNodeKey} /\ Len(nodes) > 1
    /\ pc = "call" => nodeKey \in Nodes /\ (attempt = 1 => nodeKey # failedNodeKey)
    /\ pc = "failed" =>
          /\ ctl /\ nodeKey \in Nodes
          /\ \/ attempt = 0 /\ tried = {nodeKey}
             \/ /\ attempt = 1 /\ ~done
                /\ nodeKey # failedNodeKey /\ tried = {failedNodeKey, nodeKey}

\* How often the closure has run, by the place the call has come to.
DoneInv ==
    doneRuns = IF done /\ pc \in {"idle", "failed"} THEN 1 ELSE 0

BalanceInv == MembersOK /\ CallOK /\ TriedInv /\ DoneInv /\ FailoverTried

\* Two different nodes are two.
LEMMA Pair ==
    ASSUME NEW a, NEW b, a # b
    PROVE  Cardinality({a, b}) = 2
<1>1. IsFiniteSet({a}) /\ Cardinality({a}) = 1
  BY FS_Singleton
<1>2. {a, b} = {a} \cup {b} /\ b \notin {a}
  OBVIOUS
<1>3. QED
  BY <1>1, <1>2, FS_AddElement, SMTT(60)

\* Before the first call there is no list.
LEMMA BalanceInit == Init => BalanceInv
<1> SUFFICES ASSUME Init
             PROVE  BalanceInv
  OBVIOUS
<1>1. MembersOK
  BY BalanceAssumption, SMTT(60) DEF Init, MembersOK, RoundRobinOK, Ascending
<1>2. CallOK
  <2>1. attempt \in 0..2
    BY SMTT(60) DEF Init
  <2>2. QED
    BY <2>1, Zenon DEF Init, CallOK, Codes
<1>3. TriedInv /\ DoneInv
  BY DEF Init, TriedInv, DoneInv
<1>4. FailoverTried
  BY DEF Init, FailoverTried, ConnectionCodes
<1>5. QED
  BY <1>1, <1>2, <1>3, <1>4 DEF BalanceInv

\* refreshNodes keeps the list or replaces it by one in order.
LEMMA Refreshed ==
    ASSUME MembersOK, refreshNodes
    PROVE  /\ nodes' \in Seq(Nodes) /\ Ascending(nodes')
           /\ expired' \in BOOLEAN
<1>1. CASE nodes' \in Sorted(listed) /\ expired' = FALSE
  <2>1. IsFiniteSet(listed)
    BY FS_Subset, BalanceAssumption DEF MembersOK
  <2>2. Cardinality(listed) \in Nat
    BY <2>1, FS_CardinalityType
  <2>3. nodes' \in [1..Cardinality(listed) -> listed] /\ Ascending(nodes')
    BY <1>1, Zenon DEF Sorted, Ascending
  <2>4. nodes' \in Seq(Nodes)
    BY <2>2, <2>3, SMTT(60) DEF MembersOK
  <2>5. QED
    BY <1>1, <2>3, <2>4
<1>2. CASE UNCHANGED <<nodes, expired>>
  BY <1>2 DEF MembersOK, RoundRobinOK, Ascending
<1>3. QED
  BY <1>1, <1>2 DEF refreshNodes

\* A node of the list is selected, another one than the one that failed.
LEMMA SelectsNode ==
    ASSUME BalanceInv, SelectNode
    PROVE  /\ nodeKey' \in Nodes /\ index' \in 0..(IndexModulus - 1)
           /\ attempt = 1 => nodeKey' # failedNodeKey
<1>1. nodes # <<>> /\ RoundRobinOK /\ key \in Keys
  BY DEF SelectNode, BalanceInv, MembersOK, CallOK
<1>2. CASE attempt = 0 /\ Hashing /\ key # NoKey
  <2>1. nodeKey' = selectNode(key, nodes) /\ index' = index
    BY <1>2 DEF SelectNode, Select
  <2>2. PICK p \in Nat : Owns(selectNode(key, nodes), p, nodes)
    BY <1>1, Selected, Zenon DEF RoundRobinOK
  <2>3. selectNode(key, nodes) \in Nodes
    BY <1>1, <2>2, SMTT(60) DEF Owns, Range, RoundRobinOK
  <2>4. QED
    BY <1>1, <1>2, <2>1, <2>3, SMTT(60) DEF RoundRobinOK
<1>3. CASE attempt = 0 /\ ~(Hashing /\ key # NoKey)
  <2>1. nodeKey' = nodes[RoundRobinNext(0) + 1] /\ index' = (index + 1) % IndexModulus
    BY <1>3, Zenon DEF SelectNode, Select, Advance
  <2>2. nodes[RoundRobinNext(0) + 1] \in Nodes
    BY <1>1, Position
  <2>3. (index + 1) % IndexModulus \in 0..(IndexModulus - 1)
    BY <1>1, Position
  <2>4. QED
    BY <1>3, <2>1, <2>2, <2>3, SMTT(60)
<1>4. CASE attempt # 0
  <2>1. SelectForRetry
    BY <1>4 DEF SelectNode
  <2>2. Len(nodes) > 1
    BY <1>4 DEF SelectNode, BalanceInv, TriedInv
  <2>3. QED
    BY <1>1, <2>1, <2>2, RetrySelects, Zenon
<1>5. QED
  BY <1>2, <1>3, <1>4

\* Every step keeps the types of the members.
LEMMA MembersNext ==
    ASSUME BalanceInv, [Next]_vars
    PROVE  MembersOK'
<1>1. CASE Refresh \/ Failed
  <2>1. refreshNodes /\ UNCHANGED <<index, env>>
    BY <1>1 DEF Refresh, Failed
  <2>2. failedNodeKey' \in {failedNodeKey, nodeKey}
    BY <1>1 DEF Refresh, Failed
  <2>3. QED
    BY <2>1, <2>2, Refreshed
    DEF BalanceInv, MembersOK, CallOK, RoundRobinOK, env
<1>2. CASE SelectNode
  <2>1. UNCHANGED <<nodes, expired, failedNodeKey, env>>
    BY <1>2 DEF SelectNode
  <2>2. QED
    BY <1>2, <2>1, SelectsNode
    DEF BalanceInv, MembersOK, RoundRobinOK, Ascending, env
<1>3. CASE Environment
  <2>1. UNCHANGED members /\ listed' \subseteq Nodes /\ alive' \subseteq Nodes
    BY <1>3 DEF Environment, BalanceInv, MembersOK
  <2>2. QED
    BY <2>1 DEF members, BalanceInv, MembersOK, RoundRobinOK, Ascending
<1>4. CASE Expire
  BY <1>4 DEF Expire, env, BalanceInv, MembersOK, RoundRobinOK, Ascending
<1>5. CASE Begin \/ NoService \/ Call \/ UNCHANGED vars
  <2>1. UNCHANGED <<members, env>>
    BY <1>5 DEF Begin, NoService, Call, vars
  <2>2. QED
    BY <2>1 DEF members, env, BalanceInv, MembersOK, RoundRobinOK, Ascending
<1>6. QED
  BY <1>1, <1>2, <1>3, <1>4, <1>5 DEF Next

\* Every step keeps what is known of the call in progress.
LEMMA CallNext ==
    ASSUME BalanceInv, [Next]_vars
    PROVE  CallOK' /\ TriedInv' /\ DoneInv' /\ FailoverTried'
<1> USE DEF BalanceInv, CallOK, TriedInv, DoneInv, FailoverTried, Codes, ConnectionCodes
<1>1. CASE Begin
  BY <1>1, SMTT(60) DEF Begin
<1>2. CASE Refresh
  BY <1>2 DEF Refresh, args
<1>3. CASE NoService
  BY <1>3 DEF NoService, args, members
<1>4. CASE SelectNode
  BY <1>4, SelectsNode DEF SelectNode, args
<1>5. CASE Call
  BY <1>5, SMTT(60) DEF Call, args, members
<1>6. CASE Failed
  <2>1. CASE done \/ attempt = 0
    BY <1>6, <2>1, SMTT(60) DEF Failed, args, GoesOn, maxAttempts
  <2>2. CASE ~done /\ attempt = 1
    <3>1. tried = {failedNodeKey, nodeKey} /\ nodeKey # failedNodeKey
      BY <1>6, <2>2, SMTT(60) DEF Failed
    <3>2. Cardinality(tried) = 2
      BY <3>1, Pair, Zenon
    <3>3. QED
      BY <1>6, <2>2, <3>2, SMTT(60) DEF Failed, args, GoesOn, maxAttempts
  <2>3. QED
    BY <1>6, <2>1, <2>2 DEF Failed
<1>7. CASE Expire
  BY <1>7 DEF Expire, args
<1>8. CASE Environment
  BY <1>8 DEF Environment, args, members
<1>9. CASE UNCHANGED vars
  BY <1>9 DEF vars, args, members
<1>10. QED
  BY <1>1, <1>2, <1>3, <1>4, <1>5, <1>6, <1>7, <1>8, <1>9 DEF Next

\* The invariant holds in every state.
LEMMA BalanceAlways == Spec => []BalanceInv
<1>1. BalanceInv /\ [Next]_vars => BalanceInv'
  BY MembersNext, CallNext DEF BalanceInv
<1>2. QED
  BY <1>1, BalanceInit, PTL DEF Spec

-----------------------------------------------------------------------------
(* Theorems.                                                               *)

\* The members of the channel and the state of the call keep their types: the
\* round-robin counter stays below its modulus, and a node that is called is
\* one of the registry's, whatever the list became.
THEOREM BalanceTypes == Spec => []TypeOK
<1>1. BalanceInv => TypeOK
  BY SMTT(60) DEF BalanceInv, MembersOK, RoundRobinOK, CallOK, DoneInv, TypeOK
<1>2. QED
  BY <1>1, BalanceAlways, PTL

\* selectNodeKeyForRetry never returns the node that failed, for any list with
\* another node and also where index_ overflows between two looks at it.
THEOREM RetryGoesElsewhere == Spec => []RetryElsewhere
<1>1. BalanceInv => RetryElsewhere
  BY DEF BalanceInv, TriedInv, RetryElsewhere
<1>2. QED
  BY <1>1, BalanceAlways, PTL

\* CallMethod reports a failure at connection level only after two nodes, if
\* the list it is left with has more than one.
THEOREM FailoverIsTried == Spec => []FailoverTried
<1>1. BalanceInv => FailoverTried
  BY DEF BalanceInv
<1>2. QED
  BY <1>1, BalanceAlways, PTL

\* The closure runs once for each call, on the early return, after a failure
\* and on success.
THEOREM ClosureRunsOnce == Spec => []DoneOnce
<1>1. BalanceInv => DoneOnce
  BY SMTT(60) DEF BalanceInv, DoneInv, DoneOnce
<1>2. QED
  BY <1>1, BalanceAlways, PTL

\* ConsistentHash: whatever list refreshNodes brings, a key moves only away from
\* a node that left or to one that came, for every ring and every collision of
\* virtual nodes.
THEOREM KeysStay == Spec => HashStable
<1> DEFINE Stable == nodes # <<>> /\ nodes' # <<>> =>
                        \A k \in Keys :
                            LET old == selectNode(k, nodes)
                                new == selectNode(k, nodes')
                            IN  old = new \/ old \notin Range(nodes')
                                    \/ new \notin Range(nodes)
<1>1. ASSUME MembersOK, MembersOK'
      PROVE  Stable
  BY <1>1, SameSelection DEF MembersOK, RoundRobinOK
<1>2. BalanceInv /\ BalanceInv' /\ [Next]_vars => [nodes' # nodes => Stable]_nodes
  BY <1>1 DEF BalanceInv
<1>3. QED
  BY <1>2, BalanceAlways, PTL DEF Spec, HashStable
=============================================================================
