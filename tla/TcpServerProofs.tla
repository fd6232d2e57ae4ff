---------------------------- MODULE TcpServerProofs ---------------------------
(***************************************************************************)
(* For any number of connections, descriptors and I/O loops: the pollers   *)
(* agree with the connections (PollerAgrees), an event never reaches a     *)
(* dead channel (ActiveAlive), and each poller is changed by its own       *)
(* thread alone (PollerOwnThread).                                         *)
(***************************************************************************)
EXTENDS TcpServer, TLAPS

\* How long a prover may take over a step that names none.
USE ZenonT(60), SMTT(60)

\* Where a connection is in its life decides who may hold it, whether it has a
\* descriptor and what it waits for.
LifeInv ==
    /\ \A c \in Conns : fd[c] = None <=> state[c] \in {"none", "gone"}
    /\ \A c \in Conns : c \in connections <=> state[c] \in {"connecting", "connected"}
    /\ \A c \in Conns : IF state[c] = "connected" THEN "read" \in events[c]
                                                  ELSE events[c] = {}
    /\ \A c \in tasks : state[c] \in {"connected", "disconnected"}

\* Two connections never have the same descriptor.
Distinct == \A c, d \in Conns : fd[c] = fd[d] /\ fd[c] # None => c = d

\* connectEstablished is called once, before anything else.
FunctorInv ==
    /\ \A c \in Conns : <<"establish", c>> \in pending \cup calling =>
                            state[c] = "connecting"
    /\ \A c \in Conns : <<"establish", c>> \notin pending \cap calling
    /\ \A c \in Conns : <<"send", c>> \in pending \cup calling =>
                            state[c] \notin {"none", "connecting"}

\* A loop has only its own channels at hand.
ActiveInv == \A l \in Loops : \A c \in active[l] : state[c] = "connected" /\ loopOf[c] = l

\* What a connection waits for, its poller knows.
KnownInv == \A c \in Conns : events[c] # {} => poller[loopOf[c]].channels[fd[c]] = c

PollerInv == PollerAgrees /\ KnownInv

IInv == TypeOK /\ LifeInv /\ Distinct /\ FunctorInv /\ ActiveInv /\ PollerInv

-----------------------------------------------------------------------------

\* updateChannel keeps the type of the pollers.
LEMMA UpdateType ==
    ASSUME NEW p \in [Loops -> Pollers], NEW c \in Conns, NEW ev \in Interest,
           fd[c] \in Fds, loopOf[c] \in Loops
    PROVE  updateChannel(p, c, ev) \in [Loops -> Pollers]
<1> DEFINE f == fd[c]
           l == loopOf[c]
           q == p[l]
           e == [ptr |-> c, events |-> ev]
<1>1. q \in Pollers /\ q.channels \in [Fds -> Conns \cup {None}]
                   /\ q.epoll \in [Fds -> Entry \cup {None}]
  BY DEF Pollers
<1>2. e \in Entry
  BY DEF Entry
<1>3. Add(q.epoll[f], c, ev) \in Entry \cup {None} /\ Mod(q.epoll[f], c, ev) \in Entry \cup {None}
  BY <1>1, <1>2 DEF Add, Mod
<1>4. [[q EXCEPT !.channels[f] = c] EXCEPT !.epoll[f] = Add(@, c, ev)] \in Pollers
  BY <1>1, <1>3, ZenonT(60) DEF Pollers
<1>5. Erase(q, f) \in Pollers
  BY <1>1, ZenonT(60) DEF Erase, Pollers
<1>6. [q EXCEPT !.epoll[f] = Mod(@, c, ev)] \in Pollers
  BY <1>1, <1>3 DEF Pollers
<1> QED
  BY <1>1, <1>4, <1>5, <1>6 DEF updateChannel

\* updateChannel looks at one descriptor of one poller.
LEMMA UpdateElsewhere ==
    ASSUME NEW p \in [Loops -> Pollers], NEW c \in Conns, NEW ev \in Interest,
           fd[c] \in Fds, loopOf[c] \in Loops,
           NEW l \in Loops, NEW f \in Fds, l # loopOf[c] \/ f # fd[c]
    PROVE  /\ updateChannel(p, c, ev)[l].channels[f] = p[l].channels[f]
           /\ updateChannel(p, c, ev)[l].epoll[f] = p[l].epoll[f]
<1>1. p[l].channels \in [Fds -> Conns \cup {None}] /\ p[l].epoll \in [Fds -> Entry \cup {None}]
  BY DEF Pollers
<1>2. CASE l # loopOf[c]
  BY <1>2 DEF updateChannel
<1>3. CASE l = loopOf[c] /\ f # fd[c]
  BY <1>1, <1>3, SMTT(60) DEF updateChannel, Erase, Pollers
<1> QED
  BY <1>2, <1>3

\* There it leaves what the channel asks for, if the two lists agreed before.
LEMMA UpdateHere ==
    ASSUME NEW p \in [Loops -> Pollers], NEW c \in Conns, NEW ev \in Interest,
           fd[c] \in Fds, loopOf[c] \in Loops,
           p[loopOf[c]].channels[fd[c]] \in {None, c},
           p[loopOf[c]].channels[fd[c]] = None <=> p[loopOf[c]].epoll[fd[c]] = None
    PROVE  LET r == updateChannel(p, c, ev)[loopOf[c]]
           IN  IF ev = {}
               THEN r.channels[fd[c]] = None /\ r.epoll[fd[c]] = None
               ELSE r.channels[fd[c]] = c /\ r.epoll[fd[c]] = [ptr |-> c, events |-> ev]
<1> DEFINE f == fd[c]
           l == loopOf[c]
           q == p[l]
<1>1. q \in Pollers /\ q.channels \in [Fds -> Conns \cup {None}]
                   /\ q.epoll \in [Fds -> Entry \cup {None}]
  BY DEF Pollers
<1>2. CASE q.channels[f] = None
  BY <1>1, <1>2 DEF updateChannel, Add, Pollers
<1>3. CASE q.channels[f] # None
  BY <1>1, <1>3 DEF updateChannel, Erase, Mod, Pollers
<1> QED
  BY <1>2, <1>3

\* ~TcpConnection and ~Socket of a connection that no list names change no
\* poller.
LEMMA DestroyQuiet ==
    ASSUME NEW p \in [Loops -> Pollers], NEW c \in Conns,
           fd[c] \in Fds, loopOf[c] \in Loops,
           p[loopOf[c]].channels[fd[c]] = None,
           \A l \in Loops : p[l].epoll[fd[c]] = None
    PROVE  CloseFd(updateChannel(p, c, {}), fd[c]) = p
<1>1. updateChannel(p, c, {}) = p
  BY DEF updateChannel
<1>2. ASSUME NEW l \in Loops
      PROVE  [p[l] EXCEPT !.epoll[fd[c]] = None] = p[l]
  BY <1>2 DEF Pollers
<1> QED
  BY <1>1, <1>2 DEF CloseFd

-----------------------------------------------------------------------------

\* The entry of a descriptor is its owner's, in both lists or in neither.
LEMMA OwnEntry ==
    ASSUME TypeOK, Distinct, PollerInv, NEW c \in Conns, fd[c] \in Fds
    PROVE  /\ poller[loopOf[c]].channels[fd[c]] \in {None, c}
           /\ poller[loopOf[c]].channels[fd[c]] = None
                  <=> poller[loopOf[c]].epoll[fd[c]] = None
           /\ poller[loopOf[c]].channels[fd[c]] = None <=> events[c] = {}
           /\ \A l \in Loops : l # loopOf[c] =>
                  poller[l].channels[fd[c]] = None /\ poller[l].epoll[fd[c]] = None
<1>1. /\ loopOf[c] \in Loops
      /\ \A l \in Loops, f \in Fds : poller[l].channels[f] \in Conns \cup {None}
      /\ \A d \in Conns : [ptr |-> d, events |-> events[d]] \in Entry
      /\ fd[c] # None
  BY NoneAssumption, SMTT(60) DEF TypeOK, Pollers, Entry
<1>2. ASSUME NEW l \in Loops, NEW d \in Conns, Names(l, fd[c], d)
      PROVE  /\ poller[l].channels[fd[c]] = c /\ c # None
             /\ poller[l].epoll[fd[c]] # None
             /\ l = loopOf[c] /\ events[c] # {}
  <2>1. d = c
    BY <1>1, <1>2 DEF Distinct, Names
  <2> QED
    BY <1>1, <1>2, <2>1, NoneAssumption DEF Names
<1>3. ASSUME NEW l \in Loops
      PROVE  Unknown(l, fd[c]) \/ \E d \in Conns : Names(l, fd[c], d)
  BY <1>3 DEF PollerInv, PollerAgrees
<1>4. ASSUME NEW l \in Loops
      PROVE  /\ poller[l].channels[fd[c]] = None <=> poller[l].epoll[fd[c]] = None
             /\ poller[l].channels[fd[c]] # None =>
                   poller[l].channels[fd[c]] = c /\ l = loopOf[c] /\ events[c] # {}
  BY <1>2, <1>3, <1>4 DEF Unknown
<1>5. poller[loopOf[c]].channels[fd[c]] = None => events[c] = {}
  BY <1>1, NoneAssumption DEF PollerInv, KnownInv
<1> QED
  BY <1>1, <1>4, <1>5

\* The entries of p for descriptor f of loop l are those of poller, but for
\* c's own, which say ev.
Updated(p, c, ev, l, f) ==
    /\ l = loopOf[c] /\ f = fd[c] /\ ev = {} =>
          p[l].channels[f] = None /\ p[l].epoll[f] = None
    /\ l = loopOf[c] /\ f = fd[c] /\ ev # {} =>
          p[l].channels[f] = c /\ p[l].epoll[f] = [ptr |-> c, events |-> ev]
    /\ l # loopOf[c] \/ f # fd[c] =>
          p[l].channels[f] = poller[l].channels[f] /\ p[l].epoll[f] = poller[l].epoll[f]

\* Both lists after updateChannel, descriptor by descriptor.
LEMMA AfterUpdate ==
    ASSUME TypeOK, Distinct, PollerInv, NEW c \in Conns, NEW ev \in Interest,
           fd[c] \in Fds
    PROVE  \A l \in Loops, f \in Fds : Updated(updateChannel(poller, c, ev), c, ev,
        l, f)
<1> TAKE l \in Loops, f \in Fds
<1>1. poller \in [Loops -> Pollers] /\ loopOf[c] \in Loops
  BY DEF TypeOK
<1>2. CASE l = loopOf[c] /\ f = fd[c]
  BY <1>1, <1>2, OwnEntry, UpdateHere, SMTT(60) DEF Updated
<1>3. CASE l # loopOf[c] \/ f # fd[c]
  BY <1>1, <1>3, UpdateElsewhere DEF Updated
<1> QED
  BY <1>2, <1>3

\* A channel whose interest changes is registered accordingly.
LEMMA Reregister ==
    ASSUME TypeOK, LifeInv, Distinct, PollerInv,
           NEW c \in Conns, NEW ev \in Interest, fd[c] \in Fds,
           poller' = updateChannel(poller, c, ev),
           events' = [events EXCEPT ![c] = ev], UNCHANGED <<fd, loopOf>>
    PROVE  PollerInv'
<1>1. /\ loopOf \in [Conns -> Loops] /\ fd \in [Conns -> Fds \cup {None}]
      /\ fd[c] # None /\ c # None
      /\ events'[c] = ev /\ \A d \in Conns : d # c => events'[d] = events[d]
  BY NoneAssumption DEF TypeOK
<1>0. ASSUME NEW l \in Loops, NEW f \in Fds
      PROVE  Updated(poller', c, ev, l, f)
  BY <1>0, AfterUpdate, Zenon
<1>2. ASSUME NEW l \in Loops, NEW f \in Fds
      PROVE  Unknown(l, f)' \/ \E d \in Conns : Names(l, f, d)'
  <2>1. CASE l = loopOf[c] /\ f = fd[c] /\ ev = {}
    BY <2>1, <1>0 DEF Updated, Unknown
  <2>2. CASE l = loopOf[c] /\ f = fd[c] /\ ev # {}
    <3>1. Names(l, f, c)'
      BY <1>1, <2>2, <1>0, SMTT(60) DEF Updated, Names
    <3> QED
      BY <3>1
  <2>3. CASE l # loopOf[c] \/ f # fd[c]
    <3>1. /\ poller'[l].channels[f] = poller[l].channels[f]
          /\ poller'[l].epoll[f] = poller[l].epoll[f]
      BY <2>3, <1>0 DEF Updated
    <3>2. CASE Unknown(l, f)
      BY <3>1, <3>2 DEF Unknown
    <3>3. ASSUME NEW d \in Conns, Names(l, f, d)
          PROVE  Names(l, f, d)'
      BY <1>1, <2>3, <3>1, <3>3 DEF Names
    <3> QED
      BY <3>2, <3>3 DEF PollerInv, PollerAgrees
  <2> QED
    BY <2>1, <2>2, <2>3
<1>3. ASSUME NEW d \in Conns, events'[d] # {}
      PROVE  poller'[loopOf[d]].channels[fd[d]] = d
  <2>1. CASE d = c
    BY <1>1, <1>3, <2>1, <1>0 DEF Updated
  <2>2. CASE d # c
    <3>1. fd[d] \in Fds /\ loopOf[d] \in Loops
      BY <1>1, <1>3, <2>2 DEF LifeInv
    <3>2. fd[d] # fd[c]
      BY <1>1, <2>2 DEF Distinct
    <3>3. poller'[loopOf[d]].channels[fd[d]] = poller[loopOf[d]].channels[fd[d]]
      BY <3>1, <3>2, <1>0 DEF Updated
    <3> QED
      BY <1>1, <1>3, <2>2, <3>3 DEF PollerInv, KnownInv
  <2> QED
    BY <2>1, <2>2
<1>4. PollerAgrees'
  BY <1>2 DEF PollerAgrees
<1>5. KnownInv'
  BY <1>3 DEF KnownInv
<1> QED
  BY <1>4, <1>5 DEF PollerInv

\* A channel that waits for nothing can be updated without effect.
LEMMA UpdateQuiet ==
    ASSUME TypeOK, Distinct, PollerInv, NEW c \in Conns, fd[c] \in Fds, events[c] = {}
    PROVE  updateChannel(poller, c, {}) = poller
<1>1. poller[loopOf[c]].channels[fd[c]] = None
  BY OwnEntry
<1> QED
  BY <1>1 DEF updateChannel, TypeOK

\* A connection that disappears leaves nothing behind, and its descriptor can
\* be given out again.
LEMMA Dropped ==
    ASSUME TypeOK, LifeInv, Distinct, PollerInv, NEW c \in Conns, fd[c] \in Fds,
           Destroy(c, updateChannel(poller, c, {})), UNCHANGED loopOf
    PROVE  PollerInv' /\ poller' = updateChannel(poller, c, {})
<1> DEFINE p == updateChannel(poller, c, {})
<1>1. /\ loopOf \in [Conns -> Loops] /\ fd \in [Conns -> Fds \cup {None}]
      /\ poller \in [Loops -> Pollers] /\ {} \in Interest
      /\ fd[c] # None /\ \A d \in Conns : d # None
      /\ fd'[c] = None /\ \A d \in Conns : d # c => fd'[d] = fd[d]
      /\ events'[c] = {} /\ \A d \in Conns : d # c => events'[d] = events[d]
  BY NoneAssumption DEF TypeOK, Destroy, Interest
<1>2. p \in [Loops -> Pollers]
  BY <1>1, UpdateType
<1>3. \A l \in Loops, f \in Fds : Updated(p, c, {}, l, f)
  BY <1>1, AfterUpdate
<1>4. poller' = CloseFd(updateChannel(p, c, {}), fd[c])
  BY DEF Destroy
<1> HIDE DEF p
<1>5. \A l \in Loops : p[l].epoll[fd[c]] = None /\ p[l].channels[fd[c]] = None
  BY <1>1, <1>3, OwnEntry, SMTT(60) DEF Updated
<1>6. poller' = p
  BY <1>1, <1>2, <1>4, <1>5, DestroyQuiet, SMTT(60)
<1>7. ASSUME NEW l \in Loops, NEW f \in Fds
      PROVE  Unknown(l, f)' \/ \E d \in Conns : Names(l, f, d)'
  <2>1. CASE f = fd[c]
    BY <1>5, <1>6, <2>1 DEF Unknown
  <2>2. CASE f # fd[c]
    <3>1. /\ poller'[l].channels[f] = poller[l].channels[f]
          /\ poller'[l].epoll[f] = poller[l].epoll[f]
      BY <1>3, <1>6, <2>2 DEF Updated
    <3>2. CASE Unknown(l, f)
      BY <3>1, <3>2 DEF Unknown
    <3>3. ASSUME NEW d \in Conns, Names(l, f, d)
          PROVE  Names(l, f, d)'
      BY <1>1, <2>2, <3>1, <3>3 DEF Names
    <3> QED
      BY <3>2, <3>3 DEF PollerInv, PollerAgrees
  <2> QED
    BY <2>1, <2>2
<1>8. ASSUME NEW d \in Conns, events'[d] # {}
      PROVE  poller'[loopOf[d]].channels[fd'[d]] = d
  <2>1. d # c /\ fd[d] \in Fds /\ loopOf[d] \in Loops
    BY <1>1, <1>8 DEF LifeInv
  <2>2. fd[d] # fd[c]
    BY <1>1, <2>1 DEF Distinct
  <2>3. poller'[loopOf[d]].channels[fd[d]] = poller[loopOf[d]].channels[fd[d]]
    BY <1>3, <1>6, <2>1, <2>2 DEF Updated
  <2> QED
    BY <1>1, <1>8, <2>1, <2>3 DEF PollerInv, KnownInv
<1>9. PollerAgrees' /\ KnownInv'
  BY <1>7, <1>8 DEF PollerAgrees, KnownInv
<1> QED
  BY <1>6, <1>9 DEF PollerInv, p

-----------------------------------------------------------------------------

\* The pollers agree with the connections as long as neither changes.
LEMMA PollerSame ==
    ASSUME PollerInv, UNCHANGED <<fd, loopOf, events, poller>>
    PROVE  PollerInv'
  BY SMTT(60) DEF PollerInv, PollerAgrees, KnownInv, Unknown, Names

\* The initial state.
LEMMA InitInv == Init => IInv
<1> SUFFICES ASSUME Init PROVE IInv
  OBVIOUS
<1>1. TypeOK
  BY LoopAssumption, SMTT(60) DEF Init, TypeOK, Loops, Pollers, Interest, Functors
<1>2. LifeInv /\ Distinct /\ FunctorInv /\ ActiveInv
  BY DEF Init, LifeInv, Distinct, FunctorInv, ActiveInv
<1>3. PollerInv
  BY DEF Init, PollerInv, PollerAgrees, KnownInv, Unknown
<1> QED
  BY <1>1, <1>2, <1>3 DEF IInv

\* handleNewConnection.
LEMMA AcceptInv ==
    ASSUME IInv, NEW c \in Conns, NEW f \in Fds, Accept(c, f)
    PROVE  IInv'
<1>1. TypeOK'
  BY LoopAssumption, SMTT(60) DEF IInv, TypeOK, Accept, NextLoop, Loops, Functors
<1>2. LifeInv'
  BY NoneAssumption DEF IInv, TypeOK, LifeInv, Accept
<1>3. Distinct'
  BY DEF IInv, TypeOK, Distinct, Accept
<1>4. FunctorInv'
  BY DEF IInv, TypeOK, FunctorInv, Accept
<1>5. ActiveInv'
  BY DEF IInv, TypeOK, ActiveInv, Accept
<1>6. events[c] = {} /\ \A d \in Conns : d # c => fd'[d] = fd[d] /\ loopOf'[d] = loopOf[d]
  BY DEF IInv, TypeOK, LifeInv, Accept
<1>7. ASSUME NEW l \in Loops, NEW g \in Fds
      PROVE  Unknown(l, g)' \/ \E d \in Conns : Names(l, g, d)'
  <2>1. CASE Unknown(l, g)
    BY <2>1 DEF Accept, Unknown
  <2>2. ASSUME NEW d \in Conns, Names(l, g, d)
        PROVE  Names(l, g, d)'
    BY <1>6, <2>2 DEF Accept, Names
  <2> QED
    BY <2>1, <2>2 DEF IInv, PollerInv, PollerAgrees
<1>8. PollerInv'
  BY <1>6, <1>7 DEF IInv, PollerInv, PollerAgrees, KnownInv, Accept
<1> QED
  BY <1>1, <1>2, <1>3, <1>4, <1>5, <1>8 DEF IInv

\* epoll_wait returns channels of connections that are alive, and its own.
LEMMA PollInv ==
    ASSUME IInv, NEW l \in Loops, Poll(l)
    PROVE  IInv'
<1>1. PICK ready \in SUBSET Registered(l) :
         active' = [active EXCEPT ![l] = {poller[l].epoll[f].ptr : f \in ready}]
  BY ZenonT(60) DEF Poll
<1>2. ASSUME NEW f \in ready
      PROVE  LET c == poller[l].epoll[f].ptr
             IN  c \in Conns /\ state[c] = "connected" /\ loopOf[c] = l
  <2>1. f \in Fds /\ poller[l].epoll[f] # None
    BY <1>2 DEF Registered
  <2>2. PICK c \in Conns : Names(l, f, c)
    BY <2>1 DEF IInv, PollerInv, PollerAgrees, Unknown
  <2>3. poller[l].epoll[f].ptr = c
    BY <2>2, SMTT(60) DEF Names
  <2> QED
    BY <2>2, <2>3 DEF Names, IInv, LifeInv
<1>3. ASSUME NEW k \in Loops, NEW c \in active'[k]
      PROVE  c \in Conns /\ state[c] = "connected" /\ loopOf[c] = k
  <2>1. CASE k = l
    BY <1>1, <1>2, <1>3, <2>1, SMTT(60) DEF IInv, TypeOK
  <2>2. CASE k # l
    BY <1>1, <1>3, <2>2 DEF IInv, TypeOK, ActiveInv
  <2> QED
    BY <2>1, <2>2
<1>4. active' \in [Loops -> SUBSET Conns]
  BY <1>1, <1>2, SMTT(60) DEF IInv, TypeOK
<1>5. TypeOK'
  BY <1>4 DEF IInv, TypeOK, Poll, conn, server, functors
<1>6. LifeInv' /\ Distinct' /\ FunctorInv'
  BY DEF IInv, LifeInv, Distinct, FunctorInv, Poll, conn, server, functors
<1>7. ActiveInv'
  BY <1>3 DEF ActiveInv, Poll, conn
<1>8. PollerInv'
  BY PollerSame DEF IInv, Poll, conn
<1> QED
  BY <1>5, <1>6, <1>7, <1>8 DEF IInv

\* handleEvent for data and for room.
LEMMA HandleInv ==
    ASSUME IInv, NEW l \in Loops, NEW c \in Conns, Handle(l, c)
    PROVE  IInv' /\ \A k \in Loops : k # l => poller'[k] = poller[k]
<1>1. PICK ev \in {events[c] \cup {"write"}, events[c] \ {"write"}} :
         events' = [events EXCEPT ![c] = ev] /\ poller' = updateChannel(poller, c, ev)
  BY ZenonT(60) DEF Handle
<1>2. state[c] = "connected" /\ loopOf[c] = l /\ fd[c] \in Fds /\ "read" \in events[c]
  BY SMTT(60) DEF Handle, Dispatched, IInv, ActiveInv, LifeInv, TypeOK
<1>3. ev \in Interest /\ "read" \in ev
  BY <1>2 DEF IInv, TypeOK, Interest
<1>4. poller' \in [Loops -> Pollers]
  BY <1>1, <1>2, <1>3, UpdateType DEF IInv, TypeOK
<1>5. TypeOK'
  BY <1>1, <1>3, <1>4, ZenonT(60) DEF IInv, TypeOK, Handle, Dispatched, functors
<1>6. LifeInv'
  BY <1>1, <1>2, <1>3 DEF IInv, TypeOK, LifeInv, Handle, Dispatched
<1>7. Distinct' /\ FunctorInv'
  BY DEF IInv, Distinct, FunctorInv, Handle, Dispatched, functors
<1>8. ActiveInv'
  BY DEF IInv, TypeOK, ActiveInv, Handle, Dispatched
<1>9. PollerInv'
  BY <1>1, <1>2, <1>3, Reregister, ZenonT(60) DEF IInv, Handle, Dispatched
<1>10. \A k \in Loops : k # l => poller'[k] = poller[k]
  BY <1>1, <1>2 DEF updateChannel, IInv, TypeOK
<1> QED
  BY <1>5, <1>6, <1>7, <1>8, <1>9, <1>10 DEF IInv

\* handleClose and removeConnectionInLoop.
LEMMA CloseInv ==
    ASSUME IInv, NEW l \in Loops, NEW c \in Conns, Close(l, c)
    PROVE  IInv' /\ \A k \in Loops : k # l => poller'[k] = poller[k]
<1> DEFINE p == updateChannel(poller, c, {})
<1>1. state[c] = "connected" /\ loopOf[c] = l /\ fd[c] \in Fds /\ {} \in Interest
  BY SMTT(60) DEF Close, Dispatched, IInv, ActiveInv, LifeInv, TypeOK, Interest
<1>2. p \in [Loops -> Pollers] /\ \A k \in Loops : k # l => p[k] = poller[k]
  <2>1. p \in [Loops -> Pollers]
    BY <1>1, UpdateType DEF IInv, TypeOK
  <2>2. \A k \in Loops : k # l => p[k] = poller[k]
    BY <1>1 DEF updateChannel, IInv, TypeOK
  <2> QED
    BY <2>1, <2>2
<1>3. /\ connections' = connections \ {c} /\ tasks' = tasks
      /\ active' = [active EXCEPT ![l] = @ \ {c}]
      /\ UNCHANGED <<loopOf, nextIo, pending, calling, phase>>
  BY DEF Close, Dispatched, removeConnection, functors
<1>4. /\ events' = [events EXCEPT ![c] = {}]
      /\ poller' = p /\ PollerInv'
      /\ \/ state' = [state EXCEPT ![c] = "disconnected"] /\ fd' = fd
         \/ state' = [state EXCEPT ![c] = "gone"] /\ fd' = [fd EXCEPT ![c] = None] /\ c \notin tasks
  <2> DEFINE held == connections' \cup tasks \cup Establishing
  <2>1. Release(c, held, "disconnected", {}, p)
    BY DEF Close, disableAll
  <2>2. CASE c \in held
    BY <1>1, <1>3, <2>1, <2>2, Reregister DEF Release, IInv
  <2>3. CASE c \notin held
    <3>1. Destroy(c, p)
      BY <2>1, <2>3 DEF Release
    <3>2. PollerInv' /\ poller' = p
      BY <1>1, <1>3, <3>1, Dropped DEF IInv
    <3> QED
      BY <2>3, <3>1, <3>2 DEF Destroy
  <2> QED
    BY <2>2, <2>3
<1> HIDE DEF p
<1>5. TypeOK'
  BY <1>2, <1>3, <1>4 DEF IInv, TypeOK, Interest
<1>6. LifeInv'
  BY <1>1, <1>3, <1>4, NoneAssumption, SMTT(60) DEF IInv, TypeOK, LifeInv
<1>7. Distinct'
  BY <1>4 DEF IInv, TypeOK, Distinct
<1>8. FunctorInv'
  BY <1>1, <1>3, <1>4 DEF IInv, TypeOK, FunctorInv
<1>9. ActiveInv'
  BY <1>1, <1>3, <1>4, SMTT(60) DEF IInv, TypeOK, ActiveInv
<1> QED
  BY <1>2, <1>4, <1>5, <1>6, <1>7, <1>8, <1>9 DEF IInv

\* doPendingFunctors: swapping the queue out, and its end.
LEMMA PhaseInv ==
    ASSUME IInv, NEW l \in Loops, DispatchDone(l) \/ FunctorsDone(l)
    PROVE  IInv' /\ UNCHANGED poller
<1>1. /\ UNCHANGED <<state, fd, loopOf, events, connections, nextIo, tasks, poller, active>>
      /\ phase' \in [Loops -> {"poll", "dispatch", "functors"}]
      /\ \E F \in SUBSET pending : calling' = calling \cup F /\ pending' = pending \ F
  <2>1. CASE DispatchDone(l)
    <3>1. Of(l, pending) \in SUBSET pending
      BY DEF Of
    <3> QED
      BY <2>1, <3>1 DEF DispatchDone, conn, server, IInv, TypeOK
  <2>2. CASE FunctorsDone(l)
    <3>1. calling' = calling \cup {} /\ pending' = pending \ {}
      BY <2>2 DEF FunctorsDone, functors
    <3> QED
      BY <2>2, <3>1 DEF FunctorsDone, conn, server, IInv, TypeOK
  <2> QED
    BY <2>1, <2>2
<1>2. TypeOK'
  BY <1>1 DEF IInv, TypeOK
<1>3. LifeInv' /\ Distinct' /\ ActiveInv'
  BY <1>1 DEF IInv, LifeInv, Distinct, ActiveInv
<1>4. FunctorInv'
  BY <1>1 DEF IInv, FunctorInv
<1>5. PollerInv'
  BY <1>1, PollerSame DEF IInv
<1> QED
  BY <1>1, <1>2, <1>3, <1>4, <1>5 DEF IInv

\* connectEstablished on the connection's own loop.
LEMMA EstablishedInv ==
    ASSUME IInv, NEW l \in Loops, NEW c \in Conns, connectEstablished(l, c)
    PROVE  IInv' /\ \A k \in Loops : k # l => poller'[k] = poller[k]
<1> DEFINE ev == enableReading(c)
<1>1. /\ UNCHANGED <<fd, loopOf, connections, nextIo, tasks, pending, phase, active>>
      /\ <<"establish", c>> \in calling /\ calling' = calling \ {<<"establish", c>>}
      /\ loopOf[c] = l
      /\ state' = [state EXCEPT ![c] = "connected"]
      /\ events' = [events EXCEPT ![c] = ev]
      /\ poller' = updateChannel(poller, c, ev)
  BY DEF connectEstablished, Call, Of, server
<1>2. state[c] = "connecting" /\ fd[c] \in Fds
  BY <1>1 DEF IInv, FunctorInv, LifeInv, TypeOK
<1>3. ev \in Interest /\ "read" \in ev
  BY DEF IInv, TypeOK, Interest, enableReading
<1> HIDE DEF ev
<1>4. poller' \in [Loops -> Pollers]
  BY <1>1, <1>2, <1>3, UpdateType DEF IInv, TypeOK
<1>5. TypeOK'
  BY <1>1, <1>3, <1>4 DEF IInv, TypeOK
<1>6. LifeInv'
  BY <1>1, <1>2, <1>3 DEF IInv, TypeOK, LifeInv
<1>7. Distinct'
  BY <1>1 DEF IInv, Distinct
<1>8. FunctorInv'
  BY <1>1, <1>2 DEF IInv, TypeOK, FunctorInv
<1>9. ActiveInv'
  BY <1>1 DEF IInv, TypeOK, ActiveInv
<1>10. PollerInv'
  BY <1>1, <1>2, <1>3, Reregister, ZenonT(60) DEF IInv
<1>11. \A k \in Loops : k # l => poller'[k] = poller[k]
  BY <1>1 DEF updateChannel, IInv, TypeOK
<1> QED
  BY <1>5, <1>6, <1>7, <1>8, <1>9, <1>10, <1>11 DEF IInv

\* The functor of send().
LEMMA SendInv ==
    ASSUME IInv, NEW l \in Loops, NEW c \in Conns, sendInLoop(l, c)
    PROVE  IInv' /\ \A k \in Loops : k # l => poller'[k] = poller[k]
<1>1. /\ UNCHANGED <<state, fd, loopOf, connections, nextIo, tasks, pending, phase, active>>
      /\ <<"send", c>> \in calling /\ calling' = calling \ {<<"send", c>>}
      /\ loopOf[c] = l
  BY DEF sendInLoop, Call, Of, server
<1>2. /\ events' \in [Conns -> Interest] /\ poller' \in [Loops -> Pollers]
      /\ LifeInv' /\ PollerInv'
      /\ \A k \in Loops : k # l => poller'[k] = poller[k]
  <2>1. CASE UNCHANGED <<events, poller>>
    BY <1>1, <2>1, PollerSame DEF IInv, TypeOK, LifeInv
  <2>2. CASE /\ Sends(c)
             /\ events' = [events EXCEPT ![c] = @ \cup {"write"}]
             /\ poller' = updateChannel(poller, c, events'[c])
    <3> DEFINE ev == events[c] \cup {"write"}
    <3>1. state[c] = "connected" /\ fd[c] \in Fds
      BY <1>1, <2>2 DEF Sends, IInv, FunctorInv, LifeInv, TypeOK
    <3>2. /\ ev \in Interest /\ events' = [events EXCEPT ![c] = ev]
          /\ poller' = updateChannel(poller, c, ev)
      BY <2>2 DEF IInv, TypeOK, Interest
    <3>3. "read" \in ev
      BY <3>1 DEF IInv, LifeInv
    <3> HIDE DEF ev
    <3>4. PollerInv'
      BY <1>1, <3>1, <3>2, Reregister, ZenonT(60) DEF IInv
    <3>5. poller' \in [Loops -> Pollers]
      BY <1>1, <3>1, <3>2, UpdateType DEF IInv, TypeOK
    <3>6. LifeInv'
      BY <1>1, <3>1, <3>2, <3>3 DEF IInv, TypeOK, LifeInv
    <3>7. \A k \in Loops : k # l => poller'[k] = poller[k]
      BY <1>1, <3>2 DEF updateChannel, IInv, TypeOK
    <3>8. events' \in [Conns -> Interest]
      BY <3>2 DEF IInv, TypeOK
    <3> QED
      BY <3>4, <3>5, <3>6, <3>7, <3>8
  <2> QED
    BY <2>1, <2>2 DEF sendInLoop
<1>3. TypeOK'
  BY <1>1, <1>2 DEF IInv, TypeOK
<1>4. Distinct' /\ FunctorInv' /\ ActiveInv'
  BY <1>1 DEF IInv, Distinct, FunctorInv, ActiveInv
<1> QED
  BY <1>2, <1>3, <1>4 DEF IInv

\* send() on a pool thread posts a functor and touches nothing else.
LEMMA TaskSendsInv ==
    ASSUME IInv, NEW c \in Conns, TaskSends(c)
    PROVE  IInv'
<1>1. TypeOK'
  BY SMTT(60) DEF IInv, TypeOK, TaskSends, conn, server, Functors
<1>2. LifeInv' /\ Distinct' /\ ActiveInv'
  BY DEF IInv, LifeInv, Distinct, ActiveInv, TaskSends, conn, server
<1>3. FunctorInv'
  BY DEF IInv, FunctorInv, TaskSends, conn
<1>4. PollerInv'
  BY PollerSame DEF IInv, TaskSends, conn
<1> QED
  BY <1>1, <1>2, <1>3, <1>4 DEF IInv

\* A task ends; if ~TcpConnection runs on its thread, no poller is touched.
LEMMA TaskEndsInv ==
    ASSUME IInv, NEW c \in Conns, TaskEnds(c)
    PROVE  IInv' /\ UNCHANGED poller
<1>1. /\ UNCHANGED <<loopOf, connections, nextIo, pending, calling, phase, active>>
      /\ c \in tasks /\ tasks' = tasks \ {c}
      /\ Release(c, connections \cup Establishing, state[c], events[c], poller)
  BY DEF TaskEnds, server, functors
<1>2. CASE c \in connections \cup Establishing
  <2>1. UNCHANGED <<state, events, poller, fd>>
    BY <1>1, <1>2 DEF Release, IInv, TypeOK
  <2>2. TypeOK'
    BY <1>1, <2>1 DEF IInv, TypeOK
  <2>3. LifeInv' /\ Distinct' /\ FunctorInv' /\ ActiveInv'
    BY <1>1, <2>1, ZenonT(60) DEF IInv, LifeInv, Distinct, FunctorInv, ActiveInv
  <2>4. PollerInv'
    BY <1>1, <2>1, PollerSame, ZenonT(60) DEF IInv
  <2> QED
    BY <2>1, <2>2, <2>3, <2>4 DEF IInv
<1>3. CASE c \notin connections \cup Establishing
  <2>1. Destroy(c, poller)
    BY <1>1, <1>3 DEF Release
  <2>2. state[c] = "disconnected" /\ events[c] = {} /\ fd[c] \in Fds
    BY <1>1, <1>3 DEF IInv, LifeInv, TypeOK
  <2>3. updateChannel(poller, c, {}) = poller
    BY <2>2, UpdateQuiet DEF IInv
  <2>4. Destroy(c, updateChannel(poller, c, {}))
    BY <2>1, <2>3, Zenon
  <2>5. PollerInv' /\ poller' = poller
    BY <1>1, <2>2, <2>3, <2>4, Dropped DEF IInv
  <2>6. /\ state' = [state EXCEPT ![c] = "gone"] /\ fd' = [fd EXCEPT ![c] = None]
        /\ events' = [events EXCEPT ![c] = {}]
    BY <2>1 DEF Destroy
  <2>7. TypeOK'
    BY <1>1, <2>5, <2>6 DEF IInv, TypeOK, Interest
  <2>8. LifeInv'
    BY <1>1, <2>2, <2>6, NoneAssumption DEF IInv, TypeOK, LifeInv
  <2>9. Distinct'
    BY <2>6 DEF IInv, TypeOK, Distinct
  <2>10. FunctorInv'
    BY <1>1, <2>2, <2>6 DEF IInv, TypeOK, FunctorInv
  <2>11. ActiveInv'
    BY <1>1, <2>2, <2>6 DEF IInv, TypeOK, ActiveInv
  <2> QED
    BY <2>5, <2>7, <2>8, <2>9, <2>10, <2>11 DEF IInv
<1> QED
  BY <1>2, <1>3

-----------------------------------------------------------------------------

\* A step of loop l keeps the invariant and touches its own poller alone.
LEMMA LoopInv ==
    ASSUME IInv, NEW l \in Loops, LoopStep(l)
    PROVE  IInv' /\ \A k \in Loops : k # l => poller'[k] = poller[k]
<1>1. CASE Poll(l)
  BY <1>1, PollInv, ZenonT(60) DEF Poll
<1>2. CASE DispatchDone(l) \/ FunctorsDone(l)
  BY <1>2, PhaseInv
<1>3. CASE \E c \in Conns : Handle(l, c)
  BY <1>3, HandleInv
<1>4. CASE \E c \in Conns : Close(l, c)
  BY <1>4, CloseInv
<1>5. CASE \E c \in Conns : connectEstablished(l, c)
  BY <1>5, EstablishedInv
<1>6. CASE \E c \in Conns : sendInLoop(l, c)
  BY <1>6, SendInv
<1> QED
  BY <1>1, <1>2, <1>3, <1>4, <1>5, <1>6 DEF LoopStep

\* Every step keeps the invariant, and a poller that changes is changed by its
\* loop.
LEMMA StepInv ==
    ASSUME IInv, [Next]_vars
    PROVE  IInv' /\ \A l \in Loops : poller'[l] # poller[l] => LoopStep(l)
<1>1. CASE \E c \in Conns, f \in Fds : Accept(c, f)
  BY <1>1, AcceptInv, ZenonT(60) DEF Accept
<1>2. CASE \E l \in Loops : LoopStep(l)
  BY <1>2, LoopInv
<1>3. CASE \E c \in Conns : TaskSends(c)
  BY <1>3, TaskSendsInv DEF TaskSends
<1>4. CASE \E c \in Conns : TaskEnds(c)
  BY <1>4, TaskEndsInv
<1>5. CASE UNCHANGED vars
  <2>1. TypeOK'
    BY <1>5 DEF IInv, TypeOK, vars, conn, server, functors
  <2>2. LifeInv' /\ Distinct' /\ FunctorInv' /\ ActiveInv'
    BY <1>5 DEF IInv, LifeInv, Distinct, FunctorInv, ActiveInv, vars, conn, server,
        functors
  <2>3. PollerInv'
    BY <1>5, PollerSame DEF IInv, vars, conn
  <2> QED
    BY <1>5, <2>1, <2>2, <2>3 DEF IInv, vars
<1> QED
  BY <1>1, <1>2, <1>3, <1>4, <1>5 DEF Next

\* The invariant holds in every reachable state.
LEMMA Invariant == Spec => []IInv
<1>1. IInv /\ [Next]_vars => IInv'
  BY StepInv
<1> QED
  BY InitInv, <1>1, PTL DEF Spec

\* Types, for every number of connections, descriptors and loops.
THEOREM ServerTypes == Spec => []TypeOK
<1>1. IInv => TypeOK
  BY DEF IInv
<1> QED
  BY Invariant, <1>1, PTL

\* EpollPoller's map, the kernel's list and the channels always agree, however
\* descriptors are closed and reused (EpollPoller.cpp:52).
THEOREM PollersAgree == Spec => []PollerAgrees
<1>1. IInv => PollerAgrees
  BY DEF IInv, PollerInv
<1> QED
  BY Invariant, <1>1, PTL

\* loop() never calls handleEvent on a channel that has gone (EventLoop.cpp:46).
THEOREM ActiveChannelsAlive == Spec => []ActiveAlive
<1>1. IInv => ActiveAlive
  BY DEF IInv, ActiveInv, LifeInv, ActiveAlive, TypeOK
<1> QED
  BY Invariant, <1>1, PTL

\* Only its own loop changes a poller, although ~TcpConnection calls
\* updateChannel on pool threads (TcpConnection.cpp:33).
THEOREM PollersHaveOneThread == Spec => PollerOwnThread
<1>1. IInv /\ [Next]_vars => [\A l \in Loops : poller'[l] # poller[l] => LoopStep(l)]_vars
  BY StepInv
<1> QED
  BY Invariant, <1>1, PTL DEF Spec, PollerOwnThread
=============================================================================
