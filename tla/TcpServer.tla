------------------------------- MODULE TcpServer ------------------------------
(***************************************************************************)
(* The connections of a multi-reactor server and the descriptors they use: *)
(* src/net/TcpServer.cpp gives each accepted socket a TcpConnection on one *)
(* of the I/O loops, EpollPoller.cpp keeps a map from descriptors to       *)
(* channels beside the kernel's interest list, pool threads hold           *)
(* references, and whoever drops the last one runs ~TcpConnection, after   *)
(* which the kernel may give the descriptor to the next connection.        *)
(*                                                                         *)
(* The bytes are those of TcpConnection; here a readiness event may hand   *)
(* requests to the pool, start or end the wait for EPOLLOUT, or end the    *)
(* connection.  "connected" stands for kDisconnecting too, which differs   *)
(* only in that send() then does nothing; "gone" is a destroyed object.    *)
(***************************************************************************)
EXTENDS Integers, FiniteSets

CONSTANTS
    Conns,          \* the connection objects that may be made
    Fds,            \* descriptors the kernel may give out
    LoopCount,      \* ioLoops_.size()
    None

Loops == 0..(LoopCount - 1)

\* Sets of EPOLLIN and EPOLLOUT, and an entry of the kernel's interest list.
Interest == SUBSET {"read", "write"}
Entry == [ptr : Conns, events : Interest]

ASSUME LoopAssumption == LoopCount \in Nat \ {0}
ASSUME NoneAssumption == None \notin Conns \cup Fds \cup Entry

VARIABLES
    state, fd, loopOf, events,      \* each connection with its channel
    connections, nextIo,            \* TcpServer
    tasks,          \* connections that some task of the pool holds
    pending,        \* functors in the loops' pendingFunctors_
    calling,        \* functors that doPendingFunctors has swapped out
    poller,         \* per loop: channels_ and the kernel's interest list
    phase, active   \* per loop: where it is, and activeChannels

conn == <<state, fd, loopOf, events>>
server == <<connections, nextIo>>
functors == <<pending, calling>>
vars == <<conn, server, tasks, functors, poller, phase, active>>

\* The functor of handleNewConnection, which holds the connection, and that
\* of send(), which has a weak_ptr.
Functors == {"establish", "send"} \X Conns

Init ==
    /\ state = [c \in Conns |-> "none"]
    /\ fd = [c \in Conns |-> None]
    /\ loopOf = [c \in Conns |-> 0]
    /\ events = [c \in Conns |-> {}]
    /\ connections = {} /\ nextIo = 0
    /\ tasks = {} /\ pending = {} /\ calling = {}
    /\ poller = [l \in Loops |-> [channels |-> [f \in Fds |-> None],
                                  epoll |-> [f \in Fds |-> None]]]
    /\ phase = [l \in Loops |-> "poll"]
    /\ active = [l \in Loops |-> {}]

-----------------------------------------------------------------------------
(* EpollPoller.                                                            *)

\* epoll_ctl: ADD fails on a registered descriptor, MOD on any other.
Add(old, c, ev) == IF old = None THEN [ptr |-> c, events |-> ev] ELSE old
Mod(old, c, ev) == IF old = None THEN None ELSE [ptr |-> c, events |-> ev]

\* Fault: the entry of channels_ is not erased.
EraseNothing(q, f) == [q EXCEPT !.epoll[f] = None]

\* events = 0: EPOLL_CTL_DEL and channels_.erase.
Erase(q, f) == [q EXCEPT !.epoll[f] = None, !.channels[f] = None]

\* updateChannel(c) in p, the channel's events being ev.
updateChannel(p, c, ev) ==
    LET f == fd[c]
        q == p[loopOf[c]]
        known == q.channels[f] # None
    IN  [p EXCEPT ![loopOf[c]] =
            CASE ~known /\ ev = {} -> q
              [] ~known /\ ev # {} ->
                     [q EXCEPT !.channels[f] = c, !.epoll[f] = Add(@, c, ev)]
              [] known /\ ev = {} -> Erase(q, f)
              [] known /\ ev # {} -> [q EXCEPT !.epoll[f] = Mod(@, c, ev)]]

\* close(f): the kernel drops it from every interest list.
CloseFd(p, f) == [l \in Loops |-> [p[l] EXCEPT !.epoll[f] = None]]

-----------------------------------------------------------------------------
(* References.                                                             *)

\* The last reference to c is gone: ~TcpConnection calls disableAll, then the
\* members go, and ~Socket closes the descriptor.
Destroy(c, p) ==
    /\ state' = [state EXCEPT ![c] = "gone"]
    /\ fd' = [fd EXCEPT ![c] = None]
    /\ events' = [events EXCEPT ![c] = {}]
    /\ poller' = CloseFd(updateChannel(p, c, {}), fd[c])

\* c goes on with state st, interest ev and the pollers p if it is among the
\* `held', those with a reference left.
Release(c, held, st, ev, p) ==
    \/ /\ c \in held
       /\ state' = [state EXCEPT ![c] = st]
       /\ events' = [events EXCEPT ![c] = ev]
       /\ poller' = p
       /\ UNCHANGED fd
    \/ c \notin held /\ Destroy(c, p)

\* Connections that a functor of handleNewConnection holds.
Establishing == {c \in Conns : <<"establish", c>> \in pending \cup calling}

-----------------------------------------------------------------------------
(* The main loop.                                                          *)

\* ioLoops_[nextIo_++ % ioLoops_.size()]
NextLoop(n) == (n + 1) % LoopCount

\* handleNewConnection, one turn of its loop: the kernel gives any descriptor
\* that is free.
Accept(c, f) ==
    /\ state[c] = "none"
    /\ \A d \in Conns : fd[d] # f
    /\ state' = [state EXCEPT ![c] = "connecting"]
    /\ fd' = [fd EXCEPT ![c] = f]
    /\ loopOf' = [loopOf EXCEPT ![c] = nextIo]
    /\ nextIo' = NextLoop(nextIo)
    /\ connections' = connections \cup {c}
    /\ pending' = pending \cup {<<"establish", c>>}
    /\ UNCHANGED <<events, tasks, calling, poller, phase, active>>

-----------------------------------------------------------------------------
(* An I/O loop.                                                            *)

Registered(l) == {f \in Fds : poller[l].epoll[f] # None}

\* poll returns with some of the ready channels, or after ten seconds.
Poll(l) ==
    /\ phase[l] = "poll"
    /\ \E ready \in SUBSET Registered(l) :
          active' = [active EXCEPT ![l] = {poller[l].epoll[f].ptr : f \in ready}]
    /\ phase' = [phase EXCEPT ![l] = "dispatch"]
    /\ UNCHANGED <<conn, server, tasks, functors, poller>>

\* The loop takes the next of activeChannels.
Dispatched(l, c) ==
    /\ phase[l] = "dispatch"
    /\ c \in active[l]
    /\ active' = [active EXCEPT ![l] = @ \ {c}]
    /\ UNCHANGED <<loopOf, nextIo, functors, phase>>

\* handleEvent for data and for room: handleRead gives requests to the pool,
\* whose tasks hold the connection, or sends an error and waits for EPOLLOUT;
\* handleWrite ends that wait when the output buffer is empty.
Handle(l, c) ==
    /\ Dispatched(l, c)
    /\ tasks' \in {tasks, tasks \cup {c}}
    /\ \E ev \in {events[c] \cup {"write"}, events[c] \ {"write"}} :
          /\ events' = [events EXCEPT ![c] = ev]
          /\ poller' = updateChannel(poller, c, ev)
    /\ UNCHANGED <<state, fd, connections>>

\* Fault: handleClose leaves the channel in epoll.
StayRegistered(c) == events[c]

\* The interest set after handleClose's disableAll.
disableAll(c) == {}

\* Fault: the table keeps the connection.
KeepInTable(c) == connections

\* removeConnectionInLoop
removeConnection(c) == connections \ {c}

\* handleEvent for the end of the connection: handleClose and, through
\* closeCallback_, removeConnectionInLoop.
Close(l, c) ==
    /\ Dispatched(l, c)
    /\ connections' = removeConnection(c)
    /\ Release(c, connections' \cup tasks \cup Establishing, "disconnected",
               disableAll(c), updateChannel(poller, c, disableAll(c)))
    /\ UNCHANGED tasks

\* The functors of loop l among F.
Of(l, F) == {f \in F : loopOf[f[2]] = l}

\* doPendingFunctors swaps the queue out.
DispatchDone(l) ==
    /\ phase[l] = "dispatch"
    /\ active[l] = {}
    /\ phase' = [phase EXCEPT ![l] = "functors"]
    /\ calling' = calling \cup Of(l, pending)
    /\ pending' = pending \ Of(l, pending)
    /\ UNCHANGED <<conn, server, tasks, poller, active>>

\* doPendingFunctors calls f.
Call(l, f) ==
    /\ phase[l] = "functors"
    /\ f \in Of(l, calling)
    /\ calling' = calling \ {f}
    /\ UNCHANGED <<fd, loopOf, server, tasks, pending, phase, active>>

enableReading(c) == events[c] \cup {"read"}

connectEstablished(l, c) ==
    /\ Call(l, <<"establish", c>>)
    /\ state' = [state EXCEPT ![c] = "connected"]
    /\ events' = [events EXCEPT ![c] = enableReading(c)]
    /\ poller' = updateChannel(poller, c, enableReading(c))

\* Fault: sendInLoop does not look at the state.
SendsClosed(c) == state[c] # "gone"

\* weak.lock() finds the connection and sendInLoop does not refuse.
Sends(c) == state[c] \notin {"gone", "disconnected"}

\* The functor of send(): all is written, or sendInLoop waits for EPOLLOUT.
sendInLoop(l, c) ==
    /\ Call(l, <<"send", c>>)
    /\ \/ UNCHANGED <<events, poller>>
       \/ /\ Sends(c)
          /\ events' = [events EXCEPT ![c] = @ \cup {"write"}]
          /\ poller' = updateChannel(poller, c, events'[c])
    /\ UNCHANGED state

FunctorsDone(l) ==
    /\ phase[l] = "functors"
    /\ Of(l, calling) = {}
    /\ phase' = [phase EXCEPT ![l] = "poll"]
    /\ UNCHANGED <<conn, server, tasks, functors, poller, active>>

-----------------------------------------------------------------------------
(* The pool.                                                               *)

\* A task calls send().
TaskSends(c) ==
    /\ c \in tasks
    /\ state[c] = "connected"
    /\ pending' = pending \cup {<<"send", c>>}
    /\ UNCHANGED <<conn, server, tasks, calling, poller, phase, active>>

\* The last task that holds c ends; ~TcpConnection may run here.
TaskEnds(c) ==
    /\ c \in tasks
    /\ tasks' = tasks \ {c}
    /\ Release(c, connections \cup Establishing, state[c], events[c], poller)
    /\ UNCHANGED <<loopOf, server, functors, phase, active>>

-----------------------------------------------------------------------------

LoopStep(l) ==
    \/ Poll(l) \/ DispatchDone(l) \/ FunctorsDone(l)
    \/ \E c \in Conns : \/ Handle(l, c) \/ Close(l, c)
                        \/ connectEstablished(l, c) \/ sendInLoop(l, c)

Next ==
    \/ \E c \in Conns, f \in Fds : Accept(c, f)
    \/ \E l \in Loops : LoopStep(l)
    \/ \E c \in Conns : TaskSends(c) \/ TaskEnds(c)

Spec == Init /\ [][Next]_vars

\* The loops run and tasks come to an end.
FairSpec ==
    /\ Spec
    /\ \A l \in Loops : WF_vars(LoopStep(l))
    /\ \A c \in Conns : WF_vars(TaskEnds(c))

-----------------------------------------------------------------------------
(* Properties.                                                             *)

Pollers == [channels : [Fds -> Conns \cup {None}],
            epoll : [Fds -> Entry \cup {None}]]

\* The values of the server's, the pollers' and the connections' members.
TypeOK ==
    /\ state \in [Conns -> {"none", "connecting", "connected", "disconnected",
                            "gone"}]
    /\ fd \in [Conns -> Fds \cup {None}] /\ loopOf \in [Conns -> Loops]
    /\ events \in [Conns -> Interest]
    /\ connections \subseteq Conns /\ nextIo \in Loops
    /\ tasks \subseteq Conns /\ pending \subseteq Functors /\ calling \subseteq Functors
    /\ poller \in [Loops -> Pollers]
    /\ phase \in [Loops -> {"poll", "dispatch", "functors"}]
    /\ active \in [Loops -> SUBSET Conns]

\* On descriptor f, both lists of loop l name nobody, or connection c.
Unknown(l, f) == poller[l].channels[f] = None /\ poller[l].epoll[f] = None
Names(l, f, c) ==
    /\ poller[l].channels[f] = c
    /\ poller[l].epoll[f] = [ptr |-> c, events |-> events[c]]
    /\ fd[c] = f /\ loopOf[c] = l /\ events[c] # {}

\* A poller's channels_ and the kernel's interest list name the same
\* descriptors, each with the live connection that owns it, on its own loop
\* and with its current interest: so epoll_ctl never fails and data.ptr never
\* dangles, however descriptors are closed on one thread and reused on another.
PollerAgrees ==
    \A l \in Loops, f \in Fds : Unknown(l, f) \/ \E c \in Conns : Names(l, f, c)

\* A channel that epoll_wait returned is still there, and still registered,
\* when its turn in activeChannels comes, whatever references pool threads
\* drop and whatever the callbacks before it do (EventLoop.cpp:45).
ActiveAlive ==
    \A l \in Loops : \A c \in active[l] : state[c] = "connected" /\ c \in connections

\* A poller, which has no lock, is changed by the thread of its loop alone:
\* ~TcpConnection on a pool thread finds its channel unregistered, and the
\* kernel has nothing to drop when a descriptor is closed.
PollerOwnThread ==
    [][\A l \in Loops : poller'[l] # poller[l] => LoopStep(l)]_vars

\* A closed connection gives its descriptor back once its tasks have ended:
\* in the end no closed one has a descriptor.  (An object is accepted once, so
\* this is the same as a leads-to for each of them.)
DescriptorReturned ==
    <>[](\A c \in Conns : state[c] = "disconnected" => fd[c] = None)

=============================================================================
