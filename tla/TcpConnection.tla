---------------------------- MODULE TcpConnection ----------------------------
(***************************************************************************)
(* One connection of src/net/TcpServer.cpp and src/net/TcpConnection.cpp,  *)
(* from accept to destruction, with the RPC server's message callback.     *)
(*                                                                         *)
(* The main loop accepts it and hands it to an I/O loop; that loop polls,  *)
(* dispatches the channel's events and runs functors in the order in which *)
(* they were queued; pool threads answer requests through send(), holding  *)
(* a shared_ptr meanwhile; the peer sends, reads, closes or resets.        *)
(*                                                                         *)
(* A response is two pieces, because write() may take a part of it.  The   *)
(* channel's interest set and epoll's are the same, update() being part of *)
(* every change.  EPOLLIN stays in it while the channel is registered, so  *)
(* a hang-up always comes with EPOLLIN and EPOLLERR only logs.             *)
(***************************************************************************)
EXTENDS Integers, Sequences

CONSTANTS
    Requests,       \* the requests the peer may send, once each
    Other,          \* a message that is no request
    Bad,            \* bytes that Codec::tryDecode refuses
    Established     \* the functor that runs connectEstablished

ASSUME NameAssumption ==
    /\ Requests \cap {Other, Bad, Established} = {}
    /\ Other # Bad /\ Other # Established /\ Bad # Established

VARIABLES
    state, events, outputBuffer, inTable, bad,  \* the connection
    loop, revents, inbox, functors, todo,       \* the I/O loop
    task, full,     \* the pool's tasks, and whether its queue has no room
    peer, inbound, room, wire, wrClosed,        \* the socket
    queued          \* history: responses accepted by sendInLoop, in order

conn == <<state, events, outputBuffer, inTable, bad>>
reactor == <<loop, revents, inbox, functors, todo>>
socket == <<peer, inbound, room, wire, wrClosed>>
vars == <<conn, reactor, task, full, socket, queued>>

States == {"none", "connecting", "connected", "disconnecting", "disconnected"}

Init ==
    /\ state = "none" /\ events = {} /\ outputBuffer = <<>>
    /\ inTable = FALSE /\ bad = FALSE
    /\ loop = "poll" /\ revents = {} /\ inbox = <<>>
    /\ functors = <<>> /\ todo = 0
    /\ task = [r \in Requests |-> "none"] /\ full = FALSE
    /\ peer = "open" /\ inbound = <<>> /\ room = TRUE /\ wire = <<>>
    /\ wrClosed = FALSE
    /\ queued = <<>>

InSeq(x, s) == \E i \in DOMAIN s : s[i] = x

\* The requests a task of the pool holds, with a shared_ptr each.
InPool == {r \in Requests : task[r] \in {"run", "push", "release"}}

\* Somebody has a shared_ptr: the table, a task of the pool, or the functor
\* that is to establish the connection.
Alive ==
    \/ inTable
    \/ InPool # {}
    \/ InSeq(Established, functors)

-----------------------------------------------------------------------------
(* The server's main loop.                                                 *)

\* handleNewConnection
Accept ==
    /\ state = "none"
    /\ state' = "connecting"
    /\ inTable' = TRUE
    /\ functors' = Append(functors, Established)
    /\ UNCHANGED <<events, outputBuffer, bad, loop, revents, inbox, todo, task,
                   socket, queued, full>>

-----------------------------------------------------------------------------
(* Sending and closing, on the I/O loop.                                   *)

Pieces(r) == <<<<r, 1>>, <<r, 2>>>>

\* write() of s behind `pending': a full socket buffer or a broken connection
\* takes nothing, and one that takes a part is full.
Write(s, pending) ==
    \E n \in IF room /\ peer # "rst" /\ ~wrClosed THEN 1..Len(s) ELSE {0} :
        /\ wire' = wire \o SubSeq(s, 1, n)
        /\ outputBuffer' = pending \o SubSeq(s, n + 1, Len(s))
        /\ IF n = Len(s) THEN room' \in BOOLEAN ELSE room' = (room /\ n = 0)

\* Fault: the fast path is taken although output is pending.
DirectAlways == TRUE

\* sendInLoop's fast path
Direct == "write" \notin events /\ outputBuffer = <<>>

Refuses == state = "disconnected"

\* Fault: EPOLLOUT is not asked for.
EnableNothing == events

\* The interest set after output was appended.
EnableWriting == IF outputBuffer' # <<>> THEN events \cup {"write"} ELSE events

sendInLoop(r) ==
    IF Refuses
    THEN UNCHANGED <<events, outputBuffer, wire, room, queued>>
    ELSE /\ queued' = Append(queued, r)
         /\ IF Direct
            THEN Write(Pieces(r), outputBuffer)
            ELSE /\ outputBuffer' = outputBuffer \o Pieces(r)
                 /\ UNCHANGED <<wire, room>>
         /\ events' = EnableWriting

\* removeConnection runs on the connection's loop already, so at once, and
\* connectDestroyed finds nothing left to do.
removeConnection == inTable' = FALSE

\* handleClose, with closeCallback_.
handleClose ==
    /\ events' = {}
    /\ state' = "disconnected"
    /\ removeConnection

\* Fault: output is not waited for.
ShutAtOnce == TRUE

\* shutdownInLoop, which leaves a socket alone that still has output.
shutdownInLoop == wrClosed \/ "write" \notin events

\* shutdown, called on the loop thread: shutdownInLoop follows at once.
shutdown ==
    IF state = "connected"
    THEN /\ state' = "disconnecting"
         /\ wrClosed' = shutdownInLoop
    ELSE UNCHANGED <<state, wrClosed>>

-----------------------------------------------------------------------------
(* The I/O loop: epoll_wait, Channel::handleEvent, doPendingFunctors.      *)

Readable == inbound # <<>> \/ peer # "open"
Writable == room \/ peer = "rst" \/ wrClosed

Ready == (IF Readable THEN events \cap {"read"} ELSE {})
         \cup (IF Writable THEN events \cap {"write"} ELSE {})

Poll ==
    /\ loop = "poll"
    /\ Ready # {} \/ functors # <<>>
    /\ revents' = Ready
    /\ loop' = IF "read" \in Ready THEN "read" ELSE "write"
    /\ UNCHANGED <<conn, inbox, functors, todo, task, socket, queued, full>>

\* handleRead finds data: messageCallback_ is called.
ReadData ==
    /\ loop = "read"
    /\ inbound # <<>>
    /\ \E n \in 1..Len(inbound) :
          /\ inbox' = SubSeq(inbound, 1, n)
          /\ inbound' = SubSeq(inbound, n + 1, Len(inbound))
    /\ loop' = "message"
    /\ UNCHANGED <<conn, revents, functors, todo, task, peer, room, wire, wrClosed,
                   queued, full>>

\* handleRead finds the end of the stream or an error.
ReadEnd ==
    /\ loop = "read"
    /\ inbound = <<>>
    /\ handleClose
    /\ loop' = "write"
    /\ UNCHANGED <<outputBuffer, bad, revents, inbox, functors, todo, task, socket,
                   queued, full>>

\* Fault: submit waits for room without a limit.
NeverGivesUp == FALSE

\* submit gives up after a minute in which the pool had no room.
GivesUp == full

\* RpcServer::onMessage, one request: it is submitted to the pool; or the loop
\* waits in submit until that gives up, and the error is sent from here.
OnRequest ==
    /\ loop = "message"
    /\ inbox # <<>> /\ ~bad /\ Head(inbox) \in Requests
    /\ inbox' = Tail(inbox)
    /\ \/ /\ ~full
          /\ task' = [task EXCEPT ![Head(inbox)] = "run"]
          /\ UNCHANGED <<events, outputBuffer, wire, room, queued>>
       \/ /\ GivesUp
          /\ IF state = "connected"
             THEN sendInLoop(Head(inbox))
             ELSE UNCHANGED <<events, outputBuffer, wire, room, queued>>
          /\ UNCHANGED task
    /\ UNCHANGED <<state, inTable, bad, loop, revents, functors, todo, peer,
                   inbound, wrClosed, full>>

\* RpcServer::onMessage, one message of another type: it is dropped.
OnOther ==
    /\ loop = "message"
    /\ inbox # <<>> /\ ~bad /\ Head(inbox) = Other
    /\ inbox' = Tail(inbox)
    /\ UNCHANGED <<conn, loop, revents, functors, todo, task, socket, queued, full>>

\* tryDecode throws, now and whenever more data arrives: the refused bytes stay
\* at the head of inputBuffer_.
OnCodecError ==
    /\ loop = "message"
    /\ bad \/ (inbox # <<>> /\ Head(inbox) = Bad)
    /\ bad' = TRUE
    /\ inbox' = <<>>
    /\ shutdown
    /\ loop' = "write"
    /\ UNCHANGED <<events, outputBuffer, inTable, revents, functors, todo, task,
                   peer, inbound, room, wire, queued, full>>

MessagesDone ==
    /\ loop = "message"
    /\ inbox = <<>> /\ ~bad
    /\ loop' = "write"
    /\ UNCHANGED <<conn, revents, inbox, functors, todo, task, socket, queued, full>>

\* doPendingFunctors takes what is there now.
TakeFunctors == todo' = Len(functors)

\* Fault: EPOLLOUT stays on when the buffer is empty.
KeepWriting == events

\* The interest set after handleWrite.
DisableWriting == IF outputBuffer' = <<>> THEN events \ {"write"} ELSE events

\* handleWrite, if EPOLLOUT was reported and is still asked for; after it the
\* events are done.
handleWrite ==
    /\ loop = "write"
    /\ IF "write" \in revents \cap events
       THEN Write(outputBuffer, <<>>) /\ events' = DisableWriting
       ELSE UNCHANGED <<events, outputBuffer, wire, room>>
    /\ loop' = "functors"
    /\ TakeFunctors
    /\ UNCHANGED <<state, inTable, bad, revents, inbox, functors, task, peer,
                   inbound, wrClosed, queued, full>>

\* Channel::enableReading
EnableReading == events \cup {"read"}

connectEstablished ==
    /\ loop = "functors"
    /\ todo > 0 /\ Head(functors) = Established
    /\ functors' = Tail(functors)
    /\ todo' = todo - 1
    /\ state' = "connected"
    /\ events' = EnableReading
    /\ UNCHANGED <<outputBuffer, inTable, bad, loop, revents, inbox, task, socket,
                   queued, full>>

\* The functor of send(), which finds the connection through a weak_ptr.
SendFunctor ==
    /\ loop = "functors"
    /\ todo > 0 /\ Head(functors) # Established
    /\ functors' = Tail(functors)
    /\ todo' = todo - 1
    /\ IF Alive
       THEN sendInLoop(Head(functors))
       ELSE UNCHANGED <<events, outputBuffer, wire, room, queued>>
    /\ UNCHANGED <<state, inTable, bad, loop, revents, inbox, task, peer, inbound,
                   wrClosed, full>>

FunctorsDone ==
    /\ loop = "functors"
    /\ todo = 0
    /\ loop' = "poll"
    /\ UNCHANGED <<conn, revents, inbox, functors, todo, task, socket, queued, full>>

-----------------------------------------------------------------------------
(* The pool.                                                               *)

\* handleRequest: the method throws, or send() is called and looks at state_.
TaskRuns(r) ==
    /\ task[r] = "run"
    /\ task' \in {[task EXCEPT ![r] = "release"],
                  [task EXCEPT ![r] = IF state = "connected" THEN "push"
                                                            ELSE "release"]}
    /\ UNCHANGED <<conn, reactor, socket, queued, full>>

\* The rest of send(): queueInLoop.
TaskSends(r) ==
    /\ task[r] = "push"
    /\ task' = [task EXCEPT ![r] = "release"]
    /\ functors' = Append(functors, r)
    /\ UNCHANGED <<conn, loop, revents, inbox, todo, socket, queued, full>>

\* Other connections fill the pool's queue, or its threads make room.
PoolChanges ==
    /\ full' = ~full
    /\ UNCHANGED <<conn, reactor, task, socket, queued>>

\* The task is destroyed with its shared_ptr.
TaskReleases(r) ==
    /\ task[r] = "release"
    /\ task' = [task EXCEPT ![r] = "done"]
    /\ UNCHANGED <<conn, reactor, socket, queued, full>>

-----------------------------------------------------------------------------
(* The peer and the kernel.                                                *)

PeerSends(x) ==
    /\ state # "none" /\ peer = "open"
    /\ x \in Requests => task[x] = "none"
    /\ ~InSeq(x, inbound \o inbox) /\ ~InSeq(x, queued)
    /\ x = Bad => ~bad
    /\ inbound' = Append(inbound, x)
    /\ UNCHANGED <<conn, reactor, task, peer, room, wire, wrClosed, queued, full>>

PeerReads ==
    /\ ~room /\ peer = "open"
    /\ room' = TRUE
    /\ UNCHANGED <<conn, reactor, task, peer, inbound, wire, wrClosed, queued, full>>

PeerCloses ==
    /\ state # "none" /\ peer = "open"
    /\ peer' = "fin"
    /\ UNCHANGED <<conn, reactor, task, inbound, room, wire, wrClosed, queued, full>>

PeerResets ==
    /\ state # "none" /\ peer # "rst"
    /\ peer' = "rst"
    /\ inbound' = <<>>
    /\ UNCHANGED <<conn, reactor, task, room, wire, wrClosed, queued, full>>

-----------------------------------------------------------------------------

LoopStep ==
    \/ Poll \/ ReadData \/ ReadEnd
    \/ OnRequest \/ OnOther \/ OnCodecError \/ MessagesDone
    \/ handleWrite \/ connectEstablished \/ SendFunctor \/ FunctorsDone

Next ==
    \/ Accept \/ LoopStep
    \/ \E r \in Requests : TaskRuns(r) \/ TaskSends(r) \/ TaskReleases(r)
    \/ \E x \in Requests \cup {Other, Bad} : PeerSends(x)
    \/ PoolChanges \/ PeerReads \/ PeerCloses \/ PeerResets

Spec == Init /\ [][Next]_vars

\* The loop thread runs, and a peer that keeps the connection reads from it.
FairSpec == Spec /\ WF_vars(LoopStep) /\ WF_vars(PeerReads)

-----------------------------------------------------------------------------
(* Properties.                                                             *)

Output == Requests \X {1, 2}

\* The values of the connection's members, of the loop's and of each task; a
\* round of doPendingFunctors never goes past the functors there are.
TypeOK ==
    /\ state \in States /\ events \subseteq {"read", "write"}
    /\ outputBuffer \in Seq(Output) /\ wire \in Seq(Output)
    /\ inTable \in BOOLEAN /\ bad \in BOOLEAN
    /\ loop \in {"poll", "read", "message", "write", "functors"}
    /\ revents \subseteq {"read", "write"}
    /\ inbox \in Seq(Requests \cup {Other, Bad})
    /\ inbound \in Seq(Requests \cup {Other, Bad})
    /\ functors \in Seq(Requests \cup {Established})
    /\ todo \in 0..Len(functors)
    /\ task \in [Requests -> {"none", "run", "push", "release", "done"}]
    /\ full \in BOOLEAN
    /\ peer \in {"open", "fin", "rst"} /\ room \in BOOLEAN
    /\ wrClosed \in BOOLEAN
    /\ queued \in Seq(Requests)

\* What has been written, followed by what is buffered, is the responses in the
\* order in which sendInLoop took them, none torn, lost or repeated, however
\* writes are cut and whichever thread a response came from.
BytesInOrder ==
    /\ Len(wire) + Len(outputBuffer) = 2 * Len(queued)
    /\ \A i \in 1..Len(queued) :
          LET all == wire \o outputBuffer
          IN  <<all[2 * i - 1], all[2 * i]>> = Pieces(queued[i])

\* While the connection is open EPOLLOUT is asked for exactly when output is
\* pending: never a response nobody will write, never a poll that returns for
\* nothing to write (TcpConnection.cpp:148, EPOLLOUT is turned off once the
\* buffer is empty).
WriteArmed ==
    state \in {"connected", "disconnecting"} =>
        ("write" \in events <=> outputBuffer # <<>>)

\* A closed connection is out of the table and out of epoll and stays so,
\* whatever pool threads still send through it; and only a closed one is out of
\* the table, so that a destructor which runs on a pool thread finds nothing
\* registered (TcpConnection.cpp:33).
ClosedForGood ==
    /\ state = "disconnected" => ~inTable /\ events = {}
    /\ state # "none" /\ ~inTable => state = "disconnected"

\* shutdown() never cuts a response in two, whatever pool threads have sent
\* and whatever part of it the socket took: a stream that was shut down ends
\* with a whole response.
ShutdownWhole == wrClosed => Len(wire) % 2 = 0

\* A response that sendInLoop took reaches the socket, unless the connection
\* is closed, reset or shut down first.
ResponseWritten ==
    \A r \in Requests :
        InSeq(r, queued)
            ~> (InSeq(<<r, 2>>, wire) \/ state = "disconnected" \/ wrClosed
                \/ peer = "rst")

\* When the peer closes or resets, the server lets go of the connection, also
\* when it has not been established yet or has unread data.
PeerCloseNoticed ==
    (state # "none" /\ peer # "open") ~> state = "disconnected"

\* "callbacks of the channel keep the connection alive so that it is not
\* destroyed while one runs" (docs/interview-qa.md:20): between the callbacks of
\* one handleEvent the connection, and with it the channel, exists.
AliveInCallback ==
    loop \in {"read", "message", "write"} /\ revents # {} => Alive
=============================================================================
