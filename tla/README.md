# A TLA+ model of miniRPC

miniRPC is a small RPC framework in C++17: an epoll reactor, a priority thread
pool, a length-prefixed protocol, a synchronous client with timeouts and
retries, a registry with heartbeats, and a load-balancing client. Most of it is
concurrent or talks to something that can fail, and its unit tests exercise the
undisturbed orders. This project models the parts where order matters, checks
them with TLC on small instances, and proves the safety properties with TLAPS for
every size. Paths below are relative to the repository; `PROJECT.json` gives
the exact lines of each definition.

## The system

| Part | Code | Threads and interaction |
|---|---|---|
| Thread pool | `thread/ThreadPool` | workers and submitters share a bounded priority queue under one mutex and two condition variables; thread ids under a second mutex; the destructor waits for the set of ids to be empty |
| Event loop | `net/EventLoop`, `net/EventLoopPool`, `net/EpollPoller`, `net/Channel` | one thread per loop sleeps in `epoll_wait`; others push functors and write an eventfd |
| Connections | `net/TcpServer`, `net/TcpConnection`, `net/Socket`, `net/InetAddress` | live on one loop; are sent to from pool threads through the loop |
| Framing | `net/Buffer`, `codec/Codec`, `codec/Protocol.h` | bytes to messages, on the loop thread or the calling thread |
| RPC server | `rpc/RpcServer`, `rpc/ServiceRegistry` | decodes on the loop, runs methods in the pool, answers through the connection |
| RPC client | `rpc/RpcChannel`, `rpc/RpcController` | one call at a time under `ioMutex_`, over one connection that is reused |
| Registry | `registry/RegistryServiceImpl` | an RPC service with a table under a mutex and an eviction thread |
| Service node | `rpc/RpcServiceNode` | registers, sends heartbeats from a thread, unregisters |
| Load balancing | `rpc/LoadBalanceChannel`, `rpc/LoadBalancer` | caches the registry's list, picks a node, fails over |
| The rest | `common/*`, `examples`, `benchmark`, `registry/registry_server.cpp` | logging, codes, programs |

A request goes client -> connection -> loop -> `RpcServer::onMessage` -> pool ->
`handleRequest` -> `TcpConnection::send` -> loop -> connection -> client. Nodes
and load-balancing clients are RPC clients of the registry, so a lost or
repeated RPC shows up as a late or repeated operation on the registry's table.

## Modules

| Module | Models | Run from |
|---|---|---|
| `ThreadPool` | the pool: start, submit, workers, growth and shrinking, callbacks, destruction | `MCThreadPool` |
| `TaskQueue` | what the pool promises: a bounded priority queue whose tasks run once | implemented by `ThreadPool` |
| `EventLoop` | one loop of an `EventLoopPool`, the threads that post to it, the owner that quits it | itself |
| `MessageQueue` | a first-in first-out queue, nothing lost or repeated | implemented by `EventLoop` and by `Framing` |
| `Buffer` | the byte buffer as functions on its vector and two indices | extended by `Framing` |
| `Framing` | `Codec` over `Buffer`: encode, a stream in pieces, the decode loops | `MCFraming` |
| `TcpServer` | the server's connections, loops, pollers and descriptors | itself |
| `TcpConnection` | one connection of a `TcpServer`: accept, send, write interest, close, and the RPC server's message callback | itself |
| `RpcChannel` | the client's `CallMethod` against `RpcServer` over a connection that may be cut | `MCRpcChannel` |
| `Registry` | `RegistryServiceImpl` and `RpcServiceNode` over unreliable calls | itself |
| `LoadBalanceChannel` | the channel's `CallMethod`, round robin and the hash ring | `MCLoadBalanceChannel` |
| `ThreadPoolProofs`, `EventLoopProofs`, `FramingProofs`, `TcpServerProofs`, `TcpConnectionProofs`, `RpcChannelProofs`, `RegistryProofs`, `LoadBalanceChannelProofs` | theorems about the module each is named after | TLAPS |

How the modules fit together: `EventLoop` shows what a functor posted to a loop
can rely on, and `TcpServer` and `TcpConnection` take their functors from there.
`TcpServer` follows many connections and descriptors without their bytes,
`TcpConnection` the bytes of one connection, whole responses being its unit,
`Framing` the bytes of messages. `RpcChannel` takes messages from `Framing` and
keeps only whether one is complete. `ThreadPool` shows that accepted tasks run;
`TcpConnection` and `RpcChannel` then use a pool that runs tasks in any order.

Definitions marked `Fault:` are variants of the definition after them with a
plausible bug. No specification uses them; each stands for a change of the code
that one of the properties has to notice.

### ThreadPool

State: the members of the class (`isRunning`, `taskQueue`, `taskQueueSize`,
`threads`, `currentThreadCount`, `idleThreadCount`, `callbackQueue`), the holder
of `taskQueueMutex_`, a position `pc` for each thread, what a thread carries
(`fn`, `taskFn`, `newThread`, `timed`), and history (`submitted`, `accepted`,
`runs`, `returned`, `called`).

`taskQueueMutex_` is explicit, because the destructor changes `isRunning_`
without it; so the look at the flag before a push or a pop (`EnqueueCheck`,
`WorkerCheck`) and the push or pop itself are two steps, between which the pool
may be stopped. Waiting is two steps, the look at the predicate (`WorkerLock`,
`EnqueueLock`) and the sleep (`WorkerBlock`, `EnqueueBlock`), both inside the
mutex as in `condition_variable::wait`. A notification moves every sleeper to
"woken". Where only one order is visible to others, steps are merged: taking the
mutex with the first look under it, and each short section of `threadSetMutex_`
into one step. Spurious wakeups only repeat the look at a predicate and are left
out. Thread ids are reused after a thread ends, as `std::thread::id` may be.
Clients call in between `Start` and the destructor only, as the lifetime of any
object demands; tasks that run in the pool may submit at any time.

### EventLoop

`Construct` to `Check` follow the loop's thread from the lambda in
`EventLoopPool::start` through `loop()`. `PollWakeup` ends `epoll_wait` because
the eventfd is readable, `PollOther` for any other event or the timeout.
`queueInLoop` and `queueWakeup` are the push and the write that follows it, on
another thread; `QueueFromLoop` is the same call on the loop thread, which writes
nothing while looping. The eventfd's counter has its limit `EventFdMax` (2^64 - 2
in the kernel): a write to a full one fails with EAGAIN, which `wakeup` ignores.

### RpcChannel

One client thread (the mutex is held for the whole call) takes calls in
sequence. `Begin` to `Decode` follow `CallMethod` and `waitResponse`; every way
out ends in `Finish`, which records what the caller sees when `done->Run()`, the
last statement on each path, tells it. `Expire` passes the deadline, which is set
once per attempt and looked at once per turn of the loop. A response is two pieces
on the wire, so that reads return half messages, and `ReadPart` is a read that
completes no piece; the buffer survives a reconnect, as in the code. The socket is
blocking and `sendAll` has no timeout: with `SendRoom` requests unread at the
server the calling thread stays in `::send` (`SendBlocks`) until the server reads
or the connection breaks. The server may answer in any order, answer with an error,
run the method and not answer (a method that throws), or vanish at any point with a
prefix of what it sent. Request bytes are never cut: a cut request never reaches a
handler. SIGPIPE is taken as ignored, which `TcpServer::start` sees to in servers.

### TcpConnection

One connection that the main loop accepts (`Accept`) and hands to an I/O loop of
its own, as with `setIoThreads`; with a single loop the same steps come in fewer
orders. `Poll` takes what epoll reports (level triggered), then `ReadData` or
`ReadEnd`, `handleWrite` and the functors follow in the order of
`Channel::handleEvent` and `EventLoop::loop`. `OnRequest`, `OnOther` (a message
that is no request is dropped) and `OnCodecError` are `RpcServer::onMessage`,
message by message. Tasks of the pool hold a `shared_ptr` from submission to
`TaskReleases`, and look at `state_` (`TaskRuns`) before they queue the send
(`TaskSends`); the functor finds the connection through a `weak_ptr`, hence
`Alive`. A response is two pieces, so that `write` can take a part of it. With the
pool's queue `full` the loop waits in `submit`, which gives up after a minute
(`ThreadPool.h:163`), and `onMessage` answers with an error. EPOLLIN stays in the
interest set while the channel is registered, so EPOLLHUP never comes without it
and the close branch of `handleEvent` is never taken; EPOLLERR only logs. EAGAIN
from a read that epoll announced changes nothing and is left out.

### Framing and Buffer

`Buffer` has one operator for each function of the class, over a record of
`buffer_`, `readerIndex_` and `writerIndex_`; `readFd` is given the bytes that
`readv` returned and puts what does not fit through `extrabuf` and `append`.
`Framing` encodes a message into a buffer of its own, puts the bytes on the wire,
and lets `Read` take any part of them that a `readv` can hold. `DecodeHalf`,
`DecodeThrows` and `Decode` are the three ways out of `tryDecode`. `reader`, chosen
in `Init`, says whose loop calls it: `RpcServer::onMessage` goes on after every
message (`Again`), `RpcChannel::waitResponse` also returns at the response it waits
for (`Return`) and leaves what is behind it to the read of a later call. Numbers are
big-endian digits to a `Base`, with widths as constants. After an exception the
bytes stay where they are and the next read is decoded from the same place, as in
the code. The header's `flags` and `reserved` are left out: nobody reads them.

### TcpServer

`Accept` is a turn of `handleNewConnection`: the kernel gives any free
descriptor, the connection enters the table and its functor the queue of the
next loop. Each loop goes round `Poll`, `Handle` or `Close` for each active
channel, `DispatchDone`, the functors (`connectEstablished`, `sendInLoop`),
`FunctorsDone`. `poller` holds, for each loop, `channels_` and the kernel's
interest list apart, and `updateChannel` decides by the first what it asks of the
second. `Release` drops a reference: if it was the last, `~TcpConnection` and
`~Socket` run on the thread that dropped it, be it a loop or a pool thread, and
the descriptor is free for the next `Accept` on any loop. "connected" stands for
`kDisconnecting` too. The functors are sets: their order is `EventLoop`'s
subject. That `handleEvent` goes on after the connection is destroyed is the
subject of `connection_alive`. In the pollers nothing but `updateChannel` is
reached: `removeChannel` is called by `~EventLoop` only.

### Registry

Each node runs `start` (registration, then heartbeats), `shutdown` with
`stopHeartbeat` and the join, and `unregisterSelf`, and may crash and restart. A
call to the registry has two attempts; each puts a copy of the request in flight,
and copies that are left when the call ends are `late`: they may be served at any
later time, or be lost. Instants are kept as ages, so the state space is finite
without a horizon. `Init` chooses whether a behaviour is `reliable`: then the
environment keeps its time, that is no losses, calls within `MaxDelay` and
threads on time.

### LoadBalanceChannel

The mutex is held for the whole call. `listed` (what `Discover` would answer) and
`alive` change at any step. A refresh may fail and keep the old list. The ring is
built as `setNodes` does it, later nodes overwriting earlier ones at the same
point; `hash64` is a constant function. A request that serializes to nothing
(`NoKey`) falls back to round robin.

## Runs

Numbers are distinct states. Properties in a *violation* run say what a comment
or document of the repository says; TLC's counterexample is the finding.

| Run | Shows | States |
|---|---|---|
| `threadpool` | `NoLostWakeup`, `NoLostRoom`: nobody sleeps on a queue that has what they wait for; `CallbacksComplete`: every callback has run once when the destructor returns; `CountersAgree`: the atomics match the threads; `NoStrandedTask` and `TaskEventuallyRuns` while threads come and go; `AtRestWhenDestroyed`: no worker is in the pool when the destructor returns, but for its last notification; `ImplementsTaskQueue` | 317 531 |
| `threadpool_shutdown` | *violation* of `DestructorReturns`: the stop flag and its notification fall between a worker's look and its sleep | |
| `eventloop` | `NoLostWakeup`, `NoLostQuit`, `ImplementsQueue`; `PostedRuns` and `QuitEndsLoop` without the poll timeout; `LocalRuns`: a functor queued on the loop thread runs once the loop goes round | 115 781 |
| `eventloop_quit` | *violation* of `DestructorJoins`: `loop()` overwrites an early quit | |
| `framing` | `StreamConserved`: no byte lost, repeated or moved; `RefusesOversizedOnly`: only what is over the limit is refused; `ImplementsQueue`: messages come out once, unchanged and in order; for the server `GrowthBounded`: the vector never grows past one incomplete message and one read, and `AllDecoded` | 38 566 |
| `server` | `PollerAgrees`: `channels_`, the kernel's list and the connections agree although descriptors are reused; `ActiveAlive`: what `epoll_wait` returned is alive when its turn comes; `PollerOwnThread`: only a loop's own thread changes its poller; `DescriptorReturned` | 100 245 |
| `connection` | `BytesInOrder`: responses leave whole, once and in order; `WriteArmed`: EPOLLOUT exactly while output is pending; `ShutdownWhole`: a shutdown cuts no response in two; `ResponseWritten`, `PeerCloseNoticed`, also behind a full pool | 187 088 |
| `connection_alive` | *violation* of `AliveInCallback`: the read callback drops the last reference and `handleEvent` goes on | |
| `rpcchannel` | `OwnResponse`, `SuccessReported`, `ExecutionsBounded`; `CallReturns`, unless `::send` stays blocked | 369 796 |
| `rpcchannel_mixing` | *violation* of `NoMixing`: half a response of a lost connection is completed with bytes of the next | |
| `registry` | `NoFalseEviction`, at the exact limit `timeout = interval + 2 * delay`; `OffStaysOff`, `GoneIsEvicted`, `StopJoins` | 59 608 |
| `balance` | `RetryElsewhere`: the second attempt goes to a node that has not failed; `FailoverTried`: it is made when there is one; `DoneOnce`: a closure runs once; `HashStable`: a refresh moves keys only from nodes that left or to nodes that came | 1 316 480 |

`TypeOK` of each module, `QueueBounded`, `RunsOnce`, `RunsInOrder`,
`ClosedForGood` and `DiscoverLive` are proved and no longer part of a run.

Three properties are refinements. `ImplementsTaskQueue` maps the queue, the tasks
in the hands of workers and the runs to `TaskQueue`: the threads, the mutex, the
wakeups and the counters all disappear, and what is left is that the most urgent
task starts next and ends once. The destructor clears `isRunning_` without the
mutex, so a thread that has just looked at it still pushes or pops: `TaskQueue` is
"closing" meanwhile, and since such a thread has the mutex, there is at most one.
`EventLoop!ImplementsQueue` maps what was posted and what was executed to
`MessageQueue`, `Framing!ImplementsQueue` the messages that were encoded and the
ones that were decoded.

### Where the code does less than its comments say

Four statements of the repository are refuted by a run of their own:

* `ThreadPool.cpp:121`, workers always leave their wait on shutdown
  (`threadpool_shutdown`);
* `docs/interview-qa.md:20`, the channel's callbacks capture `shared_from_this()`
  and keep the connection alive while one runs; they capture `this`
  (`TcpConnection.cpp:26`) (`connection_alive`);
* `EventLoopPool.cpp:17`, `quit()` and then `join` recover the thread
  (`eventloop_quit`);
* `RpcChannel.cpp:109`, new sequence numbers keep packets from mixing
  (`rpcchannel_mixing`).

Others show in the model as the exceptions the properties have to make:

* a thread that leaves before `CreateThread` inserts its id leaves a stale id
  behind (`ThreadPool.cpp:217`), a second way for the destructor to hang;
* a task that submits another and looked at `isRunning_` before the destructor
  cleared it pushes one that is accepted and never runs (`ThreadPool.cpp:79`):
  hence the phase "closing" of `TaskQueue` and the premise `isRunning` of
  `TaskEventuallyRuns`;
* the timeout of a call begins after its request was sent: `sendAll` on a blocking
  socket has none (`RpcChannel.cpp:60`): hence the premise of `CallReturns`, that
  the call is not blocked there for good;
* `waitResponse` leaves whole messages behind its own in the buffer
  (`RpcChannel.cpp:200`), to be dropped by a later call if there is one: hence
  `GrowthBounded` and `AllDecoded` are about the server;
* a worker erases itself from `threads_` and then notifies `exitCond_`, so that
  notification may come after the destructor's wait (`ThreadPool.cpp:156`): hence
  the positions `exited` and `exitedIdle` in `AtRestWhenDestroyed`;
* `shutdown()` with output pending leaves the socket open for writing, and
  `handleWrite` does not close it later (`TcpConnection.cpp:115`); a response
  queued before a shutdown finds the socket closed after it: hence the exception
  for a connection that was shut down in `ResponseWritten`;
* the decision that a worker is an extra one is made before its wait, so initial
  threads may time out too (`ThreadPool.cpp:102`); `NoStrandedTask` shows that no
  task suffers from it;
* a `Register` left in flight by a retry may undo an answered `Unregister`: hence
  the premise `clean` of `OffStaysOff`;
* a failed registration is logged and the node carries on (`RpcServiceNode.cpp:69`);
* `stop_` is set and notified without the mutex, so the heartbeat thread may sleep
  through its interval first (`RpcServiceNode.cpp:46`), although the comment at
  line 111 says it wakes at once: `StopJoins` shows that the interval is all it
  costs;
* `EventLoop.cpp:45` says that the callbacks that change connections and channels
  all run on the loop's thread; `~TcpConnection` runs where the last reference is
  dropped, also on a pool thread, and then looks into the poller of a running loop
  without a lock (`TcpConnection.cpp:33`). `PollerOwnThread` shows that it never
  changes anything there, because a connection has left the poller before its last
  reference can go;
* `encode` has no limit on the body, `tryDecode` has one (`Codec.cpp:81`): hence
  the exception in `RefusesOversizedOnly` and in `AllDecoded`;
* the one node left after a refresh is not tried even if it is healthy and not the
  one that failed (`LoadBalanceChannel.cpp:166`), although `docs/decisions.md:42`
  promises a retry on another node: hence the premise `Len(nodes) > 1` of
  `FailoverTried`.

### Bounds

* Thread pool: a cached pool with one initial and one extra worker, enough to
  grow, to shrink below the initial size and to grow again with a reused id, and
  for two workers to race for one task. The queue holds two of four tasks; two
  clients, and tasks that submit too, contend for room, so that several wait for
  one place. One of the tasks is more urgent, one has a callback. A fixed pool is
  the same code without the growth; the theorems cover both.
* Event loop: two posters race; the third functor falls into a later swap; the
  eventfd overflows at 2.
* RPC: two calls so that a response can be late for another call, one retry so
  that it can be late for another attempt, two connections so that the buffer
  outlives one. `MaxConns` bounds what the server accepts; the connects beyond it
  fail, which the code must handle anyway. A second unread request blocks the next
  `::send` (`SendRoom`). The mixing needs a third call and no retries.
* Framing: bytes are bits, numbers have two of them, the header has 7 bytes, a
  buffer starts with 3 and a body may have 2. Three of four messages: an empty
  body, one at the limit that looks like a header, one byte, and one over the
  limit. So the vector moves, grows and spills through `extrabuf`, reads end at
  every place of a message, and several messages come in one read. The theorems
  are for all sizes.
* Server: three connections over two descriptors and two loops, so that a
  descriptor is reused on the same loop and on the other one while a task still
  holds its former owner.
* Connection: two requests, so that one response is sent while part of another is
  buffered; another message at any time; refused bytes at most once, since the
  first already end decoding.
* Registry: one node (a node's eviction never depends on another node), with one
  late copy of each kind (`MaxLate`). Times are the smallest that keep the
  relations apart. The theorems are for any number of nodes and copies.
* Load balancing: three nodes, so that a list of two can still change. The
  counter wraps at 4, which equals 2^64 modulo 2 and modulo 3. Nodes 1 and 3 have
  a colliding virtual node; one key falls between points, one behind the last.

Symmetry is used in `rpcchannel_mixing` only, over calls, which nothing orders.
Where liveness is checked symmetry is not available. There the action constraint
`Canonical` takes its place: in `MCRpcChannel` the call that comes first is always
the same one, in `MCThreadPool` the first thread is, and the tasks are submitted in
one order, the one with the callback first and the urgent one second. The two tasks
after them are alike; what the fixed order leaves out is an urgent task that comes
first or last, which the theorems cover. No step that fairness asks for is cut off.
Deadlock is checked where the system never stops (registry, load balancing). The
other runs end when the tasks, functors, messages, connections or calls are used
up and the owner has finished.

### Fairness

* `ThreadPool`: weak fairness of each thread, whatever it does next. A thread that
  can run does; a timed wait ends. No fairness is put on clients submitting or on the
  destructor being called.
* `EventLoop`: weak fairness of the loop thread, of a poster between its push and
  its write, and of the owner between its steps. None for `PollOther`: nothing
  that is shown to happen waits for the timeout of 10 seconds.
* `RpcChannel`: weak fairness of the calling thread, and of its deadline. None
  for the server.
* `Framing`: weak fairness of reading what has arrived and of the decode loop.
  None for the sender.
* `TcpServer`: weak fairness of each loop, whatever it does next, and of tasks
  coming to an end. None for accepting or for readiness.
* `TcpConnection`: weak fairness of the loop thread, and of a peer that keeps the
  connection open reading from it. None for the pool or for requests.
* `Registry`: time passes, the eviction thread scans, the node's threads run, and
  a request in flight is served or lost in the end, as TCP guarantees for a
  connection that ends.
* `LoadBalanceChannel` is checked for safety only.

## Proofs

All theorems hold for every value of the constants that satisfies the named
assumptions of the modules. These say no more than that sets of threads and names
are disjoint, sizes are natural numbers, the eventfd holds at least one, a message
fits its header's fields (they are `uint64_t` and `uint32_t`), powers of the base
obey their recursion (the provers know no `^`), a node has at least one virtual
node, and the round-robin counter wraps at an even number, as at 2^64. Each
invariant was checked with TLC before it was proved. Every safety property that a
run checks has its theorem.

`ThreadPoolProofs`

* `WorkerWakeupNeverLost` (`NoLostWakeup`) and `RoomNeverLost` (`NoLostRoom`)
  follow from `QueueInv`. The properties are not inductive: that a worker goes to
  sleep on an empty queue only depends on nobody having pushed since it looked.
  `MutexInv` says that a thread at a locked position holds the mutex, so at most
  one does; `WaitInv` says that what a thread concluded from its predicate still
  holds while it has the mutex, up to `isRunning_`, which the destructor changes
  without it. That exception is why the same invariant fails for shutdown.
* `QueueStaysBounded` (`QueueBounded`) adds `CarriedInv` (a task on its way into
  the queue is carried by one caller and is not in it), so that a push adds a new
  element and the counter follows the cardinality.
* `AcceptedRunsOnce` (`RunsOnce`) and `PoolImplementsTaskQueue`
  (`ImplementsTaskQueue`) need to know where a task is: `BusyInv` (a worker holds
  a task exactly while it is at a position inside one), `AloneInv` (no two workers
  hold the same) and `PlaceInv` (an accepted task is queued, held or has run once).
  The refinement also needs that a thread past its check has the mutex (`MutexInv`),
  so that the operation it completes after a stop is the last (`LastOperation`).
* `WorkersAtRest` (`AtRestWhenDestroyed`) needs the life of the threads,
  `LifeInv`: a live thread is in `threads_` or its creator is about to insert it
  (`RegisteredInv`); nobody submits before `Start` returns (`StartInv`), and no
  client is in the pool once the destructor runs (`StopInv`). A creator that has
  not inserted yet could then only be a worker that is alive itself, and only one
  thread at a time creates another, under the mutex; so an empty `threads_` means
  no live worker.
* `CountersCorrect` (`CountersAgree`) and `TaskNeverStranded` (`NoStrandedTask`):
  every step creates one thread, lets one leave, moves one into or out of a task,
  or leaves all as they are, and the counters follow the cardinality in each case
  (`CountInv`). A task then cannot be stranded, because a submitter that creates
  no thread has read counters that say there is one (cached mode), or the threads
  that `Start` made never leave (`FixedInv`, fixed mode).
* `CallbacksAllRun` (`CallbacksComplete`): a callback is pushed once, when its
  task returns, and is pending or executed from then on (`CallbackInv`); by
  `WorkersAtRest` no worker pushes one after the destructor's last pass.
* `TypeCorrect` (`TypeOK`).

`EventLoopProofs`

* `WakeupNeverLost` (`NoLostWakeup`) and `QuitNeverLost` (`NoLostQuit`) rest on
  `WakeupReadable`: after `wakeup` the eventfd is readable whether the write
  succeeded or found it full. Between the drain and the swap the loop is not at
  `epoll_wait`, and the swap empties what the drained wakeups stood for.
* `OrderPreserved` (`RunsInOrder`): pushes extend the concatenation
  `executed \o functors \o pendingFunctors` at its end; swap and run move its cuts.
  `LoopImplementsQueue` (`ImplementsQueue`) follows from it.
* `TypeCorrect` (`TypeOK`).

`FramingProofs`

* `StreamIsConserved` (`StreamConserved`): each operation of the buffer is shown
  to do to the unread bytes what its name says (`append` adds at the end,
  `retrieve` drops from the front, moving and growing change nothing) and to keep
  the indices in order; the bytes consumed, unread and inbound then always make
  the stream.
* `GrowthIsBounded` (`GrowthBounded`): when the decode loop comes back to the poll
  of the server less than a message is unread, and one read adds at most what the vector has
  room for and `extrabuf`.
* `OnlyOversizedRefused` (`RefusesOversizedOnly`) and `DecoderImplementsQueue`
  (`ImplementsQueue`). First, `tryDecode` undoes `encode` (`HeaderRead`,
  `BodyRead`): the fields of a header are found where they were put
  (`EncodedLayout`), and `FromBytes` undoes `ToBytes` (`BytesBack`). The latter is
  an induction over the bytes of a number, done without an induction rule: the
  function of all quotients satisfies the recursion of `FromBytes`, and two
  functions that satisfy it cannot differ at a least place (`OneRecursion`).
  Second, the decoder never loses its place. `FrameInv` says that there are cuts
  of the stream, one at the end of each message, and that what was consumed ends
  at one of them. With `StreamConserved` the unread bytes then begin with the next
  message as far as it has arrived (`FrontUnread`), so a whole header is that
  message's own, is refused for its size or not at all, and `tryDecode` moves to
  the next cut. Without the cuts a body that looks like a header could not be told
  from one.
* `FramingTypes` (`TypeOK`).

`TcpServerProofs`: `ServerTypes` (`TypeOK`), `PollersAgree` (`PollerAgrees`),
`ActiveChannelsAlive` (`ActiveAlive`), `PollersHaveOneThread` (`PollerOwnThread`).
That the lists agree is not inductive: when a descriptor is closed, no other
connection may have it (`Distinct`); what is destroyed must have left the poller
and have no reference in a table, task or functor (`LifeInv`, `FunctorInv`); a
loop has only its own channels at hand (`ActiveInv`); and an interest must be
known to the poller (`KnownInv`), or a MOD would be an ADD.

`TcpConnectionProofs`: `TypeCorrect`, `StreamInOrder` (`BytesInOrder`),
`WriteAlwaysArmed` (`WriteArmed`), `ClosedStaysClosed` (`ClosedForGood`),
`ShutdownCutsNothing` (`ShutdownWhole`). `EarlyInv` says that nothing is
registered, read or queued before `connectEstablished`; the rest of the argument
is that output is written directly only when none is buffered.

`RpcChannelProofs`: `ChannelTypes` (`TypeOK`), `ResponseIsOwn` (`OwnResponse`),
`SuccessIsReported` (`SuccessReported`), `ExecutionsAreBounded`
(`ExecutionsBounded`), for any number of calls, retries and connections. The
invariant follows the sequence numbers: a request or response with the number of
the current attempt is of the current call (`SeqInv`, `StreamInv`), successes come
from methods that ran, each number is in one place on the server's side
(`UniqueInv`), and executions plus outstanding requests do not exceed the attempts
made (`CountInv`). `WholeInv` is what the mixing of connections leaves true: the
first half of a response to the *current* attempt is followed by its second half or
by the end of the connection. So a message put together from two connections never
carries the number of the current attempt, and `OwnResponse` holds although
`NoMixing` does not.

`RegistryProofs`: `RegistryTypes` (`TypeOK`), `UnregisteredStaysOff`
(`OffStaysOff`), `TimeoutSuffices` (`NoFalseEviction`), `DiscoverAnswersLive`
(`DiscoverLive`). `CleanInv` says that a node whose `Register` was answered at the
first attempt has none in flight; `QuietInv` the same of all requests while the
environment keeps its time; `YoungInv` bounds the age of the entry by the position
of the heartbeat thread and its timer: at most `MaxDelay` after a heartbeat,
`MaxDelay + Interval` at the end of the pause, and one more `MaxDelay` until the
next is served. The sum is the limit that `NoFalseEviction` names.

`LoadBalanceChannelProofs`: `BalanceTypes` (`TypeOK`), `RetryGoesElsewhere`
(`RetryElsewhere`), `FailoverIsTried` (`FailoverTried`), `ClosureRunsOnce`
(`DoneOnce`), `KeysStay` (`HashStable`, an action property), for any nodes, ring,
keys and lists. `TriedInv` says which nodes a call has been to at each of its
places. The retry needs that the loop over the round-robin positions finds a second
node (`TwoPositions`): two consecutive values of the counter differ modulo two
nodes or more, except where it wraps, and there either the values before and behind
differ or the next two do; with two nodes this takes an even modulus. Keys stay
because the point that `selectNode` finds is the least one at or behind the key's
hash, and its owner the last of the list that has it: if the nodes that two lists
select for a key are both in both lists, they are the same (`SameSelection`). Least
and greatest elements come from the well-foundedness of `<`.

Model-checked only: the liveness properties, since fairness and `ENABLED` are
beyond the prover. They are `TaskEventuallyRuns`, `PostedRuns`, `LocalRuns`,
`QuitEndsLoop`, `AllDecoded`, `DescriptorReturned`, `ResponseWritten`,
`PeerCloseNoticed`, `CallReturns`, `GoneIsEvicted` and `StopJoins`.

## Not modelled

* Destruction of an `RpcServer` or `TcpServer`: the programs run their servers
  until the process ends, the tests destroy them after the loop has stopped and
  with no call in progress. Both destructors are defaulted, and no line says what
  they promise to connections that other threads still hold.
* `EventLoop::removeChannel`, `Channel::remove`: only `~EventLoop` gets there.
* The contents of bodies and their serialization by protobuf, the lookup of
  services and methods beyond found and not found, error texts.
* Socket options, addresses, `listen` and `connect` beyond success and failure.
* Logging: `Logger` writes lines under a mutex and nothing depends on it.
* Cancellation: `StartCancel` and `NotifyOnCancel` set a flag and run a callback
  that `CallMethod` never looks at.
* The pool's setters, which return at once while it runs: their values are
  constants. The values of the futures.
* Several services in one registry: independent entries of one table under one
  mutex; one is modelled. `liveNodeCount` counts the entries that are not expired
  and changes nothing.
* The example programs and the benchmark, which only call what is modelled.
