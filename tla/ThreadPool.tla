------------------------------ MODULE ThreadPool ------------------------------
(***************************************************************************)
(* The priority thread pool of src/thread/ThreadPool.cpp: worker threads,  *)
(* callers of enqueueTask (client threads, and tasks that submit further   *)
(* tasks from a worker), and the owner that starts and destroys the pool.  *)
(*                                                                         *)
(* A step is a stretch of code between two points where another thread can *)
(* make a difference.  taskQueueMutex_ is explicit because isRunning_ is   *)
(* cleared without it; a critical section of threadSetMutex_ is one step.  *)
(* Waiting on a condition variable is a value of pc, notify_all moves every*)
(* waiter to the matching "woken" value, and evaluating a wait predicate   *)
(* and going to sleep are two steps.                                       *)
(***************************************************************************)
EXTENDS Integers, FiniteSets, Sequences

CONSTANTS
    Workers,            \* thread ids (std::thread::id, reused after an exit)
    Clients,            \* threads outside the pool that submit tasks
    Owner,              \* the thread that runs Start and ~ThreadPool
    Tasks,              \* the tasks that may ever be submitted
    CallbackTasks,      \* those submitted through submitWithCallback
    Priority,           \* PrioritizedTask::priority, smaller is more urgent
    Cached,             \* mode_ = PoolMode::kCached
    initThreadSize,
    maxThreadCount,
    maxTaskQueueSize,
    None                \* no thread, no task

Threads == Workers \cup Clients \cup {Owner}
Callers == Workers \cup Clients

ASSUME ThreadAssumption ==
    /\ Workers \cap Clients = {}
    /\ Owner \notin Callers
    /\ None \notin Threads \cup Tasks

ASSUME ConfigAssumption ==
    /\ CallbackTasks \subseteq Tasks
    /\ Priority \in [Tasks -> {0, 1, 2}]
    /\ Cached \in BOOLEAN
    /\ initThreadSize \in Nat
    /\ maxThreadCount \in Nat
    /\ maxTaskQueueSize \in Nat

VARIABLES
    isRunning, taskQueue, taskQueueSize, mutex,
    threads, currentThreadCount, idleThreadCount, callbackQueue,
    pc,                 \* where each thread is
    startCalls,         \* CreateThread calls made by Start so far
    timed,              \* worker waits with wait_for rather than wait
    taskFn,             \* the task a worker has popped and runs
    fn,                 \* the task a caller of enqueueTask carries
    newThread,          \* the id CreateThread has yet to insert into threads_
    submitted,          \* tasks some caller has passed to enqueueTask
    accepted,           \* tasks enqueueTask has pushed
    runs,               \* times each task has been run to its end
    returned,           \* callback tasks that returned without throwing
    called              \* times each task's callback has been executed

vars == <<isRunning, taskQueue, taskQueueSize, mutex, threads,
          currentThreadCount, idleThreadCount, callbackQueue, pc, startCalls,
          timed, taskFn, fn, newThread, submitted, accepted, runs, returned,
          called>>

counters == <<threads, currentThreadCount, idleThreadCount>>
queueVars == <<taskQueue, taskQueueSize, accepted>>
workVars == <<callbackQueue, taskFn, runs, returned, called>>
callVars == <<fn, newThread, submitted>>

OwnerPC == {"new", "starting", "up", "notify", "join", "joinWait",
            "joinWoken", "drain", "gone"}
EnqueuePC == {"enqLock", "enqBlock", "enqWait", "enqWoken", "enqTimedOut",
              "enqGate", "enqPush"}
ExitPC == {"exit", "quitIdle", "exited", "exitedIdle"}
WorkerPC == {"none", "top", "lock", "block", "wait", "woken", "timedOut",
             "gate", "pop", "popped", "running", "insert"}
                \cup EnqueuePC \cup ExitPC
PC == OwnerPC \cup WorkerPC \cup {"idle"}

Init ==
    /\ isRunning = FALSE
    /\ taskQueue = {} /\ taskQueueSize = 0
    /\ mutex = None
    /\ threads = {} /\ currentThreadCount = 0 /\ idleThreadCount = 0
    /\ callbackQueue = <<>>
    /\ pc = [t \in Threads |-> IF t = Owner THEN "new"
                               ELSE IF t \in Clients THEN "idle" ELSE "none"]
    /\ startCalls = 0
    /\ timed = [w \in Workers |-> FALSE]
    /\ taskFn = [w \in Workers |-> None]
    /\ fn = [t \in Callers |-> None]
    /\ newThread = [t \in Threads |-> None]
    /\ submitted = {} /\ accepted = {}
    /\ runs = [k \in Tasks |-> 0]
    /\ returned = {}
    /\ called = [k \in Tasks |-> 0]

-----------------------------------------------------------------------------
(* Condition variables and thread creation.                                *)

\* Fault: notify_one in place of notify_all.
NotifyOne(p, from, to) ==
    LET waiting == {t \in Threads : p[t] = from}
    IN  IF waiting = {} THEN p
        ELSE [p EXCEPT ![CHOOSE t \in waiting : TRUE] = to]

\* Fault: the notification is forgotten.
NotifyNobody(p, from, to) == p

\* notify_all on the condition variable whose waiters are at `from`.
NotifyAll(p, from, to) == [t \in Threads |-> IF p[t] = from THEN to ELSE p[t]]

\* CreateThread up to std::thread t(...): the counters move under
\* threadSetMutex_, then the new thread runs before its id is inserted.
CreateThread(p, t) ==
    /\ currentThreadCount < maxThreadCount
    /\ currentThreadCount' = currentThreadCount + 1
    /\ idleThreadCount' = idleThreadCount + 1
    /\ \E w \in Workers :
          /\ p[w] = "none"
          /\ newThread' = [newThread EXCEPT ![t] = w]
          /\ pc' = [p EXCEPT ![t] = "insert", ![w] = "top"]

\* Where a caller goes on when enqueueTask returns: a client is free again, a
\* worker is back in the task it runs.
Resume(t) == IF t \in Clients THEN "idle" ELSE "running"

\* The end of CreateThread: the id is inserted, then the caller returns.
RegisterThread(t) ==
    /\ pc[t] = "insert"
    /\ threads' = threads \cup {newThread[t]}
    /\ newThread' = [newThread EXCEPT ![t] = None]
    /\ IF t = Owner
       THEN /\ pc' = [pc EXCEPT ![t] = "starting"]
            /\ UNCHANGED <<mutex, fn>>
       ELSE /\ pc' = [pc EXCEPT ![t] = Resume(t)]
            /\ mutex' = None
            /\ fn' = [fn EXCEPT ![t] = None]
    /\ UNCHANGED <<isRunning, queueVars, currentThreadCount, idleThreadCount,
                   startCalls, timed, workVars, submitted>>

-----------------------------------------------------------------------------
(* Start.                                                                  *)

Start ==
    /\ pc[Owner] = "new"
    /\ isRunning' = TRUE
    /\ pc' = [pc EXCEPT ![Owner] = "starting"]
    /\ UNCHANGED <<queueVars, mutex, counters, startCalls, timed, workVars,
                   callVars>>

\* One turn of the loop over initThreadSize_; at the limit CreateThread
\* returns without creating anything.
StartThread ==
    /\ pc[Owner] = "starting"
    /\ startCalls < initThreadSize
    /\ startCalls' = startCalls + 1
    /\ \/ CreateThread(pc, Owner)
       \/ /\ currentThreadCount >= maxThreadCount
          /\ UNCHANGED <<currentThreadCount, idleThreadCount, newThread, pc>>
    /\ UNCHANGED <<isRunning, queueVars, mutex, threads, timed, workVars, fn,
                   submitted>>

StartReturn ==
    /\ pc[Owner] = "starting"
    /\ startCalls = initThreadSize
    /\ pc' = [pc EXCEPT ![Owner] = "up"]
    /\ UNCHANGED <<isRunning, queueVars, mutex, counters, startCalls, timed,
                   workVars, callVars>>

-----------------------------------------------------------------------------
(* enqueueTask, called by clients and by running tasks.                    *)

\* submit, submitWithPriority, trySubmitFor, submitWithCallback.  A client
\* may not call into a pool that is being destroyed; a task may.
Submit(t, k) ==
    /\ \/ t \in Clients /\ pc[t] = "idle" /\ pc[Owner] = "up"
       \/ t \in Workers /\ pc[t] = "running"
    /\ k \notin submitted
    /\ submitted' = submitted \cup {k}
    /\ fn' = [fn EXCEPT ![t] = k]
    /\ pc' = [pc EXCEPT ![t] = "enqLock"]
    /\ UNCHANGED <<isRunning, queueVars, mutex, counters, startCalls, timed,
                   workVars, newThread>>

\* The predicate of notFull_.wait_for.
HasRoom == taskQueueSize < maxTaskQueueSize \/ ~isRunning

\* Take taskQueueMutex_ and evaluate the predicate of notFull_.wait_for.  A
\* caller whose time is up and that finds it false returns false.
EnqueueLock(t) ==
    /\ pc[t] \in {"enqLock", "enqWoken", "enqTimedOut"}
    /\ mutex = None
    /\ \/ /\ HasRoom
          /\ mutex' = t
          /\ pc' = [pc EXCEPT ![t] = "enqGate"]
          /\ UNCHANGED fn
       \/ /\ ~HasRoom
          /\ pc[t] # "enqTimedOut"
          /\ mutex' = t
          /\ pc' = [pc EXCEPT ![t] = "enqBlock"]
          /\ UNCHANGED fn
       \/ /\ ~HasRoom
          /\ pc[t] = "enqTimedOut"
          /\ pc' = [pc EXCEPT ![t] = Resume(t)]
          /\ fn' = [fn EXCEPT ![t] = None]
          /\ UNCHANGED mutex
    /\ UNCHANGED <<isRunning, queueVars, counters, startCalls, timed, workVars,
                   newThread, submitted>>

EnqueueBlock(t) ==
    /\ pc[t] = "enqBlock"
    /\ mutex' = None
    /\ pc' = [pc EXCEPT ![t] = "enqWait"]
    /\ UNCHANGED <<isRunning, queueVars, counters, startCalls, timed, workVars,
                   callVars>>

EnqueueTimeout(t) ==
    /\ pc[t] = "enqWait"
    /\ pc' = [pc EXCEPT ![t] = "enqTimedOut"]
    /\ UNCHANGED <<isRunning, queueVars, mutex, counters, startCalls, timed,
                   workVars, callVars>>

\* The second look at isRunning_, which the destructor clears without the
\* mutex: enqueueTask returns false, or is committed to the push.
EnqueueCheck(t) ==
    /\ pc[t] = "enqGate"
    /\ \/ /\ isRunning
          /\ pc' = [pc EXCEPT ![t] = "enqPush"]
          /\ UNCHANGED <<mutex, fn>>
       \/ /\ ~isRunning
          /\ mutex' = None
          /\ pc' = [pc EXCEPT ![t] = Resume(t)]
          /\ fn' = [fn EXCEPT ![t] = None]
    /\ UNCHANGED <<isRunning, queueVars, counters, startCalls, timed, workVars,
                   newThread, submitted>>

\* In cached mode the pool grows when more tasks are queued than threads idle.
NeedsThread ==
    /\ Cached
    /\ taskQueueSize + 1 > idleThreadCount
    /\ currentThreadCount < maxThreadCount

\* Push, wake the workers, and, when the pool grows, create a thread while
\* still holding taskQueueMutex_.
EnqueuePush(t) ==
    /\ pc[t] = "enqPush"
    /\ taskQueue' = taskQueue \cup {fn[t]}
    /\ taskQueueSize' = taskQueueSize + 1
    /\ accepted' = accepted \cup {fn[t]}
    /\ LET woken == NotifyAll(pc, "wait", "woken")
       IN  \/ /\ NeedsThread
              /\ CreateThread(woken, t)
              /\ UNCHANGED <<mutex, fn>>
           \/ /\ ~NeedsThread
              /\ mutex' = None
              /\ pc' = [woken EXCEPT ![t] = Resume(t)]
              /\ fn' = [fn EXCEPT ![t] = None]
              /\ UNCHANGED <<currentThreadCount, idleThreadCount, newThread>>
    /\ UNCHANGED <<isRunning, threads, startCalls, timed, workVars, submitted>>

-----------------------------------------------------------------------------
(* WorkerThread.                                                           *)

LoopTop(w) ==
    /\ pc[w] = "top"
    /\ pc' = [pc EXCEPT ![w] = IF isRunning THEN "lock" ELSE "exit"]
    /\ UNCHANGED <<isRunning, queueVars, mutex, counters, startCalls, timed,
                   workVars, callVars>>

\* The predicate of notEmpty_.wait and notEmpty_.wait_for.
HasWork == taskQueueSize > 0 \/ ~isRunning

\* waitForWork gives a worker a 60s limit when the pool has extra threads.
ExtraThread == Cached /\ currentThreadCount > initThreadSize

\* Take taskQueueMutex_, on entry or after a wait, and evaluate the predicate.
WorkerLock(w) ==
    /\ pc[w] \in {"lock", "woken", "timedOut"}
    /\ mutex = None
    /\ mutex' = w
    /\ \/ /\ HasWork
          /\ pc' = [pc EXCEPT ![w] = "gate"]
          /\ UNCHANGED timed
       \/ /\ ~HasWork
          /\ pc[w] = "timedOut"
          /\ pc' = [pc EXCEPT ![w] = "quitIdle"]
          /\ UNCHANGED timed
       \/ /\ ~HasWork
          /\ pc[w] # "timedOut"
          /\ pc' = [pc EXCEPT ![w] = "block"]
          /\ timed' = [timed EXCEPT
                          ![w] = IF pc[w] = "lock" THEN ExtraThread ELSE @]
    /\ UNCHANGED <<isRunning, queueVars, counters, startCalls, workVars,
                   callVars>>

WorkerBlock(w) ==
    /\ pc[w] = "block"
    /\ mutex' = None
    /\ pc' = [pc EXCEPT ![w] = "wait"]
    /\ UNCHANGED <<isRunning, queueVars, counters, startCalls, timed, workVars,
                   callVars>>

\* 60 seconds without work.
WorkerTimeout(w) ==
    /\ pc[w] = "wait"
    /\ timed[w]
    /\ pc' = [pc EXCEPT ![w] = "timedOut"]
    /\ UNCHANGED <<isRunning, queueVars, mutex, counters, startCalls, timed,
                   workVars, callVars>>

\* The look at isRunning_ before the pop: a stopped pool's worker leaves the
\* loop, releasing taskQueueMutex_.
WorkerCheck(w) ==
    /\ pc[w] = "gate"
    /\ \/ /\ isRunning
          /\ pc' = [pc EXCEPT ![w] = "pop"]
          /\ UNCHANGED mutex
       \/ /\ ~isRunning
          /\ pc' = [pc EXCEPT ![w] = "exit"]
          /\ mutex' = None
    /\ UNCHANGED <<isRunning, queueVars, counters, startCalls, timed, workVars,
                   callVars>>

\* Fault: the tasks are served in any order.
AnyTask(k) == k \in taskQueue

\* taskQueue_.top(): no queued task is more urgent.
IsTop(k) ==
    /\ k \in taskQueue
    /\ \A j \in taskQueue : Priority[k] <= Priority[j]

Pop(k) == taskQueue \ {k}

PopTask(w) ==
    /\ pc[w] = "pop"
    /\ \E k \in Tasks :
          /\ IsTop(k)
          /\ taskFn' = [taskFn EXCEPT ![w] = k]
          /\ taskQueue' = Pop(k)
    /\ taskQueueSize' = taskQueueSize - 1
    /\ idleThreadCount' = idleThreadCount - 1
    /\ mutex' = None
    /\ pc' = [pc EXCEPT ![w] = "popped"]
    /\ UNCHANGED <<isRunning, accepted, threads, currentThreadCount, startCalls,
                   timed, callbackQueue, runs, returned, called, callVars>>

\* notFull_.notify_all() after the mutex is released.
NotifyNotFull(w) ==
    /\ pc[w] = "popped"
    /\ pc' = [NotifyAll(pc, "enqWait", "enqWoken") EXCEPT ![w] = "running"]
    /\ UNCHANGED <<isRunning, queueVars, mutex, counters, startCalls, timed,
                   workVars, callVars>>

HasCallback(k) == k \in CallbackTasks

\* The task returns, pushing its callback if it has one, or throws, and the
\* worker counts itself idle again.
FinishTask(w) ==
    /\ pc[w] = "running"
    /\ LET k == taskFn[w]
       IN  /\ runs' = [runs EXCEPT ![k] = @ + 1]
           /\ \/ UNCHANGED <<callbackQueue, returned>>
              \/ /\ HasCallback(k)
                 /\ callbackQueue' = Append(callbackQueue, k)
                 /\ returned' = returned \cup {k}
    /\ taskFn' = [taskFn EXCEPT ![w] = None]
    /\ idleThreadCount' = idleThreadCount + 1
    /\ pc' = [pc EXCEPT ![w] = "top"]
    /\ UNCHANGED <<isRunning, queueVars, mutex, threads, currentThreadCount,
                   startCalls, timed, called, callVars>>

\* Fault: the idle counter is not decremented.
EraseKeepsIdle(w) ==
    /\ threads' = threads \ {w}
    /\ currentThreadCount' = currentThreadCount - 1
    /\ UNCHANGED idleThreadCount

EraseThread(w) ==
    /\ threads' = threads \ {w}
    /\ currentThreadCount' = currentThreadCount - 1
    /\ idleThreadCount' = idleThreadCount - 1

\* threadExit: a thread whose id is not registered leaves no trace.
threadExit(w) ==
    /\ pc[w] \in {"exit", "quitIdle"}
    /\ \/ w \in threads /\ EraseThread(w)
       \/ w \notin threads /\ UNCHANGED counters
    /\ pc' = [pc EXCEPT ![w] = IF @ = "exit" THEN "exited" ELSE "exitedIdle"]
    /\ UNCHANGED <<isRunning, queueVars, mutex, startCalls, timed, workVars,
                   callVars>>

\* exitCond_.notify_all(), the thread's last access to the pool; the one that
\* timed out still holds taskQueueMutex_ and releases it by returning.
WorkerReturn(w) ==
    /\ pc[w] \in {"exited", "exitedIdle"}
    /\ mutex' = IF pc[w] = "exitedIdle" THEN None ELSE mutex
    /\ pc' = [NotifyAll(pc, "joinWait", "joinWoken") EXCEPT ![w] = "none"]
    /\ UNCHANGED <<isRunning, queueVars, counters, startCalls, timed, workVars,
                   callVars>>

-----------------------------------------------------------------------------
(* runPendingCallbacks and ~ThreadPool.                                    *)

\* Fault: the callbacks are swapped out and dropped.
dropPendingCallbacks ==
    /\ callbackQueue' = <<>>
    /\ UNCHANGED called

\* The owner swaps the callback queue out and runs all of it.
runPendingCallbacks ==
    /\ callbackQueue' = <<>>
    /\ called' = [k \in Tasks |->
                    called[k] + Cardinality({i \in DOMAIN callbackQueue :
                                                callbackQueue[i] = k})]

RunCallbacks ==
    /\ pc[Owner] = "up"
    /\ callbackQueue # <<>>
    /\ runPendingCallbacks
    /\ UNCHANGED <<isRunning, queueVars, mutex, counters, pc, startCalls, timed,
                   taskFn, runs, returned, callVars>>

\* The destructor starts once no client is inside a call.
DestroyBegin ==
    /\ pc[Owner] = "up"
    /\ \A c \in Clients : pc[c] = "idle"
    /\ isRunning' = FALSE
    /\ pc' = [pc EXCEPT ![Owner] = "notify"]
    /\ UNCHANGED <<queueVars, mutex, counters, startCalls, timed, workVars,
                   callVars>>

\* notify_all on notEmpty_ and notFull_, without taskQueueMutex_.
DestroyNotify ==
    /\ pc[Owner] = "notify"
    /\ pc' = [NotifyAll(NotifyAll(pc, "wait", "woken"), "enqWait", "enqWoken")
                 EXCEPT ![Owner] = "join"]
    /\ UNCHANGED <<isRunning, queueVars, mutex, counters, startCalls, timed,
                   workVars, callVars>>

\* Fault: exitCond_.wait without its predicate.
AnyExit == threads = {} \/ pc[Owner] = "joinWoken"

\* The predicate of exitCond_.wait.
AllExited == threads = {}

\* exitCond_.wait until threads_ is empty; the predicate and the block are one
\* step because threads_ only changes under the same mutex.
DestroyJoin ==
    /\ pc[Owner] \in {"join", "joinWoken"}
    /\ pc' = [pc EXCEPT ![Owner] = IF AllExited THEN "drain" ELSE "joinWait"]
    /\ UNCHANGED <<isRunning, queueVars, mutex, counters, startCalls, timed,
                   workVars, callVars>>

DestroyDrain ==
    /\ pc[Owner] = "drain"
    /\ runPendingCallbacks
    /\ pc' = [pc EXCEPT ![Owner] = "gone"]
    /\ UNCHANGED <<isRunning, queueVars, mutex, counters, startCalls, timed,
                   taskFn, runs, returned, callVars>>

-----------------------------------------------------------------------------

CallerStep(t) ==
    \/ EnqueueLock(t) \/ EnqueueBlock(t) \/ EnqueueTimeout(t)
    \/ EnqueueCheck(t) \/ EnqueuePush(t) \/ RegisterThread(t)

WorkerStep(w) ==
    \/ LoopTop(w) \/ WorkerLock(w) \/ WorkerBlock(w) \/ WorkerTimeout(w)
    \/ WorkerCheck(w) \/ PopTask(w) \/ NotifyNotFull(w) \/ FinishTask(w)
    \/ threadExit(w) \/ WorkerReturn(w)

OwnerStep ==
    \/ Start \/ StartThread \/ RegisterThread(Owner) \/ StartReturn
    \/ DestroyNotify \/ DestroyJoin \/ DestroyDrain

Next ==
    \/ \E t \in Callers : CallerStep(t) \/ \E k \in Tasks : Submit(t, k)
    \/ \E w \in Workers : WorkerStep(w)
    \/ OwnerStep \/ RunCallbacks \/ DestroyBegin

Spec == Init /\ [][Next]_vars

\* Every thread that can run is run; that the owner destroys the pool, and
\* that clients submit, is their choice.
Fairness ==
    /\ \A c \in Clients : WF_vars(CallerStep(c))
    /\ \A w \in Workers : WF_vars(CallerStep(w) \/ WorkerStep(w))
    /\ WF_vars(OwnerStep)

FairSpec == Spec /\ Fairness

-----------------------------------------------------------------------------
(* Properties.                                                             *)

\* The values the pool's members and each thread's locals range over.
TypeOK ==
    /\ isRunning \in BOOLEAN
    /\ taskQueue \subseteq Tasks
    /\ taskQueueSize \in Nat
    /\ mutex \in Callers \cup {None}
    /\ threads \subseteq Workers
    /\ currentThreadCount \in Int /\ idleThreadCount \in Int
    /\ callbackQueue \in Seq(CallbackTasks)
    /\ pc \in [Threads -> PC]
    /\ startCalls \in 0..initThreadSize
    /\ timed \in [Workers -> BOOLEAN]
    /\ taskFn \in [Workers -> Tasks \cup {None}]
    /\ fn \in [Callers -> Tasks \cup {None}]
    /\ newThread \in [Threads -> Workers \cup {None}]
    /\ submitted \subseteq Tasks /\ accepted \subseteq submitted
    /\ runs \in [Tasks -> Nat] /\ called \in [Tasks -> Nat]
    /\ returned \subseteq CallbackTasks

\* Threads counted by currentThreadCount_, and those of them inside a task.
Gone(w) == pc[w] \in {"none", "exited", "exitedIdle"}
Busy(w) == pc[w] \in {"popped", "running", "insert"} \cup EnqueuePC

\* No wakeup of a worker is lost while the pool runs: notEmpty_.notify_all
\* leaves nobody asleep, or about to sleep, on a queue that holds a task.
NoLostWakeup ==
    \A w \in Workers : pc[w] \in {"block", "wait"} => taskQueueSize = 0

\* No wakeup of a submitter is lost: one that sleeps on notFull_ although the
\* queue has room will be notified by a worker between its unlock and its
\* notify_all, or by the destructor.
NoLostRoom ==
    (\E t \in Callers : pc[t] = "enqWait") /\ isRunning
        => \/ taskQueueSize >= maxTaskQueueSize
           \/ \E w \in Workers : pc[w] = "popped"

\* taskQueueSize_, the counter the predicates read, is the size of taskQueue_
\* and never exceeds maxTaskQueueSize_, whatever submitters race.
QueueBounded ==
    /\ taskQueueSize = Cardinality(taskQueue)
    /\ taskQueueSize <= maxTaskQueueSize

\* While the pool runs, the atomics the growth and exit decisions read agree
\* with the threads: they count the live threads and those not in a task, so
\* neither underflows and the pool stays within maxThreadCount_.
CountersAgree ==
    isRunning =>
        /\ currentThreadCount = Cardinality({w \in Workers : ~Gone(w)})
        /\ idleThreadCount =
               Cardinality({w \in Workers : ~Gone(w) /\ ~Busy(w)})
        /\ currentThreadCount <= maxThreadCount

\* A queued task always has a thread that will come for it: timed-out workers
\* leaving and a submitter deciding not to create a thread never combine to
\* strand it.
NoStrandedTask ==
    isRunning /\ taskQueueSize > 0 /\ initThreadSize > 0 /\ maxThreadCount > 0
        => \E w \in Workers : pc[w] \notin ExitPC \cup {"none"}

\* A task is queued, or in the hands of one worker, or has run once, and only
\* tasks whose submission was accepted ever run.
RunsOnce ==
    \A k \in Tasks :
        LET holders == {w \in Workers : taskFn[w] = k}
            queued == IF k \in taskQueue THEN 1 ELSE 0
        IN  queued + Cardinality(holders) + runs[k]
                = IF k \in accepted THEN 1 ELSE 0

\* The pool with its workers, submitters and wakeups is the bounded priority
\* queue of TaskQueue: the most urgent task is the next to start, nothing runs
\* twice, and of all submitters and workers at most one, whose look at isRunning_
\* came just before the destructor cleared it without the mutex, still pushes or
\* pops a task of the stopped pool.
Held == {taskFn[w] : w \in Workers} \ {None}
Committed == \E t \in Callers : pc[t] \in {"enqPush", "pop"}
Phase == IF isRunning THEN "open" ELSE IF Committed THEN "closing" ELSE "closed"
Promised == INSTANCE TaskQueue WITH
                Capacity <- maxTaskQueueSize, phase <- Phase,
                queue <- taskQueue, running <- Held
ImplementsTaskQueue == Promised!Spec

\* When the destructor returns, the callback of every task that returned has
\* been executed exactly once, by the owner or by the destructor's last pass.
CallbacksComplete ==
    pc[Owner] = "gone" =>
        \A k \in Tasks : called[k] = IF k \in returned THEN 1 ELSE 0

\* Every accepted task runs, unless the pool is stopped first: in the end no
\* task waits in a pool that runs.
TaskEventuallyRuns ==
    <>[](isRunning => \A k \in accepted : runs[k] > 0)

\* "the predicate is that the set of threads is empty, which keeps workers from
\* accessing members after the destructor" (ThreadPool.cpp:36), as far as it
\* goes: all that a worker still has to do when the destructor returns is to
\* notify exitCond_ and, if it timed out, to release the mutex it waited with.
AtRestWhenDestroyed ==
    pc[Owner] = "gone" =>
        \A w \in Workers : pc[w] \in {"none", "exited", "exitedIdle"}

\* ThreadPool.cpp:121: the wait predicate lets every worker leave on shutdown,
\* so the destructor returns.
DestructorReturns ==
    pc[Owner] = "notify" ~> pc[Owner] = "gone"

=============================================================================
