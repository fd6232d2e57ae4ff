--------------------------- MODULE ThreadPoolProofs ---------------------------
(***************************************************************************)
(* TLAPS proofs about ThreadPool, for every number of workers, clients and *)
(* tasks, both modes and every configuration.                              *)
(***************************************************************************)
EXTENDS ThreadPool, TLAPS

\* How long a prover may take over a step that names none.
USE ZenonT(60), SMTT(60)

\* Positions at which a thread holds taskQueueMutex_.
LockedPC == {"block", "gate", "pop", "quitIdle", "exitedIdle", "enqBlock",
             "enqGate", "enqPush", "insert"}

Positions ==
    /\ pc \in [Threads -> PC]
    /\ mutex \in Callers \cup {None}
    /\ taskQueueSize \in Nat

\* The mutex excludes, and nobody is in the pool before Start.
MutexInv ==
    /\ \A t \in Callers : pc[t] \in LockedPC => mutex = t
    /\ pc[Owner] = "new" => \A t \in Callers : pc[t] \in {"idle", "none"}

\* What a thread concluded from a wait predicate is still true while it holds
\* the mutex, and for a sleeping worker until it is notified.
WaitInv ==
    /\ \A t \in Callers : pc[t] = "gate" => taskQueueSize > 0 \/ ~isRunning
    /\ \A t \in Callers : pc[t] = "pop" => taskQueueSize > 0
    /\ \A t \in Callers : pc[t] \in {"block", "wait"} => taskQueueSize = 0
    /\ \A t \in Callers :
          pc[t] = "enqGate" => taskQueueSize < maxTaskQueueSize \/ ~isRunning
    /\ \A t \in Callers : pc[t] = "enqPush" => taskQueueSize < maxTaskQueueSize
    /\ \A t \in Callers :
          pc[t] = "enqBlock" => taskQueueSize >= maxTaskQueueSize \/ ~isRunning
    /\ taskQueueSize <= maxTaskQueueSize
    /\ NoLostRoom

QueueInv == Positions /\ MutexInv /\ WaitInv

\* Before Start nobody waits and the mutex is free.
LEMMA QueueInit == Init => QueueInv
BY ThreadAssumption, ConfigAssumption, SMTT(60)
DEF Init, QueueInv, Positions, MutexInv, WaitInv, NoLostRoom, LockedPC,
    Threads, Callers, PC, OwnerPC, WorkerPC, EnqueuePC, ExitPC

\* A client or a task inside enqueueTask.
LEMMA QueueCaller ==
    ASSUME QueueInv, NEW t \in Callers,
           CallerStep(t) \/ \E k \in Tasks : Submit(t, k)
    PROVE  QueueInv'
<1> USE ThreadAssumption, ConfigAssumption
    DEF QueueInv, Positions, MutexInv, WaitInv, NoLostRoom, LockedPC, Threads,
        Callers, PC, OwnerPC, WorkerPC, EnqueuePC, ExitPC, Resume, HasRoom,
        queueVars
<1>1. CASE \E k \in Tasks : Submit(t, k)
  BY <1>1, SMTT(60) DEF Submit
<1>2. CASE EnqueueLock(t)
  BY <1>2, SMTT(60) DEF EnqueueLock
<1>3. CASE EnqueueBlock(t)
  BY <1>3 DEF EnqueueBlock
<1>4. CASE EnqueueTimeout(t)
  BY <1>4 DEF EnqueueTimeout
<1>5. CASE EnqueueCheck(t)
  BY <1>5 DEF EnqueueCheck
<1>6. CASE EnqueuePush(t)
  <2> DEFINE woken == NotifyAll(pc, "wait", "woken")
  <2>1. /\ pc[t] = "enqPush" /\ mutex = t /\ pc[Owner] # "new"
        /\ taskQueueSize < maxTaskQueueSize
        /\ taskQueueSize' = taskQueueSize + 1 /\ isRunning' = isRunning
    BY <1>6 DEF EnqueuePush
  <2>2. /\ woken \in [Threads -> PC] /\ woken[Owner] # "new"
        /\ \A u \in Callers :
              /\ woken[u] # "wait"
              /\ woken[u] \in LockedPC => u = t
              /\ woken[u] = "enqWait" => pc[u] = "enqWait"
              /\ pc[u] = "popped" => woken[u] = "popped"
    BY <2>1 DEF NotifyAll
  <2> HIDE DEF woken
  <2>3. /\ Positions' /\ pc'[Owner] # "new"
        /\ \A u \in Callers :
              /\ pc'[u] \notin {"wait", "block", "gate", "pop", "enqGate",
                                "enqPush", "enqBlock"}
              /\ pc'[u] \in LockedPC => mutex' = u
              /\ pc'[u] = "enqWait" => pc[u] = "enqWait"
              /\ pc[u] = "popped" => pc'[u] = "popped"
    <3>1. CASE CreateThread(woken, t) /\ mutex' = mutex
      <4>1. PICK w \in Workers :
                /\ woken[w] = "none"
                /\ pc' = [woken EXCEPT ![t] = "insert", ![w] = "top"]
        BY <3>1, ZenonT(60) DEF CreateThread
      <4>2. w # t /\ pc[w] # "popped"
        BY <2>1, <2>2, <4>1 DEF woken, NotifyAll
      <4>3. QED
        BY <2>1, <2>2, <3>1, <4>1, <4>2, SMTT(60)
    <3>2. CASE mutex' = None /\ pc' = [woken EXCEPT ![t] = Resume(t)]
      BY <2>1, <2>2, <3>2, SMTT(60)
    <3>3. QED
      BY <1>6, <3>1, <3>2 DEF EnqueuePush, woken
  <2>4. QED
    BY <2>1, <2>3, SMTT(60)
<1>7. CASE RegisterThread(t)
  BY <1>7, SMTT(60) DEF RegisterThread
<1>8. QED
  BY <1>1, <1>2, <1>3, <1>4, <1>5, <1>6, <1>7 DEF CallerStep

\* A worker.
LEMMA QueueWorker ==
    ASSUME QueueInv, NEW w \in Workers, WorkerStep(w)
    PROVE  QueueInv'
<1> USE ThreadAssumption, ConfigAssumption
    DEF QueueInv, Positions, MutexInv, WaitInv, NoLostRoom, LockedPC, Threads,
        Callers, PC, OwnerPC, WorkerPC, EnqueuePC, ExitPC, HasWork, queueVars
<1>1. CASE LoopTop(w)
  BY <1>1 DEF LoopTop
<1>2. CASE WorkerLock(w)
  BY <1>2, SMTT(60) DEF WorkerLock
<1>3. CASE WorkerBlock(w)
  BY <1>3 DEF WorkerBlock
<1>4. CASE WorkerTimeout(w)
  BY <1>4 DEF WorkerTimeout
<1>5. CASE WorkerCheck(w)
  BY <1>5 DEF WorkerCheck
<1>6. CASE PopTask(w)
  BY <1>6, SMTT(60) DEF PopTask
<1>7. CASE NotifyNotFull(w)
  BY <1>7, ZenonT(60) DEF NotifyNotFull, NotifyAll
<1>8. CASE FinishTask(w)
  BY <1>8 DEF FinishTask
<1>9. CASE threadExit(w)
  BY <1>9 DEF threadExit
<1>10. CASE WorkerReturn(w)
  BY <1>10 DEF WorkerReturn, NotifyAll
<1>11. QED
  BY <1>1, <1>2, <1>3, <1>4, <1>5, <1>6, <1>7, <1>8, <1>9, <1>10, ZenonT(60)
  DEF WorkerStep

\* The owner.
LEMMA QueueOwner ==
    ASSUME QueueInv, OwnerStep \/ RunCallbacks \/ DestroyBegin
    PROVE  QueueInv'
<1> USE ThreadAssumption, ConfigAssumption
    DEF QueueInv, Positions, MutexInv, WaitInv, NoLostRoom, LockedPC, Threads,
        Callers, PC, OwnerPC, WorkerPC, EnqueuePC, ExitPC, queueVars
<1>1. CASE Start
  BY <1>1 DEF Start
<1>2. CASE StartThread
  BY <1>2, SMTT(60) DEF StartThread, CreateThread
<1>3. CASE RegisterThread(Owner)
  BY <1>3, SMTT(60) DEF RegisterThread
<1>4. CASE StartReturn
  BY <1>4 DEF StartReturn
<1>5. CASE DestroyNotify
  BY <1>5, ZenonT(60) DEF DestroyNotify, NotifyAll
<1>6. CASE DestroyJoin
  BY <1>6 DEF DestroyJoin
<1>7. CASE DestroyDrain
  BY <1>7 DEF DestroyDrain
<1>8. CASE RunCallbacks
  BY <1>8 DEF RunCallbacks
<1>9. CASE DestroyBegin
  BY <1>9 DEF DestroyBegin
<1>10. QED
  BY <1>1, <1>2, <1>3, <1>4, <1>5, <1>6, <1>7, <1>8, <1>9, ZenonT(60) DEF OwnerStep

\* Every step keeps what threads concluded from their wait predicates.
LEMMA QueueNext == QueueInv /\ [Next]_vars => QueueInv'
<1>1. ASSUME QueueInv, UNCHANGED vars
      PROVE  QueueInv'
  BY <1>1 DEF QueueInv, Positions, MutexInv, WaitInv, NoLostRoom, vars
<1>2. QED
  BY <1>1, QueueCaller, QueueWorker, QueueOwner DEF Next

\* What a thread concluded under taskQueueMutex_ holds while it has it.
LEMMA QueueAlways == Spec => []QueueInv
BY QueueInit, QueueNext, PTL DEF Spec

\* notEmpty_.notify_all in enqueueTask leaves no worker asleep, or about to
\* sleep, on a queue that holds a task: the predicate of waitForWork is
\* evaluated under taskQueueMutex_ and pushing takes the same mutex.
THEOREM WorkerWakeupNeverLost == Spec => []NoLostWakeup
<1>1. QueueInv => NoLostWakeup
  BY DEF QueueInv, WaitInv, NoLostWakeup, Callers
<1>2. QED
  BY <1>1, QueueAlways, PTL

\* A submitter asleep on notFull_ while the queue has room is about to be
\* notified: WorkerThread calls notify_all after it has released the mutex.
THEOREM RoomNeverLost == Spec => []NoLostRoom
<1>1. QueueInv => NoLostRoom
  BY DEF QueueInv, WaitInv
<1>2. QED
  BY <1>1, QueueAlways, PTL

-----------------------------------------------------------------------------
(* A push adds a new element to taskQueue_.                                *)

\* A task on its way into the queue is carried by one caller and has not been
\* pushed before, so a push adds a new element.
CarriedInv ==
    /\ fn \in [Callers -> Tasks \cup {None}]
    /\ submitted \subseteq Tasks /\ accepted \subseteq submitted
    /\ taskQueue \subseteq accepted
    /\ \A t \in Callers : pc[t] \in EnqueuePC => fn[t] \in submitted \ accepted
    /\ \A t, u \in Callers :
          /\ pc[t] \in EnqueuePC /\ pc[u] \in EnqueuePC
          /\ fn[t] = fn[u]
          => t = u

SizeInv ==
    /\ IsFiniteSet(taskQueue)
    /\ taskQueueSize = Cardinality(taskQueue)

\* Steps that leave the tasks alone and bring no caller into enqueueTask.
LEMMA CarriedStutter ==
    ASSUME CarriedInv, UNCHANGED <<taskQueue, accepted, submitted>>,
           fn' \in [Callers -> Tasks \cup {None}],
           \A t \in Callers :
               pc'[t] \in EnqueuePC => pc[t] \in EnqueuePC /\ fn'[t] = fn[t]
    PROVE  CarriedInv'
BY DEF CarriedInv

\* enqueueTask keeps each task with one caller until it is pushed.
LEMMA CarriedCaller ==
    ASSUME QueueInv, CarriedInv, NEW t \in Callers,
           CallerStep(t) \/ \E k \in Tasks : Submit(t, k)
    PROVE  CarriedInv'
<1> USE ThreadAssumption
    DEF QueueInv, Positions, Threads, Callers, EnqueuePC, Resume, queueVars,
        callVars
<1>1. CASE \E k \in Tasks : Submit(t, k)
  BY <1>1, SMTT(60) DEF Submit, CarriedInv
<1>2. CASE EnqueueLock(t)
  BY <1>2, CarriedStutter, SMTT(60) DEF EnqueueLock, CarriedInv
<1>3. CASE EnqueueBlock(t)
  BY <1>3, CarriedStutter DEF EnqueueBlock, CarriedInv
<1>4. CASE EnqueueTimeout(t)
  BY <1>4, CarriedStutter DEF EnqueueTimeout, CarriedInv
<1>5. CASE EnqueueCheck(t)
  BY <1>5, CarriedStutter DEF EnqueueCheck, CarriedInv
<1>6. CASE EnqueuePush(t)
  <2>1. /\ pc[t] \in EnqueuePC
        /\ taskQueue' = taskQueue \cup {fn[t]}
        /\ accepted' = accepted \cup {fn[t]} /\ submitted' = submitted
        /\ fn' = fn \/ fn' = [fn EXCEPT ![t] = None]
    BY <1>6 DEF EnqueuePush
  <2>2. \A u \in Callers :
            pc'[u] \in EnqueuePC => pc[u] \in EnqueuePC /\ u # t
    BY <1>6, ZenonT(60) DEF EnqueuePush, CreateThread, NotifyAll
  <2>3. QED
    BY <2>1, <2>2 DEF CarriedInv
<1>7. CASE RegisterThread(t)
  BY <1>7, CarriedStutter, SMTT(60) DEF RegisterThread, CarriedInv
<1>8. QED
  BY <1>1, <1>2, <1>3, <1>4, <1>5, <1>6, <1>7 DEF CallerStep

\* A worker that pops, runs or leaves does not disturb tasks on their way.
LEMMA CarriedWorker ==
    ASSUME QueueInv, CarriedInv, NEW w \in Workers, WorkerStep(w)
    PROVE  CarriedInv'
<1> USE DEF QueueInv, Positions, Threads, Callers, EnqueuePC, queueVars, callVars
<1>1. CASE PopTask(w)
  BY <1>1 DEF PopTask, Pop, CarriedInv
<1>2. CASE NotifyNotFull(w)
  <2>1. \A u \in Callers : pc'[u] \in EnqueuePC => pc[u] \in EnqueuePC
    BY <1>2 DEF NotifyNotFull, NotifyAll
  <2>2. QED
    BY <1>2, <2>1, CarriedStutter DEF NotifyNotFull, CarriedInv
<1>3. CASE WorkerReturn(w)
  <2>1. \A u \in Callers : pc'[u] \in EnqueuePC => pc[u] \in EnqueuePC
    BY <1>3 DEF WorkerReturn, NotifyAll
  <2>2. QED
    BY <1>3, <2>1, CarriedStutter DEF WorkerReturn, CarriedInv
<1>4. CASE LoopTop(w) \/ WorkerLock(w) \/ WorkerBlock(w) \/ WorkerTimeout(w)
           \/ WorkerCheck(w) \/ FinishTask(w) \/ threadExit(w)
  BY <1>4, CarriedStutter
  DEF LoopTop, WorkerLock, WorkerBlock, WorkerTimeout, WorkerCheck,
      FinishTask, threadExit, CarriedInv
<1>5. QED
  BY <1>1, <1>2, <1>3, <1>4 DEF WorkerStep

\* Neither Start nor the destructor disturbs tasks on their way.
LEMMA CarriedOwner ==
    ASSUME QueueInv, CarriedInv, OwnerStep \/ RunCallbacks \/ DestroyBegin
    PROVE  CarriedInv'
<1> USE ThreadAssumption
    DEF QueueInv, Positions, Threads, Callers, EnqueuePC, queueVars, callVars
<1>1. UNCHANGED <<taskQueue, accepted, submitted>> /\ UNCHANGED fn
  BY DEF OwnerStep, Start, StartThread, RegisterThread, StartReturn,
         DestroyNotify, DestroyJoin, DestroyDrain, RunCallbacks, DestroyBegin
<1>2. \A t \in Callers : pc'[t] \in EnqueuePC => pc[t] \in EnqueuePC
  BY ZenonT(60) DEF OwnerStep, Start, StartThread, CreateThread, RegisterThread,
         StartReturn, DestroyNotify, NotifyAll, DestroyJoin, DestroyDrain,
         RunCallbacks, DestroyBegin
<1>3. QED
  BY <1>1, <1>2, CarriedStutter DEF CarriedInv

-----------------------------------------------------------------------------
(* Type correctness, by groups of variables.                               *)

FlagsOK == isRunning \in BOOLEAN /\ timed \in [Workers -> BOOLEAN]

\* A thread inside CreateThread has an id to insert.
ThreadsOK ==
    /\ threads \subseteq Workers
    /\ currentThreadCount \in Int /\ idleThreadCount \in Int
    /\ startCalls \in 0..initThreadSize
    /\ newThread \in [Threads -> Workers \cup {None}]
    /\ \A t \in Threads : pc[t] = "insert" => newThread[t] \in Workers

WorkOK ==
    /\ callbackQueue \in Seq(CallbackTasks)
    /\ taskFn \in [Workers -> Tasks \cup {None}]
    /\ runs \in [Tasks -> Nat] /\ called \in [Tasks -> Nat]
    /\ returned \subseteq CallbackTasks

\* The values of the members before Start.
LEMMA TypesInit == Init => FlagsOK /\ ThreadsOK /\ WorkOK
<1>1. Init => FlagsOK
  BY Zenon DEF Init, FlagsOK
<1>2. Init => ThreadsOK
  BY ThreadAssumption, ConfigAssumption, SMTT(60)
  DEF Init, ThreadsOK, Threads, Callers
<1>3. Init => WorkOK
  BY SMTT(60) DEF Init, WorkOK
<1>4. QED
  BY <1>1, <1>2, <1>3, Zenon

\* Every step keeps the types of the flags and of the histories.
LEMMA FlagsNext ==
    ASSUME FlagsOK, [Next]_vars
    PROVE  FlagsOK'
<1>1. CASE \E w \in Workers : WorkerLock(w)
  <2>1. PICK w \in Workers : WorkerLock(w)
    BY <1>1
  <2>2. ExtraThread \in BOOLEAN
    BY ConfigAssumption DEF ExtraThread
  <2>3. \/ timed' = timed
        \/ timed' = [timed EXCEPT ![w] = ExtraThread]
        \/ timed' = [timed EXCEPT ![w] = timed[w]]
    BY <2>1, Zenon DEF WorkerLock
  <2>4. isRunning' = isRunning
    BY <2>1 DEF WorkerLock
  <2>5. QED
    BY <2>2, <2>3, <2>4, Zenon DEF FlagsOK
<1>2. CASE isRunning' \in {TRUE, FALSE, isRunning} /\ timed' = timed
  BY <1>2, ZenonT(60) DEF FlagsOK
<1>3. \/ \E w \in Workers : WorkerLock(w)
      \/ isRunning' \in {TRUE, FALSE, isRunning} /\ timed' = timed
  BY ZenonT(60) DEF Next, vars, CallerStep, WorkerStep, OwnerStep, Submit, EnqueueLock,
         EnqueueBlock, EnqueueTimeout, EnqueueCheck, EnqueuePush,
         RegisterThread, LoopTop, WorkerBlock, WorkerTimeout, WorkerCheck,
         PopTask, NotifyNotFull, FinishTask, threadExit, WorkerReturn, Start,
         StartThread, StartReturn, DestroyNotify, DestroyJoin, DestroyDrain,
         RunCallbacks, DestroyBegin
<1>4. QED
  BY <1>1, <1>2, <1>3, ZenonT(60)

\* enqueueTask, which may create a thread, keeps the types of the threads.
LEMMA ThreadsCaller ==
    ASSUME QueueInv, ThreadsOK, NEW t \in Callers,
           CallerStep(t) \/ \E k \in Tasks : Submit(t, k)
    PROVE  ThreadsOK'
<1> USE ThreadAssumption
    DEF QueueInv, Positions, ThreadsOK, Threads, Callers, Resume, counters,
        callVars
<1>1. CASE EnqueuePush(t)
  <2>1. threads' = threads /\ startCalls' = startCalls
    BY <1>1 DEF EnqueuePush
  <2>2. CASE CreateThread(NotifyAll(pc, "wait", "woken"), t)
    <3> DEFINE woken == NotifyAll(pc, "wait", "woken")
    <3>1. PICK w \in Workers :
              /\ newThread' = [newThread EXCEPT ![t] = w]
              /\ pc' = [woken EXCEPT ![t] = "insert", ![w] = "top"]
      BY <2>2, ZenonT(60) DEF CreateThread
    <3>2. /\ DOMAIN woken = Threads
          /\ \A u \in Threads : woken[u] = "insert" => pc[u] = "insert"
      BY DEF NotifyAll
    <3> HIDE DEF woken
    <3>3. \A u \in Threads : pc'[u] = "insert" => u = t \/ pc[u] = "insert"
      BY <3>1, <3>2
    <3>4. currentThreadCount' \in Int /\ idleThreadCount' \in Int
      BY <2>2, SMTT(60) DEF CreateThread
    <3>5. QED
      BY <2>1, <3>1, <3>3, <3>4, ZenonT(60)
  <2>3. CASE /\ pc' = [NotifyAll(pc, "wait", "woken") EXCEPT ![t] = Resume(t)]
             /\ UNCHANGED <<currentThreadCount, idleThreadCount, newThread>>
    BY <2>1, <2>3 DEF NotifyAll
  <2>4. QED
    BY <1>1, <2>2, <2>3 DEF EnqueuePush
<1>2. CASE RegisterThread(t)
  BY <1>2 DEF RegisterThread
<1>3. CASE (\E k \in Tasks : Submit(t, k)) \/ EnqueueLock(t) \/ EnqueueBlock(t)
           \/ EnqueueTimeout(t) \/ EnqueueCheck(t)
  BY <1>3 DEF Submit, EnqueueLock, EnqueueBlock, EnqueueTimeout, EnqueueCheck
<1>4. QED
  BY <1>1, <1>2, <1>3 DEF CallerStep

\* The worker loop and the exit of a thread keep the types of the threads.
LEMMA ThreadsWorker ==
    ASSUME QueueInv, ThreadsOK, NEW w \in Workers, WorkerStep(w)
    PROVE  ThreadsOK'
<1> USE DEF QueueInv, Positions, ThreadsOK, Threads, Callers, counters, callVars
<1>1. CASE NotifyNotFull(w) \/ WorkerReturn(w)
  BY <1>1, ZenonT(60) DEF NotifyNotFull, WorkerReturn, NotifyAll
<1>2. CASE PopTask(w) \/ FinishTask(w)
  BY <1>2, SMTT(60) DEF PopTask, FinishTask
<1>3. CASE threadExit(w)
  BY <1>3, SMTT(60) DEF threadExit, EraseThread
<1>4. CASE LoopTop(w) \/ WorkerLock(w) \/ WorkerBlock(w) \/ WorkerTimeout(w)
           \/ WorkerCheck(w)
  BY <1>4 DEF LoopTop, WorkerLock, WorkerBlock, WorkerTimeout, WorkerCheck
<1>5. QED
  BY <1>1, <1>2, <1>3, <1>4 DEF WorkerStep

\* Start and the destructor keep the types of the threads.
LEMMA ThreadsOwner ==
    ASSUME QueueInv, ThreadsOK, OwnerStep \/ RunCallbacks \/ DestroyBegin
    PROVE  ThreadsOK'
<1> USE ThreadAssumption, ConfigAssumption
    DEF QueueInv, Positions, ThreadsOK, Threads, Callers, counters, callVars
<1>1. CASE StartThread
  BY <1>1, SMTT(60) DEF StartThread, CreateThread
<1>2. CASE RegisterThread(Owner)
  BY <1>2 DEF RegisterThread
<1>3. CASE DestroyNotify
  BY <1>3, ZenonT(60) DEF DestroyNotify, NotifyAll
<1>4. CASE Start \/ StartReturn \/ DestroyJoin \/ DestroyDrain \/ RunCallbacks
           \/ DestroyBegin
  BY <1>4 DEF Start, StartReturn, DestroyJoin, DestroyDrain, RunCallbacks,
              DestroyBegin
<1>5. QED
  BY <1>1, <1>2, <1>3, <1>4 DEF OwnerStep

-----------------------------------------------------------------------------
(* ThreadPool implements TaskQueue, and runs every accepted task at most   *)
(* once.                                                                   *)

\* A worker has a task in its hands exactly while it is inside one.
BusyInv == \A w \in Workers : Busy(w) <=> taskFn[w] # None

\* No two workers hold the same task.
AloneInv ==
    \A v, w \in Workers : taskFn[v] = taskFn[w] /\ taskFn[v] # None => v = w

\* An accepted task is in one of three places: queued, held, or run once.
PlaceInv ==
    /\ Held \subseteq accepted
    /\ taskQueue \cap Held = {}
    /\ \A k \in Tasks :
          runs[k] = IF k \in accepted \ (taskQueue \cup Held) THEN 1 ELSE 0

TaskInv == QueueInv /\ CarriedInv /\ SizeInv /\ WorkOK /\ FlagsOK
Once == BusyInv /\ AloneInv /\ PlaceInv

\* The steps that move a task, and all the others.
LEMMA Moves ==
    ASSUME [Next]_vars
    PROVE  \/ \E t \in Callers : EnqueuePush(t)
           \/ \E w \in Workers : PopTask(w) \/ FinishTask(w)
           \/ UNCHANGED <<taskQueue, accepted, taskFn, runs>>
BY ZenonT(60) DEF Next, vars, queueVars, workVars, CallerStep, WorkerStep, OwnerStep,
       Submit, EnqueueLock, EnqueueBlock, EnqueueTimeout, EnqueueCheck,
       RegisterThread, LoopTop, WorkerLock, WorkerBlock, WorkerTimeout,
       WorkerCheck, NotifyNotFull, threadExit, WorkerReturn, Start,
       StartThread, StartReturn, DestroyNotify, DestroyJoin, DestroyDrain,
       RunCallbacks, DestroyBegin

\* A push leaves the workers' hands alone.
LEMMA Pushed ==
    ASSUME TaskInv, Once, NEW t \in Callers, EnqueuePush(t)
    PROVE  /\ fn[t] \in Tasks \ accepted
           /\ isRunning' = isRunning
           /\ taskQueueSize < maxTaskQueueSize
           /\ taskQueue' = taskQueue \cup {fn[t]}
           /\ accepted' = accepted \cup {fn[t]}
           /\ UNCHANGED <<taskFn, runs>>
BY DEF EnqueuePush, TaskInv, QueueInv, WaitInv, CarriedInv, EnqueuePC, workVars

\* A pop moves the most urgent task into the hands of a free worker.
LEMMA Popped ==
    ASSUME TaskInv, Once, NEW w \in Workers, PopTask(w)
    PROVE  /\ taskFn[w] = None
           /\ isRunning' = isRunning
           /\ UNCHANGED <<accepted, runs>>
           /\ \E k \in Tasks :
                 /\ k \in taskQueue
                 /\ \A j \in taskQueue : Priority[k] <= Priority[j]
                 /\ taskFn' = [taskFn EXCEPT ![w] = k]
                 /\ taskQueue' = taskQueue \ {k}
BY ZenonT(60) DEF PopTask, IsTop, Pop, Once, BusyInv, Busy, EnqueuePC

\* A task that ends leaves the hands of its worker and has run.
LEMMA Finished ==
    ASSUME TaskInv, Once, NEW w \in Workers, FinishTask(w)
    PROVE  /\ taskFn[w] \in Tasks
           /\ UNCHANGED <<accepted, taskQueue, isRunning>>
           /\ taskFn' = [taskFn EXCEPT ![w] = None]
           /\ runs' = [runs EXCEPT ![taskFn[w]] = @ + 1]
BY DEF FinishTask, TaskInv, WorkOK, Once, BusyInv, Busy, queueVars

\* What the three moves do to the set of held tasks.
LEMMA HeldTaken ==
    ASSUME TaskInv, Once, NEW w \in Workers, NEW k \in Tasks, taskFn[w] = None,
           taskFn' = [taskFn EXCEPT ![w] = k]
    PROVE  Held' = Held \cup {k}
<1>1. \A v \in Workers : taskFn'[v] = IF v = w THEN k ELSE taskFn[v]
  BY DEF TaskInv, WorkOK
<1>2. k # None
  BY ThreadAssumption
<1>3. QED
  BY <1>1, <1>2 DEF Held

\* A worker that ends its task no longer holds it, and nobody else did.
LEMMA HeldDropped ==
    ASSUME TaskInv, Once, NEW w \in Workers, taskFn[w] \in Tasks,
           taskFn' = [taskFn EXCEPT ![w] = None]
    PROVE  Held' = Held \ {taskFn[w]} /\ taskFn[w] \in Held
<1>1. \A v \in Workers : taskFn'[v] = IF v = w THEN None ELSE taskFn[v]
  BY DEF TaskInv, WorkOK
<1>2. taskFn[w] # None
  BY ThreadAssumption
<1>3. QED
  BY <1>1, <1>2 DEF Held, Once, AloneInv

-----------------------------------------------------------------------------
(* The invariant.                                                          *)

\* Queued, held and run: the places of a task add up to one once it is accepted.
LEMMA PlacesAddUp ==
    ASSUME NEW k, NEW n, NEW r,
           n = (IF k \in Held THEN 1 ELSE 0),
           r = (IF k \in accepted \ (taskQueue \cup Held) THEN 1 ELSE 0),
           k \in taskQueue => k \in accepted /\ k \notin Held,
           k \in Held => k \in accepted
    PROVE  (IF k \in taskQueue THEN 1 ELSE 0) + n + r
               = IF k \in accepted THEN 1 ELSE 0
BY SMTT(60)

\* Every step keeps an accepted task in one place: EnqueuePush queues it, PopTask
\* hands it to one worker and FinishTask counts its run.
LEMMA PlaceNext ==
    ASSUME TaskInv, Once, [Next]_vars
    PROVE  AloneInv' /\ PlaceInv'
<1>1. CASE \E t \in Callers : EnqueuePush(t)
  <2>1. PICK t \in Callers : EnqueuePush(t)
    BY <1>1, Zenon
  <2>2. /\ fn[t] \in Tasks \ accepted
        /\ taskQueue' = taskQueue \cup {fn[t]} /\ accepted' = accepted \cup {fn[t]}
        /\ taskFn' = taskFn /\ runs' = runs
    BY <2>1, Pushed, Zenon
  <2>3. Held' = Held
    BY <2>2 DEF Held
  <2>4. AloneInv'
    BY <2>2 DEF Once, AloneInv
  <2>5. /\ Held' \subseteq accepted' /\ taskQueue' \cap Held' = {}
        /\ accepted' \ (taskQueue' \cup Held') = accepted \ (taskQueue \cup Held)
    BY <2>2, <2>3 DEF Once, PlaceInv
  <2>6. PlaceInv'
    BY <2>2, <2>5 DEF Once, PlaceInv
  <2>7. QED
    BY <2>4, <2>6
<1>2. CASE \E w \in Workers : PopTask(w)
  <2>1. PICK w \in Workers : PopTask(w)
    BY <1>2
  <2>2. PICK k \in Tasks :
            /\ k \in taskQueue
            /\ taskFn' = [taskFn EXCEPT ![w] = k]
            /\ taskQueue' = taskQueue \ {k}
    BY <2>1, Popped
  <2>3. Held' = Held \cup {k}
    BY <2>1, <2>2, Popped, HeldTaken, ZenonT(60)
  <2>4. AloneInv'
    <3>1. \A v \in Workers : taskFn[v] # k
      BY <2>2, ThreadAssumption DEF Once, PlaceInv, Held
    <3>2. QED
      BY <2>2, <3>1 DEF Once, AloneInv, TaskInv, WorkOK
  <2>5. accepted' = accepted /\ runs' = runs
    BY <2>1, Popped, Zenon
  <2>6. taskQueue \subseteq accepted
    BY DEF TaskInv, CarriedInv
  <2>7. /\ Held' \subseteq accepted' /\ taskQueue' \cap Held' = {}
        /\ accepted' \ (taskQueue' \cup Held') = accepted \ (taskQueue \cup Held)
    BY <2>2, <2>3, <2>5, <2>6 DEF Once, PlaceInv
  <2>8. PlaceInv'
    BY <2>5, <2>7 DEF Once, PlaceInv
  <2>9. QED
    BY <2>4, <2>8
<1>3. CASE \E w \in Workers : FinishTask(w)
  <2>1. PICK w \in Workers : FinishTask(w)
    BY <1>3
  <2>2. Held' = Held \ {taskFn[w]} /\ taskFn[w] \in Held
    BY <2>1, Finished, HeldDropped
  <2>3. AloneInv'
    <3>1. \A v \in Workers : taskFn'[v] # None => taskFn'[v] = taskFn[v]
      BY <2>1, Finished DEF TaskInv, WorkOK
    <3>2. QED
      BY <3>1 DEF Once, AloneInv
  <2>4. PlaceInv'
    <3> DEFINE k == taskFn[w]
    <3>1. /\ k \in Tasks /\ k \in Held /\ Held' = Held \ {k}
          /\ UNCHANGED <<accepted, taskQueue>>
          /\ runs' = [runs EXCEPT ![k] = runs[k] + 1]
      BY <2>1, <2>2, Finished
    <3> HIDE DEF k
    <3>2. QED
      BY <3>1, SMTT(60) DEF Once, PlaceInv, TaskInv, WorkOK
  <2>5. QED
    BY <2>3, <2>4
<1>4. CASE UNCHANGED <<taskQueue, accepted, taskFn, runs>>
  BY <1>4, SMTT(60) DEF Once, AloneInv, PlaceInv, Held
<1>5. QED
  BY <1>1, <1>2, <1>3, <1>4, Moves


\* A caller of enqueueTask that is a worker stays inside its task.
LEMMA BusyCaller ==
    ASSUME QueueInv, BusyInv, NEW t \in Callers,
           CallerStep(t) \/ \E k \in Tasks : Submit(t, k)
    PROVE  BusyInv'
<1> USE ThreadAssumption
    DEF QueueInv, Positions, Threads, Callers, EnqueuePC, Resume, workVars,
        BusyInv, Busy
<1>1. CASE EnqueuePush(t)
  <2> DEFINE woken == NotifyAll(pc, "wait", "woken")
  <2>1. /\ DOMAIN woken = Threads /\ pc[t] = "enqPush"
        /\ \A w \in Workers :
              /\ woken[w] = "none" => pc[w] = "none"
              /\ woken[w] \in {"popped", "running", "insert"} \cup EnqueuePC
                     <=> Busy(w)
    BY <1>1, ZenonT(60) DEF NotifyAll, EnqueuePush
  <2>2. taskFn' = taskFn
    BY <1>1, ZenonT(60) DEF EnqueuePush
  <2>3. \/ pc' = [woken EXCEPT ![t] = Resume(t)]
        \/ \E w \in Workers :
              /\ woken[w] = "none"
              /\ pc' = [woken EXCEPT ![t] = "insert", ![w] = "top"]
    BY <1>1, ZenonT(60) DEF EnqueuePush, CreateThread
  <2> HIDE DEF woken
  <2>4. CASE pc' = [woken EXCEPT ![t] = Resume(t)]
    BY <2>1, <2>2, <2>4
  <2>5. CASE \E w \in Workers :
                /\ woken[w] = "none"
                /\ pc' = [woken EXCEPT ![t] = "insert", ![w] = "top"]
    BY <2>1, <2>2, <2>5
  <2>6. QED
    BY <2>3, <2>4, <2>5
<1>2. CASE RegisterThread(t) \/ \E k \in Tasks : Submit(t, k)
  BY <1>2, ZenonT(60) DEF RegisterThread, Submit
<1>3. CASE EnqueueLock(t) \/ EnqueueBlock(t) \/ EnqueueTimeout(t)
           \/ EnqueueCheck(t)
  BY <1>3, ZenonT(60) DEF EnqueueLock, EnqueueBlock, EnqueueTimeout, EnqueueCheck
<1>4. QED
  BY <1>1, <1>2, <1>3, ZenonT(60) DEF CallerStep

\* A worker gets a task when it pops and lets go of it when it ends.
LEMMA BusyWorker ==
    ASSUME QueueInv, WorkOK, BusyInv, NEW w \in Workers, WorkerStep(w)
    PROVE  BusyInv'
<1> USE ThreadAssumption
    DEF QueueInv, Positions, WorkOK, Threads, Callers, EnqueuePC, workVars,
        BusyInv, Busy
<1>1. CASE PopTask(w) \/ FinishTask(w)
  BY <1>1 DEF PopTask, FinishTask
<1>2. CASE NotifyNotFull(w) \/ WorkerReturn(w)
  BY <1>2, ZenonT(60) DEF NotifyNotFull, WorkerReturn, NotifyAll
<1>3. CASE LoopTop(w) \/ WorkerLock(w) \/ WorkerBlock(w) \/ WorkerTimeout(w)
           \/ WorkerCheck(w) \/ threadExit(w)
  BY <1>3, SMTT(60) DEF LoopTop, WorkerLock, WorkerBlock, WorkerTimeout, WorkerCheck,
              threadExit
<1>4. QED
  BY <1>1, <1>2, <1>3, ZenonT(60) DEF WorkerStep

\* Start and the destructor leave the hands of the workers alone.
LEMMA BusyOwner ==
    ASSUME QueueInv, BusyInv, OwnerStep \/ RunCallbacks \/ DestroyBegin
    PROVE  BusyInv'
<1> USE ThreadAssumption
    DEF QueueInv, Positions, Threads, Callers, EnqueuePC, workVars, BusyInv, Busy
<1>1. CASE DestroyNotify
  BY <1>1, ZenonT(60) DEF DestroyNotify, NotifyAll
<1>2. CASE StartThread
  <2>1. /\ taskFn' = taskFn
        /\ \/ pc' = pc
           \/ \E v \in Workers :
                 /\ pc[v] = "none"
                 /\ pc' = [pc EXCEPT ![Owner] = "insert", ![v] = "top"]
    BY <1>2, Zenon DEF StartThread, CreateThread
  <2>2. CASE pc' = pc
    BY <2>1, <2>2
  <2>3. CASE pc' # pc
    <3>1. PICK v \in Workers :
              /\ pc[v] = "none"
              /\ pc' = [pc EXCEPT ![Owner] = "insert", ![v] = "top"]
      BY <2>1, <2>3, Zenon
    <3>2. \A w \in Workers : pc'[w] = IF w = v THEN "top" ELSE pc[w]
      BY <3>1
    <3>3. QED
      BY <2>1, <3>1, <3>2
  <2>4. QED
    BY <2>2, <2>3
<1>3. CASE Start \/ RegisterThread(Owner) \/ StartReturn \/ DestroyJoin
           \/ DestroyDrain \/ RunCallbacks \/ DestroyBegin
  BY <1>3, ZenonT(60) DEF Start, RegisterThread, StartReturn, DestroyJoin, DestroyDrain,
              RunCallbacks, DestroyBegin
<1>4. QED
  BY <1>1, <1>2, <1>3, ZenonT(60) DEF OwnerStep

-----------------------------------------------------------------------------
(* The life of the threads: what Start, the destructor and the workers that *)
(* leave can rely on.                                                       *)

Starting == {"new", "starting", "insert"}
Stopping == {"notify", "join", "joinWait", "joinWoken", "drain", "gone"}

\* The owner's place tells whether the pool runs.
RunningInv ==
    /\ pc[Owner] \in Starting \cup {"up"} \cup Stopping
    /\ isRunning = (pc[Owner] \in {"starting", "insert", "up"})
    /\ isRunning => \A w \in Workers : pc[w] \notin {"exit", "exited"}

\* Until Start returns nobody submits, so no worker has got past its first wait,
\* and that wait has no time limit.
StartInv ==
    pc[Owner] \in Starting =>
        /\ \A c \in Clients : pc[c] = "idle"
        /\ \A w \in Workers :
              /\ pc[w] \in {"none", "top", "lock", "block", "wait", "woken"}
              /\ pc[Owner] = "new" => pc[w] = "none"
              /\ timed[w] = FALSE
        /\ taskQueueSize = 0
        /\ currentThreadCount <= startCalls
        /\ pc[Owner] = "new" =>
              startCalls = 0 /\ currentThreadCount = 0 /\ idleThreadCount = 0

\* A live thread is registered, or CreateThread is about to insert its id.
RegisteredInv ==
    /\ \A w \in Workers :
          ~Gone(w) => \/ w \in threads
                      \/ \E t \in Threads : pc[t] = "insert" /\ newThread[t] = w
    /\ \A t \in Threads : pc[t] = "insert" => newThread[t] # t

\* No client is in the pool once the destructor runs, and no worker once it has
\* seen threads_ empty.
StopInv ==
    /\ pc[Owner] \in Stopping => \A c \in Clients : pc[c] = "idle"
    /\ pc[Owner] \in {"drain", "gone"} => \A w \in Workers : Gone(w)

LifeInv == RunningInv /\ StartInv /\ RegisteredInv /\ StopInv

Live == {w \in Workers : ~Gone(w)}
Free == {w \in Workers : ~Gone(w) /\ ~Busy(w)}

CountInv ==
    /\ IsFiniteSet(Live)
    /\ isRunning => /\ currentThreadCount = Cardinality(Live)
                    /\ idleThreadCount = Cardinality(Free)
                    /\ currentThreadCount <= maxThreadCount

Unlimited ==
    \A w \in Workers : timed[w] = FALSE /\ pc[w] \notin {"timedOut", "quitIdle"}

\* In fixed mode no wait has a limit, and the threads Start made stay.
FixedInv ==
    /\ pc[Owner] = "up" => startCalls = initThreadSize
    /\ ~Cached =>
          /\ Unlimited
          /\ isRunning /\ startCalls > 0 /\ maxThreadCount > 0 => Live # {}

\* Callbacks: pushed once, when the task returns, and then pending or executed.
CallbackInv ==
    /\ \A i, j \in DOMAIN callbackQueue :
          callbackQueue[i] = callbackQueue[j] => i = j
    /\ \A i \in DOMAIN callbackQueue : callbackQueue[i] \in returned
    /\ returned \subseteq accepted \ (taskQueue \cup Held)
    /\ \A k \in Tasks :
          called[k] = IF k \in returned
                          /\ \A i \in DOMAIN callbackQueue : callbackQueue[i] # k
                      THEN 1 ELSE 0
    /\ pc[Owner] = "gone" => callbackQueue = <<>>

\* What a step does to a thread that does not take it: nothing, or a notify_all
\* wakes it.
Bystander(u) ==
    \/ pc'[u] = pc[u]
    \/ pc[u] = "wait" /\ pc'[u] = "woken"
    \/ pc[u] = "enqWait" /\ pc'[u] = "enqWoken"
    \/ pc[u] = "joinWait" /\ pc'[u] = "joinWoken"

\* The effect of CreateThread in thread t, the new thread being w.
Created(t, w) ==
    /\ pc[w] = "none" /\ w # t
    /\ pc'[w] = "top" /\ pc'[t] = "insert"
    /\ \A u \in Threads \ {t, w} : Bystander(u)
    /\ newThread' = [newThread EXCEPT ![t] = w]
    /\ currentThreadCount < maxThreadCount
    /\ currentThreadCount' = currentThreadCount + 1
    /\ idleThreadCount' = idleThreadCount + 1

\* CreateThread starts one thread, with or without a notification before it.
LEMMA Creates ==
    ASSUME QueueInv, NEW t \in Threads, pc[t] # "none",
           NEW p \in {pc, NotifyAll(pc, "wait", "woken")}, CreateThread(p, t)
    PROVE  \E w \in Workers : Created(t, w)
<1>1. DOMAIN p = Threads
  BY DEF QueueInv, Positions, NotifyAll
<1>2. \A u \in Threads : p[u] = pc[u] \/ (pc[u] = "wait" /\ p[u] = "woken")
  BY DEF NotifyAll
<1> PICK w \in Workers :
        /\ p[w] = "none"
        /\ newThread' = [newThread EXCEPT ![t] = w]
        /\ pc' = [p EXCEPT ![t] = "insert", ![w] = "top"]
  BY Zenon DEF CreateThread
<1>3. w \in Threads
  BY DEF Threads
<1>4. pc[w] = "none" /\ w # t
  BY <1>2, <1>3
<1>5. \A u \in Threads : pc'[u] = IF u = w THEN "top" ELSE
                                  IF u = t THEN "insert" ELSE p[u]
  BY <1>1, <1>3
<1>6. \A u \in Threads \ {t, w} : Bystander(u)
  BY <1>2, <1>5, Zenon DEF Bystander
<1>7. pc'[w] = "top" /\ pc'[t] = "insert"
  BY <1>3, <1>4, <1>5, Zenon
<1>8. QED
  BY <1>4, <1>6, <1>7, Zenon DEF Created, CreateThread

\* A push starts a thread, or the caller returns from enqueueTask.
LEMMA Pushes ==
    ASSUME QueueInv, NEW t \in Callers, EnqueuePush(t)
    PROVE  /\ pc[t] = "enqPush" /\ mutex = t
           /\ UNCHANGED <<isRunning, threads, startCalls, timed>>
           /\ taskQueueSize' = taskQueueSize + 1
           /\ \/ \E w \in Workers : Created(t, w)
              \/ /\ ~NeedsThread
                 /\ pc'[t] = Resume(t)
                 /\ \A u \in Threads \ {t} : Bystander(u)
                 /\ UNCHANGED <<currentThreadCount, idleThreadCount, newThread>>
<1> DEFINE woken == NotifyAll(pc, "wait", "woken")
<1>1. pc[t] = "enqPush" /\ mutex = t /\ t \in Threads
  BY DEF EnqueuePush, QueueInv, MutexInv, LockedPC, Threads, Callers
<1>2. /\ UNCHANGED <<isRunning, threads, startCalls, timed>>
      /\ taskQueueSize' = taskQueueSize + 1
  BY DEF EnqueuePush
<1>3. CASE CreateThread(woken, t)
  BY <1>1, <1>2, <1>3, Creates
<1>4. CASE /\ ~NeedsThread
           /\ pc' = [woken EXCEPT ![t] = Resume(t)]
           /\ UNCHANGED <<currentThreadCount, idleThreadCount, newThread>>
  <2>1. /\ DOMAIN woken = Threads
        /\ \A u \in Threads : woken[u] = pc[u] \/ (pc[u] = "wait" /\ woken[u] = "woken")
    BY DEF NotifyAll
  <2> HIDE DEF woken
  <2>2. pc'[t] = Resume(t) /\ \A u \in Threads \ {t} : Bystander(u)
    BY <1>1, <1>4, <2>1 DEF Bystander
  <2>3. QED
    BY <1>1, <1>2, <1>4, <2>2
<1>5. QED
  BY <1>3, <1>4, Zenon DEF EnqueuePush

\* A caller of enqueueTask.
LEMMA CallerMoves ==
    ASSUME QueueInv, NEW t \in Callers,
           CallerStep(t) \/ \E k \in Tasks : Submit(t, k)
    PROVE  /\ UNCHANGED <<isRunning, startCalls, timed>>
           /\ pc'[t] \in EnqueuePC \cup {"insert", Resume(t)}
           /\ \/ pc[t] \in EnqueuePC \cup {"insert"}
              \/ t \in Clients /\ pc[t] = "idle" /\ pc[Owner] = "up"
              \/ t \in Workers /\ pc[t] = "running"
           /\ \A u \in Threads \ {t} :
                 Bystander(u) \/ (u \in Workers /\ pc[u] = "none" /\ pc'[u] = "top")
<1>1. CASE EnqueuePush(t)
  <2>1. /\ pc[t] \in EnqueuePC /\ UNCHANGED <<isRunning, startCalls, timed>>
    BY <1>1, Pushes DEF EnqueuePC
  <2>2. CASE \E w \in Workers : Created(t, w)
    BY <2>1, <2>2 DEF Created
  <2>3. CASE pc'[t] = Resume(t) /\ \A u \in Threads \ {t} : Bystander(u)
    BY <2>1, <2>3
  <2>4. QED
    BY <1>1, <2>2, <2>3, Pushes, Zenon
<1>2. CASE RegisterThread(t)
  BY <1>2, ThreadAssumption
  DEF RegisterThread, Bystander, QueueInv, Positions, Threads, Callers
<1>3. CASE \E k \in Tasks : Submit(t, k)
  BY <1>3 DEF Submit, Bystander, QueueInv, Positions, Threads, Callers, EnqueuePC
<1>4. CASE EnqueueLock(t) \/ EnqueueBlock(t) \/ EnqueueTimeout(t)
           \/ EnqueueCheck(t)
  BY <1>4 DEF EnqueueLock, EnqueueBlock, EnqueueTimeout, EnqueueCheck,
              Bystander, QueueInv, Positions, Threads, Callers, EnqueuePC
<1>5. QED
  BY <1>1, <1>2, <1>3, <1>4 DEF CallerStep

\* The two notifications of a worker.
LEMMA Notifies ==
    ASSUME QueueInv, NEW w \in Workers, NotifyNotFull(w) \/ WorkerReturn(w)
    PROVE  /\ \A u \in Threads \ {w} : Bystander(u)
           /\ \/ pc[w] = "popped" /\ pc'[w] = "running"
              \/ pc[w] \in {"exited", "exitedIdle"} /\ pc'[w] = "none"
<1>1. w \in Threads
  BY DEF Threads
<1>2. CASE NotifyNotFull(w)
  <2> DEFINE p == NotifyAll(pc, "enqWait", "enqWoken")
  <2>1. /\ DOMAIN p = Threads
        /\ \A u \in Threads : p[u] = pc[u] \/ (pc[u] = "enqWait" /\ p[u] = "enqWoken")
    BY DEF NotifyAll
  <2>2. pc[w] = "popped" /\ pc' = [p EXCEPT ![w] = "running"]
    BY <1>2 DEF NotifyNotFull
  <2> HIDE DEF p
  <2>3. QED
    BY <1>1, <2>1, <2>2 DEF Bystander
<1>3. CASE WorkerReturn(w)
  <2> DEFINE p == NotifyAll(pc, "joinWait", "joinWoken")
  <2>1. /\ DOMAIN p = Threads
        /\ \A u \in Threads : p[u] = pc[u] \/ (pc[u] = "joinWait" /\ p[u] = "joinWoken")
    BY DEF NotifyAll
  <2>2. pc[w] \in {"exited", "exitedIdle"} /\ pc' = [p EXCEPT ![w] = "none"]
    BY <1>3 DEF WorkerReturn
  <2> HIDE DEF p
  <2>3. QED
    BY <1>1, <2>1, <2>2 DEF Bystander
<1>4. QED
  BY <1>2, <1>3

\* The destructor's notifications.
LEMMA DestroyNotifies ==
    ASSUME QueueInv, DestroyNotify
    PROVE  /\ pc[Owner] = "notify" /\ pc'[Owner] = "join"
           /\ \A u \in Threads \ {Owner} : Bystander(u)
<1> DEFINE p == NotifyAll(NotifyAll(pc, "wait", "woken"), "enqWait", "enqWoken")
<1>1. /\ DOMAIN p = Threads
      /\ \A u \in Threads : \/ p[u] = pc[u]
                            \/ pc[u] = "wait" /\ p[u] = "woken"
                            \/ pc[u] = "enqWait" /\ p[u] = "enqWoken"
  BY DEF NotifyAll
<1>2. pc[Owner] = "notify" /\ pc' = [p EXCEPT ![Owner] = "join"]
  BY DEF DestroyNotify
<1>3. Owner \in Threads
  BY DEF Threads
<1> HIDE DEF p
<1>4. QED
  BY <1>1, <1>2, <1>3 DEF Bystander

\* The owner's place, and the places of the clients, as a caller steps.
LEMMA PhaseCaller ==
    ASSUME QueueInv, LifeInv, NEW t \in Callers,
           CallerStep(t) \/ \E k \in Tasks : Submit(t, k)
    PROVE  RunningInv' /\ StartInv' /\ StopInv'
<1> USE DEF LifeInv
<1>1. Owner \in Threads \ {t} /\ t \in Threads /\ Owner \notin Workers
  BY ThreadAssumption DEF Threads, Callers
<1>2. /\ isRunning' = isRunning
      /\ pc'[t] \in EnqueuePC \cup {"insert", Resume(t)}
      /\ \/ pc[t] \in EnqueuePC \cup {"insert"}
         \/ t \in Clients /\ pc[t] = "idle" /\ pc[Owner] = "up"
         \/ t \in Workers /\ pc[t] = "running"
      /\ \A u \in Threads \ {t} :
            Bystander(u) \/ (u \in Workers /\ pc[u] = "none" /\ pc'[u] = "top")
  BY CallerMoves
<1>3. pc'[Owner] = pc[Owner] \/ (pc[Owner] = "joinWait" /\ pc'[Owner] = "joinWoken")
  BY <1>1, <1>2 DEF Bystander, RunningInv, Starting, Stopping
<1>4. RunningInv'
  <2>1. \A w \in Workers :
            pc[w] \notin {"exit", "exited"} => pc'[w] \notin {"exit", "exited"}
    BY <1>1, <1>2 DEF Bystander, Threads, EnqueuePC, Resume
  <2>2. QED
    BY <1>2, <1>3, <2>1, SMTT(60) DEF RunningInv, Starting, Stopping
<1>5. pc[Owner] \notin Starting
  BY <1>2, ThreadAssumption DEF StartInv, Starting, EnqueuePC, Callers
<1>6. StartInv'
  BY <1>3, <1>5 DEF StartInv, Starting
<1>7. StopInv'
  <2>1. CASE pc[Owner] \in Stopping
    <3>1. t \in Workers /\ ~Gone(t)
      BY <1>2, <2>1 DEF StopInv, Stopping, Callers, EnqueuePC, Gone
    <3>2. \A c \in Clients : pc'[c] = "idle"
      BY <1>1, <1>2, <2>1, <3>1, ThreadAssumption DEF StopInv, Bystander, Threads
    <3>3. pc'[Owner] \notin {"drain", "gone"}
      BY <1>3, <3>1 DEF StopInv
    <3>4. QED
      BY <3>2, <3>3 DEF StopInv
  <2>2. CASE pc[Owner] \notin Stopping
    BY <1>3, <2>2 DEF StopInv, Stopping
  <2>3. QED
    BY <2>1, <2>2
<1>8. QED
  BY <1>4, <1>6, <1>7

\* A thread that is created is inserted later, by the thread that created it.
LEMMA RegisteredCaller ==
    ASSUME QueueInv, ThreadsOK, LifeInv, NEW t \in Callers,
           CallerStep(t) \/ \E k \in Tasks : Submit(t, k)
    PROVE  RegisteredInv'
<1> USE DEF LifeInv
<1>1. /\ t \in Threads /\ Workers \subseteq Threads
      /\ pc[t] \in EnqueuePC \cup {"insert", "idle", "running"}
      /\ \A u \in Threads \ {t} :
            Bystander(u) \/ (u \in Workers /\ pc[u] = "none" /\ pc'[u] = "top")
  BY CallerMoves DEF Threads, Callers
<1>2. ~Gone(t)
  BY <1>1 DEF Gone, EnqueuePC
<1>3. \A u \in Threads \ {t} : pc'[u] = "insert" <=> pc[u] = "insert"
  BY <1>1 DEF Bystander
<1>4. \A w \in Workers \ {t} : Gone(w) /\ ~Gone(w)' => pc[w] = "none" /\ pc'[w] = "top"
  BY <1>1 DEF Bystander, Gone
<1>5. CASE EnqueuePush(t)
  <2>1. pc[t] # "insert" /\ threads' = threads
    BY <1>5, Pushes
  <2>2. CASE \E w \in Workers : Created(t, w)
    <3> PICK w \in Workers : Created(t, w)
      BY <2>2
    <3>1. /\ newThread' = [newThread EXCEPT ![t] = w] /\ pc'[t] = "insert" /\ w # t
          /\ \A u \in Workers \ {t, w} : pc'[u] = "top" => pc[u] # "none"
      BY <1>1 DEF Created, Bystander
    <3>2. \A u \in Threads : newThread'[u] = IF u = t THEN w ELSE newThread[u]
      BY <3>1 DEF ThreadsOK
    <3>3. QED
      BY <1>1, <1>2, <1>3, <1>4, <2>1, <3>1, <3>2, SMTT(60) DEF RegisteredInv
  <2>3. CASE /\ pc'[t] = Resume(t)
             /\ \A u \in Threads \ {t} : Bystander(u)
             /\ newThread' = newThread
    <3>1. \A w \in Workers : ~Gone(w)' => ~Gone(w)
      BY <1>1, <1>2, <2>3 DEF Bystander, Gone
    <3>2. pc'[t] # "insert"
      BY <2>3 DEF Resume
    <3>3. QED
      BY <1>3, <2>1, <2>3, <3>1, <3>2 DEF RegisteredInv
  <2>4. QED
    BY <1>5, <2>2, <2>3, Pushes
<1>6. CASE RegisterThread(t)
  <2>1. /\ threads' = threads \cup {newThread[t]} /\ pc[t] = "insert"
        /\ \A u \in Threads \ {t} : pc'[u] = pc[u] /\ newThread'[u] = newThread[u]
        /\ pc'[t] # "insert"
    BY <1>6, ThreadAssumption
    DEF RegisterThread, Resume, ThreadsOK, QueueInv, Positions, Threads, Callers
  <2>2. \A w \in Workers : ~Gone(w)' => ~Gone(w)
    BY <1>1, <1>2, <2>1 DEF Gone
  <2>3. QED
    BY <1>1, <2>1, <2>2 DEF RegisteredInv
<1>7. CASE \/ EnqueueLock(t) \/ EnqueueBlock(t) \/ EnqueueTimeout(t)
           \/ EnqueueCheck(t) \/ \E k \in Tasks : Submit(t, k)
  <2>1. UNCHANGED <<threads, newThread>> /\ pc[t] # "insert" /\ pc'[t] # "insert"
    BY <1>1, <1>7
    DEF EnqueueLock, EnqueueBlock, EnqueueTimeout, EnqueueCheck, Submit,
        counters, callVars, QueueInv, Positions, Threads, Resume
  <2>2. \A u \in Threads \ {t} : pc'[u] = pc[u]
    BY <1>7
    DEF EnqueueLock, EnqueueBlock, EnqueueTimeout, EnqueueCheck, Submit,
        QueueInv, Positions
  <2>3. \A w \in Workers : ~Gone(w)' => ~Gone(w)
    BY <1>1, <1>2, <2>2 DEF Gone
  <2>4. QED
    BY <1>1, <2>1, <2>2, <2>3 DEF RegisteredInv
<1>8. QED
  BY <1>5, <1>6, <1>7 DEF CallerStep

\* A worker in its loop.
LEMMA WorkerMoves ==
    ASSUME QueueInv, NEW w \in Workers, WorkerStep(w)
    PROVE  /\ UNCHANGED <<isRunning, startCalls, newThread>>
           /\ pc[w] \notin {"none", "insert"} /\ pc'[w] # "insert"
           /\ pc'[w] = "exit" => ~isRunning
           /\ pc'[w] = "exited" => pc[w] = "exit"
           /\ Gone(w) => pc'[w] = "none"
           /\ threads' = threads \/ (threads' = threads \ {w} /\ Gone(w)')
           /\ \A u \in Threads \ {w} : Bystander(u)
<1> w \in Threads
  BY DEF Threads
<1> USE DEF QueueInv, Positions, Gone, callVars, counters, Bystander
<1>1. CASE NotifyNotFull(w)
  BY <1>1, Notifies DEF NotifyNotFull
<1>2. CASE WorkerReturn(w)
  BY <1>2, Notifies DEF WorkerReturn
<1>3. CASE threadExit(w)
  BY <1>3 DEF threadExit, EraseThread
<1>4. CASE LoopTop(w) \/ WorkerLock(w) \/ WorkerBlock(w) \/ WorkerTimeout(w)
  BY <1>4 DEF LoopTop, WorkerLock, WorkerBlock, WorkerTimeout
<1>5. CASE WorkerCheck(w) \/ PopTask(w) \/ FinishTask(w)
  BY <1>5 DEF WorkerCheck, PopTask, FinishTask
<1>6. QED
  BY <1>1, <1>2, <1>3, <1>4, <1>5 DEF WorkerStep

\* Until Start returns a worker only goes to its first wait and may wake from it.
LEMMA StartWorker ==
    ASSUME QueueInv, FlagsOK, ThreadsOK, LifeInv, NEW w \in Workers, WorkerStep(w),
           pc[Owner] \in Starting
    PROVE  /\ pc'[w] \in {"lock", "block", "wait"} /\ timed'[w] = FALSE
           /\ \A v \in Workers \ {w} : timed'[v] = timed[v]
           /\ UNCHANGED <<taskQueueSize, currentThreadCount, idleThreadCount>>
<1>1. /\ w \in Threads /\ timed[w] = FALSE /\ taskQueueSize = 0 /\ isRunning
      /\ pc[w] \in {"top", "lock", "block", "wait", "woken"}
      /\ currentThreadCount <= startCalls
  BY WorkerMoves, Zenon DEF LifeInv, StartInv, RunningInv, Starting, Threads
<1>2. LoopTop(w) \/ WorkerLock(w) \/ WorkerBlock(w)
  BY <1>1, Zenon DEF WorkerStep, WorkerTimeout, WorkerCheck, PopTask, NotifyNotFull,
              FinishTask, threadExit, WorkerReturn
<1>3. CASE LoopTop(w)
  BY <1>1, <1>3 DEF LoopTop, QueueInv, Positions, queueVars, counters
<1>4. CASE WorkerBlock(w)
  BY <1>1, <1>4 DEF WorkerBlock, QueueInv, Positions, queueVars, counters
<1>5. CASE WorkerLock(w)
  <2>1. ~HasWork /\ pc[w] # "timedOut"
    BY <1>1, SMTT(60) DEF HasWork
  <2>2. /\ pc' = [pc EXCEPT ![w] = "block"]
        /\ \/ timed' = [timed EXCEPT ![w] = ExtraThread]
           \/ timed' = [timed EXCEPT ![w] = timed[w]]
        /\ UNCHANGED <<taskQueueSize, currentThreadCount, idleThreadCount>>
    BY <1>5, <2>1, Zenon DEF WorkerLock, queueVars, counters
  <2>3. ExtraThread = FALSE
    BY <1>1, ConfigAssumption, SMTT(60) DEF ExtraThread, ThreadsOK
  <2>4. /\ timed'[w] \in {timed[w], ExtraThread}
        /\ \A v \in Workers \ {w} : timed'[v] = timed[v]
    BY <2>2, Zenon DEF FlagsOK
  <2>5. pc'[w] = "block"
    BY <1>1, <2>2 DEF QueueInv, Positions
  <2>6. QED
    BY <1>1, <2>2, <2>3, <2>4, <2>5
<1>6. QED
  BY <1>2, <1>3, <1>4, <1>5, Zenon

\* The life of the threads, as a worker steps.
LEMMA LifeWorker ==
    ASSUME QueueInv, FlagsOK, ThreadsOK, LifeInv, NEW w \in Workers, WorkerStep(w)
    PROVE  LifeInv'
<1>1. /\ UNCHANGED <<isRunning, startCalls, newThread>>
      /\ pc[w] \notin {"none", "insert"} /\ pc'[w] # "insert"
      /\ pc'[w] = "exit" => ~isRunning
      /\ pc'[w] = "exited" => pc[w] = "exit"
      /\ Gone(w) => pc'[w] = "none"
      /\ threads' = threads \/ (threads' = threads \ {w} /\ Gone(w)')
      /\ \A u \in Threads \ {w} : Bystander(u)
  BY WorkerMoves
<1>2. /\ Owner \in Threads \ {w}
      /\ Workers \subseteq Threads /\ Clients \subseteq Threads \ {w}
  BY ThreadAssumption DEF Threads, Callers
<1>3. pc'[Owner] = pc[Owner] \/ (pc[Owner] = "joinWait" /\ pc'[Owner] = "joinWoken")
  BY <1>1, <1>2 DEF Bystander, LifeInv, RunningInv, Starting, Stopping
<1>4. /\ \A v \in Workers : ~Gone(v)' => ~Gone(v)
      /\ \A u \in Threads : pc'[u] = "insert" <=> pc[u] = "insert"
  BY <1>1, <1>2 DEF Bystander, Gone
<1>5. RunningInv'
  <2>1. isRunning => \A v \in Workers : pc'[v] \notin {"exit", "exited"}
    BY <1>1, <1>2 DEF Bystander, LifeInv, RunningInv
  <2>2. QED
    BY <1>1, <1>3, <2>1, SMTT(60) DEF LifeInv, RunningInv, Starting, Stopping
<1>6. StartInv'
  <2>1. CASE pc[Owner] \in Starting
    <3>1. /\ pc'[w] \in {"lock", "block", "wait"} /\ timed'[w] = FALSE
          /\ \A v \in Workers \ {w} : timed'[v] = timed[v]
          /\ UNCHANGED <<taskQueueSize, currentThreadCount, idleThreadCount>>
      BY <2>1, StartWorker, Zenon
    <3>2. pc'[Owner] = pc[Owner] /\ pc[Owner] # "new"
      BY <1>1, <1>3, <2>1 DEF LifeInv, StartInv, Starting
    <3>3. \A v \in Workers :
              /\ pc'[v] \in {"none", "top", "lock", "block", "wait", "woken"}
              /\ timed'[v] = FALSE
      <4>1. \A v \in Workers \ {w} :
                pc'[v] \in {"none", "top", "lock", "block", "wait", "woken"}
        BY <1>1, <1>2, <2>1 DEF LifeInv, StartInv, Bystander
      <4>2. QED
        BY <2>1, <3>1, <4>1 DEF LifeInv, StartInv
    <3>4. \A c \in Clients : pc'[c] = "idle"
      BY <1>1, <1>2, <2>1 DEF LifeInv, StartInv, Bystander
    <3>5. QED
      BY <1>1, <2>1, <3>1, <3>2, <3>3, <3>4 DEF LifeInv, StartInv
  <2>2. CASE pc[Owner] \notin Starting
    BY <1>3, <2>2 DEF StartInv, Starting
  <2>3. QED
    BY <2>1, <2>2
<1>7. RegisteredInv'
  BY <1>1, <1>4 DEF LifeInv, RegisteredInv
<1>8. StopInv'
  <2>1. pc[Owner] \in Stopping => \A c \in Clients : pc'[c] = "idle"
    BY <1>1, <1>2 DEF Bystander, LifeInv, StopInv
  <2>2. QED
    BY <1>3, <1>4, <2>1 DEF LifeInv, StopInv, Stopping
<1>9. QED
  BY <1>5, <1>6, <1>7, <1>8 DEF LifeInv

\* Start counts the threads it makes, and they wait for work.
LEMMA LifeStart ==
    ASSUME QueueInv, FlagsOK, ThreadsOK, LifeInv,
           Start \/ StartThread \/ RegisterThread(Owner) \/ StartReturn
    PROVE  LifeInv'
<1> USE DEF LifeInv
<1>1. /\ Owner \in Threads /\ Workers \subseteq Threads \ {Owner}
      /\ Clients \subseteq Threads \ {Owner} /\ Clients \cap Workers = {}
  BY ThreadAssumption DEF Threads, Callers
<1>2. /\ pc[Owner] \in Starting /\ UNCHANGED <<timed, taskQueueSize>>
  BY DEF Start, StartThread, RegisterThread, StartReturn, queueVars, Starting
<1>3. CASE Start \/ StartReturn
  <2>1. /\ \A u \in Threads \ {Owner} : pc'[u] = pc[u]
        /\ UNCHANGED <<threads, newThread, currentThreadCount, startCalls>>
        /\ pc[Owner] # "insert" /\ pc'[Owner] \in {"starting", "up"} /\ isRunning'
    BY <1>1, <1>3, Zenon
    DEF Start, StartReturn, QueueInv, Positions, callVars, counters, RunningInv
  <2>2. isRunning' = TRUE
    BY <1>3, Zenon DEF Start, StartReturn, RunningInv
  <2>3. RunningInv'
    BY <1>1, <1>2, <2>1, <2>2, Zenon DEF RunningInv, StartInv, Starting, Stopping
  <2>4. StartInv'
    BY <1>1, <1>2, <2>1 DEF StartInv, Starting
  <2>5. RegisteredInv'
    BY <1>1, <2>1, SMTT(60) DEF RegisteredInv, Gone
  <2>6. StopInv'
    BY <2>1 DEF StopInv, Stopping
  <2>7. QED
    BY <2>3, <2>4, <2>5, <2>6
<1>4. CASE RegisterThread(Owner)
  <2>1. /\ \A u \in Threads \ {Owner} : pc'[u] = pc[u] /\ newThread'[u] = newThread[u]
        /\ UNCHANGED <<isRunning, currentThreadCount, startCalls>>
        /\ pc[Owner] = "insert" /\ pc'[Owner] = "starting"
        /\ threads' = threads \cup {newThread[Owner]}
    BY <1>1, <1>4 DEF RegisterThread, QueueInv, Positions, ThreadsOK
  <2>2. RunningInv'
    BY <1>1, <2>1, SMTT(60) DEF RunningInv, Starting, Stopping
  <2>3. StartInv'
    BY <1>1, <1>2, <2>1 DEF StartInv, Starting
  <2>4. RegisteredInv'
    BY <1>1, <2>1, SMTT(60) DEF RegisteredInv, Gone
  <2>5. StopInv'
    BY <2>1 DEF StopInv, Stopping
  <2>6. QED
    BY <2>2, <2>3, <2>4, <2>5
<1>5. CASE StartThread
  <2>1. /\ UNCHANGED <<isRunning, threads>> /\ pc[Owner] = "starting"
        /\ startCalls' = startCalls + 1
    BY <1>5 DEF StartThread
  <2>2. CASE CreateThread(pc, Owner)
    <3>1. PICK w \in Workers : Created(Owner, w)
      BY <1>1, <2>1, <2>2, Creates
    <3>2. /\ pc[w] = "none" /\ pc'[w] = "top" /\ pc'[Owner] = "insert" /\ w # Owner
          /\ \A u \in Threads \ {Owner, w} : Bystander(u)
          /\ newThread' = [newThread EXCEPT ![Owner] = w]
          /\ currentThreadCount' = currentThreadCount + 1
      BY <3>1 DEF Created
    <3>3. \A u \in Threads : newThread'[u] = IF u = Owner THEN w ELSE newThread[u]
      BY <3>2 DEF ThreadsOK
    <3>4. \A u \in Workers \ {w} : /\ ~Gone(u)' => ~Gone(u)
                                   /\ pc'[u] \in {"exit", "exited"} => pc'[u] = pc[u]
      BY <1>1, <3>2 DEF Bystander, Gone
    <3>5. RunningInv'
      BY <1>1, <2>1, <3>2, <3>4, SMTT(60) DEF RunningInv, Starting, Stopping
    <3>6. StartInv'
      <4>1. \A c \in Clients : pc'[c] = "idle"
        BY <1>1, <1>2, <3>2 DEF StartInv, Bystander
      <4>2. \A v \in Workers : pc'[v] \in {"none", "top", "lock", "block", "wait", "woken"}
        BY <1>1, <1>2, <3>2 DEF StartInv, Bystander
      <4>3. currentThreadCount' <= startCalls'
        BY <1>2, <2>1, <3>2, SMTT(60) DEF StartInv, ThreadsOK
      <4>4. QED
        BY <1>2, <3>2, <4>1, <4>2, <4>3 DEF StartInv
    <3>7. RegisteredInv'
      <4>1. \A u \in Threads \ {Owner} : pc'[u] = "insert" <=> pc[u] = "insert"
        BY <1>1, <3>2 DEF Bystander
      <4>2. QED
        BY <1>1, <2>1, <3>2, <3>3, <3>4, <4>1, SMTT(60) DEF RegisteredInv
    <3>8. StopInv'
      BY <3>2 DEF StopInv, Stopping
    <3>9. QED
      BY <3>5, <3>6, <3>7, <3>8
  <2>3. CASE UNCHANGED <<currentThreadCount, idleThreadCount, newThread, pc>>
    <3>1. StartInv'
      BY <1>2, <2>1, <2>3, SMTT(60) DEF StartInv, ThreadsOK
    <3>2. RunningInv' /\ RegisteredInv' /\ StopInv'
      BY <2>1, <2>3 DEF RunningInv, RegisteredInv, StopInv, Gone
    <3>3. QED
      BY <3>1, <3>2
  <2>4. QED
    BY <1>5, <2>2, <2>3 DEF StartThread
<1>6. QED
  BY <1>3, <1>4, <1>5

\* A thread that is neither registered nor being inserted by a thread in the
\* pool has left: once threads_ is empty, all have.
LEMMA EmptyMeansGone ==
    ASSUME QueueInv, LifeInv, pc[Owner] \in Stopping, threads = {}
    PROVE  \A w \in Workers : Gone(w)
<1> SUFFICES ASSUME NEW w \in Workers, ~Gone(w)
             PROVE  FALSE
  OBVIOUS
<1>1. \A v \in Workers : ~Gone(v) =>
          \E t \in Workers : pc[t] = "insert" /\ newThread[t] = v
  BY DEF LifeInv, RegisteredInv, StopInv, Stopping, Threads
<1>2. PICK t \in Workers : pc[t] = "insert" /\ newThread[t] = w
  BY <1>1
<1>3. PICK u \in Workers : pc[u] = "insert" /\ newThread[u] = t
  BY <1>1, <1>2 DEF Gone
<1>4. u = t
  BY <1>2, <1>3 DEF QueueInv, MutexInv, LockedPC, Callers
<1>5. QED
  BY <1>3, <1>4 DEF LifeInv, RegisteredInv, Threads

\* The destructor.
LEMMA LifeStop ==
    ASSUME QueueInv, LifeInv,
           RunCallbacks \/ DestroyBegin \/ DestroyNotify \/ DestroyJoin \/ DestroyDrain
    PROVE  LifeInv'
<1> USE DEF LifeInv
<1>1. /\ Owner \in Threads /\ Workers \subseteq Threads \ {Owner}
      /\ Clients \subseteq Threads \ {Owner}
  BY ThreadAssumption DEF Threads, Callers
<1>2. /\ \A u \in Threads \ {Owner} : Bystander(u)
      /\ UNCHANGED <<threads, newThread>>
      /\ pc[Owner] \in {"up"} \cup Stopping /\ pc'[Owner] \in {"up"} \cup Stopping
  <2>1. CASE DestroyNotify
    BY <2>1, DestroyNotifies DEF DestroyNotify, counters, callVars, Stopping
  <2>2. CASE RunCallbacks \/ DestroyBegin \/ DestroyJoin \/ DestroyDrain
    BY <1>1, <2>2
    DEF RunCallbacks, DestroyBegin, DestroyJoin, DestroyDrain, counters, callVars,
        Stopping, Bystander, QueueInv, Positions
  <2>3. QED
    BY <2>1, <2>2
<1>3. isRunning' = (pc'[Owner] = "up")
  <2>1. CASE DestroyBegin
    BY <1>1, <2>1, Zenon DEF DestroyBegin, QueueInv, Positions
  <2>2. CASE RunCallbacks
    BY <1>2, <2>2, Zenon DEF RunCallbacks, RunningInv
  <2>3. CASE DestroyNotify \/ DestroyJoin \/ DestroyDrain
    <3>1. /\ isRunning' = isRunning /\ pc[Owner] \notin {"starting", "insert", "up"}
          /\ pc'[Owner] # "up"
      BY <1>1, <2>3, DestroyNotifies
      DEF DestroyNotify, DestroyJoin, DestroyDrain, QueueInv, Positions
    <3>2. (pc[Owner] \in {"starting", "insert", "up"}) = FALSE
      BY <3>1, SMTT(60)
    <3>3. isRunning = FALSE
      BY <3>2, Zenon DEF RunningInv
    <3>4. (pc'[Owner] = "up") = FALSE
      BY <3>1, Zenon
    <3>5. QED
      BY <3>1, <3>3, <3>4, Zenon
  <2>4. QED
    BY <2>1, <2>2, <2>3
<1>4. \A w \in Workers : /\ ~Gone(w)' <=> ~Gone(w)
                         /\ pc'[w] \in {"exit", "exited"} <=> pc[w] \in {"exit", "exited"}
  BY <1>1, <1>2 DEF Bystander, Gone
<1>5. RunningInv'
  <2>1. isRunning' => isRunning
    BY Zenon DEF RunCallbacks, DestroyBegin, DestroyNotify, DestroyJoin, DestroyDrain
  <2>2. QED
    BY <1>2, <1>3, <1>4, <2>1, SMTT(60) DEF RunningInv, Stopping
<1>6. StartInv'
  BY <1>2 DEF StartInv, Starting, Stopping
<1>7. RegisteredInv'
  <2>1. \A u \in Threads : pc'[u] = "insert" <=> pc[u] = "insert"
    BY <1>1, <1>2 DEF Bystander, Stopping
  <2>2. QED
    BY <1>1, <1>2, <1>4, <2>1 DEF RegisteredInv
<1>8. StopInv'
  <2>1. \A c \in Clients : pc[c] = "idle" => pc'[c] = "idle"
    BY <1>1, <1>2 DEF Bystander
  <2>2. pc'[Owner] \in Stopping => \A c \in Clients : pc[c] = "idle"
    <3>1. CASE pc[Owner] \in Stopping
      BY <3>1 DEF StopInv
    <3>2. CASE pc[Owner] = "up"
      BY <3>2
      DEF RunCallbacks, DestroyBegin, DestroyNotify, DestroyJoin, DestroyDrain, Stopping
    <3>3. QED
      BY <1>2, <3>1, <3>2
  <2>3. pc'[Owner] \in {"drain", "gone"} => \A w \in Workers : Gone(w)
    <3>1. CASE DestroyJoin
      BY <1>1, <3>1, EmptyMeansGone
      DEF DestroyJoin, AllExited, QueueInv, Positions, Stopping
    <3>2. CASE DestroyDrain
      BY <3>2 DEF DestroyDrain, StopInv
    <3>3. CASE RunCallbacks \/ DestroyBegin \/ DestroyNotify
      BY <1>1, <3>3, DestroyNotifies DEF RunCallbacks, DestroyBegin, QueueInv, Positions
    <3>4. QED
      BY <3>1, <3>2, <3>3
  <2>4. QED
    BY <1>4, <2>1, <2>2, <2>3 DEF StopInv
<1>9. QED
  BY <1>5, <1>6, <1>7, <1>8


\* The invariant of the threads' lives.
LifeOK == QueueInv /\ FlagsOK /\ ThreadsOK /\ LifeInv

-----------------------------------------------------------------------------
(* The counters of threads.                                                *)

\* What a step can do to the live threads, to the free ones and to the counters.
Joins(w) ==
    /\ w \notin Live /\ Live' = Live \cup {w} /\ Free' = Free \cup {w}
    /\ currentThreadCount < maxThreadCount
    /\ currentThreadCount' = currentThreadCount + 1
    /\ idleThreadCount' = idleThreadCount + 1
GetsBusy(w) ==
    /\ w \in Free /\ Live' = Live /\ Free' = Free \ {w}
    /\ currentThreadCount' = currentThreadCount
    /\ idleThreadCount' = idleThreadCount - 1
GetsFree(w) ==
    /\ w \in Live \ Free /\ Live' = Live /\ Free' = Free \cup {w}
    /\ currentThreadCount' = currentThreadCount
    /\ idleThreadCount' = idleThreadCount + 1
Leaves(w) ==
    /\ w \in Free /\ Live' = Live \ {w} /\ Free' = Free \ {w}
    /\ isRunning => /\ pc[w] = "quitIdle"
                    /\ currentThreadCount' = currentThreadCount - 1
                    /\ idleThreadCount' = idleThreadCount - 1
AllStay ==
    Live' = Live /\ Free' = Free /\ UNCHANGED <<currentThreadCount, idleThreadCount>>

\* A thread that a step only wakes, or moves within its kind, counts as before.
LEMMA KindsStay ==
    ASSUME \A w \in Workers : (Gone(w)' <=> Gone(w)) /\ (Busy(w)' <=> Busy(w))
    PROVE  Live' = Live /\ Free' = Free
BY Zenon DEF Live, Free

\* A thread that a notify_all wakes is as live and as busy as before.
LEMMA BystandersStay ==
    ASSUME NEW u, Bystander(u)
    PROVE  (Gone(u)' <=> Gone(u)) /\ (Busy(u)' <=> Busy(u))
BY DEF Bystander, Gone, Busy, EnqueuePC

\* The thread that CreateThread starts is live and free at once.
LEMMA CreatedJoins ==
    ASSUME NEW t \in Threads, NEW w \in Workers, Created(t, w),
           t \in Workers => pc[t] \in EnqueuePC
    PROVE  Joins(w)
<1>1. \A u \in Workers \ {t, w} : (Gone(u)' <=> Gone(u)) /\ (Busy(u)' <=> Busy(u))
  BY BystandersStay, Zenon DEF Created, Threads
<1>2. t \in Workers => ~Gone(t) /\ ~Gone(t)' /\ Busy(t) /\ Busy(t)'
  BY DEF Created, Gone, Busy, EnqueuePC
<1>3. Gone(w) /\ ~Gone(w)' /\ ~Busy(w)'
  BY DEF Created, Gone, Busy, EnqueuePC
<1>4. w \notin Live /\ Live' = Live \cup {w} /\ Free' = Free \cup {w}
  BY <1>1, <1>2, <1>3, Zenon DEF Live, Free
<1>5. QED
  BY <1>4, Zenon DEF Joins, Created

\* A caller of enqueueTask is busy if it is a worker, and may start a thread.
LEMMA CensusCaller ==
    ASSUME LifeOK, NEW t \in Callers,
           CallerStep(t) \/ \E k \in Tasks : Submit(t, k)
    PROVE  (\E w \in Workers : Joins(w)) \/ AllStay
<1>1. QueueInv /\ t \in Threads
  BY DEF LifeOK, Threads, Callers
<1>2. t \in Workers => /\ ~Gone(t) /\ ~Gone(t)'
                       /\ Busy(t) /\ Busy(t)'
  <2>1. /\ pc'[t] \in EnqueuePC \cup {"insert", Resume(t)}
        /\ \/ pc[t] \in EnqueuePC \cup {"insert"}
           \/ t \in Clients /\ pc[t] = "idle" /\ pc[Owner] = "up"
           \/ t \in Workers /\ pc[t] = "running"
    BY <1>1, CallerMoves, Zenon
  <2>2. t \in Workers => t \notin Clients
    BY ThreadAssumption
  <2>3. QED
    BY <2>1, <2>2 DEF Gone, Busy, EnqueuePC, Resume
<1>3. CASE EnqueuePush(t)
  <2>1. CASE \E w \in Workers : Created(t, w)
    <3>1. pc[t] \in EnqueuePC
      BY <1>1, <1>3, Pushes DEF EnqueuePC
    <3>2. QED
      BY <1>1, <2>1, <3>1, CreatedJoins, Zenon
  <2>2. CASE /\ \A u \in Threads \ {t} : Bystander(u)
             /\ UNCHANGED <<currentThreadCount, idleThreadCount, newThread>>
    <3>1. \A w \in Workers : (Gone(w)' <=> Gone(w)) /\ (Busy(w)' <=> Busy(w))
      BY <1>2, <2>2, BystandersStay, Zenon DEF Threads
    <3>2. QED
      BY <2>2, <3>1, KindsStay, Zenon DEF AllStay
  <2>3. QED
    BY <1>1, <1>3, <2>1, <2>2, Pushes, Zenon
<1>4. CASE \/ EnqueueLock(t) \/ EnqueueBlock(t) \/ EnqueueTimeout(t)
           \/ EnqueueCheck(t) \/ RegisterThread(t) \/ \E k \in Tasks : Submit(t, k)
  <2>1. /\ \A u \in Threads \ {t} : pc'[u] = pc[u]
        /\ UNCHANGED <<currentThreadCount, idleThreadCount>>
    BY <1>1, <1>4
    DEF EnqueueLock, EnqueueBlock, EnqueueTimeout, EnqueueCheck, RegisterThread,
        Submit, QueueInv, Positions, counters
  <2>2. \A w \in Workers : (Gone(w)' <=> Gone(w)) /\ (Busy(w)' <=> Busy(w))
    BY <1>2, <2>1, Zenon DEF Threads, Gone, Busy
  <2>3. QED
    BY <2>1, <2>2, KindsStay, Zenon DEF AllStay
<1>5. QED
  BY <1>3, <1>4, Zenon DEF CallerStep

\* While the pool runs, a worker that leaves is registered: a thread being
\* inserted has its creator inside taskQueueMutex_, or Start still running.
LEMMA LeaverRegistered ==
    ASSUME LifeOK, isRunning, NEW w \in Workers, pc[w] = "quitIdle"
    PROVE  w \in threads
<1>1. mutex = w /\ ~Gone(w)
  BY DEF LifeOK, QueueInv, MutexInv, LockedPC, Callers, Gone
<1>2. pc[Owner] # "insert"
  BY DEF LifeOK, LifeInv, StartInv, Starting
<1>3. SUFFICES ASSUME NEW t \in Threads, pc[t] = "insert", newThread[t] = w
               PROVE  FALSE
  BY <1>1 DEF LifeOK, LifeInv, RegisteredInv
<1>4. t = w
  BY <1>1, <1>2, <1>3 DEF LifeOK, QueueInv, MutexInv, LockedPC, Threads, Callers
<1>5. QED
  BY <1>3, <1>4

\* A worker that pops, ends a task or leaves.
LEMMA CensusWorker ==
    ASSUME LifeOK, NEW w \in Workers, WorkerStep(w)
    PROVE  GetsBusy(w) \/ GetsFree(w) \/ Leaves(w) \/ AllStay
<1>1. /\ w \in Threads /\ \A u \in Threads \ {w} : Bystander(u)
      /\ pc \in [Threads -> PC] /\ QueueInv
  BY WorkerMoves DEF LifeOK, Threads, QueueInv, Positions
<1>2. \A u \in Workers \ {w} : (Gone(u)' <=> Gone(u)) /\ (Busy(u)' <=> Busy(u))
  BY <1>1, BystandersStay, Zenon DEF Threads
<1>3. CASE PopTask(w)
  <2>1. ~Gone(w) /\ ~Busy(w) /\ ~Gone(w)' /\ Busy(w)'
    BY <1>1, <1>3 DEF PopTask, Gone, Busy, EnqueuePC
  <2>2. w \in Free /\ Live' = Live /\ Free' = Free \ {w}
    BY <1>2, <2>1, Zenon DEF Live, Free
  <2>3. QED
    BY <1>3, <2>2, Zenon DEF PopTask, GetsBusy
<1>4. CASE FinishTask(w)
  <2>1. ~Gone(w) /\ Busy(w) /\ ~Gone(w)' /\ ~Busy(w)'
    BY <1>1, <1>4 DEF FinishTask, Gone, Busy, EnqueuePC
  <2>2. w \in Live \ Free /\ Live' = Live /\ Free' = Free \cup {w}
    BY <1>2, <2>1, Zenon DEF Live, Free
  <2>3. QED
    BY <1>4, <2>2, Zenon DEF FinishTask, GetsFree
<1>5. CASE threadExit(w)
  <2>1. ~Gone(w) /\ ~Busy(w) /\ Gone(w)' /\ ~Busy(w)'
    BY <1>1, <1>5 DEF threadExit, Gone, Busy, EnqueuePC
  <2>2. w \in Free /\ Live' = Live \ {w} /\ Free' = Free \ {w}
    BY <1>2, <2>1, Zenon DEF Live, Free
  <2>3. isRunning => pc[w] = "quitIdle"
    BY <1>5 DEF threadExit, LifeOK, LifeInv, RunningInv
  <2>4. isRunning => EraseThread(w)
    BY <1>5, <2>3, LeaverRegistered, Zenon DEF threadExit
  <2>5. QED
    BY <2>2, <2>3, <2>4, Zenon DEF EraseThread, Leaves
<1>6. CASE \/ LoopTop(w) \/ WorkerLock(w) \/ WorkerBlock(w) \/ WorkerTimeout(w)
           \/ WorkerCheck(w) \/ NotifyNotFull(w) \/ WorkerReturn(w)
  <2>1. (Gone(w)' <=> Gone(w)) /\ (Busy(w)' <=> Busy(w))
    <3>1. CASE NotifyNotFull(w) \/ WorkerReturn(w)
      BY <1>1, <3>1, Notifies DEF Gone, Busy, EnqueuePC
    <3>2. CASE \/ LoopTop(w) \/ WorkerLock(w) \/ WorkerBlock(w) \/ WorkerTimeout(w)
               \/ WorkerCheck(w)
      BY <1>1, <3>2
      DEF LoopTop, WorkerLock, WorkerBlock, WorkerTimeout, WorkerCheck, Gone, Busy,
          EnqueuePC
    <3>3. QED
      BY <1>6, <3>1, <3>2
  <2>2. UNCHANGED <<currentThreadCount, idleThreadCount>>
    BY <1>6, Zenon
    DEF LoopTop, WorkerLock, WorkerBlock, WorkerTimeout, WorkerCheck, NotifyNotFull,
        WorkerReturn, counters
  <2>3. QED
    BY <1>2, <2>1, <2>2, KindsStay, Zenon DEF AllStay
<1>7. QED
  BY <1>3, <1>4, <1>5, <1>6, Zenon DEF WorkerStep

\* Start makes threads; nothing else that the owner does counts.
LEMMA CensusOwner ==
    ASSUME LifeOK, OwnerStep \/ RunCallbacks \/ DestroyBegin
    PROVE  (\E w \in Workers : Joins(w)) \/ AllStay
<1>1. /\ QueueInv /\ Owner \in Threads /\ Workers \subseteq Threads \ {Owner}
      /\ pc \in [Threads -> PC]
  BY ThreadAssumption DEF LifeOK, Threads, Callers, QueueInv, Positions
<1>2. CASE StartThread /\ CreateThread(pc, Owner)
  <2>1. \E w \in Workers : Created(Owner, w)
    BY <1>1, <1>2, Creates DEF StartThread
  <2>2. QED
    BY <1>1, <2>1, CreatedJoins, Zenon
<1>3. CASE /\ UNCHANGED <<currentThreadCount, idleThreadCount>>
           /\ \A u \in Threads \ {Owner} : Bystander(u)
  <2>1. \A w \in Workers : (Gone(w)' <=> Gone(w)) /\ (Busy(w)' <=> Busy(w))
    BY <1>1, <1>3, BystandersStay, Zenon
  <2>2. QED
    BY <1>3, <2>1, KindsStay, Zenon DEF AllStay
<1>4. CASE DestroyNotify
  BY <1>1, <1>3, <1>4, DestroyNotifies, Zenon DEF DestroyNotify, counters
<1>5. CASE StartThread /\ ~CreateThread(pc, Owner)
  <2>1. pc' = pc /\ UNCHANGED <<currentThreadCount, idleThreadCount>>
    BY <1>5, Zenon DEF StartThread
  <2>2. QED
    BY <1>3, <2>1, Zenon DEF Bystander
<1>6. CASE \/ Start \/ RegisterThread(Owner) \/ StartReturn \/ DestroyJoin
           \/ DestroyDrain \/ RunCallbacks \/ DestroyBegin
  <2>1. \A u \in Threads \ {Owner} : pc'[u] = pc[u]
    BY <1>1, <1>6
    DEF Start, RegisterThread, StartReturn, DestroyJoin, DestroyDrain, RunCallbacks,
        DestroyBegin
  <2>2. UNCHANGED <<currentThreadCount, idleThreadCount>>
    BY <1>6, Zenon
    DEF Start, RegisterThread, StartReturn, DestroyJoin, DestroyDrain, RunCallbacks,
        DestroyBegin, counters
  <2>3. QED
    BY <1>3, <2>1, <2>2, Zenon DEF Bystander
<1>7. QED
  BY <1>2, <1>4, <1>5, <1>6, Zenon DEF OwnerStep


\* Every step counts the threads it moves.
LEMMA Census ==
    ASSUME LifeOK, [Next]_vars
    PROVE  \/ \E w \in Workers : Joins(w) \/ GetsBusy(w) \/ GetsFree(w) \/ Leaves(w)
           \/ AllStay
<1>1. CASE UNCHANGED vars
  BY <1>1, Zenon DEF vars, AllStay, Live, Free, Gone, Busy
<1>2. CASE Next
  BY <1>2, CensusCaller, CensusWorker, CensusOwner, Zenon DEF Next
<1>3. QED
  BY <1>1, <1>2

\* isRunning_ is set by Start alone, which finds no thread.
LEMMA Runs ==
    ASSUME [Next]_vars
    PROVE  (isRunning' => isRunning) \/ Start
BY Zenon DEF Next, vars, CallerStep, WorkerStep, OwnerStep, Submit, EnqueueLock,
    EnqueueBlock, EnqueueTimeout, EnqueueCheck, EnqueuePush, RegisterThread, LoopTop,
    WorkerLock, WorkerBlock, WorkerTimeout, WorkerCheck, PopTask, NotifyNotFull,
    FinishTask, threadExit, WorkerReturn, StartThread, StartReturn, DestroyNotify,
    DestroyJoin, DestroyDrain, RunCallbacks, DestroyBegin

\* Start finds no thread, and counts none.
LEMMA StartsEmpty ==
    ASSUME LifeOK, Start
    PROVE  /\ Live' = {} /\ Free' = {}
           /\ currentThreadCount' = 0 /\ idleThreadCount' = 0 /\ startCalls' = 0
<1>1. /\ \A w \in Workers : pc[w] = "none"
      /\ currentThreadCount = 0 /\ idleThreadCount = 0 /\ startCalls = 0
  BY DEF LifeOK, LifeInv, StartInv, Starting, Start
<1>2. UNCHANGED <<currentThreadCount, idleThreadCount, startCalls>>
  BY DEF Start, counters
<1>3. \A w \in Workers : pc'[w] = "none"
  BY <1>1, ThreadAssumption DEF LifeOK, QueueInv, Positions, Start, Threads, Callers
<1>4. QED
  BY <1>1, <1>2, <1>3 DEF Live, Free, Gone

\* Start finds no thread and two counters at zero.
LEMMA CountStart ==
    ASSUME LifeOK, Start, IsFiniteSet({}), Cardinality({}) = 0
    PROVE  CountInv'
BY StartsEmpty, ConfigAssumption, SMTT(60) DEF CountInv

\* A thread that joins is counted twice, below maxThreadCount_.
LEMMA CountJoins ==
    ASSUME CountInv, isRunning' => isRunning, NEW w, Joins(w),
           Cardinality(Live) \in Nat, Cardinality(Free) \in Nat, IsFiniteSet(Live'),
           Cardinality(Live') = Cardinality(Live) + 1,
           Cardinality(Free') = Cardinality(Free) + 1
    PROVE  CountInv'
BY ConfigAssumption, SMTT(60) DEF CountInv, Joins

\* PopTask takes a thread out of idleThreadCount_.
LEMMA CountBusy ==
    ASSUME CountInv, isRunning' => isRunning, NEW w, GetsBusy(w),
           Cardinality(Live) \in Nat, Cardinality(Free) \in Nat, IsFiniteSet(Live'),
           Cardinality(Live') = Cardinality(Live),
           Cardinality(Free') = Cardinality(Free) - 1
    PROVE  CountInv'
BY ConfigAssumption, SMTT(60) DEF CountInv, GetsBusy

\* FinishTask puts it back.
LEMMA CountFree ==
    ASSUME CountInv, isRunning' => isRunning, NEW w, GetsFree(w),
           Cardinality(Live) \in Nat, Cardinality(Free) \in Nat, IsFiniteSet(Live'),
           Cardinality(Live') = Cardinality(Live),
           Cardinality(Free') = Cardinality(Free) + 1
    PROVE  CountInv'
BY ConfigAssumption, SMTT(60) DEF CountInv, GetsFree

\* A surplus thread that quits is taken out of both counters.
LEMMA CountLeaves ==
    ASSUME CountInv, isRunning' => isRunning, NEW w, Leaves(w),
           Cardinality(Live) \in Nat, Cardinality(Free) \in Nat, IsFiniteSet(Live'),
           Cardinality(Live') = Cardinality(Live) - 1,
           Cardinality(Free') = Cardinality(Free) - 1
    PROVE  CountInv'
BY ConfigAssumption, SMTT(60) DEF CountInv, Leaves

-----------------------------------------------------------------------------
(* A queued task has a thread.                                             *)

\* The first CreateThread of Start has room for a thread.
LEMMA StartCreates ==
    ASSUME ThreadsOK, StartThread, ~(currentThreadCount > 0), maxThreadCount > 0
    PROVE  CreateThread(pc, Owner)
BY ConfigAssumption, SMTT(60) DEF StartThread, ThreadsOK

\* A caller or a worker at most wakes the owner.
LEMMA OwnerMoves ==
    ASSUME LifeOK, Next, ~OwnerStep, ~RunCallbacks, ~DestroyBegin
    PROVE  startCalls' = startCalls /\ pc'[Owner] \in {pc[Owner], "joinWoken"}
<1>1. Owner \in Threads /\ Owner \notin Callers
  BY ThreadAssumption DEF Threads
<1>2. pc[Owner] \notin {"wait", "enqWait"}
  BY DEF LifeOK, LifeInv, RunningInv, Starting, Stopping
<1>3. CASE \E t \in Callers : CallerStep(t) \/ \E k \in Tasks : Submit(t, k)
  <2>1. PICK t \in Callers : CallerStep(t) \/ \E k \in Tasks : Submit(t, k)
    BY <1>3, Zenon
  <2>2. startCalls' = startCalls /\ (Bystander(Owner) \/ Owner \in Workers)
    BY <1>1, <2>1, CallerMoves, Zenon DEF LifeOK
  <2>3. QED
    BY <1>1, <1>2, <2>2 DEF Bystander, Callers
<1>4. CASE \E w \in Workers : WorkerStep(w)
  <2>1. PICK w \in Workers : WorkerStep(w)
    BY <1>4, Zenon
  <2>2. startCalls' = startCalls /\ Bystander(Owner)
    BY <1>1, <2>1, WorkerMoves, Zenon DEF LifeOK, Callers
  <2>3. QED
    BY <1>2, <2>2 DEF Bystander
<1>5. QED
  BY <1>3, <1>4, Zenon DEF Next

\* Start's calls are all made when it returns.
LEMMA UpNext ==
    ASSUME LifeOK, pc[Owner] = "up" => startCalls = initThreadSize, [Next]_vars
    PROVE  pc'[Owner] = "up" => startCalls' = initThreadSize
<1>1. Owner \in Threads /\ pc \in [Threads -> PC]
  BY DEF LifeOK, QueueInv, Positions, Threads
<1>2. CASE Next /\ ~OwnerStep /\ ~RunCallbacks /\ ~DestroyBegin
  BY <1>2, OwnerMoves
<1>3. CASE StartThread
  <2>1. pc[Owner] = "starting"
    BY <1>3 DEF StartThread
  <2>2. CASE CreateThread(pc, Owner)
    BY <1>1, <2>1, <2>2, Creates DEF Created, LifeOK
  <2>3. CASE pc' = pc
    BY <2>1, <2>3
  <2>4. QED
    BY <1>3, <2>2, <2>3, Zenon DEF StartThread
<1>4. CASE DestroyNotify
  BY <1>4, DestroyNotifies DEF LifeOK
<1>5. CASE \/ Start \/ RegisterThread(Owner) \/ StartReturn \/ DestroyJoin
           \/ DestroyDrain \/ RunCallbacks \/ DestroyBegin
  BY <1>1, <1>5
  DEF Start, RegisterThread, StartReturn, DestroyJoin, DestroyDrain, RunCallbacks,
      DestroyBegin
<1>6. CASE UNCHANGED vars
  BY <1>6 DEF vars
<1>7. QED
  BY <1>2, <1>3, <1>4, <1>5, <1>6, Zenon DEF Next, OwnerStep

\* In fixed mode no worker comes to wait with a limit.
LEMMA UnlimitedNext ==
    ASSUME LifeOK, ~Cached, Unlimited, [Next]_vars
    PROVE  Unlimited'
<1>1. /\ Workers \subseteq Threads /\ pc \in [Threads -> PC] /\ QueueInv
      /\ timed \in [Workers -> BOOLEAN] /\ Owner \notin Workers
  BY ThreadAssumption, Zenon
  DEF LifeOK, QueueInv, Positions, Threads, Callers, FlagsOK
<1>2. CASE \E t \in Callers : CallerStep(t) \/ \E k \in Tasks : Submit(t, k)
  <2>1. PICK t \in Callers : CallerStep(t) \/ \E k \in Tasks : Submit(t, k)
    BY <1>2, Zenon
  <2>2. timed' = timed /\ pc'[t] \in EnqueuePC \cup {"insert", Resume(t)}
    BY <1>1, <2>1, CallerMoves, Zenon
  <2>3. \A u \in Threads \ {t} : Bystander(u) \/ pc'[u] = "top"
    BY <1>1, <2>1, CallerMoves, Zenon
  <2>4. \A w \in Workers : pc'[w] \notin {"timedOut", "quitIdle"}
    BY <1>1, <2>2, <2>3 DEF Unlimited, Bystander, EnqueuePC, Resume
  <2>5. QED
    BY <2>2, <2>4 DEF Unlimited
<1>3. CASE \E w \in Workers : WorkerStep(w)
  <2>1. PICK w \in Workers : WorkerStep(w)
    BY <1>3, Zenon
  <2>2. \A u \in Workers \ {w} : Bystander(u)
    BY <1>1, <2>1, WorkerMoves, Zenon
  <2>3. pc'[w] \notin {"timedOut", "quitIdle"}
    <3>1. CASE NotifyNotFull(w) \/ WorkerReturn(w)
      BY <1>1, <3>1, Notifies
    <3>2. CASE \/ LoopTop(w) \/ WorkerLock(w) \/ WorkerBlock(w) \/ WorkerTimeout(w)
               \/ WorkerCheck(w) \/ PopTask(w) \/ FinishTask(w) \/ threadExit(w)
      BY <1>1, <3>2
      DEF LoopTop, WorkerLock, WorkerBlock, WorkerTimeout, WorkerCheck, PopTask,
          FinishTask, threadExit, Unlimited
    <3>3. QED
      BY <2>1, <3>1, <3>2, Zenon DEF WorkerStep
  <2>4. \A u \in Workers : timed'[u] = FALSE
    <3>1. CASE WorkerLock(w)
      <4>1. ExtraThread = FALSE
        BY DEF ExtraThread
      <4>2. \/ timed' = timed
            \/ timed' = [timed EXCEPT ![w] = ExtraThread]
            \/ timed' = [timed EXCEPT ![w] = timed[w]]
        BY <3>1, Zenon DEF WorkerLock
      <4>3. QED
        BY <1>1, <4>1, <4>2, Zenon DEF Unlimited
    <3>2. CASE timed' = timed
      BY <3>2, Zenon DEF Unlimited
    <3>3. WorkerLock(w) \/ timed' = timed
      BY <2>1, Zenon
      DEF WorkerStep, LoopTop, WorkerBlock, WorkerTimeout, WorkerCheck, PopTask,
          NotifyNotFull, FinishTask, threadExit, WorkerReturn
    <3>4. QED
      BY <3>1, <3>2, <3>3, Zenon
  <2>5. \A u \in Workers \ {w} : pc'[u] \notin {"timedOut", "quitIdle"}
    BY <2>2 DEF Bystander, Unlimited
  <2>6. QED
    BY <2>3, <2>4, <2>5, Zenon DEF Unlimited
<1>4. CASE OwnerStep \/ RunCallbacks \/ DestroyBegin
  <2>1. timed' = timed
    BY <1>4, Zenon
    DEF OwnerStep, Start, StartThread, RegisterThread, StartReturn, DestroyNotify,
        DestroyJoin, DestroyDrain, RunCallbacks, DestroyBegin
  <2>2. \A w \in Workers : Bystander(w) \/ pc'[w] = "top"
    <3>1. CASE StartThread
      <4>1. CASE CreateThread(pc, Owner)
        <5>1. PICK w \in Workers : Created(Owner, w)
          BY <3>1, <4>1, Creates DEF StartThread, LifeOK, Threads
        <5>2. QED
          BY <1>1, <5>1, Zenon DEF Created
      <4>2. QED
        BY <3>1, <4>1, Zenon DEF StartThread, Bystander
    <3>2. CASE DestroyNotify
      BY <1>1, <3>2, DestroyNotifies, Zenon
    <3>3. CASE \/ Start \/ RegisterThread(Owner) \/ StartReturn \/ DestroyJoin
               \/ DestroyDrain \/ RunCallbacks \/ DestroyBegin
      BY <1>1, <3>3
      DEF Start, RegisterThread, StartReturn, DestroyJoin, DestroyDrain, RunCallbacks,
          DestroyBegin, Bystander
    <3>4. QED
      BY <1>4, <3>1, <3>2, <3>3, Zenon DEF OwnerStep
  <2>3. QED
    BY <2>1, <2>2 DEF Unlimited, Bystander
<1>5. CASE UNCHANGED vars
  BY <1>5, Zenon DEF vars, Unlimited
<1>6. QED
  BY <1>2, <1>3, <1>4, <1>5, Zenon DEF Next

\* A thread that will look at the queue again.
Able(w) == pc[w] \notin ExitPC \cup {"none"}

\* While tasks are queued and the pool runs, no worker decides to leave.
LEMMA AbleStays ==
    ASSUME LifeOK, Next, isRunning, taskQueueSize > 0, NEW w \in Workers, Able(w)
    PROVE  Able(w)'
<1>1. w \in Threads /\ pc \in [Threads -> PC] /\ QueueInv
  BY DEF LifeOK, QueueInv, Positions, Threads
<1>2. Bystander(w) => Able(w)'
  BY DEF Bystander, Able, ExitPC
<1>3. CASE \E t \in Callers : CallerStep(t) \/ \E k \in Tasks : Submit(t, k)
  <2>1. PICK t \in Callers : CallerStep(t) \/ \E k \in Tasks : Submit(t, k)
    BY <1>3, Zenon
  <2>2. CASE w = t
    <3>1. pc'[w] \in EnqueuePC \cup {"insert", Resume(w)}
      BY <1>1, <2>1, <2>2, CallerMoves, Zenon
    <3>2. QED
      BY <3>1 DEF EnqueuePC, Resume, Able, ExitPC
  <2>3. CASE w # t
    <3>1. Bystander(w) \/ pc'[w] = "top"
      BY <1>1, <2>1, <2>3, CallerMoves, Zenon
    <3>2. QED
      BY <1>2, <3>1 DEF Able, ExitPC
  <2>4. QED
    BY <2>2, <2>3
<1>4. CASE \E v \in Workers : WorkerStep(v)
  <2>1. PICK v \in Workers : WorkerStep(v)
    BY <1>4, Zenon
  <2>2. CASE w # v
    BY <1>1, <1>2, <2>1, <2>2, WorkerMoves, Zenon
  <2>3. CASE w = v
    <3>1. CASE NotifyNotFull(w) \/ WorkerReturn(w)
      BY <1>1, <3>1, Notifies DEF Able, ExitPC
    <3>2. CASE threadExit(w)
      BY <3>2 DEF threadExit, Able, ExitPC
    <3>3. CASE \/ LoopTop(w) \/ WorkerLock(w) \/ WorkerBlock(w) \/ WorkerTimeout(w)
               \/ WorkerCheck(w) \/ PopTask(w) \/ FinishTask(w)
      BY <1>1, <3>3, Zenon
      DEF LoopTop, WorkerLock, WorkerBlock, WorkerTimeout, WorkerCheck, PopTask,
          FinishTask, HasWork, Able, ExitPC
    <3>4. QED
      BY <2>1, <2>3, <3>1, <3>2, <3>3, Zenon DEF WorkerStep
  <2>4. QED
    BY <2>2, <2>3
<1>5. CASE OwnerStep \/ RunCallbacks \/ DestroyBegin
  <2>1. w # Owner
    BY ThreadAssumption DEF Callers
  <2>2. CASE StartThread
    <3>1. CASE CreateThread(pc, Owner)
      <4>1. PICK v \in Workers : Created(Owner, v)
        BY <2>2, <3>1, Creates DEF StartThread, LifeOK, Threads
      <4>2. Bystander(w) \/ pc'[w] = "top"
        BY <1>1, <2>1, <4>1, Zenon DEF Created
      <4>3. QED
        BY <1>2, <4>2 DEF Able, ExitPC
    <3>2. QED
      BY <1>2, <2>2, <3>1, Zenon DEF StartThread, Bystander
  <2>3. CASE DestroyNotify
    BY <1>1, <1>2, <2>1, <2>3, DestroyNotifies, Zenon
  <2>4. CASE \/ Start \/ RegisterThread(Owner) \/ StartReturn \/ DestroyJoin
             \/ DestroyDrain \/ RunCallbacks \/ DestroyBegin
    <3>1. pc'[w] = pc[w]
      BY <1>1, <2>1, <2>4, Zenon
      DEF Start, RegisterThread, StartReturn, DestroyJoin, DestroyDrain, RunCallbacks,
          DestroyBegin
    <3>2. QED
      BY <3>1, Zenon DEF Able
  <2>5. QED
    BY <1>5, <2>2, <2>3, <2>4, Zenon DEF OwnerStep
<1>6. QED
  BY <1>3, <1>4, <1>5, Zenon DEF Next


\* The queue grows by a push only.
LEMMA Grows ==
    ASSUME LifeOK, [Next]_vars
    PROVE  \/ taskQueueSize' = taskQueueSize
           \/ taskQueueSize' = taskQueueSize - 1
           \/ \E t \in Callers : EnqueuePush(t)
BY Zenon DEF Next, vars, queueVars, CallerStep, WorkerStep, OwnerStep, Submit, EnqueueLock,
    EnqueueBlock, EnqueueTimeout, EnqueueCheck, RegisterThread, LoopTop,
    WorkerLock, WorkerBlock, WorkerTimeout, WorkerCheck, PopTask, NotifyNotFull,
    FinishTask, threadExit, WorkerReturn, Start, StartThread, StartReturn, DestroyNotify,
    DestroyJoin, DestroyDrain, RunCallbacks, DestroyBegin

-----------------------------------------------------------------------------
(* Callbacks.                                                              *)

\* The destructor returns after its last pass over the callbacks.
LEMMA GoneAfterDrain ==
    ASSUME LifeOK, [Next]_vars, pc'[Owner] = "gone"
    PROVE  pc[Owner] = "gone" \/ DestroyDrain
<1>1. Owner \in Threads /\ pc \in [Threads -> PC] /\ QueueInv
  BY DEF LifeOK, QueueInv, Positions, Threads
<1>2. CASE Next /\ ~OwnerStep /\ ~RunCallbacks /\ ~DestroyBegin
  BY <1>2, OwnerMoves
<1>3. CASE StartThread
  <2>1. CASE CreateThread(pc, Owner)
    BY <1>1, <1>3, <2>1, Creates DEF Created, StartThread
  <2>2. QED
    BY <1>3, <2>1, Zenon DEF StartThread
<1>4. CASE DestroyNotify
  BY <1>1, <1>4, DestroyNotifies
<1>5. CASE \/ Start \/ RegisterThread(Owner) \/ StartReturn \/ DestroyJoin
           \/ RunCallbacks \/ DestroyBegin
  BY <1>1, <1>5
  DEF Start, RegisterThread, StartReturn, DestroyJoin, RunCallbacks, DestroyBegin
<1>6. CASE UNCHANGED vars
  BY <1>6 DEF vars
<1>7. QED
  BY <1>2, <1>3, <1>4, <1>5, <1>6, Zenon DEF Next, OwnerStep

\* What moves tasks keeps returned tasks apart from those queued or held.
LEMMA ReturnedApart ==
    ASSUME TaskInv, Once, CallbackInv, [Next]_vars
    PROVE  \A k \in returned : k \in accepted' \ (taskQueue' \cup Held')
<1>1. \A k \in returned : k \in Tasks /\ k \in accepted \ (taskQueue \cup Held)
  BY ConfigAssumption DEF CallbackInv, TaskInv, WorkOK
<1>2. CASE \E t \in Callers : EnqueuePush(t)
  <2>1. PICK t \in Callers : EnqueuePush(t)
    BY <1>2
  <2>2. /\ fn[t] \notin accepted /\ taskQueue' = taskQueue \cup {fn[t]}
        /\ accepted' = accepted \cup {fn[t]} /\ taskFn' = taskFn
    BY <2>1, Pushed, Zenon
  <2>3. Held' = Held
    BY <2>2 DEF Held
  <2>4. QED
    BY <1>1, <2>2, <2>3
<1>3. CASE \E w \in Workers : PopTask(w)
  <2>1. PICK w \in Workers : PopTask(w)
    BY <1>3
  <2>2. /\ taskFn[w] = None /\ accepted' = accepted
        /\ \E k \in Tasks : /\ k \in taskQueue
                            /\ taskFn' = [taskFn EXCEPT ![w] = k]
                            /\ taskQueue' = taskQueue \ {k}
    BY <2>1, Popped, Zenon
  <2>3. PICK k \in Tasks : /\ k \in taskQueue
                           /\ taskFn' = [taskFn EXCEPT ![w] = k]
                           /\ taskQueue' = taskQueue \ {k}
    BY <2>2, Zenon
  <2>4. Held' = Held \cup {k}
    BY <2>2, <2>3, HeldTaken, Zenon
  <2>5. QED
    BY <1>1, <2>2, <2>3, <2>4
<1>4. CASE \E w \in Workers : FinishTask(w)
  <2>1. PICK w \in Workers : FinishTask(w)
    BY <1>4
  <2>2. UNCHANGED <<accepted, taskQueue>> /\ Held' = Held \ {taskFn[w]}
    BY <2>1, Finished, HeldDropped, Zenon
  <2>3. QED
    BY <1>1, <2>2
<1>5. CASE UNCHANGED <<taskQueue, accepted, taskFn, runs>>
  BY <1>1, <1>5 DEF Held
<1>6. QED
  BY <1>2, <1>3, <1>4, <1>5, Moves, Zenon

\* After a pass no callback is pending.
LEMMA CallbackPass ==
    ASSUME callbackQueue' = <<>>, returned' = returned,
           \A k \in Tasks : called'[k] = IF k \in returned THEN 1 ELSE 0,
           \A k \in returned : k \in accepted' \ (taskQueue' \cup Held')
    PROVE  CallbackInv'
BY SMTT(60) DEF CallbackInv

\* A task that returns pushes its callback, which no other task has pushed.
LEMMA CallbackFinish ==
    ASSUME TaskInv, Once, LifeOK, CallbackInv, [Next]_vars, NEW w \in Workers,
           FinishTask(w)
    PROVE  CallbackInv'
<1>1. \A k \in returned : k \in accepted' \ (taskQueue' \cup Held')
  BY ReturnedApart
<1> DEFINE k == taskFn[w]
<1>2. k \in Tasks /\ k \in Held /\ Held' = Held \ {k} /\ UNCHANGED <<accepted, taskQueue>>
  BY Finished, HeldDropped, Zenon
<1>3. pc[Owner] # "gone" /\ pc'[Owner] # "gone"
  <2>1. pc[Owner] # "gone"
    BY DEF FinishTask, LifeOK, LifeInv, StopInv, Gone
  <2>2. pc'[Owner] = pc[Owner]
    BY ThreadAssumption
    DEF FinishTask, LifeOK, QueueInv, Positions, Threads, Callers
  <2>3. QED
    BY <2>1, <2>2
<1>4. called' = called
  BY DEF FinishTask
<1>5. CASE UNCHANGED <<callbackQueue, returned>>
  BY <1>1, <1>3, <1>4, <1>5, Zenon DEF CallbackInv
<1>6. CASE /\ callbackQueue' = Append(callbackQueue, k)
           /\ returned' = returned \cup {k}
  <2> DEFINE n == Len(callbackQueue)
  <2>1. /\ n \in Nat /\ DOMAIN callbackQueue = 1..n
        /\ DOMAIN callbackQueue' = 1..(n + 1)
        /\ \A i \in 1..n : callbackQueue'[i] = callbackQueue[i]
        /\ callbackQueue'[n + 1] = k
    BY <1>6, SMTT(60) DEF TaskInv, WorkOK
  <2>2. k \notin returned /\ k \in accepted
    BY <1>2 DEF CallbackInv, Once, PlaceInv
  <2>3. \A i \in 1..n : callbackQueue[i] # k /\ callbackQueue[i] \in returned
    BY <2>1, <2>2 DEF CallbackInv
  <2>4. called[k] = 0
    BY <1>2, <2>2 DEF CallbackInv
  <2>5. returned' \subseteq accepted' \ (taskQueue' \cup Held')
    BY <1>1, <1>2, <1>6, <2>2, SMTT(60) DEF Once, PlaceInv
  <2> HIDE DEF n, k
  <2>6. \A i, j \in DOMAIN callbackQueue' :
            callbackQueue'[i] = callbackQueue'[j] => i = j
    BY <2>1, <2>3, SMTT(60) DEF CallbackInv
  <2>7. \A i \in DOMAIN callbackQueue' : callbackQueue'[i] \in returned'
    BY <1>6, <2>1, <2>3, SMTT(60)
  <2>8. \A j \in Tasks :
            called'[j] = IF j \in returned'
                            /\ \A i \in DOMAIN callbackQueue' : callbackQueue'[i] # j
                         THEN 1 ELSE 0
    <3>1. ASSUME NEW j \in Tasks, j # k
          PROVE  (\A i \in DOMAIN callbackQueue' : callbackQueue'[i] # j)
                     <=> (\A i \in DOMAIN callbackQueue : callbackQueue[i] # j)
      BY <2>1, <3>1, SMTT(60)
    <3>2. \E i \in DOMAIN callbackQueue' : callbackQueue'[i] = k
      BY <2>1, SMTT(60)
    <3>3. \A j \in Tasks : j # k => (j \in returned' <=> j \in returned)
      BY <1>6
    <3>4. QED
      BY <1>4, <2>4, <3>1, <3>2, <3>3, Zenon DEF CallbackInv
  <2>9. QED
    BY <1>3, <2>5, <2>6, <2>7, <2>8, Zenon DEF CallbackInv
<1>7. QED
  BY <1>5, <1>6, Zenon DEF FinishTask

-----------------------------------------------------------------------------
(* taskQueueSize_ counts taskQueue_.                                       *)

\* The proofs up to here need no cardinalities.
INSTANCE FiniteSetTheorems

\* Before Start nobody carries a task and the queue is empty.
LEMMA CarriedInit == Init => CarriedInv /\ SizeInv
BY ThreadAssumption, FS_EmptySet
DEF Init, CarriedInv, SizeInv, Threads, Callers, EnqueuePC

\* Only a push and a pop touch the queue and its counter.
LEMMA SizeNext ==
    ASSUME QueueInv, CarriedInv, SizeInv, [Next]_vars
    PROVE  SizeInv'
<1>1. CASE \E t \in Callers : EnqueuePush(t)
  <2>1. PICK t \in Callers : EnqueuePush(t)
    BY <1>1
  <2>2. fn[t] \notin taskQueue
    BY <2>1 DEF EnqueuePush, CarriedInv, EnqueuePC
  <2>3. taskQueue' = taskQueue \cup {fn[t]} /\ taskQueueSize' = taskQueueSize + 1
    BY <2>1 DEF EnqueuePush
  <2>4. QED
    BY <2>2, <2>3, FS_AddElement, ZenonT(60) DEF SizeInv
<1>2. CASE \E w \in Workers : PopTask(w)
  <2>1. PICK w \in Workers : PopTask(w)
    BY <1>2
  <2>2. PICK k \in Tasks : k \in taskQueue /\ taskQueue' = taskQueue \ {k}
    BY <2>1 DEF PopTask, IsTop, Pop
  <2>3. taskQueueSize' = taskQueueSize - 1
    BY <2>1 DEF PopTask
  <2>4. QED
    BY <2>2, <2>3, FS_RemoveElement DEF SizeInv
<1>3. CASE UNCHANGED <<taskQueue, taskQueueSize>>
  BY <1>3 DEF SizeInv
<1>4. (\E t \in Callers : EnqueuePush(t)) \/ (\E w \in Workers : PopTask(w))
          \/ UNCHANGED <<taskQueue, taskQueueSize>>
  BY ZenonT(60) DEF Next, vars, queueVars, CallerStep, WorkerStep, OwnerStep, Submit,
         EnqueueLock, EnqueueBlock, EnqueueTimeout, EnqueueCheck,
         RegisterThread, LoopTop, WorkerLock, WorkerBlock, WorkerTimeout,
         WorkerCheck, NotifyNotFull, FinishTask, threadExit, WorkerReturn,
         Start, StartThread, StartReturn, DestroyNotify, DestroyJoin,
         DestroyDrain, RunCallbacks, DestroyBegin
<1>5. QED
  BY <1>1, <1>2, <1>3, <1>4

\* taskQueueSize_ is the size of the queue in every state.
LEMMA SizeAlways == Spec => [](QueueInv /\ CarriedInv /\ SizeInv)
<1>1. Init => QueueInv /\ CarriedInv /\ SizeInv
  BY QueueInit, CarriedInit
<1>2. ASSUME QueueInv, CarriedInv, SizeInv, [Next]_vars
      PROVE  (QueueInv /\ CarriedInv /\ SizeInv)'
  <2>1. CASE UNCHANGED vars
    BY <1>2, <2>1, QueueNext, SizeNext DEF CarriedInv, vars
  <2>2. CASE Next
    BY <1>2, <2>2, QueueNext, SizeNext, CarriedCaller, CarriedWorker,
       CarriedOwner DEF Next
  <2>3. QED
    BY <1>2, <2>1, <2>2
<1>3. QED
  BY <1>1, <1>2, PTL DEF Spec

\* Whatever submitters race, taskQueueSize_ is the size of taskQueue_ and
\* within maxTaskQueueSize_.
THEOREM QueueStaysBounded == Spec => []QueueBounded
<1>1. QueueInv /\ SizeInv => QueueBounded
  BY DEF QueueInv, WaitInv, SizeInv, QueueBounded
<1>2. QED
  BY <1>1, SizeAlways, PTL

-----------------------------------------------------------------------------
(* Type correctness.                                                       *)

\* The swapped-out callbacks are counted by a finite set of positions.
LEMMA CallbacksCounted ==
    ASSUME WorkOK, runPendingCallbacks
    PROVE  callbackQueue' \in Seq(CallbackTasks) /\ called' \in [Tasks -> Nat]
<1>1. \A k \in Tasks : Cardinality({i \in DOMAIN callbackQueue :
                                       callbackQueue[i] = k}) \in Nat
  <2>1. IsFiniteSet(1..Len(callbackQueue))
    BY FS_Interval, SMTT(60) DEF WorkOK
  <2>2. DOMAIN callbackQueue = 1..Len(callbackQueue)
    BY SMTT(60) DEF WorkOK
  <2>3. QED
    BY <2>1, <2>2, FS_Subset, FS_CardinalityType
<1> DEFINE pending(k) == Cardinality({i \in DOMAIN callbackQueue :
                                         callbackQueue[i] = k})
<1>2. called' = [k \in Tasks |-> called[k] + pending(k)]
  BY DEF runPendingCallbacks
<1>3. \A k \in Tasks : pending(k) \in Nat
  BY <1>1
<1> HIDE DEF pending
<1>4. called' \in [Tasks -> Nat]
  BY <1>2, <1>3, SMTT(60) DEF WorkOK
<1>5. callbackQueue' \in Seq(CallbackTasks)
  BY SMTT(60) DEF runPendingCallbacks
<1>6. QED
  BY <1>4, <1>5

\* Every step keeps the types of what workers hold and of the runs.
LEMMA WorkNext ==
    ASSUME WorkOK, [Next]_vars
    PROVE  WorkOK'
<1>1. CASE \E w \in Workers : PopTask(w)
  BY <1>1 DEF PopTask, WorkOK
<1>2. CASE \E w \in Workers : FinishTask(w)
  <2>1. PICK w \in Workers : FinishTask(w)
    BY <1>2
  <2>2. callbackQueue' \in Seq(CallbackTasks) /\ returned' \subseteq CallbackTasks
    <3>1. CASE UNCHANGED <<callbackQueue, returned>>
      BY <3>1 DEF WorkOK
    <3>2. CASE /\ taskFn[w] \in CallbackTasks
               /\ callbackQueue' = Append(callbackQueue, taskFn[w])
               /\ returned' = returned \cup {taskFn[w]}
      BY <3>2, SMTT(60) DEF WorkOK
    <3>3. QED
      BY <2>1, <3>1, <3>2 DEF FinishTask, HasCallback
  <2>3. runs' \in [Tasks -> Nat]
    <3> DEFINE k == taskFn[w]
    <3>1. runs' = [runs EXCEPT ![k] = runs[k] + 1]
      BY <2>1 DEF FinishTask
    <3> HIDE DEF k
    <3>2. k \in Tasks => runs[k] + 1 \in Nat
      BY SMTT(60) DEF WorkOK
    <3>3. QED
      BY <3>1, <3>2, ZenonT(60) DEF WorkOK
  <2>4. taskFn' \in [Workers -> Tasks \cup {None}] /\ called' = called
    BY <2>1 DEF FinishTask, WorkOK
  <2>5. QED
    BY <2>2, <2>3, <2>4 DEF WorkOK
<1>3. CASE RunCallbacks \/ DestroyDrain
  <2>1. runPendingCallbacks /\ UNCHANGED <<taskFn, runs, returned>>
    BY <1>3 DEF RunCallbacks, DestroyDrain
  <2>2. QED
    BY <2>1, CallbacksCounted DEF WorkOK
<1>4. CASE UNCHANGED workVars
  BY <1>4 DEF workVars, WorkOK
<1>5. \/ \E w \in Workers : PopTask(w) \/ FinishTask(w)
      \/ RunCallbacks \/ DestroyDrain \/ UNCHANGED workVars
  BY ZenonT(60) DEF Next, vars, workVars, CallerStep, WorkerStep, OwnerStep, Submit,
         EnqueueLock, EnqueueBlock, EnqueueTimeout, EnqueueCheck,
         EnqueuePush, RegisterThread, LoopTop, WorkerLock, WorkerBlock,
         WorkerTimeout, WorkerCheck, NotifyNotFull, threadExit,
         WorkerReturn, Start, StartThread, StartReturn, DestroyNotify,
         DestroyJoin, DestroyBegin
<1>6. QED
  BY <1>1, <1>2, <1>3, <1>4, <1>5

\* The types, by groups of variables, in every state.
LEMMA TypesAlways ==
    Spec => [](QueueInv /\ CarriedInv /\ FlagsOK /\ ThreadsOK /\ WorkOK)
<1> DEFINE Parts == FlagsOK /\ ThreadsOK /\ WorkOK
<1>1. Init => Parts
  BY TypesInit, Zenon
<1>2. ASSUME QueueInv, Parts, [Next]_vars
      PROVE  Parts'
  <2>1. CASE UNCHANGED vars
    BY <1>2, <2>1, FlagsNext, WorkNext DEF ThreadsOK, vars
  <2>2. CASE Next
    BY <1>2, <2>2, FlagsNext, WorkNext, ThreadsCaller, ThreadsWorker,
       ThreadsOwner DEF Next
  <2>3. QED
    BY <1>2, <2>1, <2>2
<1>3. QED
  BY <1>1, <1>2, SizeAlways, PTL DEF Spec

\* Every member of the pool and every thread's locals keep their types: in
\* particular taskQueueSize_ never underflows, an id inserted into threads_
\* is that of a thread, and only tasks with a callback have one queued.
THEOREM TypeCorrect == Spec => []TypeOK
<1>1. QueueInv /\ CarriedInv /\ FlagsOK /\ ThreadsOK /\ WorkOK => TypeOK
  BY DEF QueueInv, Positions, CarriedInv, FlagsOK, ThreadsOK, WorkOK, TypeOK
<1>2. QED
  BY <1>1, TypesAlways, PTL

-----------------------------------------------------------------------------
(* An accepted task runs at most once, and ThreadPool implements TaskQueue. *)

\* Where each accepted task is, in every state.
LEMMA OnceAlways == Spec => [](TaskInv /\ Once)
<1>1. Init => WorkOK /\ FlagsOK /\ Once
  <2>1. Init => FlagsOK
    BY Zenon DEF Init, FlagsOK
  <2>2. Init => WorkOK
    BY SMTT(60) DEF Init, WorkOK
  <2>3. Init => BusyInv
    BY ThreadAssumption
    DEF Init, BusyInv, Busy, Threads, Callers, EnqueuePC
  <2>4. Init => AloneInv /\ PlaceInv
    BY DEF Init, AloneInv, PlaceInv, Held
  <2>5. QED
    BY <2>1, <2>2, <2>3, <2>4 DEF Once
<1>2. ASSUME TaskInv, Once, [Next]_vars
      PROVE  WorkOK' /\ FlagsOK' /\ Once'
  <2>1. BusyInv'
    <3>1. CASE UNCHANGED vars
      BY <1>2, <3>1 DEF vars, Once, BusyInv, Busy
    <3>2. CASE Next
      BY <1>2, <3>2, BusyCaller, BusyWorker, BusyOwner DEF Next, TaskInv, Once
    <3>3. QED
      BY <1>2, <3>1, <3>2
  <2>2. QED
    BY <1>2, <2>1, PlaceNext, WorkNext, FlagsNext DEF Once, TaskInv
<1>3. QED
  BY <1>1, <1>2, SizeAlways, PTL DEF Spec, TaskInv

\* An accepted task is queued, or in the hands of one worker, or has run once:
\* WorkerThread pops under taskQueueMutex_ and enqueueTask pushes under it.
THEOREM AcceptedRunsOnce == Spec => []RunsOnce
<1>1. ASSUME TaskInv, Once, NEW k \in Tasks
      PROVE  Cardinality({w \in Workers : taskFn[w] = k})
                 = IF k \in Held THEN 1 ELSE 0
  <2>1. CASE k \in Held
    <3>1. PICK w \in Workers : taskFn[w] = k
      BY <2>1 DEF Held
    <3>2. {v \in Workers : taskFn[v] = k} = {w}
      BY <1>1, <3>1, ThreadAssumption DEF Once, AloneInv
    <3>3. QED
      BY <2>1, <3>2, FS_Singleton
  <2>2. CASE k \notin Held
    <3>1. {v \in Workers : taskFn[v] = k} = {}
      BY <2>2, ThreadAssumption DEF Held
    <3>2. QED
      BY <2>2, <3>1, FS_EmptySet
  <2>3. QED
    BY <2>1, <2>2
<1>2. TaskInv /\ Once => RunsOnce
  <2>1. SUFFICES ASSUME TaskInv, Once, NEW k \in Tasks
                 PROVE  (IF k \in taskQueue THEN 1 ELSE 0)
                          + Cardinality({w \in Workers : taskFn[w] = k})
                          + runs[k] = IF k \in accepted THEN 1 ELSE 0
    BY DEF RunsOnce
  <2> DEFINE n == Cardinality({w \in Workers : taskFn[w] = k})
  <2>2. n = IF k \in Held THEN 1 ELSE 0
    BY <1>1, <2>1
  <2>3. runs[k] = IF k \in accepted \ (taskQueue \cup Held) THEN 1 ELSE 0
    BY <2>1 DEF Once, PlaceInv
  <2>4. /\ k \in taskQueue => k \in accepted /\ k \notin Held
        /\ k \in Held => k \in accepted
    BY <2>1 DEF Once, PlaceInv, TaskInv, CarriedInv
  <2> HIDE DEF n
  <2>5. (IF k \in taskQueue THEN 1 ELSE 0) + n + runs[k]
            = IF k \in accepted THEN 1 ELSE 0
    BY <2>2, <2>3, <2>4, PlacesAddUp, Zenon
  <2>6. QED
    BY <2>5, Zenon DEF n
<1>3. QED
  BY <1>2, OnceAlways, PTL

-----------------------------------------------------------------------------
(* The refinement.                                                         *)

\* A thread that has looked at isRunning_ and not yet pushed or popped.
PastCheck(u) == pc[u] \in {"enqPush", "pop"}

\* Once the pool is stopped, a step of enqueueTask other than the push brings
\* nobody past the look at isRunning_, and nobody back.
LEMMA CommitCaller ==
    ASSUME QueueInv, NEW t \in Callers, CallerStep(t) \/ \E k \in Tasks : Submit(t, k),
           ~EnqueuePush(t), ~isRunning
    PROVE  \A u \in Callers : PastCheck(u)' <=> PastCheck(u)
<1>1. \A u \in Callers \ {t} : PastCheck(u)' <=> PastCheck(u)
  BY CallerMoves DEF PastCheck, Bystander, Threads, Callers
<1>2. PastCheck(t)' <=> PastCheck(t)
  <2> USE DEF PastCheck, QueueInv, Positions, Threads, Callers, Resume
  <2>1. CASE \E k \in Tasks : Submit(t, k)
    BY <2>1 DEF Submit
  <2>2. CASE EnqueueLock(t) \/ EnqueueBlock(t) \/ EnqueueTimeout(t)
    BY <2>2 DEF EnqueueLock, EnqueueBlock, EnqueueTimeout
  <2>3. CASE EnqueueCheck(t) \/ RegisterThread(t)
    BY <2>3, ThreadAssumption DEF EnqueueCheck, RegisterThread
  <2>4. QED
    BY <2>1, <2>2, <2>3 DEF CallerStep
<1>3. QED
  BY <1>1, <1>2

\* The same of a step of WorkerThread other than the pop.
LEMMA CommitWorker ==
    ASSUME QueueInv, NEW w \in Workers, WorkerStep(w), ~PopTask(w), ~isRunning
    PROVE  \A u \in Callers : PastCheck(u)' <=> PastCheck(u)
<1>1. \A u \in Callers \ {w} : PastCheck(u)' <=> PastCheck(u)
  BY WorkerMoves DEF PastCheck, Bystander, Threads, Callers
<1>2. PastCheck(w)' <=> PastCheck(w)
  <2> USE DEF PastCheck, QueueInv, Positions, Threads
  <2>1. CASE NotifyNotFull(w) \/ WorkerReturn(w)
    BY <2>1, Notifies DEF NotifyNotFull, WorkerReturn
  <2>2. CASE LoopTop(w) \/ WorkerLock(w) \/ WorkerBlock(w) \/ WorkerTimeout(w)
    BY <2>2 DEF LoopTop, WorkerLock, WorkerBlock, WorkerTimeout
  <2>3. CASE WorkerCheck(w) \/ FinishTask(w) \/ threadExit(w)
    BY <2>3 DEF WorkerCheck, FinishTask, threadExit
  <2>4. QED
    BY <2>1, <2>2, <2>3 DEF WorkerStep
<1>3. QED
  BY <1>1, <1>2

\* The same of Start and the destructor.
LEMMA CommitOwner ==
    ASSUME QueueInv, OwnerStep \/ RunCallbacks \/ DestroyBegin
    PROVE  \A u \in Callers : PastCheck(u)' <=> PastCheck(u)
<1>1. Owner \in Threads /\ Callers \subseteq Threads \ {Owner}
  BY ThreadAssumption DEF Threads, Callers
<1>2. CASE DestroyNotify
  BY <1>1, <1>2, DestroyNotifies DEF PastCheck, Bystander
<1>3. CASE StartThread
  <2>1. CASE CreateThread(pc, Owner)
    <3>1. PICK w \in Workers : Created(Owner, w)
      BY <1>1, <1>3, <2>1, Creates DEF StartThread
    <3>2. QED
      BY <1>1, <3>1 DEF Created, PastCheck, Bystander
  <2>2. CASE pc' = pc
    BY <2>2 DEF PastCheck
  <2>3. QED
    BY <1>3, <2>1, <2>2 DEF StartThread
<1>4. CASE Start \/ RegisterThread(Owner) \/ StartReturn \/ DestroyJoin \/ DestroyDrain
           \/ RunCallbacks \/ DestroyBegin
  BY <1>1, <1>4
  DEF Start, RegisterThread, StartReturn, DestroyJoin, DestroyDrain, RunCallbacks,
      DestroyBegin, PastCheck, QueueInv, Positions
<1>5. QED
  BY <1>2, <1>3, <1>4, Zenon DEF OwnerStep

\* The phases of the promised queue, in steps that neither push nor pop.
LEMMA PhaseMoves ==
    ASSUME QueueInv, [Next]_vars, \A t \in Callers : ~EnqueuePush(t),
           \A w \in Workers : ~PopTask(w)
    PROVE  \/ Phase' = Phase
           \/ Phase = "closed" /\ Phase' = "open"
           \/ Phase = "open" /\ Phase' \in {"closing", "closed"}
<1>1. CASE isRunning
  BY <1>1 DEF Phase
<1>2. CASE ~isRunning /\ isRunning'
  <2>1. Start
    BY <1>2, Runs
  <2>2. ~Committed
    BY <2>1 DEF Start, QueueInv, MutexInv, Committed
  <2>3. QED
    BY <1>2, <2>2 DEF Phase
<1>3. CASE ~isRunning /\ ~isRunning'
  <2>1. CASE UNCHANGED vars
    BY <2>1 DEF vars, Phase, Committed
  <2>2. CASE Next
    <3>1. \A u \in Callers : PastCheck(u)' <=> PastCheck(u)
      BY <1>3, <2>2, CommitCaller, CommitWorker, CommitOwner, Zenon DEF Next
    <3>2. Committed' <=> Committed
      BY <3>1 DEF Committed, PastCheck
    <3>3. QED
      BY <1>3, <3>2 DEF Phase
  <2>3. QED
    BY <2>1, <2>2
<1>4. QED
  BY <1>1, <1>2, <1>3

\* A push or pop is made by a thread past its look at isRunning_, and no other
\* thread is past it: the mutex is held from the look to the push or pop.
LEMMA LastOperation ==
    ASSUME QueueInv, NEW t \in Callers, PastCheck(t), ~PastCheck(t)',
           \A u \in Callers \ {t} : PastCheck(u)' => PastCheck(u)
    PROVE  Committed /\ ~Committed'
<1>1. \A u \in Callers : PastCheck(u) => u = t
  BY DEF QueueInv, MutexInv, LockedPC, PastCheck
<1>2. \A u \in Callers : ~PastCheck(u)'
  BY <1>1
<1>3. QED
  BY <1>2 DEF Committed, PastCheck

\* So it is an operation on an open queue or the last of one that closes.
LEMMA Operates ==
    ASSUME Committed, ~Committed', isRunning' = isRunning
    PROVE  Promised!Operate
BY DEF Promised!Operate, Phase

\* Every step of the pool is a step of the promised queue or leaves it alone.
LEMMA PromisedStep ==
    ASSUME TaskInv, Once, [Next]_vars
    PROVE  [Promised!Next]_<<Phase, taskQueue, Held, runs>>
<1> QueueInv
  BY DEF TaskInv
<1>1. CASE \E t \in Callers : EnqueuePush(t)
  <2>1. PICK t \in Callers : EnqueuePush(t)
    BY <1>1
  <2>2. fn[t] \notin taskQueue \cup Held /\ runs[fn[t]] = 0
    BY <2>1, Pushed DEF Once, PlaceInv, TaskInv, CarriedInv
  <2>3. Cardinality(taskQueue) < maxTaskQueueSize /\ Held' = Held
    BY <2>1, Pushed DEF TaskInv, SizeInv, Held
  <2>4. Promised!Cardinality(taskQueue) = Cardinality(taskQueue)
    BY DEF Promised!Cardinality, Cardinality
  <2>5. /\ PastCheck(t) /\ ~PastCheck(t)'
        /\ \A u \in Callers \ {t} : PastCheck(u)' => PastCheck(u)
    <3>1. CASE \E w \in Workers : Created(t, w)
      BY <2>1, <3>1, Pushes DEF Created, PastCheck, Bystander, Threads, Callers
    <3>2. CASE pc'[t] = Resume(t) /\ \A u \in Threads \ {t} : Bystander(u)
      BY <2>1, <3>2, Pushes DEF PastCheck, Bystander, Resume, Threads, Callers
    <3>3. QED
      BY <2>1, <3>1, <3>2, Pushes, Zenon
  <2>6. Promised!Operate
    BY <2>1, <2>5, LastOperation, Operates, Pushed
  <2>7. Promised!Enqueue(fn[t])
    BY <2>1, <2>2, <2>3, <2>4, <2>6, Pushed DEF Promised!Enqueue
  <2>8. QED
    BY <2>1, <2>7, Pushed DEF Promised!Next
<1>2. CASE \E w \in Workers : PopTask(w)
  <2>1. PICK w \in Workers : PopTask(w)
    BY <1>2
  <2>2. PICK k \in Tasks :
            /\ k \in taskQueue
            /\ \A j \in taskQueue : Priority[k] <= Priority[j]
            /\ taskFn' = [taskFn EXCEPT ![w] = k]
            /\ taskQueue' = taskQueue \ {k}
    BY <2>1, Popped
  <2>3. Held' = Held \cup {k}
    BY <2>1, <2>2, Popped, HeldTaken, ZenonT(60)
  <2>4. /\ PastCheck(w) /\ ~PastCheck(w)'
        /\ \A u \in Callers \ {w} : PastCheck(u)' => PastCheck(u)
    BY <2>1 DEF PopTask, PastCheck, QueueInv, Positions, Threads, Callers
  <2>5. Promised!Operate
    BY <2>1, <2>4, LastOperation, Operates, Popped DEF Callers
  <2>6. Promised!Take(k)
    BY <2>1, <2>2, <2>3, <2>5, Popped DEF Promised!Take
  <2>7. QED
    BY <2>6 DEF Promised!Next
<1>3. CASE \E w \in Workers : FinishTask(w)
  <2>1. PICK w \in Workers : FinishTask(w)
    BY <1>3
  <2>2. Phase' = Phase
    <3>1. \A u \in Callers : PastCheck(u)' <=> PastCheck(u)
      BY <2>1 DEF FinishTask, PastCheck, QueueInv, Positions, Threads, Callers
    <3>2. Committed' <=> Committed
      BY <3>1 DEF Committed, PastCheck
    <3>3. QED
      BY <2>1, <3>2, Finished DEF Phase
  <2>3. Promised!Finish(taskFn[w])
    BY <2>1, <2>2, Finished, HeldDropped DEF Promised!Finish
  <2>4. QED
    BY <2>1, <2>3, Finished DEF Promised!Next
<1>4. CASE /\ UNCHANGED <<taskQueue, accepted, taskFn, runs>>
           /\ \A t \in Callers : ~EnqueuePush(t)
           /\ \A w \in Workers : ~PopTask(w)
  <2>1. UNCHANGED <<taskQueue, Held, runs>>
    BY <1>4 DEF Held
  <2>2. \/ Phase' = Phase
        \/ Phase = "closed" /\ Phase' = "open"
        \/ Phase = "open" /\ Phase' \in {"closing", "closed"}
    BY <1>4, PhaseMoves, Zenon
  <2>3. QED
    BY <2>1, <2>2, ZenonT(60) DEF Promised!Next, Promised!Open, Promised!Close
<1>5. QED
  BY <1>1, <1>2, <1>3, <1>4, Moves, Zenon

\* The pool is the bounded priority queue it promises to be, in every
\* interleaving of workers, submitters, timeouts and the destructor; of the
\* threads that race with the destructor's isRunning_ = false at most one still
\* pushes or pops, the one that holds taskQueueMutex_.
THEOREM PoolImplementsTaskQueue == Spec => ImplementsTaskQueue
<1>1. Init => Promised!Init
  <2> SUFFICES ASSUME Init
               PROVE  Promised!Init
    OBVIOUS
  <2>1. \A t \in Callers : pc[t] \in {"idle", "none"}
    BY ThreadAssumption DEF Init, Threads, Callers
  <2>2. Phase = "closed"
    BY <2>1 DEF Init, Phase, Committed
  <2>3. Held = {}
    BY DEF Init, Held
  <2>4. QED
    BY <2>2, <2>3 DEF Init, Promised!Init
<1>2. QED
  BY <1>1, PromisedStep, OnceAlways, PTL
  DEF Spec, ImplementsTaskQueue, Promised!Spec

-----------------------------------------------------------------------------
(* The life of the threads.                                                *)

\* The lives of the threads, in every state.
LEMMA LifeAlways == Spec => []LifeOK
<1>1. Init => LifeInv
  <2> SUFFICES ASSUME Init
               PROVE  LifeInv
    OBVIOUS
  <2>1. /\ pc[Owner] = "new" /\ \A c \in Clients : pc[c] = "idle"
        /\ \A w \in Workers : pc[w] = "none" /\ timed[w] = FALSE
        /\ \A t \in Threads : pc[t] # "insert"
    BY ThreadAssumption, Zenon DEF Init, Threads, Callers
  <2>2. RunningInv
    <3>1. (pc[Owner] \in {"starting", "insert", "up"}) = FALSE
      BY <2>1, SMTT(60)
    <3>2. isRunning = FALSE
      BY Zenon DEF Init
    <3>3. QED
      BY <2>1, <3>1, <3>2, Zenon DEF RunningInv, Starting
  <2>3. StartInv
    <3>1. /\ taskQueueSize = 0 /\ startCalls = 0
          /\ currentThreadCount = 0 /\ idleThreadCount = 0
      BY Zenon DEF Init
    <3>2. currentThreadCount <= startCalls
      BY <3>1, SMTT(60)
    <3>3. QED
      BY <2>1, <3>1, <3>2, Zenon DEF StartInv
  <2>4. RegisteredInv /\ StopInv
    BY <2>1, Zenon DEF RegisteredInv, StopInv, Stopping, Gone
  <2>5. QED
    BY <2>2, <2>3, <2>4 DEF LifeInv
<1>2. ASSUME LifeOK, [Next]_vars
      PROVE  LifeInv'
  <2>1. CASE UNCHANGED vars
    BY <1>2, <2>1, Zenon DEF vars, LifeOK, LifeInv, RunningInv, StartInv, RegisteredInv,
                      StopInv, Gone
  <2>2. CASE \E t \in Callers : CallerStep(t) \/ \E k \in Tasks : Submit(t, k)
    BY <1>2, <2>2, PhaseCaller, RegisteredCaller, Zenon DEF LifeOK, LifeInv
  <2>3. CASE \E w \in Workers : WorkerStep(w)
    BY <1>2, <2>3, LifeWorker, Zenon DEF LifeOK
  <2>4. CASE OwnerStep \/ RunCallbacks \/ DestroyBegin
    BY <1>2, <2>4, LifeStart, LifeStop, Zenon DEF LifeOK, OwnerStep
  <2>5. QED
    BY <1>2, <2>1, <2>2, <2>3, <2>4, Zenon DEF Next
<1>3. QED
  BY <1>1, <1>2, TypesAlways, PTL DEF Spec, LifeOK

\* When ~ThreadPool has seen threads_ empty and run the last callbacks, every
\* worker has done all but notify exitCond_ and let go of its mutex.
THEOREM WorkersAtRest == Spec => []AtRestWhenDestroyed
<1>1. LifeOK => AtRestWhenDestroyed
  BY DEF LifeOK, LifeInv, StopInv, Gone, AtRestWhenDestroyed
<1>2. QED
  BY <1>1, LifeAlways, PTL

-----------------------------------------------------------------------------
(* The counters of threads, and a thread for every queued task.            *)

\* The counters follow the threads.
LEMMA CountNext ==
    ASSUME LifeOK, CountInv, [Next]_vars
    PROVE  CountInv'
<1>1. IsFiniteSet(Live) /\ IsFiniteSet(Free) /\ Free \subseteq Live
  BY FS_Subset DEF CountInv, Live, Free
<1>2. Cardinality(Live) \in Nat /\ Cardinality(Free) \in Nat
  BY <1>1, FS_CardinalityType
<1>3. CASE Start
  BY <1>3, CountStart, FS_EmptySet, Zenon
<1>4. ASSUME isRunning' => isRunning, NEW w \in Workers, Joins(w)
      PROVE  CountInv'
  BY <1>1, <1>2, <1>4, CountJoins, FS_AddElement, Zenon DEF Joins
<1>5. ASSUME isRunning' => isRunning, NEW w \in Workers, GetsBusy(w)
      PROVE  CountInv'
  BY <1>1, <1>2, <1>5, CountBusy, FS_RemoveElement, Zenon DEF GetsBusy
<1>6. ASSUME isRunning' => isRunning, NEW w \in Workers, GetsFree(w)
      PROVE  CountInv'
  BY <1>1, <1>2, <1>6, CountFree, FS_AddElement, Zenon DEF GetsFree
<1>7. ASSUME isRunning' => isRunning, NEW w \in Workers, Leaves(w)
      PROVE  CountInv'
  <2>1. w \in Live /\ w \in Free
    BY <1>1, <1>7 DEF Leaves
  <2>2. QED
    BY <1>1, <1>2, <1>7, <2>1, CountLeaves, FS_RemoveElement, Zenon DEF Leaves
<1>8. ASSUME isRunning' => isRunning, AllStay
      PROVE  CountInv'
  BY <1>8 DEF CountInv, AllStay
<1>9. QED
  BY <1>3, <1>4, <1>5, <1>6, <1>7, <1>8, Census, Runs, Zenon

\* A pool that counts a thread has one.
LEMMA CountedLives ==
    ASSUME CountInv, isRunning, currentThreadCount > 0 \/ idleThreadCount > 0
    PROVE  Live # {}
<1>1. Live = {} => Free = {}
  BY DEF Live, Free
<1>2. QED
  BY <1>1, FS_EmptySet, SMTT(60) DEF CountInv

\* The threads of a fixed pool stay.
LEMMA FixedNext ==
    ASSUME LifeOK, CountInv, FixedInv, [Next]_vars
    PROVE  FixedInv'
<1>1. pc'[Owner] = "up" => startCalls' = initThreadSize
  BY UpNext DEF FixedInv
<1>2. ~Cached => Unlimited'
  BY UnlimitedNext, Zenon DEF FixedInv
<1>3. ASSUME ~Cached, isRunning', startCalls' > 0, maxThreadCount > 0
      PROVE  Live' # {}
  <2>1. ~Start
    BY <1>3, StartsEmpty, SMTT(60)
  <2>2. isRunning
    BY <1>3, <2>1, Runs, Zenon
  <2>3. CASE Live # {}
    <3>1. \A w \in Workers : ~Leaves(w)
      BY <1>3, <2>2 DEF FixedInv, Unlimited, Leaves
    <3>2. QED
      BY <2>3, <3>1, Census DEF Joins, GetsBusy, GetsFree, AllStay
  <2>4. CASE Live = {}
    <3>1. startCalls' # startCalls
      BY <1>3, <2>2, <2>4 DEF FixedInv
    <3>2. StartThread
      <4>1. Next
        BY <3>1 DEF vars
      <4>2. OwnerStep \/ RunCallbacks \/ DestroyBegin
        BY <3>1, <4>1, OwnerMoves
      <4>3. QED
        BY <3>1, <4>2, Zenon
        DEF OwnerStep, Start, RegisterThread, StartReturn, DestroyNotify, DestroyJoin,
            DestroyDrain, RunCallbacks, DestroyBegin
    <3>3. ~(currentThreadCount > 0)
      BY <2>2, <2>4, CountedLives
    <3>4. CreateThread(pc, Owner)
      BY <1>3, <3>2, <3>3, StartCreates, Zenon DEF LifeOK
    <3>5. \E w \in Workers : Created(Owner, w)
      BY <3>2, <3>4, Creates DEF StartThread, LifeOK, Threads
    <3>6. QED
      BY <3>5 DEF Created, Live, Gone
  <2>5. QED
    BY <2>3, <2>4
<1>4. QED
  BY <1>1, <1>2, <1>3 DEF FixedInv

\* A client that pushes and starts no thread leaves one that is there.
LEMMA PusherFindsThread ==
    ASSUME LifeOK, CountInv, FixedInv, NEW t \in Clients, EnqueuePush(t), ~NeedsThread,
           isRunning, initThreadSize > 0, maxThreadCount > 0
    PROVE  \E w \in Workers : Able(w)
<1>1. pc[t] = "enqPush" /\ mutex = t /\ isRunning /\ t \in Callers /\ t \notin Workers
  BY Pushes, ThreadAssumption DEF LifeOK, Callers
<1>2. Live # {}
  <2>1. CASE ~Cached
    <3>1. pc[Owner] = "up"
      BY <1>1, Zenon DEF LifeOK, LifeInv, StartInv, RunningInv, Starting
    <3>2. startCalls > 0
      BY <3>1 DEF FixedInv
    <3>3. QED
      BY <1>1, <2>1, <3>2, Zenon DEF FixedInv
  <2>2. CASE Cached
    <3>1. currentThreadCount > 0 \/ idleThreadCount > 0
      BY <2>2, ConfigAssumption, SMTT(60)
      DEF NeedsThread, LifeOK, QueueInv, Positions, ThreadsOK
    <3>2. QED
      BY <1>1, <3>1, CountedLives
  <2>3. QED
    BY <2>1, <2>2
<1>3. PICK w \in Workers : ~Gone(w)
  BY <1>2 DEF Live
<1>4. pc[w] # "quitIdle"
  BY <1>1 DEF LifeOK, QueueInv, MutexInv, LockedPC, Callers
<1>5. pc[w] \notin {"exit", "exited"}
  BY <1>1 DEF LifeOK, LifeInv, RunningInv
<1>6. QED
  BY <1>3, <1>4, <1>5 DEF Able, ExitPC, Gone

\* A push leaves somebody to pop the task.
LEMMA PushedHasThread ==
    ASSUME LifeOK, CountInv, FixedInv, NEW t \in Callers, EnqueuePush(t), isRunning',
           initThreadSize > 0, maxThreadCount > 0
    PROVE  \E w \in Workers : Able(w)'
<1>1. QueueInv
  BY DEF LifeOK
<1>2. CASE \E w \in Workers : Created(t, w)
  BY <1>2 DEF Created, Able, ExitPC
<1>3. CASE /\ ~NeedsThread /\ pc'[t] = Resume(t)
           /\ \A u \in Threads \ {t} : Bystander(u)
  <2>1. CASE t \in Clients
    <3> isRunning
      BY <1>1, Pushes
    <3>1. PICK w \in Workers : Able(w)
      BY <1>3, <2>1, PusherFindsThread
    <3>2. Bystander(w)
      BY <1>3, <2>1, ThreadAssumption DEF Threads
    <3>3. QED
      BY <3>1, <3>2 DEF Bystander, Able, ExitPC
  <2>2. CASE t \in Workers
    <3>1. pc'[t] = "running"
      BY <1>3, <2>2, ThreadAssumption DEF Resume
    <3>2. QED
      BY <2>2, <3>1 DEF Able, ExitPC
  <2>3. QED
    BY <2>1, <2>2 DEF Callers
<1>4. QED
  BY <1>1, <1>2, <1>3, Pushes, Zenon

\* Every step leaves a queued task with a thread that can run it: the push makes
\* sure of one, and no thread quits while the queue holds a task.
LEMMA StrandedNext ==
    ASSUME LifeOK, CountInv, FixedInv, NoStrandedTask, [Next]_vars
    PROVE  NoStrandedTask'
<1> SUFFICES ASSUME isRunning', taskQueueSize' > 0, initThreadSize > 0, maxThreadCount > 0
             PROVE  \E w \in Workers : Able(w)'
  BY Zenon DEF NoStrandedTask, Able
<1>1. CASE \E t \in Callers : EnqueuePush(t)
  BY <1>1, PushedHasThread, Zenon
<1>2. CASE UNCHANGED vars
  BY <1>2 DEF vars, NoStrandedTask, Able
<1>3. CASE Next /\ ~\E t \in Callers : EnqueuePush(t)
  <2>1. taskQueueSize > 0
    BY <1>3, Grows, SMTT(60) DEF LifeOK, QueueInv, Positions
  <2>2. isRunning
    <3>1. ~Start
      BY <2>1, SMTT(60) DEF Start, LifeOK, LifeInv, StartInv, Starting
    <3>2. QED
      BY <3>1, Runs, Zenon
  <2>3. PICK w \in Workers : Able(w)
    BY <2>1, <2>2 DEF NoStrandedTask, Able
  <2>4. QED
    BY <1>3, <2>1, <2>2, <2>3, AbleStays
<1>4. QED
  BY <1>1, <1>2, <1>3, Zenon

\* The counters, and a thread for every queued task, in every state.
LEMMA CountAlways == Spec => [](LifeOK /\ CountInv /\ FixedInv /\ NoStrandedTask)
<1>1. Init => CountInv /\ FixedInv /\ NoStrandedTask
  <2> SUFFICES ASSUME Init
               PROVE  CountInv /\ FixedInv /\ NoStrandedTask
    OBVIOUS
  <2>1. /\ pc[Owner] = "new" /\ isRunning = FALSE
        /\ \A w \in Workers : pc[w] = "none" /\ timed[w] = FALSE
    BY ThreadAssumption, Zenon DEF Init, Threads, Callers
  <2>2. Live = {}
    BY <2>1 DEF Live, Gone
  <2>3. QED
    BY <2>1, <2>2, FS_EmptySet, Zenon DEF CountInv, FixedInv, Unlimited,
                                        NoStrandedTask
<1>2. LifeOK /\ CountInv /\ FixedInv /\ NoStrandedTask /\ [Next]_vars
          => CountInv' /\ FixedInv' /\ NoStrandedTask'
  BY CountNext, FixedNext, StrandedNext, Zenon
<1>3. QED
  BY <1>1, <1>2, LifeAlways, PTL DEF Spec

\* While the pool runs, currentThreadCount_ and idleThreadCount_ count the live
\* threads and those of them outside a task, within maxThreadCount_: a worker
\* that leaves has been inserted into threads_, so threadExit counts it.
THEOREM CountersCorrect == Spec => []CountersAgree
<1>1. LifeOK /\ CountInv => CountersAgree
  BY DEF CountInv, CountersAgree, Live, Free
<1>2. QED
  BY <1>1, CountAlways, PTL

\* enqueueTask's decision not to create a thread, taken on the counters, never
\* leaves a queued task without a worker, in both modes.
THEOREM TaskNeverStranded == Spec => []NoStrandedTask
BY CountAlways, PTL

-----------------------------------------------------------------------------
(* Callbacks.                                                              *)

\* A pass over the callbacks executes each pending one once.
LEMMA PassRunsPending ==
    ASSUME WorkOK, CallbackInv, runPendingCallbacks
    PROVE  /\ callbackQueue' = <<>>
           /\ \A k \in Tasks : called'[k] = IF k \in returned THEN 1 ELSE 0
<1>1. callbackQueue' = <<>>
  BY DEF runPendingCallbacks
<1>2. ASSUME NEW k \in Tasks
      PROVE  called'[k] = IF k \in returned THEN 1 ELSE 0
  <2> DEFINE at == {i \in DOMAIN callbackQueue : callbackQueue[i] = k}
  <2>1. called'[k] = called[k] + Cardinality(at)
    BY Zenon DEF runPendingCallbacks
  <2>2. CASE at = {}
    <3>1. Cardinality(at) = 0
      BY <2>2, FS_EmptySet
    <3>2. called[k] = IF k \in returned THEN 1 ELSE 0
      BY <2>2, Zenon DEF CallbackInv
    <3> HIDE DEF at
    <3>3. QED
      BY <2>1, <3>1, <3>2, SMTT(60)
  <2>3. CASE at # {}
    <3>1. PICK i \in DOMAIN callbackQueue : callbackQueue[i] = k
      BY <2>3
    <3>2. at = {i}
      <4>1. \A j \in DOMAIN callbackQueue : callbackQueue[j] = k => j = i
        BY <3>1, Zenon DEF CallbackInv
      <4>2. QED
        BY <3>1, <4>1, Zenon
    <3>3. Cardinality(at) = 1
      BY <3>2, FS_Singleton, Zenon
    <3>4. k \in returned /\ called[k] = 0
      BY <3>1, Zenon DEF CallbackInv
    <3> HIDE DEF at
    <3>5. QED
      BY <2>1, <3>3, <3>4, SMTT(60)
  <2>4. QED
    BY <2>2, <2>3
<1>3. QED
  BY <1>1, <1>2

\* Every step keeps the callbacks in one place.
LEMMA CallbackNext ==
    ASSUME TaskInv, Once, LifeOK, CallbackInv, [Next]_vars
    PROVE  CallbackInv'
<1>1. \A k \in returned : k \in accepted' \ (taskQueue' \cup Held')
  BY ReturnedApart
<1>2. CASE RunCallbacks \/ DestroyDrain
  <2>1. runPendingCallbacks /\ returned' = returned
    BY <1>2 DEF RunCallbacks, DestroyDrain
  <2>2. /\ callbackQueue' = <<>>
        /\ \A k \in Tasks : called'[k] = IF k \in returned THEN 1 ELSE 0
    BY <2>1, PassRunsPending DEF TaskInv
  <2>3. QED
    BY <1>1, <2>1, <2>2, CallbackPass, Zenon
<1>3. CASE UNCHANGED <<callbackQueue, returned, called>> /\ ~DestroyDrain
  <2>1. pc'[Owner] = "gone" => pc[Owner] = "gone"
    BY <1>3, GoneAfterDrain
  <2>2. QED
    BY <1>1, <1>3, <2>1, Zenon DEF CallbackInv
<1>4. CASE \E w \in Workers : FinishTask(w)
  BY <1>4, CallbackFinish, Zenon
<1>5. \/ \E w \in Workers : FinishTask(w)
      \/ RunCallbacks \/ DestroyDrain \/ UNCHANGED <<callbackQueue, returned, called>>
  BY Zenon
  DEF Next, vars, workVars, CallerStep, WorkerStep, OwnerStep, Submit, EnqueueLock,
      EnqueueBlock, EnqueueTimeout, EnqueueCheck, EnqueuePush, RegisterThread, LoopTop,
      WorkerLock, WorkerBlock, WorkerTimeout, WorkerCheck, PopTask, NotifyNotFull,
      threadExit, WorkerReturn, Start, StartThread, StartReturn, DestroyNotify,
      DestroyJoin, DestroyBegin
<1>6. QED
  BY <1>2, <1>3, <1>4, <1>5, Zenon

\* Every callback of a task that returned is executed exactly once by the time
\* ~ThreadPool returns: no worker can push one after its last pass.
THEOREM CallbacksAllRun == Spec => []CallbacksComplete
<1>1. Init => CallbackInv
  BY ThreadAssumption, SMTT(60) DEF Init, CallbackInv, Held, Threads
<1>2. TaskInv /\ Once /\ LifeOK /\ CallbackInv /\ [Next]_vars => CallbackInv'
  BY CallbackNext
<1>3. CallbackInv => CallbacksComplete
  BY SMTT(60) DEF CallbackInv, CallbacksComplete
<1>4. QED
  BY <1>1, <1>2, <1>3, OnceAlways, LifeAlways, PTL DEF Spec

=============================================================================
