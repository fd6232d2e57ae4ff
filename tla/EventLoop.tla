------------------------------ MODULE EventLoop ------------------------------
(***************************************************************************)
(* One EventLoop of src/net/EventLoop.cpp on its own thread, as            *)
(* EventLoopPool (src/net/EventLoopPool.cpp) creates, stops and joins it,  *)
(* and the threads that post functors to it.                               *)
(*                                                                         *)
(* The eventfd is the kernel's counter: a write adds one unless the        *)
(* counter is full (EAGAIN, ignored by wakeup), reading it empty resets it.*)
(* A queueInLoop from another thread is two steps, the push under mutex_   *)
(* and the wakeup after it; quit is two steps for the same reason.         *)
(***************************************************************************)
EXTENDS Integers, Sequences

CONSTANTS
    Posters,        \* threads other than the loop's that call runInLoop
    Remote,         \* functors posted by Posters
    Local,          \* functors queued by the loop thread, from a callback
    EventFdMax      \* the largest value of the eventfd counter

Functors == Remote \cup Local

ASSUME LoopAssumption ==
    /\ Remote \cap Local = {}
    /\ EventFdMax \in Nat \ {0}

VARIABLES
    looping, quit,          \* looping_, quit_
    pendingFunctors,        \* pendingFunctors_, protected by mutex_
    wakeupFd,               \* the eventfd counter
    lpc,                    \* where the loop thread is
    active,                 \* the wakeup channel is in activeChannels
    functors,               \* the vector doPendingFunctors swapped out
    ppc,                    \* where each poster is
    owner,                  \* where the EventLoopPool owner is
    posted, executed        \* functors in the order pushed, and run

vars == <<looping, quit, pendingFunctors, wakeupFd, lpc, active, functors, ppc,
          owner, posted, executed>>

LoopPC == {"unborn", "made", "check", "poll", "dispatch", "swap", "run",
           "exited"}
OwnerPC == {"starting", "up", "wakeup", "join", "joined"}

Init ==
    /\ looping = FALSE /\ quit = FALSE
    /\ pendingFunctors = <<>>
    /\ wakeupFd = 0
    /\ lpc = "unborn"
    /\ active = FALSE
    /\ functors = <<>>
    /\ ppc = [p \in Posters |-> "idle"]
    /\ owner = "starting"
    /\ posted = <<>> /\ executed = <<>>

loopVars == <<looping, lpc, active, functors, executed>>

-----------------------------------------------------------------------------
(* The other threads.                                                      *)

\* Fault: the eventfd is not written.
NoWakeup == UNCHANGED wakeupFd

\* wakeup(): add one to the eventfd unless it is full.
wakeup == wakeupFd' = IF wakeupFd < EventFdMax THEN wakeupFd + 1 ELSE wakeupFd

\* The push of a functor that was not pushed before, under mutex_.
Push(f) ==
    /\ \A i \in DOMAIN posted : posted[i] # f
    /\ pendingFunctors' = Append(pendingFunctors, f)
    /\ posted' = Append(posted, f)

\* runInLoop from another thread, which calls queueInLoop.  The loop exists
\* from the end of start() to the join.
queueInLoop(p, f) ==
    /\ ppc[p] = "idle"
    /\ owner \notin {"starting", "joined"}
    /\ Push(f)
    /\ ppc' = [ppc EXCEPT ![p] = "pushed"]
    /\ UNCHANGED <<loopVars, quit, wakeupFd, owner>>

queueWakeup(p) ==
    /\ ppc[p] = "pushed"
    /\ wakeup
    /\ ppc' = [ppc EXCEPT ![p] = "idle"]
    /\ UNCHANGED <<loopVars, quit, pendingFunctors, owner, posted>>

\* EventLoopPool::start waits for the promise, which the new thread fulfils
\* between constructing the loop and entering loop().
StartReturns ==
    /\ owner = "starting"
    /\ lpc # "unborn"
    /\ owner' = "up"
    /\ UNCHANGED <<loopVars, quit, pendingFunctors, wakeupFd, ppc, posted>>

\* ~EventLoopPool: quit() sets the flag, then wakes the loop, then join.
QuitFlag ==
    /\ owner = "up"
    /\ quit' = TRUE
    /\ owner' = "wakeup"
    /\ UNCHANGED <<loopVars, pendingFunctors, wakeupFd, ppc, posted>>

QuitWakeup ==
    /\ owner = "wakeup"
    /\ wakeup
    /\ owner' = "join"
    /\ UNCHANGED <<loopVars, quit, pendingFunctors, ppc, posted>>

Join ==
    /\ owner = "join"
    /\ lpc = "exited"
    /\ owner' = "joined"
    /\ UNCHANGED <<loopVars, quit, pendingFunctors, wakeupFd, ppc, posted>>

-----------------------------------------------------------------------------
(* The loop thread.                                                        *)

\* make_shared<EventLoop>() and set_value.
Construct ==
    /\ lpc = "unborn"
    /\ lpc' = "made"
    /\ UNCHANGED <<looping, quit, pendingFunctors, wakeupFd, active, functors,
                   ppc, owner, posted, executed>>

\* The start of loop(): both flags are assigned.
EnterLoop ==
    /\ lpc = "made"
    /\ looping' = TRUE
    /\ quit' = FALSE
    /\ lpc' = "check"
    /\ UNCHANGED <<pendingFunctors, wakeupFd, active, functors, ppc, owner,
                   posted, executed>>

\* while (!quit_).
Check ==
    /\ lpc = "check"
    /\ lpc' = IF quit THEN "exited" ELSE "poll"
    /\ looping' = ~quit
    /\ UNCHANGED <<quit, pendingFunctors, wakeupFd, active, functors, ppc,
                   owner, posted, executed>>

\* poll() returns because the eventfd is readable.
PollWakeup ==
    /\ lpc = "poll"
    /\ wakeupFd > 0
    /\ active' = TRUE
    /\ lpc' = "dispatch"
    /\ UNCHANGED <<looping, quit, pendingFunctors, wakeupFd, functors, ppc,
                   owner, posted, executed>>

\* poll() returns for another channel, for EINTR or after 10 seconds.
PollOther ==
    /\ lpc = "poll"
    /\ wakeupFd = 0
    /\ active' = FALSE
    /\ lpc' = "dispatch"
    /\ UNCHANGED <<looping, quit, pendingFunctors, wakeupFd, functors, ppc,
                   owner, posted, executed>>

\* Fault: the pending functors are looked at only after a wakeup.
OnlyIfWoken == IF active THEN "swap" ELSE "check"

\* doPendingFunctors() follows the dispatch, whatever ended the poll.
AfterDispatch == "swap"

\* handleEvent of every active channel; handleWakeup reads the eventfd empty.
Dispatch ==
    /\ lpc = "dispatch"
    /\ wakeupFd' = IF active THEN 0 ELSE wakeupFd
    /\ lpc' = AfterDispatch
    /\ UNCHANGED <<looping, quit, pendingFunctors, active, functors, ppc, owner,
                   posted, executed>>

\* A callback or functor running on the loop thread calls queueInLoop, which
\* pushes without a wakeup because looping_ is set.
QueueFromLoop(f) ==
    /\ lpc \in {"dispatch", "run"}
    /\ Push(f)
    /\ UNCHANGED <<loopVars, quit, wakeupFd, ppc, owner>>

TakePending == functors' = pendingFunctors /\ pendingFunctors' = <<>>

\* doPendingFunctors: swap under mutex_, then run the functors one by one.
SwapPending ==
    /\ lpc = "swap"
    /\ TakePending
    /\ lpc' = "run"
    /\ UNCHANGED <<looping, quit, wakeupFd, active, ppc, owner, posted,
                   executed>>

\* Fault: the vector is emptied from its end.
RunLast ==
    /\ executed' = Append(executed, functors[Len(functors)])
    /\ functors' = SubSeq(functors, 1, Len(functors) - 1)

RunFirst ==
    /\ executed' = Append(executed, Head(functors))
    /\ functors' = Tail(functors)

RunFunctor ==
    /\ lpc = "run"
    /\ functors # <<>>
    /\ RunFirst
    /\ UNCHANGED <<looping, quit, pendingFunctors, wakeupFd, lpc, active, ppc,
                   owner, posted>>

RunDone ==
    /\ lpc = "run"
    /\ functors = <<>>
    /\ lpc' = "check"
    /\ UNCHANGED <<looping, quit, pendingFunctors, wakeupFd, active, functors,
                   ppc, owner, posted, executed>>

-----------------------------------------------------------------------------

LoopStep ==
    \/ Construct \/ EnterLoop \/ Check \/ PollWakeup \/ Dispatch \/ SwapPending
    \/ RunFunctor \/ RunDone

Next ==
    \/ LoopStep \/ PollOther
    \/ \E f \in Local : QueueFromLoop(f)
    \/ \E p \in Posters : queueWakeup(p) \/ \E f \in Remote : queueInLoop(p, f)
    \/ StartReturns \/ QuitFlag \/ QuitWakeup \/ Join

Spec == Init /\ [][Next]_vars

\* Threads that can run do run, and a readable eventfd ends epoll_wait.  That
\* anything else ends it (PollOther) is not assumed, so what is shown to
\* happen happens without waiting for the 10 second timeout.
Fairness ==
    /\ WF_vars(LoopStep)
    /\ \A p \in Posters : WF_vars(queueWakeup(p))
    /\ WF_vars(StartReturns \/ QuitWakeup \/ Join)

FairSpec == Spec /\ Fairness

-----------------------------------------------------------------------------
(* Properties.                                                             *)

\* The values of the loop's members and of each thread's position.
TypeOK ==
    /\ looping \in BOOLEAN /\ quit \in BOOLEAN /\ active \in BOOLEAN
    /\ pendingFunctors \in Seq(Functors) /\ functors \in Seq(Functors)
    /\ posted \in Seq(Functors) /\ executed \in Seq(Functors)
    /\ wakeupFd \in 0..EventFdMax
    /\ lpc \in LoopPC
    /\ ppc \in [Posters -> {"idle", "pushed"}]
    /\ owner \in OwnerPC

\* A functor another thread has pushed is waiting to be run.
RemotePending == \E i \in DOMAIN pendingFunctors : pendingFunctors[i] \in Remote

\* No lost wakeup: the loop never sleeps in epoll_wait on a functor pushed by
\* another thread unless the eventfd is readable or that thread is about to
\* write it.  (Draining the eventfd must come before the swap for this.)
NoLostWakeup ==
    lpc = "poll" /\ RemotePending
        => wakeupFd > 0 \/ \E p \in Posters : ppc[p] = "pushed"

\* No lost quit: once loop() has been entered, a set quit flag finds the loop
\* awake or the eventfd readable, or the quitting thread about to write it.
NoLostQuit ==
    lpc = "poll" /\ quit => wakeupFd > 0 \/ owner = "wakeup"

\* Functors run exactly once and in the order they were pushed, across any
\* number of swaps and pushes from running functors.
RunsInOrder == posted = executed \o functors \o pendingFunctors

\* The loop is an ordered queue of functors: seen from outside, a functor is
\* pushed by any thread at any time, and the next one in order runs.
Queue == INSTANCE MessageQueue WITH
             Messages <- Functors, sent <- posted, received <- executed
ImplementsQueue == Queue!Spec

Posted(f) == \E i \in DOMAIN posted : posted[i] = f
Executed(f) == \E i \in DOMAIN executed : executed[i] = f

\* A functor posted by another thread runs without waiting for the poll
\* timeout, unless the loop is told to quit.
PostedRuns == \A f \in Remote : Posted(f) ~> (quit \/ Executed(f))

\* EventLoop.cpp:43: with its timeout of 10 seconds the poll lets pending
\* functors run also when nothing happens.  A functor queued by the loop thread
\* itself, which writes no wakeup, runs if epoll_wait always ends in time.
LocalRuns == WF_vars(PollOther) => \A f \in Local : Posted(f) ~> (quit \/ Executed(f))

\* A quit that arrives once loop() is running ends it.
QuitEndsLoop == (quit /\ looping) ~> lpc = "exited"

\* EventLoopPool.cpp:17: the destructor first sets the exit flag, quit() being
\* thread-safe and waking epoll_wait, and then recovers the thread.
DestructorJoins == owner = "wakeup" ~> owner = "joined"

=============================================================================
