--------------------------- MODULE EventLoopProofs ---------------------------
(***************************************************************************)
(* TLAPS proofs about EventLoop, for every set of posters and functors and *)
(* every capacity of the eventfd.                                          *)
(***************************************************************************)
EXTENDS EventLoop, SequenceTheorems, TLAPS

\* How long a prover may take over a step that names none.
USE ZenonT(60), SMTT(60)

\* wakeup() leaves the eventfd readable: it adds one, or finds it full.
LEMMA WakeupReadable ==
    ASSUME TypeOK, wakeup
    PROVE  wakeupFd' \in 0..EventFdMax /\ wakeupFd' > 0
BY LoopAssumption, SMTT(60) DEF TypeOK, wakeup

\* The three kinds of conjuncts of TypeOK, each for the prover that handles it.
FlagsOK == looping \in BOOLEAN /\ quit \in BOOLEAN /\ active \in BOOLEAN
QueuesOK ==
    /\ pendingFunctors \in Seq(Functors) /\ functors \in Seq(Functors)
    /\ posted \in Seq(Functors) /\ executed \in Seq(Functors)
PositionsOK ==
    /\ wakeupFd \in 0..EventFdMax
    /\ lpc \in LoopPC
    /\ ppc \in [Posters -> {"idle", "pushed"}]
    /\ owner \in OwnerPC

\* The members and positions keep their types.
THEOREM TypeCorrect == Spec => []TypeOK
<1>0. TypeOK <=> FlagsOK /\ QueuesOK /\ PositionsOK
  BY Zenon DEF TypeOK, FlagsOK, QueuesOK, PositionsOK
<1>1. Init => TypeOK
  <2> SUFFICES ASSUME Init PROVE TypeOK
    OBVIOUS
  <2>1. FlagsOK
    BY Zenon DEF Init, FlagsOK
  <2>2. QueuesOK
    BY SMTT(60) DEF Init, QueuesOK
  <2>3. PositionsOK
    BY LoopAssumption, SMTT(60) DEF Init, PositionsOK, LoopPC, OwnerPC
  <2>4. QED
    BY <1>0, <2>1, <2>2, <2>3
<1>2. ASSUME TypeOK, [Next]_vars
      PROVE  TypeOK'
  <2>1. FlagsOK'
    BY <1>0, <1>2, Zenon
    DEF FlagsOK, Next, LoopStep, vars, loopVars, QueueFromLoop, queueWakeup,
        queueInLoop, StartReturns, QuitFlag, QuitWakeup, Join, Construct,
        EnterLoop, Check, PollWakeup, PollOther, Dispatch, AfterDispatch,
            SwapPending, TakePending,
        RunFunctor, RunFirst, RunDone
  <2>2. QueuesOK'
    <3>1. ASSUME NEW f \in Functors, Push(f)
          PROVE  pendingFunctors' \in Seq(Functors) /\ posted' \in Seq(Functors)
      BY <1>0, <1>2, <3>1, SMTT(60) DEF QueuesOK, Push
    <3>2. functors # <<>> => Head(functors) \in Functors
                             /\ Tail(functors) \in Seq(Functors)
      BY <1>0, <1>2, SMTT(60) DEF QueuesOK
    <3>3. CASE RunFunctor
      BY <1>0, <1>2, <3>2, <3>3, SMTT(60) DEF QueuesOK, RunFunctor, RunFirst
    <3>4. CASE ~RunFunctor
      <4>1. <<>> \in Seq(Functors) /\ Remote \subseteq Functors /\ Local \subseteq Functors
        BY SMTT(60) DEF Functors
      <4>2. QED
        BY <1>0, <1>2, <3>1, <3>4, <4>1, Zenon
        DEF QueuesOK, Next, LoopStep, vars, loopVars, QueueFromLoop, queueWakeup,
            queueInLoop, StartReturns, QuitFlag, QuitWakeup, Join, Construct,
            EnterLoop, Check, PollWakeup, PollOther, Dispatch, AfterDispatch,
                SwapPending, TakePending,
            RunDone
    <3>5. QED
      BY <3>3, <3>4
  <2>3. PositionsOK'
    <3> USE <1>0, <1>2, LoopAssumption DEF PositionsOK, LoopPC, OwnerPC
    <3>1. CASE (\E f \in Local : QueueFromLoop(f)) \/ UNCHANGED vars
      BY <3>1 DEF QueueFromLoop, loopVars, vars
    <3>2. CASE \E p \in Posters :
                  queueWakeup(p) \/ \E f \in Remote : queueInLoop(p, f)
      BY <3>2, WakeupReadable DEF queueWakeup, queueInLoop, loopVars
    <3>3. CASE StartReturns \/ QuitFlag \/ QuitWakeup \/ Join
      BY <3>3, WakeupReadable
      DEF StartReturns, QuitFlag, QuitWakeup, Join, loopVars
    <3>4. CASE LoopStep \/ PollOther
      BY <3>4, SMTT(60)
      DEF LoopStep, Construct, EnterLoop, Check, PollWakeup, PollOther,
          Dispatch, AfterDispatch, SwapPending, TakePending, RunFunctor, RunFirst,
              RunDone
    <3>5. QED
      BY <3>1, <3>2, <3>3, <3>4 DEF Next
  <2>4. QED
    BY <1>0, <2>1, <2>2, <2>3 DEF TypeOK, FlagsOK, QueuesOK, PositionsOK
<1>3. QED
  BY <1>1, <1>2, PTL DEF Spec

-----------------------------------------------------------------------------

\* The strengthening of NoLostWakeup: a pending functor of another thread is
\* backed by a readable eventfd or a thread about to write it at every point
\* of the loop but one, between draining the eventfd and the swap.
WakeupPending ==
    lpc # "swap" /\ RemotePending
        => wakeupFd > 0 \/ \E p \in Posters : ppc[p] = "pushed"

\* What a push adds to the pending functors.
LEMMA PushPending ==
    ASSUME TypeOK, NEW f \in Functors, Push(f), RemotePending'
    PROVE  RemotePending \/ f \in Remote
BY SMTT(60) DEF TypeOK, Push, RemotePending

\* No wakeup of the loop by queueInLoop is ever lost.
THEOREM WakeupNeverLost == Spec => []NoLostWakeup
<1>1. Init => WakeupPending
  BY SMTT(60) DEF Init, WakeupPending, RemotePending
<1>2. ASSUME TypeOK, WakeupPending, [Next]_vars
      PROVE  WakeupPending'
  <2>1. ASSUME NEW f \in Local, QueueFromLoop(f)
        PROVE  WakeupPending'
    <3>1. RemotePending' => RemotePending
      BY <1>2, <2>1, PushPending, LoopAssumption DEF QueueFromLoop, Functors
    <3>2. QED
      BY <1>2, <2>1, <3>1 DEF QueueFromLoop, WakeupPending, loopVars
  <2>2. ASSUME NEW p \in Posters, queueWakeup(p)
        PROVE  WakeupPending'
    BY <1>2, <2>2, WakeupReadable, LoopAssumption DEF queueWakeup, WakeupPending
  <2>3. ASSUME NEW p \in Posters, NEW f \in Remote, queueInLoop(p, f)
        PROVE  WakeupPending'
    BY <1>2, <2>3 DEF queueInLoop, WakeupPending, TypeOK
  <2>4. CASE QuitWakeup
    BY <1>2, <2>4, WakeupReadable, LoopAssumption DEF QuitWakeup, WakeupPending
  <2>5. CASE StartReturns \/ QuitFlag \/ Join
    BY <1>2, <2>5
    DEF StartReturns, QuitFlag, Join, WakeupPending, RemotePending, loopVars
  <2>6. CASE Construct \/ EnterLoop \/ Check \/ PollWakeup \/ PollOther
    BY <1>2, <2>6
    DEF Construct, EnterLoop, Check, PollWakeup, PollOther, WakeupPending,
        RemotePending
  <2>7. CASE Dispatch
    BY <2>7 DEF Dispatch, AfterDispatch, WakeupPending
  <2>8. CASE SwapPending
    BY <2>8, SMTT(60) DEF SwapPending, TakePending, WakeupPending, RemotePending
  <2>9. CASE RunFunctor \/ RunDone
    BY <1>2, <2>9 DEF RunFunctor, RunFirst, RunDone, WakeupPending, RemotePending
  <2>10. CASE UNCHANGED vars
    BY <1>2, <2>10 DEF vars, WakeupPending, RemotePending
  <2>11. QED
    BY <1>2, <2>1, <2>2, <2>3, <2>4, <2>5, <2>6, <2>7, <2>8, <2>9, <2>10
    DEF Next, LoopStep
<1>3. WakeupPending => NoLostWakeup
  BY DEF WakeupPending, NoLostWakeup
<1>4. QED
  BY <1>1, <1>2, <1>3, TypeCorrect, PTL DEF Spec

-----------------------------------------------------------------------------

\* No wakeup of the loop by quit() is lost once the loop polls: the flag is
\* set before the eventfd is written and tested after it was drained.
THEOREM QuitNeverLost == Spec => []NoLostQuit
<1>1. Init => NoLostQuit
  BY DEF Init, NoLostQuit
<1>2. ASSUME TypeOK, NoLostQuit, [Next]_vars
      PROVE  NoLostQuit'
  <2> USE DEF NoLostQuit
  <2>1. CASE \E f \in Local : QueueFromLoop(f)
    BY <1>2, <2>1 DEF QueueFromLoop, loopVars
  <2>2. CASE \E p \in Posters :
                queueWakeup(p) \/ \E f \in Remote : queueInLoop(p, f)
    BY <1>2, <2>2, WakeupReadable, Zenon DEF queueWakeup, queueInLoop, loopVars
  <2>3. CASE QuitWakeup
    BY <1>2, <2>3, WakeupReadable, Zenon DEF QuitWakeup
  <2>4. CASE StartReturns \/ QuitFlag \/ Join
    BY <1>2, <2>4, ZenonT(60) DEF StartReturns, QuitFlag, Join, loopVars
  <2>5. CASE LoopStep \/ PollOther
    BY <1>2, <2>5, ZenonT(60) DEF LoopStep, Construct, EnterLoop, Check, PollWakeup,
        PollOther, Dispatch, AfterDispatch,
        SwapPending, TakePending, RunFunctor, RunFirst, RunDone
  <2>6. CASE UNCHANGED vars
    BY <1>2, <2>6 DEF vars
  <2>7. QED
    BY <1>2, <2>1, <2>2, <2>3, <2>4, <2>5, <2>6 DEF Next
<1>3. QED
  BY <1>1, <1>2, TypeCorrect, PTL DEF Spec

-----------------------------------------------------------------------------

\* The strengthening of RunsInOrder: outside doPendingFunctors' loop the vector
\* it swapped out is empty, so a swap overwrites nothing.
OrderKept == RunsInOrder /\ (lpc # "run" => functors = <<>>)

\* Appending to a concatenation is appending to its last part.
LEMMA AppendLast ==
    \A s, t \in Seq(Functors), f \in Functors :
        Append(s \o t, f) = s \o Append(t, f)
<1> SUFFICES ASSUME NEW s \in Seq(Functors), NEW t \in Seq(Functors),
                    NEW f \in Functors
             PROVE  Append(s \o t, f) = s \o Append(t, f)
  BY ZenonT(60)
<1>1. s \o t \in Seq(Functors) /\ <<f>> \in Seq(Functors)
  BY SMTT(60)
<1>2. Append(s \o t, f) = (s \o t) \o <<f>>
  BY <1>1, AppendIsConcat
<1>3. (s \o t) \o <<f>> = s \o (t \o <<f>>)
  BY <1>1, ConcatAssociative, SMTT(60)
<1>4. Append(t, f) = t \o <<f>>
  BY AppendIsConcat
<1>5. QED
  BY <1>2, <1>3, <1>4

\* Moving the head of the second part to the end of the first changes nothing.
LEMMA MoveHead ==
    ASSUME NEW S, NEW s \in Seq(S), NEW t \in Seq(S), t # <<>>
    PROVE  Append(s, Head(t)) \o Tail(t) = s \o t
<1>1. Head(t) \in S /\ Tail(t) \in Seq(S) /\ <<Head(t)>> \in Seq(S)
  BY SMTT(60)
<1>2. Append(s, Head(t)) = s \o <<Head(t)>>
  BY <1>1, AppendIsConcat
<1>3. (s \o <<Head(t)>>) \o Tail(t) = s \o (<<Head(t)>> \o Tail(t))
  BY <1>1, ConcatAssociative, SMTT(60)
<1>4. <<Head(t)>> \o Tail(t) = t
  BY SMTT(60)
<1>5. QED
  BY <1>2, <1>3, <1>4

\* OrderKept is inductive.
LEMMA OrderInductive == Spec => []OrderKept
<1>1. Init => OrderKept
  BY SMTT(60) DEF Init, OrderKept, RunsInOrder
<1>2. ASSUME TypeOK, OrderKept, [Next]_vars
      PROVE  OrderKept'
  <2> USE <1>2 DEF OrderKept, RunsInOrder
  <2>0. /\ executed \in Seq(Functors) /\ functors \in Seq(Functors)
        /\ pendingFunctors \in Seq(Functors)
    BY DEF TypeOK
  <2>1. ASSUME NEW f \in Functors, Push(f), UNCHANGED <<executed, functors, lpc>>
        PROVE  OrderKept'
    <3>1. executed \o functors \in Seq(Functors)
      BY <2>0, SMTT(60)
    <3>2. Append((executed \o functors) \o pendingFunctors, f)
              = (executed \o functors) \o Append(pendingFunctors, f)
      BY <2>0, <3>1, AppendLast, Zenon
    <3>3. /\ posted' = Append((executed \o functors) \o pendingFunctors, f)
          /\ pendingFunctors' = Append(pendingFunctors, f)
          /\ executed' = executed /\ functors' = functors /\ lpc' = lpc
      BY <2>1, Zenon DEF Push
    <3>4. QED
      BY <3>2, <3>3, Zenon
  <2>2. CASE RunFunctor
    BY <2>0, <2>2, MoveHead, ZenonT(60) DEF RunFunctor, RunFirst
  <2>3. CASE SwapPending
    BY <2>0, <2>3, SMTT(60) DEF SwapPending, TakePending
  <2>4. CASE \E f \in Local : QueueFromLoop(f)
    BY <2>1, <2>4 DEF QueueFromLoop, loopVars, Functors
  <2>5. CASE \E p \in Posters : \E f \in Remote : queueInLoop(p, f)
    BY <2>1, <2>5 DEF queueInLoop, loopVars, Functors
  <2>6. CASE \/ \E p \in Posters : queueWakeup(p)
             \/ StartReturns \/ QuitFlag \/ QuitWakeup \/ Join
    BY <2>6, ZenonT(60)
    DEF queueWakeup, StartReturns, QuitFlag, QuitWakeup, Join, loopVars
  <2>7. CASE \/ Construct \/ EnterLoop \/ Check \/ PollWakeup \/ PollOther
             \/ Dispatch \/ RunDone \/ UNCHANGED vars
    BY <2>7, ZenonT(60) DEF Construct, EnterLoop, Check, PollWakeup, PollOther,
        Dispatch, AfterDispatch, RunDone,
        vars
  <2>8. QED
    BY <2>2, <2>3, <2>4, <2>5, <2>6, <2>7 DEF Next, LoopStep
<1>3. QED
  BY <1>1, <1>2, TypeCorrect, PTL DEF Spec

\* Functors run once each and in the order in which they were queued.
THEOREM OrderPreserved == Spec => []RunsInOrder
<1>1. OrderKept => RunsInOrder
  BY DEF OrderKept
<1>2. QED
  BY <1>1, OrderInductive, PTL

-----------------------------------------------------------------------------

\* The element a concatenation has behind its first part.
LEMMA NextElement ==
    ASSUME NEW S, NEW s \in Seq(S), NEW t \in Seq(S), NEW u \in Seq(S), t # <<>>
    PROVE  /\ Len(s) < Len(s \o t \o u)
           /\ (s \o t \o u)[Len(s) + 1] = Head(t)
<1>1. s \o t \in Seq(S) /\ Len(s \o t) = Len(s) + Len(t)
  BY ConcatProperties
<1>2. Len(s) \in Nat /\ Len(t) \in Nat /\ Len(u) \in Nat /\ Len(t) >= 1
  BY SMTT(60)
<1>3. Len(s \o t \o u) = Len(s \o t) + Len(u)
  BY <1>1, ConcatProperties
<1>4. (s \o t)[Len(s) + 1] = t[1]
  <2>1. Len(s) + 1 \in 1..(Len(s) + Len(t)) /\ ~(Len(s) + 1 <= Len(s))
        /\ (Len(s) + 1) - Len(s) = 1
    BY <1>2, SMTT(60)
  <2>2. QED
    BY <2>1, ConcatProperties, SMTT(60)
<1>5. (s \o t \o u)[Len(s) + 1] = (s \o t)[Len(s) + 1]
  <2> DEFINE v == s \o t
  <2>1. v \in Seq(S) /\ Len(v) = Len(s) + Len(t)
    BY <1>1
  <2> HIDE DEF v
  <2>2. Len(s) + 1 \in 1..(Len(v) + Len(u)) /\ Len(s) + 1 <= Len(v)
    BY <1>2, <2>1, SMTT(60)
  <2>3. (v \o u)[Len(s) + 1] = v[Len(s) + 1]
    BY <2>1, <2>2, ConcatProperties
  <2>4. QED
    BY <2>3 DEF v
<1>6. QED
  BY <1>1, <1>2, <1>3, <1>4, <1>5, SMTT(60)

\* Every step of the loop and of the threads that post to it is a step of the
\* ordered queue of MessageQueue, or none.
LEMMA QueueStep ==
    ASSUME TypeOK, OrderKept, [Next]_vars
    PROVE  [Queue!Next]_<<posted, executed>>
<1> USE DEF Queue!Next, Queue!Send, Queue!Receive
<1>1. ASSUME NEW f \in Functors, Push(f), UNCHANGED executed
      PROVE  Queue!Next
  BY <1>1 DEF Push
<1>2. CASE RunFunctor
  <2>1. /\ executed \in Seq(Functors) /\ functors \in Seq(Functors)
        /\ pendingFunctors \in Seq(Functors) /\ functors # <<>>
    BY <1>2 DEF TypeOK, RunFunctor
  <2>2. posted = executed \o functors \o pendingFunctors
    BY DEF OrderKept, RunsInOrder
  <2>3. Len(executed) < Len(posted) /\ posted[Len(executed) + 1] = Head(functors)
    BY <2>1, <2>2, NextElement
  <2>4. posted' = posted /\ executed' = Append(executed, Head(functors))
    BY <1>2 DEF RunFunctor, RunFirst
  <2>5. QED
    BY <2>3, <2>4
<1>3. CASE \E f \in Local : QueueFromLoop(f)
  BY <1>1, <1>3 DEF QueueFromLoop, loopVars, Functors
<1>4. CASE \E p \in Posters : \E f \in Remote : queueInLoop(p, f)
  BY <1>1, <1>4 DEF queueInLoop, loopVars, Functors
<1>5. CASE \/ \E p \in Posters : queueWakeup(p)
           \/ StartReturns \/ QuitFlag \/ QuitWakeup \/ Join
  BY <1>5 DEF queueWakeup, StartReturns, QuitFlag, QuitWakeup, Join, loopVars
<1>6. CASE \/ Construct \/ EnterLoop \/ Check \/ PollWakeup \/ PollOther
           \/ Dispatch \/ SwapPending \/ RunDone \/ UNCHANGED vars
  BY <1>6
  DEF Construct, EnterLoop, Check, PollWakeup, PollOther, Dispatch, SwapPending,
      RunDone, vars
<1>7. QED
  BY <1>2, <1>3, <1>4, <1>5, <1>6 DEF Next, LoopStep

\* The loop, its swaps and its posters together implement the ordered queue: a
\* functor runs after every functor that was pushed before it, and once.
THEOREM LoopImplementsQueue == Spec => ImplementsQueue
<1>1. Init => Queue!Init
  BY DEF Init, Queue!Init
<1>2. TypeOK /\ OrderKept /\ [Next]_vars => [Queue!Next]_<<posted, executed>>
  BY QueueStep
<1>3. QED
  BY <1>1, <1>2, OrderInductive, TypeCorrect, PTL DEF Spec, ImplementsQueue, Queue!Spec

=============================================================================
