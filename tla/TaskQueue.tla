------------------------------ MODULE TaskQueue -------------------------------
(***************************************************************************)
(* What the thread pool promises of its tasks: a bounded queue that is     *)
(* served by priority and runs every task at most once.  A closed queue    *)
(* takes nothing in and starts nothing; one that is closed while a task is *)
(* being handed in or out completes that one operation.                    *)
(***************************************************************************)
EXTENDS Integers, FiniteSets

CONSTANTS Tasks, Priority, Capacity

VARIABLES phase, queue, running, runs

Init ==
    /\ phase = "closed"
    /\ queue = {} /\ running = {}
    /\ runs = [k \in Tasks |-> 0]

Open == phase = "closed" /\ phase' = "open" /\ UNCHANGED <<queue, running, runs>>

Close ==
    /\ phase = "open"
    /\ phase' \in {"closing", "closed"}
    /\ UNCHANGED <<queue, running, runs>>

\* An operation on the queue; the one completed while it closes is the last.
Operate ==
    /\ phase # "closed"
    /\ phase' = IF phase = "open" THEN "open" ELSE "closed"

Enqueue(k) ==
    /\ Operate
    /\ k \notin queue \cup running /\ runs[k] = 0
    /\ Cardinality(queue) < Capacity
    /\ queue' = queue \cup {k}
    /\ UNCHANGED <<running, runs>>

Take(k) ==
    /\ Operate
    /\ k \in queue /\ \A j \in queue : Priority[k] <= Priority[j]
    /\ queue' = queue \ {k}
    /\ running' = running \cup {k}
    /\ UNCHANGED runs

\* The task returns or throws; either ends it.
Finish(k) ==
    /\ k \in running
    /\ running' = running \ {k}
    /\ runs' = [runs EXCEPT ![k] = @ + 1]
    /\ UNCHANGED <<phase, queue>>

Next == Open \/ Close \/ \E k \in Tasks : Enqueue(k) \/ Take(k) \/ Finish(k)

Spec == Init /\ [][Next]_<<phase, queue, running, runs>>
=============================================================================
