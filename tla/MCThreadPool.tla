---------------------------- MODULE MCThreadPool ----------------------------
(* Small instances of ThreadPool.                                          *)
EXTENDS ThreadPool

CONSTANTS w1, k1, k2, k3, k4

\* k2 is urgent; the others are alike, but for the callback of k1.
MCPriority == [k \in Tasks |-> IF k = k2 THEN 0 ELSE 1]
MCCallbackTasks == Tasks \cap {k1}

\* Of the threads, which differ only in names, w1 is the first; and the tasks are
\* submitted in one order, the urgent one second.
Submissions == <<k1, k2, k3, k4>>
Canonical ==
    /\ startCalls = 0 => newThread'[Owner] \in {w1, None}
    /\ \A i \in 2..4 :
          Submissions[i] \in submitted' => Submissions[i - 1] \in submitted'

=============================================================================
