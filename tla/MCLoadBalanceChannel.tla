------------------------- MODULE MCLoadBalanceChannel -------------------------
EXTENDS LoadBalanceChannel

\* Two virtual nodes each; nodes 1 and 3 collide at 4, the keys fall before,
\* between and behind the points.
MCPoints == [n \in Nodes |-> CASE n = 1 -> {1, 4} [] n = 2 -> {2, 6} [] n = 3 -> {4, 7}]
MCKeyHash == [k \in Keys |-> k]
=============================================================================
