----------------------------- MODULE MCRpcChannel -----------------------------
EXTENDS RpcChannel, TLC

CONSTANT c1

\* Calls are told apart by identity only.
CallSymmetry == Permutations(Calls)

\* So it is enough to look at the behaviours in which c1 is the first.
Canonical == cur' \in {None, c1} \/ result[c1] # None
=============================================================================
