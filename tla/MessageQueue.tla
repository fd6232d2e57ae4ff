----------------------------- MODULE MessageQueue -----------------------------
(***************************************************************************)
(* What framing promises of messages and an event loop of functors: what   *)
(* goes in comes out whole, once each and in order.                        *)
(***************************************************************************)
EXTENDS Integers, Sequences

CONSTANT Messages

VARIABLES sent, received

Init == sent = <<>> /\ received = <<>>

Send(m) ==
    /\ sent' = Append(sent, m)
    /\ UNCHANGED received

Receive ==
    /\ Len(received) < Len(sent)
    /\ received' = Append(received, sent[Len(received) + 1])
    /\ UNCHANGED sent

Next == (\E m \in Messages : Send(m)) \/ Receive

Spec == Init /\ [][Next]_<<sent, received>>
=============================================================================
