------------------------------ MODULE MCFraming -------------------------------
EXTENDS Framing

\* An empty body, a body at the limit of 2 that looks like a header, one byte,
\* and a body over the limit.
MCMessages ==
    {[type |-> 1, seq |-> 1, body |-> <<>>],
     [type |-> 0, seq |-> 2, body |-> <<1, 1>>],
     [type |-> 1, seq |-> 3, body |-> <<0>>],
     [type |-> 0, seq |-> 0, body |-> <<1, 0, 1>>]}
=============================================================================
