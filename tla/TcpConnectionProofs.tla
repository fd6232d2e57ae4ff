------------------------- MODULE TcpConnectionProofs --------------------------
(***************************************************************************)
(* TLAPS proofs about TcpConnection, for any number of requests, any       *)
(* interleaving of the loop, the pool, the server and the peer, and every  *)
(* way in which the socket cuts a write.                                   *)
(***************************************************************************)
EXTENDS TcpConnection, SequenceTheorems, TLAPS

\* How long a prover may take over a step that names none.
USE ZenonT(60), SMTT(60)

\* A part of a sequence, by its elements.
LEMMA Part ==
    ASSUME NEW S, NEW s \in Seq(S), NEW m \in Nat \ {0}, NEW n \in 0..Len(s)
    PROVE  /\ SubSeq(s, m, n) \in Seq(S)
           /\ Len(SubSeq(s, m, n)) = IF m <= n THEN n - m + 1 ELSE 0
           /\ \A i \in 1..(n - m + 1) : SubSeq(s, m, n)[i] = s[m + i - 1]
<1>1. \A i \in m..n : s[i] \in S
  BY SMTT(60)
<1>2. QED
  BY <1>1, SubSeqProperties, SMTT(60)

\* A sequence is what comes before a cut and what comes after it.
LEMMA Cut ==
    ASSUME NEW S, NEW s \in Seq(S), NEW n \in 0..Len(s)
    PROVE  SubSeq(s, 1, n) \o SubSeq(s, n + 1, Len(s)) = s
<1>1. 1 \in 1..Len(s)+1 /\ n \in 1-1..Len(s) /\ Len(s) \in n..Len(s)
  BY SMTT(60)
<1>2. SubSeq(s, 1, n) \o SubSeq(s, n + 1, Len(s)) = SubSeq(s, 1, Len(s))
  BY <1>1, ConcatAdjacentSubSeq, Zenon
<1>3. QED
  BY <1>2, SubSeqFull, Zenon

Early == {"none", "connecting"}

\* The types of what is not a flag, and of the flags.
ShapeOK ==
    /\ state \in States /\ events \subseteq {"read", "write"}
    /\ outputBuffer \in Seq(Output) /\ wire \in Seq(Output)
    /\ loop \in {"poll", "read", "message", "write", "functors"}
    /\ revents \subseteq {"read", "write"}
    /\ inbox \in Seq(Requests \cup {Other, Bad})
    /\ inbound \in Seq(Requests \cup {Other, Bad})
    /\ functors \in Seq(Requests \cup {Established})
    /\ todo \in 0..Len(functors)
    /\ task \in [Requests -> {"none", "run", "push", "release", "done"}]
    /\ peer \in {"open", "fin", "rst"}
    /\ queued \in Seq(Requests)

FlagsOK ==
    /\ inTable \in BOOLEAN /\ bad \in BOOLEAN /\ full \in BOOLEAN
    /\ room \in BOOLEAN /\ wrClosed \in BOOLEAN

\* Until connectEstablished has run nothing is registered, read or answered,
\* and it runs once: afterwards its functor is never queued again.
EarlyInv ==
    /\ state = "none" => functors = <<>>
    /\ state = "connecting" => functors = <<Established>>
    /\ state \in Early =>
          /\ events = {} /\ outputBuffer = <<>>
          /\ loop \in {"poll", "write", "functors"}
          /\ \A r \in Requests : task[r] = "none"
    /\ state \notin Early => functors \in Seq(Requests)

LifeInv == ShapeOK /\ EarlyInv /\ WriteArmed /\ ClosedForGood

\* s is the pieces of the responses q, in order.
InOrder(s, q) ==
    /\ Len(s) = 2 * Len(q)
    /\ \A i \in 1..Len(q) : s[2 * i - 1] = <<q[i], 1>> /\ s[2 * i] = <<q[i], 2>>

\* BytesInOrder, by the pieces.
LEMMA InOrderBytes ==
    ASSUME ShapeOK
    PROVE  InOrder(wire \o outputBuffer, queued) <=> BytesInOrder
<1> DEFINE all == wire \o outputBuffer
<1>1. Len(all) = Len(wire) + Len(outputBuffer)
  BY SMTT(60) DEF ShapeOK
<1>2. \A i \in 1..Len(queued) :
          (<<all[2 * i - 1], all[2 * i]>> = Pieces(queued[i]))
              <=> (all[2 * i - 1] = <<queued[i], 1>> /\ all[2 * i] = <<queued[i], 2>>)
  BY DEF Pieces
<1> HIDE DEF all
<1>3. BytesInOrder <=>
          /\ Len(all) = 2 * Len(queued)
          /\ \A i \in 1..Len(queued) :
                <<all[2 * i - 1], all[2 * i]>> = Pieces(queued[i])
  BY <1>1 DEF BytesInOrder, all
<1>4. InOrder(all, queued) <=> BytesInOrder
  BY <1>2, <1>3, ZenonT(60) DEF InOrder
<1>5. QED
  BY <1>4 DEF all

\* A response that sendInLoop accepts goes to the end of the output.
LEMMA InOrderGrows ==
    ASSUME NEW s \in Seq(Output), NEW q \in Seq(Requests), NEW r \in Requests,
           InOrder(s, q)
    PROVE  InOrder(s \o Pieces(r), Append(q, r))
<1> DEFINE t == s \o Pieces(r)
           p == Append(q, r)
<1>1. Pieces(r) \in Seq(Output) /\ Len(Pieces(r)) = 2
      /\ Pieces(r)[1] = <<r, 1>> /\ Pieces(r)[2] = <<r, 2>>
  BY SMTT(60) DEF Pieces, Output
<1>2. /\ Len(t) = Len(s) + 2
      /\ \A i \in 1..Len(s) : t[i] = s[i]
      /\ t[Len(s) + 1] = <<r, 1>> /\ t[Len(s) + 2] = <<r, 2>>
  <2>1. /\ Len(t) = Len(s) + Len(Pieces(r))
        /\ \A i \in 1..(Len(s) + Len(Pieces(r))) :
              t[i] = IF i <= Len(s) THEN s[i] ELSE Pieces(r)[i - Len(s)]
    BY <1>1, ConcatProperties, ZenonT(60)
  <2> DEFINE n == Len(s)
             u == Pieces(r)
  <2>2. n \in Nat
    BY SMTT(60)
  <2>3. /\ Len(t) = n + 2 /\ Len(u) = 2
        /\ u[1] = <<r, 1>> /\ u[2] = <<r, 2>>
        /\ \A i \in 1..(n + 2) : t[i] = IF i <= n THEN s[i] ELSE u[i - n]
    BY <1>1, <2>1
  <2> HIDE DEF t, n, u
  <2>4. t[n + 1] = u[1] /\ t[n + 2] = u[2] /\ \A i \in 1..n : t[i] = s[i]
    BY <2>2, <2>3, SMTT(60)
  <2>5. Len(t) = n + 2 /\ t[n + 1] = <<r, 1>> /\ t[n + 2] = <<r, 2>>
    BY <2>3, <2>4
  <2>6. QED
    BY <2>4, <2>5 DEF n
<1>3. Len(p) = Len(q) + 1 /\ p[Len(q) + 1] = r /\ \A i \in 1..Len(q) : p[i] = q[i]
  BY SMTT(60)
<1>4. Len(s) = 2 * Len(q) /\ Len(q) \in Nat
  BY SMTT(60) DEF InOrder
<1> HIDE DEF t, p
<1>5. ASSUME NEW i \in 1..Len(p)
      PROVE  t[2 * i - 1] = <<p[i], 1>> /\ t[2 * i] = <<p[i], 2>>
  <2>1. CASE i \in 1..Len(q)
    <3>1. 2 * i - 1 \in 1..Len(s) /\ 2 * i \in 1..Len(s)
      BY <1>4, <2>1, SMTT(60)
    <3>2. QED
      BY <1>2, <1>3, <2>1, <3>1, ZenonT(60) DEF InOrder
  <2>2. CASE i = Len(q) + 1
    <3>1. 2 * i - 1 = Len(s) + 1 /\ 2 * i = Len(s) + 2
      BY <1>4, <2>2, SMTT(60)
    <3>2. QED
      BY <1>2, <1>3, <2>2, <3>1, ZenonT(60)
  <2>3. i \in 1..Len(q) \/ i = Len(q) + 1
    BY <1>3, <1>4, SMTT(60)
  <2>4. QED
    BY <2>1, <2>2, <2>3
<1>6. Len(t) = 2 * Len(p)
  BY <1>2, <1>3, <1>4, SMTT(60)
<1>7. InOrder(t, p)
  BY <1>5, <1>6 DEF InOrder
<1>8. QED
  BY <1>7 DEF t, p

-----------------------------------------------------------------------------
(* What the two places that write do to the stream.                        *)

\* write() moves a front part of s onto the wire and leaves the rest.
LEMMA Written ==
    ASSUME wire \in Seq(Output), NEW s \in Seq(Output), NEW pending,
           pending = <<>>, Write(s, pending)
    PROVE  /\ wire' \in Seq(Output) /\ outputBuffer' \in Seq(Output)
           /\ wire' \o outputBuffer' = wire \o s
           /\ wrClosed => wire' = wire
<1>1. PICK n \in 0..Len(s) :
          /\ wire' = wire \o SubSeq(s, 1, n)
          /\ outputBuffer' = pending \o SubSeq(s, n + 1, Len(s))
          /\ wrClosed => n = 0
  <2>1. PICK n \in IF room /\ peer # "rst" /\ ~wrClosed THEN 1..Len(s) ELSE {0} :
            /\ wire' = wire \o SubSeq(s, 1, n)
            /\ outputBuffer' = pending \o SubSeq(s, n + 1, Len(s))
    BY Zenon DEF Write
  <2>2. n \in 0..Len(s) /\ (wrClosed => n = 0)
    BY <2>1, SMTT(60)
  <2>3. QED
    BY <2>1, <2>2, ZenonT(60)
<1> DEFINE f == SubSeq(s, 1, n)
           g == SubSeq(s, n + 1, Len(s))
<1>2. f \in Seq(Output) /\ g \in Seq(Output)
  <2>1. n + 1 \in Nat \ {0} /\ 1 \in Nat \ {0} /\ Len(s) \in 0..Len(s)
    BY SMTT(60)
  <2>2. QED
    BY <2>1, Part
<1>3. f \o g = s
  BY Cut, ZenonT(60)
<1>4. wire' = wire \o f /\ outputBuffer' = pending \o g
  BY <1>1
<1>5. wrClosed => f = <<>>
  BY <1>1, SMTT(60)
<1> HIDE DEF f, g
<1>6. pending \o g = g
  BY <1>2, SMTT(60)
<1>7. (wire \o f) \o g = wire \o (f \o g)
  BY <1>2, SMTT(60)
<1>8. wire' \o outputBuffer' = wire \o s
  BY <1>3, <1>4, <1>6, <1>7
<1>9. wrClosed => wire' = wire
  <2>1. wire \o <<>> = wire
    BY SMTT(60)
  <2>2. QED
    BY <1>4, <1>5, <2>1
<1>10. wire' \in Seq(Output) /\ outputBuffer' \in Seq(Output)
  BY <1>2, <1>4, <1>6, SMTT(60)
<1>11. QED
  BY <1>8, <1>9, <1>10

\* sendInLoop does nothing on a closed connection; otherwise the response is
\* behind everything sent before, and EPOLLOUT is on if any of it waits.
LEMMA Sent ==
    ASSUME LifeInv, NEW r \in Requests, state \notin Early, sendInLoop(r)
    PROVE  \/ /\ state = "disconnected"
              /\ UNCHANGED <<events, outputBuffer, wire, room, queued>>
           \/ /\ state \in {"connected", "disconnecting"}
              /\ queued' = Append(queued, r)
              /\ wire' \in Seq(Output) /\ outputBuffer' \in Seq(Output)
              /\ wire' \o outputBuffer' = (wire \o outputBuffer) \o Pieces(r)
              /\ wrClosed => wire' = wire
              /\ ("write" \in events' <=> outputBuffer' # <<>>)
              /\ events' \subseteq {"read", "write"}
<1> USE DEF LifeInv
<1>1. CASE Refuses
  BY <1>1 DEF sendInLoop, Refuses
<1>2. CASE ~Refuses
  <2>1. state \in {"connected", "disconnecting"}
    BY <1>2 DEF Refuses, ShapeOK, States, Early
  <2>2. Pieces(r) \in Seq(Output) /\ Pieces(r) # <<>>
    BY SMTT(60) DEF Pieces, Output
  <2>3. queued' = Append(queued, r) /\ events' = EnableWriting
    BY <1>2 DEF sendInLoop
  <2>4. CASE Direct
    <3>1. outputBuffer = <<>> /\ "write" \notin events /\ wire \in Seq(Output)
      BY <2>4 DEF Direct, ShapeOK
    <3>2. Write(Pieces(r), outputBuffer)
      BY <1>2, <2>4 DEF sendInLoop
    <3>3. /\ wire' \in Seq(Output) /\ outputBuffer' \in Seq(Output)
          /\ wire' \o outputBuffer' = wire \o Pieces(r)
          /\ wrClosed => wire' = wire
      BY <2>2, <3>1, <3>2, Written
    <3>4. wire \o outputBuffer = wire
      BY <3>1, SMTT(60)
    <3>5. ("write" \in events' <=> outputBuffer' # <<>>)
      BY <2>3, <3>1 DEF EnableWriting
    <3>6. events' \subseteq {"read", "write"}
      BY <2>3 DEF EnableWriting, ShapeOK
    <3>7. QED
      BY <2>1, <2>3, <3>3, <3>4, <3>5, <3>6
  <2>5. CASE ~Direct
    <3>1. outputBuffer' = outputBuffer \o Pieces(r) /\ UNCHANGED <<wire, room>>
      BY <1>2, <2>5 DEF sendInLoop
    <3>2. outputBuffer \in Seq(Output) /\ wire \in Seq(Output)
      BY DEF ShapeOK
    <3>3. wire \o (outputBuffer \o Pieces(r)) = (wire \o outputBuffer) \o Pieces(r)
      BY <2>2, <3>2, SMTT(60)
    <3>4. outputBuffer' # <<>> /\ outputBuffer' \in Seq(Output)
      BY <2>2, <3>1, <3>2, SMTT(60)
    <3>5. events' = events \cup {"write"}
      BY <2>3, <3>4 DEF EnableWriting
    <3>6. events' \subseteq {"read", "write"}
      BY <3>5 DEF ShapeOK
    <3>7. QED
      BY <2>1, <2>3, <3>1, <3>2, <3>3, <3>4, <3>5, <3>6
  <2>6. QED
    BY <2>4, <2>5
<1>3. QED
  BY <1>1, <1>2

\* handleWrite moves buffered bytes onto the wire and turns EPOLLOUT off when
\* none are left.
LEMMA Flushed ==
    ASSUME LifeInv, handleWrite
    PROVE  /\ wire' \in Seq(Output) /\ outputBuffer' \in Seq(Output)
           /\ wire' \o outputBuffer' = wire \o outputBuffer
           /\ wrClosed => wire' = wire
           /\ events' = events
              \/ (/\ "write" \in events
                  /\ events' = IF outputBuffer' = <<>> THEN events \ {"write"}
                                                      ELSE events)
           /\ "write" \notin events => UNCHANGED <<events, outputBuffer>>
<1>1. wire \in Seq(Output) /\ outputBuffer \in Seq(Output)
  BY DEF LifeInv, ShapeOK
<1>2. CASE "write" \in revents \cap events
  <2>1. Write(outputBuffer, <<>>) /\ events' = DisableWriting
    BY <1>2 DEF handleWrite
  <2>2. QED
    BY <1>1, <1>2, <2>1, Written, ZenonT(60) DEF DisableWriting
<1>3. CASE ~("write" \in revents \cap events)
  BY <1>1, <1>3 DEF handleWrite
<1>4. QED
  BY <1>2, <1>3

-----------------------------------------------------------------------------
(* The connection's life, one lemma per actor.                             *)

\* Steps of the peer and of the pool's other users.
LEMMA LifeFrame ==
    ASSUME LifeInv,
           UNCHANGED <<state, events, outputBuffer, inTable, wire, loop, revents,
                       inbox, functors, todo, task, queued>>,
           inbound' \in Seq(Requests \cup {Other, Bad}), peer' \in {"open", "fin", "rst"}
    PROVE  LifeInv'
<1>1. ShapeOK' /\ EarlyInv'
  BY DEF LifeInv, ShapeOK, EarlyInv, Early
<1>2. WriteArmed' /\ ClosedForGood'
  BY DEF LifeInv, WriteArmed, ClosedForGood
<1>3. QED
  BY <1>1, <1>2 DEF LifeInv

\* A response is sent, or not: the effect on the connection's life.
LEMMA LifeSent ==
    ASSUME LifeInv, NEW r \in Requests, state \notin Early,
           sendInLoop(r) \/ UNCHANGED <<events, outputBuffer, wire, queued>>,
           UNCHANGED <<state, inTable>>
    PROVE  /\ WriteArmed' /\ ClosedForGood'
           /\ events' \subseteq {"read", "write"} /\ queued' \in Seq(Requests)
           /\ outputBuffer' \in Seq(Output) /\ wire' \in Seq(Output)
<1>1. CASE UNCHANGED <<events, outputBuffer, wire, queued>>
  BY <1>1 DEF LifeInv, ShapeOK, WriteArmed, ClosedForGood
<1>2. CASE /\ sendInLoop(r)
           /\ ~UNCHANGED <<events, outputBuffer, wire, queued>>
  <2>1. /\ state \in {"connected", "disconnecting"}
        /\ queued' = Append(queued, r)
        /\ wire' \in Seq(Output) /\ outputBuffer' \in Seq(Output)
        /\ ("write" \in events' <=> outputBuffer' # <<>>)
        /\ events' \subseteq {"read", "write"}
    BY <1>2, Sent
  <2>2. queued' \in Seq(Requests)
    BY <2>1, SMTT(60) DEF LifeInv, ShapeOK
  <2>3. WriteArmed'
    BY <2>1 DEF WriteArmed
  <2>4. ClosedForGood'
    BY <2>1 DEF LifeInv, ClosedForGood
  <2>5. QED
    BY <2>1, <2>2, <2>3, <2>4
<1>3. QED
  BY <1>1, <1>2

\* The I/O loop.
LEMMA LifeLoop ==
    ASSUME LifeInv, LoopStep
    PROVE  LifeInv'
<1> USE NameAssumption
    DEF LifeInv, ShapeOK, EarlyInv, Early, WriteArmed, ClosedForGood, States,
        conn, reactor, socket
<1>1. CASE Poll
  BY <1>1 DEF Poll, Ready
<1>2. CASE ReadData
  <2>1. PICK n \in 1..Len(inbound) :
            /\ inbox' = SubSeq(inbound, 1, n)
            /\ inbound' = SubSeq(inbound, n + 1, Len(inbound))
    BY <1>2 DEF ReadData
  <2>2. /\ inbox' \in Seq(Requests \cup {Other, Bad})
        /\ inbound' \in Seq(Requests \cup {Other, Bad})
    <3>1. n + 1 \in Nat \ {0} /\ 1 \in Nat \ {0} /\ n \in 0..Len(inbound)
          /\ Len(inbound) \in 0..Len(inbound)
      BY SMTT(60)
    <3>2. QED
      BY <2>1, <3>1, Part
  <2>3. QED
    BY <1>2, <2>2 DEF ReadData
<1>3. CASE ReadEnd
  BY <1>3 DEF ReadEnd, handleClose, removeConnection
<1>4. CASE OnRequest
  <2>1. /\ loop = "message" /\ inbox # <<>> /\ Head(inbox) \in Requests
        /\ inbox' = Tail(inbox) /\ state' = state /\ inTable' = inTable
        /\ UNCHANGED <<loop, revents, functors, todo, peer, inbound>>
    BY <1>4 DEF OnRequest
  <2>2. state \notin Early /\ Head(inbox) \in Requests
        /\ inbox' \in Seq(Requests \cup {Other, Bad})
    BY <2>1, SMTT(60)
  <2>3. task' = task \/ task' = [task EXCEPT ![Head(inbox)] = "run"]
    BY <1>4 DEF OnRequest
  <2>4. sendInLoop(Head(inbox)) \/ UNCHANGED <<events, outputBuffer, wire, queued>>
    BY <1>4 DEF OnRequest
  <2>5. /\ WriteArmed' /\ ClosedForGood'
        /\ events' \subseteq {"read", "write"} /\ queued' \in Seq(Requests)
        /\ outputBuffer' \in Seq(Output) /\ wire' \in Seq(Output)
    BY <2>1, <2>2, <2>4, LifeSent
  <2>6. ShapeOK' /\ EarlyInv'
    BY <2>1, <2>2, <2>3, <2>5
  <2>7. QED
    BY <2>5, <2>6
<1>5. CASE OnCodecError
  BY <1>5, SMTT(60) DEF OnCodecError, shutdown
<1>6. CASE MessagesDone
  BY <1>6 DEF MessagesDone
<1>7. CASE handleWrite
  <2>1. /\ loop' = "functors" /\ todo' = Len(functors)
        /\ UNCHANGED <<state, inTable, revents, inbox, functors, task, peer,
                       inbound, queued>>
    BY <1>7 DEF handleWrite, TakeFunctors
  <2>2. /\ wire' \in Seq(Output) /\ outputBuffer' \in Seq(Output)
        /\ events' = events
           \/ (/\ "write" \in events
               /\ events' = IF outputBuffer' = <<>> THEN events \ {"write"}
                                                   ELSE events)
        /\ "write" \notin events => UNCHANGED <<events, outputBuffer>>
    BY <1>7, Flushed
  <2>3. WriteArmed'
    <3>1. CASE "write" \in revents \cap events
      BY <1>7, <2>1, <3>1 DEF handleWrite, DisableWriting
    <3>2. CASE "write" \notin revents \cap events
      BY <1>7, <2>1, <3>2 DEF handleWrite
    <3>3. QED
      BY <3>1, <3>2
  <2>4. ClosedForGood'
    BY <2>1, <2>2, ZenonT(60)
  <2>5. ShapeOK'
    <3>1. Len(functors) \in 0..Len(functors)
      BY SMTT(60)
    <3>2. events' \subseteq {"read", "write"}
      BY <2>2, ZenonT(60)
    <3>3. QED
      BY <2>1, <2>2, <3>1, <3>2
  <2>6. EarlyInv'
    BY <2>1, <2>2, ZenonT(60)
  <2>7. QED
    BY <2>3, <2>4, <2>5, <2>6
<1>8. CASE connectEstablished
  <2>1. /\ todo > 0 /\ Head(functors) = Established /\ todo' = todo - 1
        /\ functors' = Tail(functors) /\ state' = "connected"
        /\ events' = events \cup {"read"}
        /\ UNCHANGED <<outputBuffer, inTable, wire, loop, revents, inbox, inbound,
                       task, peer, queued>>
    BY <1>8 DEF connectEstablished, EnableReading
  <2>2. state = "connecting"
    BY <2>1, SMTT(60)
  <2>3. functors' = <<>> /\ todo' = 0
    <3>1. todo \in 0..Len(functors) /\ functors = <<Established>>
      BY <2>2
    <3>2. todo = 1
      BY <2>1, <3>1, SMTT(60)
    <3>3. Tail(functors) = <<>>
      BY <3>1, SMTT(60)
    <3>4. QED
      BY <2>1, <3>2, <3>3, SMTT(60)
  <2>4. ShapeOK'
    <3>1. <<>> \in Seq(Requests \cup {Established}) /\ 0 \in 0..Len(<<>>)
      BY SMTT(60)
    <3>2. QED
      BY <2>1, <2>3, <3>1
  <2>5. EarlyInv'
    <3>1. <<>> \in Seq(Requests)
      BY EmptySeq
    <3>2. functors' \in Seq(Requests)
      BY <2>3, <3>1, Zenon
    <3>3. state' = "connected"
      BY <2>1
    <3>4. QED
      BY <3>2, <3>3
  <2>6. WriteArmed'
    BY <2>1, <2>2
  <2>7. ClosedForGood'
    BY <2>1, <2>2
  <2>8. QED
    BY <2>4, <2>5, <2>6, <2>7
<1>9. CASE SendFunctor
  <2>1. /\ todo > 0 /\ Head(functors) # Established
        /\ functors' = Tail(functors) /\ todo' = todo - 1
        /\ UNCHANGED <<state, inTable, loop, revents, inbox, task, peer, inbound>>
    BY <1>9 DEF SendFunctor
  <2>2. /\ state \notin Early /\ Head(functors) \in Requests
        /\ functors' \in Seq(Requests) /\ todo' \in 0..Len(functors')
    BY <2>1, SMTT(60)
  <2>3. \/ sendInLoop(Head(functors))
        \/ UNCHANGED <<events, outputBuffer, wire, queued>>
    BY <1>9 DEF SendFunctor
  <2>4. /\ WriteArmed' /\ ClosedForGood'
        /\ events' \subseteq {"read", "write"} /\ queued' \in Seq(Requests)
        /\ outputBuffer' \in Seq(Output) /\ wire' \in Seq(Output)
    BY <2>1, <2>2, <2>3, LifeSent
  <2>5. ShapeOK' /\ EarlyInv'
    BY <2>1, <2>2, <2>4, SMTT(60)
  <2>6. QED
    BY <2>4, <2>5
<1>10. CASE FunctorsDone
  BY <1>10 DEF FunctorsDone
<1>11. CASE OnOther
  BY <1>11, SMTT(60) DEF OnOther
<1>12. QED
  BY <1>1, <1>2, <1>3, <1>4, <1>5, <1>6, <1>7, <1>8, <1>9, <1>10, <1>11, ZenonT(60)
  DEF LoopStep

\* The main loop, the pool and the peer.
LEMMA LifeOthers ==
    ASSUME LifeInv, [Next]_vars, ~LoopStep
    PROVE  LifeInv'
<1> USE NameAssumption
    DEF LifeInv, ShapeOK, EarlyInv, Early, WriteArmed, ClosedForGood, States,
        conn, reactor, socket
<1>1. CASE UNCHANGED vars
  BY <1>1 DEF vars
<1>2. CASE Accept
  BY <1>2, SMTT(60) DEF Accept
<1>3. CASE \E r \in Requests : TaskRuns(r) \/ TaskReleases(r)
  <2>1. PICK r \in Requests : TaskRuns(r) \/ TaskReleases(r)
    BY <1>3
  <2>2. \E v \in {"push", "release", "done"} : task' = [task EXCEPT ![r] = v]
    BY <2>1, Zenon DEF TaskRuns, TaskReleases
  <2>3. UNCHANGED <<conn, reactor, socket, queued>> /\ task[r] # "none"
    BY <2>1 DEF TaskRuns, TaskReleases
  <2>4. QED
    BY <2>2, <2>3
<1>4. CASE \E r \in Requests : TaskSends(r)
  BY <1>4, SMTT(60) DEF TaskSends
<1>5. CASE \/ \E x \in Requests \cup {Other, Bad} : PeerSends(x)
           \/ PoolChanges \/ PeerReads \/ PeerCloses \/ PeerResets
  <2>1. /\ UNCHANGED <<state, events, outputBuffer, inTable, wire, loop, revents,
                       inbox, functors, todo, task, queued>>
        /\ peer' \in {peer, "fin", "rst"}
    BY <1>5 DEF PeerSends, PoolChanges, PeerReads, PeerCloses, PeerResets
  <2>2. \/ inbound' = inbound \/ inbound' = <<>>
        \/ \E x \in Requests \cup {Other, Bad} : inbound' = Append(inbound, x)
    BY <1>5 DEF PeerSends, PoolChanges, PeerReads, PeerCloses, PeerResets
  <2>3. peer' \in {"open", "fin", "rst"} /\ inbound \in Seq(Requests \cup {Other, Bad})
    BY <2>1
  <2>4. inbound' \in Seq(Requests \cup {Other, Bad})
    <3> DEFINE Input == Requests \cup {Other, Bad}
    <3> HIDE DEF Input
    <3>1. inbound \in Seq(Input)
      BY <2>3 DEF Input
    <3>2. \/ inbound' = inbound \/ inbound' = <<>>
          \/ \E x \in Input : inbound' = Append(inbound, x)
      BY <2>2 DEF Input
    <3>3. \A x \in Input : Append(inbound, x) \in Seq(Input)
      BY <3>1, SMTT(60)
    <3>4. <<>> \in Seq(Input)
      BY EmptySeq
    <3>5. inbound' \in Seq(Input)
      BY <3>1, <3>2, <3>3, <3>4, Zenon
    <3>6. QED
      BY <3>5 DEF Input
  <2>5. QED
    BY <2>1, <2>3, <2>4, LifeFrame
<1>6. QED
  BY <1>1, <1>2, <1>3, <1>4, <1>5, ZenonT(60) DEF Next

\* The connection's life and its interest set, in every state.
LEMMA LifeAlways == Spec => []LifeInv
<1>1. Init => LifeInv
  BY NameAssumption, SMTT(60)
  DEF Init, LifeInv, ShapeOK, EarlyInv, Early, WriteArmed, ClosedForGood, States
<1>2. LifeInv /\ [Next]_vars => LifeInv'
  BY LifeLoop, LifeOthers
<1>3. QED
  BY <1>1, <1>2, PTL DEF Spec

-----------------------------------------------------------------------------
(* The stream.                                                             *)

ByteInv == InOrder(wire \o outputBuffer, queued) /\ ShutdownWhole

\* A step that sends r, or none.
LEMMA ByteSent ==
    ASSUME LifeInv, ByteInv, NEW r \in Requests, state \notin Early,
           sendInLoop(r) \/ UNCHANGED <<outputBuffer, wire, queued>>,
           wrClosed' = wrClosed
    PROVE  ByteInv'
<1> DEFINE all == wire \o outputBuffer
<1>1. all \in Seq(Output) /\ queued \in Seq(Requests)
  BY SMTT(60) DEF LifeInv, ShapeOK
<1>2. CASE UNCHANGED <<outputBuffer, wire, queued>>
  BY <1>2 DEF ByteInv, ShutdownWhole
<1>3. CASE sendInLoop(r) /\ ~UNCHANGED <<outputBuffer, wire, queued>>
  <2>1. /\ queued' = Append(queued, r)
        /\ wire' \o outputBuffer' = all \o Pieces(r)
        /\ wrClosed => wire' = wire
    BY <1>3, Sent, ZenonT(60)
  <2>2. InOrder(all \o Pieces(r), Append(queued, r))
    BY <1>1, InOrderGrows, ZenonT(60) DEF ByteInv
  <2> HIDE DEF all
  <2>3. InOrder(wire' \o outputBuffer', queued')
    BY <2>1, <2>2
  <2>4. ShutdownWhole'
    BY <2>1 DEF ByteInv, ShutdownWhole
  <2>5. QED
    BY <2>3, <2>4, ZenonT(60) DEF ByteInv, InOrder
<1>4. QED
  BY <1>2, <1>3

\* Writes, buffered or direct, keep the output in order, and so does shutdown.
LEMMA ByteNext ==
    ASSUME LifeInv, ByteInv, [Next]_vars
    PROVE  ByteInv'
<1>1. CASE OnRequest
  <2>1. Head(inbox) \in Requests /\ state \notin Early
    BY <1>1, NameAssumption, SMTT(60) DEF OnRequest, LifeInv, ShapeOK, EarlyInv
  <2>2. /\ sendInLoop(Head(inbox)) \/ UNCHANGED <<outputBuffer, wire, queued>>
        /\ wrClosed' = wrClosed
    BY <1>1 DEF OnRequest
  <2>3. QED
    BY <2>1, <2>2, ByteSent
<1>2. CASE SendFunctor
  <2>1. Head(functors) \in Requests /\ state \notin Early
    BY <1>2, NameAssumption, SMTT(60)
    DEF SendFunctor, LifeInv, ShapeOK, EarlyInv, Early
  <2>2. /\ sendInLoop(Head(functors)) \/ UNCHANGED <<outputBuffer, wire, queued>>
        /\ wrClosed' = wrClosed
    BY <1>2 DEF SendFunctor
  <2>3. QED
    BY <2>1, <2>2, ByteSent
<1>3. CASE handleWrite
  <2>1. queued' = queued /\ wrClosed' = wrClosed
    BY <1>3 DEF handleWrite
  <2>2. /\ wire' \o outputBuffer' = wire \o outputBuffer
        /\ wrClosed => wire' = wire
    BY <1>3, Flushed
  <2>3. InOrder(wire' \o outputBuffer', queued')
    BY <2>1, <2>2 DEF ByteInv
  <2>4. ShutdownWhole'
    BY <2>1, <2>2 DEF ByteInv, ShutdownWhole
  <2>5. QED
    BY <2>3, <2>4, ZenonT(60) DEF ByteInv, InOrder
<1>4. CASE OnCodecError
  <2>1. UNCHANGED <<outputBuffer, wire, queued>>
    BY <1>4 DEF OnCodecError
  <2>2. CASE state = "connected" /\ "write" \notin events
    <3>1. outputBuffer = <<>> /\ wire \in Seq(Output)
      BY <2>2 DEF LifeInv, ShapeOK, WriteArmed
    <3>2. Len(wire) = 2 * Len(queued) /\ Len(queued) \in Nat
      BY <3>1, SMTT(60) DEF ByteInv, InOrder, LifeInv, ShapeOK
    <3>3. Len(wire) % 2 = 0
      BY <3>2, SMTT(60)
    <3>4. QED
      BY <2>1, <3>3, ZenonT(60) DEF ByteInv, ShutdownWhole, InOrder
  <2>3. CASE ~(state = "connected" /\ "write" \notin events)
    <3>1. wrClosed' => wrClosed
      BY <1>4, <2>3, ZenonT(60) DEF OnCodecError, shutdown, shutdownInLoop
    <3>2. QED
      BY <2>1, <3>1, ZenonT(60) DEF ByteInv, ShutdownWhole, InOrder
  <2>4. QED
    BY <2>2, <2>3
<1>5. CASE UNCHANGED <<outputBuffer, wire, queued, wrClosed>>
  BY <1>5 DEF ByteInv, ShutdownWhole
<1>6. \/ OnRequest \/ SendFunctor \/ handleWrite \/ OnCodecError
      \/ UNCHANGED <<outputBuffer, wire, queued, wrClosed>>
  BY ZenonT(60) DEF Next, LoopStep, vars, conn, reactor, socket, Accept, Poll, ReadData,
         ReadEnd, handleClose, OnOther, MessagesDone, connectEstablished, FunctorsDone,
         TaskRuns, TaskSends, TaskReleases, PoolChanges, PeerSends, PeerReads,
         PeerCloses, PeerResets
<1>7. QED
  BY <1>1, <1>2, <1>3, <1>4, <1>5, <1>6

\* The output is in order in every state.
LEMMA ByteAlways == Spec => []ByteInv
<1>1. Init => ByteInv
  BY SMTT(60) DEF Init, ByteInv, InOrder, ShutdownWhole
<1>2. QED
  BY <1>1, ByteNext, LifeAlways, PTL DEF Spec

-----------------------------------------------------------------------------

\* Whatever parts write() takes, and whichever threads the responses come
\* from, what the peer gets is the responses in the order in which sendInLoop
\* took them, none torn, lost or repeated.
THEOREM StreamInOrder == Spec => []BytesInOrder
<1>1. LifeInv /\ ByteInv => BytesInOrder
  BY InOrderBytes DEF LifeInv, ByteInv
<1>2. QED
  BY <1>1, LifeAlways, ByteAlways, PTL

\* shutdown() never cuts a response in two: shutdownInLoop leaves the socket
\* alone while EPOLLOUT is on, and EPOLLOUT is on while anything is buffered.
THEOREM ShutdownCutsNothing == Spec => []ShutdownWhole
<1>1. ByteInv => ShutdownWhole
  BY DEF ByteInv
<1>2. QED
  BY <1>1, ByteAlways, PTL

\* On an open connection EPOLLOUT is on exactly while output is buffered.
THEOREM WriteAlwaysArmed == Spec => []WriteArmed
<1>1. LifeInv => WriteArmed
  BY DEF LifeInv
<1>2. QED
  BY <1>1, LifeAlways, PTL

\* handleClose is final: no late functor of a pool thread registers the
\* descriptor again, and a connection out of the table is out of epoll.
THEOREM ClosedStaysClosed == Spec => []ClosedForGood
<1>1. LifeInv => ClosedForGood
  BY DEF LifeInv
<1>2. QED
  BY <1>1, LifeAlways, PTL

\* The members' values, the flags included.
THEOREM TypeCorrect == Spec => []TypeOK
<1>1. Init => FlagsOK
  BY Zenon DEF Init, FlagsOK
<1>2. FlagsOK /\ [Next]_vars => FlagsOK'
  <2> SUFFICES ASSUME FlagsOK, [Next]_vars PROVE FlagsOK'
    OBVIOUS
  <2>1. inTable' \in {TRUE, FALSE, inTable} /\ bad' \in {TRUE, bad}
        /\ full' \in {full, ~full}
    BY Zenon
    DEF Next, LoopStep, vars, conn, reactor, socket, Accept, Poll, ReadData,
        ReadEnd, handleClose, removeConnection, OnRequest, OnCodecError,
        OnOther, MessagesDone, handleWrite, connectEstablished, SendFunctor,
        FunctorsDone, TaskRuns, TaskSends, TaskReleases, PoolChanges, PeerSends,
        PeerReads, PeerCloses, PeerResets
  <2>2. wrClosed' = wrClosed \/ wrClosed' = shutdownInLoop
    BY Zenon
    DEF Next, LoopStep, vars, conn, reactor, socket, Accept, Poll, ReadData,
        ReadEnd, OnRequest, OnCodecError, shutdown, OnOther, MessagesDone, handleWrite,
        connectEstablished, SendFunctor, FunctorsDone, TaskRuns, TaskSends,
        TaskReleases, PoolChanges, PeerSends, PeerReads, PeerCloses, PeerResets
  <2>3. shutdownInLoop \in BOOLEAN
    BY Zenon DEF shutdownInLoop
  <2>4. \A t, pending : Write(t, pending) => room' \in BOOLEAN
    BY Zenon DEF Write
  <2>5. \/ room' \in {TRUE, room}
        \/ \E t, pending : Write(t, pending)
    BY Zenon
    DEF Next, LoopStep, vars, conn, reactor, socket, Accept, Poll, ReadData,
        ReadEnd, OnRequest, OnCodecError, OnOther, MessagesDone, handleWrite,
        connectEstablished, SendFunctor, sendInLoop, FunctorsDone, TaskRuns,
        TaskSends, TaskReleases, PoolChanges, PeerSends, PeerReads, PeerCloses,
        PeerResets
  <2>6. room' \in BOOLEAN
    BY <2>4, <2>5, Zenon DEF FlagsOK
  <2>7. wrClosed' \in BOOLEAN
    BY <2>2, <2>3, Zenon DEF FlagsOK
  <2>8. QED
    BY <2>1, <2>6, <2>7, Zenon DEF FlagsOK
<1>3. LifeInv /\ FlagsOK => TypeOK
  BY Zenon DEF LifeInv, ShapeOK, FlagsOK, TypeOK
<1>4. QED
  BY <1>1, <1>2, <1>3, LifeAlways, PTL DEF Spec

=============================================================================
