--------------------------- MODULE RpcChannelProofs ---------------------------
(***************************************************************************)
(* TLAPS proofs about RpcChannel, for every number of calls, retries and   *)
(* connections: a call gets its own response, its method runs at most once *)
(* per attempt, and done is run once.                                      *)
(***************************************************************************)
EXTENDS RpcChannel, TLAPS

\* How long a prover may take over a step that names none.
USE ZenonT(60), SMTT(60)

\* A part of a sequence, by its elements.
LEMMA Part ==
    ASSUME NEW S, NEW s \in Seq(S), NEW m \in Nat \ {0}, NEW n \in 0..Len(s)
    PROVE  /\ SubSeq(s, m, n) \in Seq(S)
           /\ Len(SubSeq(s, m, n)) = IF m <= n THEN n - m + 1 ELSE 0
           /\ \A i \in 1..(n - m + 1) : SubSeq(s, m, n)[i] = s[m + i - 1]
<1>1. \A i \in m..n : s[i] \in S
  BY SMTT(60)
<1>2. SubSeq(s, m, n) \in Seq(S)
  BY <1>1, SMTT(60)
<1>3. Len(SubSeq(s, m, n)) = IF m <= n THEN n - m + 1 ELSE 0
  BY SMTT(60)
<1>4. \A i \in 1..(n - m + 1) : SubSeq(s, m, n)[i] = s[m + i - 1]
  BY SMTT(60)
<1>5. QED
  BY <1>2, <1>3, <1>4

\* Sequences with the same elements are the same.
LEMMA SameElements ==
    ASSUME NEW S, NEW s \in Seq(S), NEW t \in Seq(S), Len(s) = Len(t),
           \A i \in 1..Len(s) : s[i] = t[i]
    PROVE  s = t
BY SMTT(60)

\* The elements of a sequence.
LEMMA Elements ==
    ASSUME NEW S, NEW s \in Seq(S)
    PROVE  \A i \in DOMAIN s : s[i] \in S
BY SMTT(60)

\* A sequence is what comes before a cut and what comes after it.
LEMMA Cut ==
    ASSUME NEW S, NEW s \in Seq(S), NEW n \in 0..Len(s)
    PROVE  SubSeq(s, 1, n) \o SubSeq(s, n + 1, Len(s)) = s
<1> DEFINE a == SubSeq(s, 1, n)
           b == SubSeq(s, n + 1, Len(s))
<1>1. /\ a \in Seq(S) /\ b \in Seq(S) /\ Len(a) = n /\ Len(b) = Len(s) - n
      /\ \A i \in 1..n : a[i] = s[i]
      /\ \A i \in 1..(Len(s) - n) : b[i] = s[n + i]
  BY Part, SMTT(60)
<1> HIDE DEF a, b
<1>2. a \o b \in Seq(S) /\ Len(a \o b) = Len(s)
  BY <1>1, SMTT(60)
<1>3. ASSUME NEW i \in 1..Len(s)
      PROVE  (a \o b)[i] = s[i]
  <2>1. CASE i <= n
    BY <1>1, <2>1, SMTT(60)
  <2>2. CASE i > n
    <3>1. (a \o b)[i] = b[i - n]
      BY <1>1, <2>2, SMTT(60)
    <3>2. i - n \in 1..(Len(s) - n) /\ n + (i - n) = i
      BY <2>2, SMTT(60)
    <3>3. QED
      BY <1>1, <3>1, <3>2
  <2>3. i <= n \/ i > n
    BY SMTT(60)
  <2>4. QED
    BY <2>1, <2>2, <2>3, Zenon
<1>4. a \o b = s
  BY <1>2, <1>3, SameElements
<1>5. QED
  BY <1>4, Zenon DEF a, b

\* What is left of an item is older than the next seq, and belongs to the
\* current call if it has the seq of the current attempt.
KnownBy(x, next, s, c) ==
    /\ x.seq \in Nat /\ 0 < x.seq /\ x.seq < next
    /\ x.seq = s => x.call = c
Known(x) == KnownBy(x, nextSeq, seq, cur)

\* What the client has received and not decoded, and what is on its way.
Stream == inputBuffer \o toClient

\* No attempt has a seq yet before the first Send, and none is counted.
CallInv ==
    /\ seq < nextSeq
    /\ pc \in {"idle", "connect"} => seq = 0 /\ attempt = 0
    /\ pc \in {"wait", "decode"} => controller = "ok"
    /\ cur # None => result[cur] = None
    /\ \A r \in working : r.conn > 0

\* Requests carry the seq of an attempt, and its call.
SeqInv ==
    /\ \A r \in working : Known(r)
    /\ \A i \in DOMAIN toServer : Known(toServer[i])

\* So do responses, and a success comes from a method that ran.
StreamInv ==
    \A i \in DOMAIN Stream :
        Known(Stream[i]) /\ (Stream[i].ok => executions[Stream[i].call] >= 1)

\* The head of a response to the current attempt is followed by its tail; if
\* it is the last thing there is, nothing more comes on this connection.
WholeInv ==
    \A i \in DOMAIN Stream :
        Stream[i].part = "head" /\ Stream[i].seq = seq =>
            IF i = Len(Stream) THEN peer # "open" ELSE Stream[i + 1].seq = seq

\* An attempt is a request in one place.
UniqueInv ==
    /\ \A r, s \in working : r.seq = s.seq => r = s
    /\ \A i, j \in DOMAIN toServer : toServer[i].seq = toServer[j].seq => i = j
    /\ \A r \in working, i \in DOMAIN toServer : r.seq # toServer[i].seq

\* The attempts of c whose requests the server has not executed.
Outstanding(c) ==
    {n \in 1..(nextSeq - 1) :
        \/ \E r \in working : r.seq = n /\ r.call = c
        \/ \E i \in DOMAIN toServer : toServer[i].seq = n /\ toServer[i].call = c}

\* The attempts that c has made, or may have made once it is over.
Attempts(c) ==
    IF c = cur THEN IF pc \in {"wait", "decode"} THEN attempt + 1 ELSE attempt
    ELSE IF result[c] = None THEN 0 ELSE maxRetries + 1

CountInv ==
    \A c \in Calls : executions[c] + Cardinality(Outstanding(c)) <= Attempts(c)

IInv == TypeOK /\ CallInv /\ SeqInv /\ StreamInv /\ WholeInv /\ UniqueInv /\ CountInv
        /\ OwnResponse /\ SuccessReported

-----------------------------------------------------------------------------
(* Types, and the call in progress.                                        *)

\* While CallMethod runs there is a call, with the result still to come.
LEMMA Current ==
    ASSUME TypeOK, pc # "idle"
    PROVE  cur \in Calls /\ cur # None
BY DEF TypeOK

\* Finish keeps the types of what it changes.
LEMMA FinishTypes ==
    ASSUME TypeOK, pc # "idle", NEW code \in Codes, Finish(code)
    PROVE  /\ pc' = "idle" /\ cur' = None /\ attempt' = 0 /\ seq' = 0
           /\ controller' \in Codes
           /\ result' \in [Calls -> Codes \cup {None}]
           /\ expired' = FALSE
           /\ attempt' \in 0..maxRetries
<1>1. /\ pc' = "idle" /\ cur' = None /\ attempt' = 0 /\ seq' = 0
  BY DEF Finish
<1>2. maxRetries \in Nat
  BY ChannelAssumption
<1>3. attempt' \in 0..maxRetries
  BY <1>1, <1>2, SMTT(60)
<1>4. cur \in Calls
  BY Current
<1>5. controller' \in Codes
  BY DEF Finish, Codes
<1>6. result' \in [Calls -> Codes \cup {None}]
  BY <1>4 DEF Finish, TypeOK
<1>7. expired' = FALSE
  BY DEF Finish
<1>8. QED
  BY <1>1, <1>3, <1>5, <1>6, <1>7

\* A piece of the response to request r.
Piece(p, r, success) ==
    [part |-> p, seq |-> r.seq, call |-> r.call, ok |-> success]
Answer(r, success) == <<Piece("head", r, success), Piece("tail", r, success)>>

\* Respond sends nothing, or a response, while the connection is open.
LEMMA Responds ==
    ASSUME NEW r, NEW success, Respond(r, success)
    PROVE  \/ toClient' = toClient
           \/ peer = "open" /\ toClient' = toClient \o Answer(r, success)
BY DEF Respond, Answer, Piece

\* A response is two pieces, with the seq and the call of the request.
LEMMA AnswerPieces ==
    ASSUME NEW r \in [conn : Nat, seq : Nat, call : Calls], NEW success \in BOOLEAN
    PROVE  /\ Answer(r, success) \in Seq(Pieces)
           /\ Len(Answer(r, success)) = 2
           /\ Answer(r, success)[2].part = "tail"
           /\ \A i \in 1..2 : /\ Answer(r, success)[i].seq = r.seq
                              /\ Answer(r, success)[i].call = r.call
                              /\ Answer(r, success)[i].ok = success
<1>1. /\ Piece("head", r, success) \in Pieces /\ Piece("tail", r, success) \in Pieces
      /\ \A p \in {"head", "tail"} : /\ Piece(p, r, success).part = p
                                     /\ Piece(p, r, success).seq = r.seq
                                     /\ Piece(p, r, success).call = r.call
                                     /\ Piece(p, r, success).ok = success
  BY DEF Piece, Pieces
<1>2. QED
  BY <1>1, SMTT(60) DEF Answer

\* What the server answers is a sequence of pieces of responses.
LEMMA RespondTypes ==
    ASSUME TypeOK, NEW r \in [conn : Nat, seq : Nat, call : Calls],
           NEW success \in BOOLEAN, Respond(r, success)
    PROVE  toClient' \in Seq(Pieces)
<1>1. toClient \in Seq(Pieces)
  BY DEF TypeOK
<1>2. toClient \o Answer(r, success) \in Seq(Pieces)
  BY <1>1, AnswerPieces, SMTT(60)
<1>3. QED
  BY <1>1, <1>2, Responds, ZenonT(60)

\* The client's steps before the response keep the types.
LEMMA TypeSend ==
    ASSUME TypeOK,
           \/ \E c \in Calls : Begin(c)
           \/ ConnectReuse \/ ConnectNew \/ ConnectFails \/ Send \/ SendFails
    PROVE  TypeOK'
<1>1. ASSUME NEW c \in Calls, Begin(c) PROVE TypeOK'
  BY <1>1, ChannelAssumption DEF Begin, TypeOK, Reset, wire, history, Codes
<1>2. CASE ConnectReuse
  BY <1>2 DEF ConnectReuse, TypeOK, wire, history
<1>3. CASE ConnectNew
  BY <1>3, ChannelAssumption, SMTT(60) DEF ConnectNew, TypeOK, history
<1>4. CASE ConnectFails
  <2>1. pc # "idle" /\ "failed" \in Codes /\ Finish("failed")
    BY <1>4 DEF ConnectFails, Codes
  <2>2. /\ pc' = "idle" /\ cur' = None /\ attempt' = 0 /\ seq' = 0
        /\ controller' \in Codes
        /\ result' \in [Calls -> Codes \cup {None}]
        /\ expired' = FALSE
        /\ attempt' \in 0..maxRetries
    BY <2>1, FinishTypes
  <2>3. QED
    BY <1>4, <2>2 DEF ConnectFails, TypeOK, wire
<1>5. CASE Send
  <2>1. [seq |-> nextSeq, call |-> cur] \in [seq : Nat, call : Calls]
    BY <1>5, Current DEF Send, TypeOK
  <2>2. toServer' \in Seq([seq : Nat, call : Calls])
    <3>1. toServer \in Seq([seq : Nat, call : Calls])
      BY DEF TypeOK
    <3>2. Append(toServer, [seq |-> nextSeq, call |-> cur])
             \in Seq([seq : Nat, call : Calls])
      BY <2>1, <3>1, SMTT(60)
    <3>3. QED
      BY <1>5, <3>1, <3>2, ZenonT(60) DEF Send
  <2>3. /\ nextSeq' \in Nat /\ seq' \in Nat
    BY <1>5, SMTT(60) DEF Send, TypeOK
  <2>4. /\ pc' = "wait" /\ pc = "send" /\ controller' \in Codes /\ expired' = FALSE
        /\ UNCHANGED <<cur, attempt, fd, inputBuffer, peer, toClient, conns, working,
                       result, got, executions, mixed>>
    BY <1>5 DEF Send, Reset, Codes, history
  <2>5. QED
    BY <2>2, <2>3, <2>4, Zenon DEF TypeOK
<1>6. CASE SendFails
  <2>1. pc # "idle" /\ "failed" \in Codes /\ Finish("failed")
    BY <1>6 DEF SendFails, Codes
  <2>2. /\ pc' = "idle" /\ cur' = None /\ seq' = 0 /\ expired' = FALSE
        /\ controller' \in Codes
        /\ result' \in [Calls -> Codes \cup {None}]
        /\ attempt' \in 0..maxRetries
    BY <2>1, FinishTypes
  <2>3. /\ nextSeq' \in Nat /\ seq' \in Nat /\ fd' \in 0..conns
        /\ toServer' \in Seq([seq : Nat, call : Calls]) /\ toClient' \in Seq(Pieces)
    BY <1>6, <2>2, SMTT(60) DEF SendFails, TypeOK
  <2>4. /\ peer' = "open"
        /\ UNCHANGED <<inputBuffer, conns, working, got, executions, mixed>>
    BY <1>6 DEF SendFails
  <2>5. QED
    BY <2>2, <2>3, <2>4, Zenon DEF TypeOK
<1>7. QED
  BY <1>1, <1>2, <1>3, <1>4, <1>5, <1>6

\* The steps of waitResponse keep the types.
LEMMA TypeWait ==
    ASSUME TypeOK,
           \/ Expire \/ Timeout \/ Closed \/ PollFails \/ Read \/ ReadPart
           \/ DecodeHalf \/ DecodeThrows \/ Decode
    PROVE  TypeOK'
<1>1. CASE Timeout
  <2>1. CASE MayRetry /\ attempt' = attempt + 1 /\ controller' = "failed"
             /\ expired' = FALSE /\ pc' = "send" /\ UNCHANGED <<cur, seq, result>>
    <3>1. attempt' \in 0..maxRetries /\ controller' \in Codes /\ pc # "idle"
      BY <1>1, <2>1, ChannelAssumption, SMTT(60) DEF Timeout, MayRetry, TypeOK, Codes
    <3>2. UNCHANGED <<nextSeq, fd, inputBuffer, peer, toServer, toClient, conns, working,
                      got, executions, mixed>>
      BY <1>1 DEF Timeout, wire
    <3>3. QED
      BY <2>1, <3>1, <3>2, Zenon DEF TypeOK
  <2>2. CASE Finish("failed")
    <3>1. pc # "idle" /\ "failed" \in Codes
      BY <1>1 DEF Timeout, Codes
    <3>2. /\ pc' = "idle" /\ cur' = None /\ seq' = 0 /\ expired' = FALSE
          /\ controller' \in Codes
          /\ result' \in [Calls -> Codes \cup {None}]
          /\ attempt' \in 0..maxRetries
      BY <2>2, <3>1, FinishTypes
    <3>3. seq' \in Nat
      BY <3>2, SMTT(60)
    <3>4. UNCHANGED <<nextSeq, fd, inputBuffer, peer, toServer, toClient, conns, working,
                      got, executions, mixed>>
      BY <1>1 DEF Timeout, wire
    <3>5. QED
      BY <3>2, <3>3, <3>4, Zenon DEF TypeOK
  <2>3. QED
    BY <1>1, <2>1, <2>2 DEF Timeout
<1>2. CASE Closed \/ PollFails \/ DecodeThrows
  <2>1. /\ pc # "idle" /\ "failed" \in Codes /\ Finish("failed")
        /\ UNCHANGED <<nextSeq, fd, inputBuffer, wire, conns, working, got,
                       executions, mixed>>
    BY <1>2 DEF Closed, PollFails, DecodeThrows, Codes
  <2>2. /\ pc' = "idle" /\ cur' = None /\ attempt' = 0 /\ seq' = 0
        /\ controller' \in Codes
        /\ result' \in [Calls -> Codes \cup {None}]
        /\ expired' = FALSE
        /\ attempt' \in 0..maxRetries
    BY <2>1, FinishTypes
  <2>3. QED
    BY <2>1, <2>2 DEF TypeOK, wire
<1>3. CASE Read
  <2>1. PICK n \in 1..Len(toClient) :
          /\ inputBuffer' = inputBuffer \o SubSeq(toClient, 1, n)
          /\ toClient' = SubSeq(toClient, n + 1, Len(toClient))
    BY <1>3, ZenonT(60) DEF Read
  <2>2. toClient \in Seq(Pieces) /\ inputBuffer \in Seq(Pieces)
    BY DEF TypeOK
  <2>3. n \in 0..Len(toClient) /\ n + 1 \in Nat \ {0}
        /\ Len(toClient) \in 0..Len(toClient)
    BY <2>2, SMTT(60)
  <2>4. SubSeq(toClient, 1, n) \in Seq(Pieces)
    BY <2>2, <2>3, Part, SMTT(60)
  <2>5. SubSeq(toClient, n + 1, Len(toClient)) \in Seq(Pieces)
    BY <2>2, <2>3, Part
  <2>6. inputBuffer' \in Seq(Pieces) /\ toClient' \in Seq(Pieces)
    BY <2>1, <2>2, <2>4, <2>5, SMTT(60)
  <2>7. QED
    BY <1>3, <2>6, ZenonT(60) DEF Read, TypeOK, history
<1>4. CASE Expire \/ ReadPart \/ DecodeHalf
  BY <1>4 DEF Expire, ReadPart, DecodeHalf, PollAgain, TypeOK, wire, history
<1>5. CASE Decode
  <2>1. PICK n \in {2, 3} :
          inputBuffer' = SubSeq(inputBuffer, n + 1, Len(inputBuffer))
    BY <1>5 DEF Decode
  <2>2. inputBuffer' \in Seq(Pieces)
    <3>1. inputBuffer \in Seq(Pieces) /\ n + 1 \in Nat \ {0}
          /\ Len(inputBuffer) \in 0..Len(inputBuffer)
      BY SMTT(60) DEF TypeOK
    <3>2. QED
      BY <2>1, <3>1, Part
  <2>3. inputBuffer[2].call \in Calls
    <3>1. inputBuffer \in Seq(Pieces) /\ 2 \in DOMAIN inputBuffer
      BY <1>5, SMTT(60) DEF Decode, TypeOK
    <3>2. inputBuffer[2] \in Pieces
      BY <3>1, SMTT(60)
    <3>3. QED
      BY <3>2 DEF Pieces
  <2>4. mixed' \in BOOLEAN
    BY <1>5 DEF Decode
  <2>5. CASE /\ Finish(IF inputBuffer[1].ok THEN controller ELSE "failed")
             /\ got' = IF inputBuffer[1].ok
                       THEN [got EXCEPT ![cur] = inputBuffer[2].call] ELSE got
    <3>1. pc # "idle" /\ (IF inputBuffer[1].ok THEN controller ELSE "failed") \in Codes
      BY <1>5 DEF Decode, TypeOK, Codes
    <3>2. got' \in [Calls -> Calls \cup {None}]
      BY <2>3, <2>5, ZenonT(60) DEF TypeOK
    <3>3. /\ pc' = "idle" /\ cur' = None /\ attempt' = 0 /\ seq' = 0
          /\ controller' \in Codes
          /\ result' \in [Calls -> Codes \cup {None}]
          /\ expired' = FALSE
          /\ attempt' \in 0..maxRetries
      BY <2>5, <3>1, FinishTypes
    <3>4. QED
      BY <1>5, <2>2, <2>4, <3>2, <3>3 DEF Decode, TypeOK, wire
  <2>6. CASE UNCHANGED <<pc, cur, attempt, seq, controller, expired, result, got>>
    BY <1>5, <2>2, <2>4, <2>6 DEF Decode, TypeOK, wire
  <2>7. QED
    BY <1>5, <2>5, <2>6 DEF Decode
<1>6. QED
  BY <1>1, <1>2, <1>3, <1>4, <1>5

\* The request that onMessage decodes.
Request ==
    [conn |-> fd, seq |-> Head(toServer).seq, call |-> Head(toServer).call]

\* onMessage submits it, or answers.
LEMMA Taken ==
    ASSUME TypeOK, OnMessage
    PROVE  /\ Request \in [conn : Nat, seq : Nat, call : Calls]
           /\ Request.conn = fd /\ fd # 0
           /\ toServer # <<>> /\ toServer \in Seq([seq : Nat, call : Calls])
           /\ Head(toServer) = toServer[1] /\ 1 \in DOMAIN toServer
           /\ Request.seq = toServer[1].seq /\ Request.call = toServer[1].call
           /\ \/ working' = working \cup {Request} /\ UNCHANGED toClient
              \/ Respond(Request, FALSE) /\ UNCHANGED working
<1>1. toServer \in Seq([seq : Nat, call : Calls]) /\ toServer # <<>> /\ fd \in Nat
      /\ fd # 0
  BY SMTT(60) DEF OnMessage, TypeOK
<1>2. Head(toServer) = toServer[1] /\ 1 \in DOMAIN toServer
  BY <1>1, SMTT(60)
<1>3. Head(toServer) \in [seq : Nat, call : Calls]
  <2>1. \A i \in DOMAIN toServer : toServer[i] \in [seq : Nat, call : Calls]
    BY <1>1, Elements, Zenon
  <2>2. QED
    BY <1>2, <2>1, Zenon
<1>4. \/ working' = working \cup {Request} /\ UNCHANGED toClient
      \/ Respond(Request, FALSE) /\ UNCHANGED working
  BY ZenonT(60) DEF OnMessage, Request
<1>5. /\ Request \in [conn : Nat, seq : Nat, call : Calls] /\ Request.conn = fd
      /\ Request.seq = Head(toServer).seq /\ Request.call = Head(toServer).call
  BY <1>1, <1>2, <1>3 DEF Request
<1>6. QED
  BY <1>1, <1>2, <1>4, <1>5, ZenonT(60)

\* The steps of the server and of the kernel keep the types.
LEMMA TypeServer ==
    ASSUME TypeOK,
           \/ OnMessage \/ ServerCloses \/ ResetArrives
           \/ \E r \in working : handleRequest(r)
    PROVE  TypeOK'
<1>1. CASE OnMessage
  <2>1. Tail(toServer) \in Seq([seq : Nat, call : Calls])
    BY <1>1, Taken, SMTT(60)
  <2>2. /\ toClient' \in Seq(Pieces)
        /\ working' \subseteq [conn : Nat, seq : Nat, call : Calls]
    BY <1>1, Taken, RespondTypes, ZenonT(60) DEF TypeOK
  <2>3. QED
    BY <1>1, <2>1, <2>2, ZenonT(60) DEF OnMessage, TypeOK, client, history
<1>2. CASE ServerCloses
  <2>1. PICK n \in 0..Len(toClient) : toClient' = SubSeq(toClient, 1, n)
    BY <1>2 DEF ServerCloses
  <2>2. toClient' \in Seq(Pieces)
    BY <2>1, Part, SMTT(60) DEF TypeOK
  <2>3. QED
    BY <1>2, <2>2, SMTT(60) DEF ServerCloses, TypeOK, client, history
<1>3. CASE ResetArrives
  BY <1>3, SMTT(60) DEF ResetArrives, TypeOK, client, history
<1>4. ASSUME NEW r \in working, handleRequest(r)
      PROVE  TypeOK'
  <2>1. r \in [conn : Nat, seq : Nat, call : Calls] /\ r.call \in Calls
    BY DEF TypeOK
  <2>2. executions' \in [Calls -> Nat]
    <3>1. executions \in [Calls -> Nat]
      BY DEF TypeOK
    <3>2. executions' = executions
          \/ executions' = [executions EXCEPT ![r.call] = @ + 1]
      BY <1>4, ZenonT(60) DEF handleRequest
    <3>3. QED
      BY <2>1, <3>1, <3>2, SMTT(60)
  <2>3. (\E success \in BOOLEAN : Respond(r, success)) \/ toClient' = toClient
    BY <1>4, ZenonT(60) DEF handleRequest
  <2>4. toClient' \in Seq(Pieces)
    BY <2>1, <2>3, RespondTypes DEF TypeOK
  <2>5. QED
    BY <1>4, <2>2, <2>4 DEF handleRequest, TypeOK, client
<1>5. QED
  BY <1>1, <1>2, <1>3, <1>4

\* Every step keeps the types.
LEMMA TypeNext ==
    ASSUME TypeOK, [Next]_vars
    PROVE  TypeOK'
<1>1. CASE UNCHANGED vars
  BY <1>1 DEF TypeOK, vars, client, wire, history
<1>2. CASE Next
  BY <1>2, TypeSend, TypeWait, TypeServer DEF Next, ClientStep
<1>3. QED
  BY <1>1, <1>2

\* What a step makes of the numbers of the attempts: they stay, the call is
\* over, or the next one is taken.
Numbers ==
    \/ seq' = seq /\ nextSeq' = nextSeq /\ (cur' = cur \/ seq = 0)
    \/ seq' = 0 /\ nextSeq' \in {nextSeq, nextSeq + 1}
    \/ seq' = nextSeq /\ nextSeq' = nextSeq + 1 /\ cur' = cur

\* Every step is of one of these kinds.
LEMMA NumbersNext ==
    ASSUME TypeOK, CallInv, [Next]_vars
    PROVE  Numbers
<1>1. CASE UNCHANGED vars
  BY <1>1 DEF Numbers, vars, client
<1>2. CASE \E c \in Calls : Begin(c)
  BY <1>2 DEF Begin, Numbers, CallInv
<1>3. CASE ClientStep \/ Expire
  BY <1>3 DEF ClientStep, Expire, ConnectReuse, ConnectNew, ConnectFails, Send,
     SendFails, Timeout, Closed, PollFails, Read, ReadPart, DecodeHalf,
     DecodeThrows, Decode, Finish, Numbers
<1>4. CASE OnMessage \/ ServerCloses \/ ResetArrives
           \/ \E r \in working : handleRequest(r)
  BY <1>4, ZenonT(60)
  DEF OnMessage, ServerCloses, ResetArrives, handleRequest, client, Numbers
<1>5. QED
  BY <1>1, <1>2, <1>3, <1>4 DEF Next

\* What was known of an item stays known.
LEMMA KnownStays ==
    ASSUME TypeOK, Numbers, NEW x, Known(x)
    PROVE  KnownBy(x, nextSeq', seq', cur')
<1>1. /\ x.seq \in Nat /\ 0 < x.seq /\ x.seq < nextSeq
      /\ x.seq = seq => x.call = cur
      /\ nextSeq \in Nat
  BY DEF Known, KnownBy, TypeOK
<1>2. x.seq < nextSeq' /\ (x.seq = seq' => x.call = cur')
  BY <1>1, SMTT(60) DEF Numbers
<1>3. QED
  BY <1>1, <1>2 DEF KnownBy

\* A call that ends has had no result before.
LEMMA Finished ==
    ASSUME TypeOK, CallInv, pc # "idle", NEW code \in Codes, Finish(code)
    PROVE  /\ result' = [result EXCEPT ![cur] = code]
           /\ result[cur] = None /\ code # None
<1>1. cur \in Calls /\ cur # None
  BY Current
<1>2. code # None
  BY ChannelAssumption DEF Codes
<1>3. QED
  BY <1>1, <1>2 DEF CallInv, Finish

\* The call in progress, in every step.
LEMMA CallNext ==
    ASSUME TypeOK, CallInv, [Next]_vars
    PROVE  CallInv'
<1>1. CASE UNCHANGED vars
  BY <1>1 DEF CallInv, vars, client, history
<1>2. CASE \E c \in Calls : Begin(c)
  BY <1>2 DEF Begin, CallInv, Reset, history, TypeOK
<1>3. CASE ClientStep \/ Expire
  <2>1. CASE Expire \/ ConnectReuse \/ ConnectNew \/ Read \/ ReadPart \/ DecodeHalf
    <3>1. UNCHANGED <<cur, attempt, seq, nextSeq, controller, working, result>>
      BY <2>1 DEF Expire, ConnectReuse, ConnectNew, Read, ReadPart, DecodeHalf, history
    <3>2. /\ pc' \in {"send", "wait", "decode"}
          /\ pc' = "send" \/ pc \in {"wait", "decode"}
      BY <2>1 DEF Expire, ConnectReuse, ConnectNew, Read, ReadPart, DecodeHalf, PollAgain
    <3>3. QED
      BY <3>1, <3>2 DEF CallInv
  <2>7. CASE Send
    <3>1. /\ pc' = "wait" /\ seq' = nextSeq /\ nextSeq' = nextSeq + 1
          /\ controller' = "ok" /\ UNCHANGED <<cur, attempt, working, result>>
      BY <2>7 DEF Send, Reset, history
    <3>2. nextSeq \in Nat
      BY DEF TypeOK
    <3>3. QED
      BY <3>1, <3>2, SMTT(60) DEF CallInv
  <2>2. CASE \E code \in Codes : Finish(code) /\ nextSeq' \in {nextSeq, nextSeq + 1}
                                 /\ UNCHANGED working
    <3>1. /\ pc' = "idle" /\ seq' = 0 /\ attempt' = 0 /\ cur' = None
          /\ nextSeq' \in {nextSeq, nextSeq + 1} /\ working' = working
      BY <2>2 DEF Finish
    <3>2. nextSeq \in Nat /\ 0 < nextSeq
      BY SMTT(60) DEF TypeOK, CallInv
    <3>3. QED
      BY <3>1, <3>2, SMTT(60) DEF CallInv
  <2>3. CASE /\ pc' \in {pc, "send"} /\ controller' \in {controller, "failed"}
             /\ pc' = "send" \/ controller' = controller
             /\ UNCHANGED <<seq, nextSeq, cur, result, working>>
             /\ pc \in {"wait", "decode"}
    BY <2>3 DEF CallInv, TypeOK
  <2>4. CASE ConnectFails \/ SendFails \/ Closed \/ PollFails \/ DecodeThrows
    BY <2>2, <2>4 DEF ConnectFails, SendFails, Closed, PollFails, DecodeThrows,
       Codes, TypeOK
  <2>5. CASE Timeout \/ Decode
    BY <2>2, <2>3, <2>5 DEF Timeout, Decode, Codes, TypeOK
  <2>6. QED
    BY <1>3, <2>1, <2>4, <2>5, <2>7 DEF ClientStep
<1>4. CASE OnMessage \/ ServerCloses \/ ResetArrives
           \/ \E r \in working : handleRequest(r)
  <2>1. UNCHANGED <<pc, cur, attempt, seq, nextSeq, controller, result>>
    BY <1>4, ZenonT(60)
    DEF OnMessage, ServerCloses, ResetArrives, handleRequest, client,
       history
  <2>2. \A r \in working' : r \in working \/ (r.conn = fd /\ fd # 0)
    <3>1. CASE OnMessage
      BY <3>1, Taken, ZenonT(60)
    <3>2. CASE ServerCloses \/ ResetArrives
      BY <3>2 DEF ServerCloses, ResetArrives
    <3>3. CASE \E r \in working : handleRequest(r)
      BY <3>3 DEF handleRequest
    <3>4. QED
      BY <1>4, <3>1, <3>2, <3>3
  <2>3. fd \in Nat
    BY SMTT(60) DEF TypeOK
  <2>4. QED
    BY <2>1, <2>2, <2>3, SMTT(60) DEF CallInv
<1>5. QED
  BY <1>1, <1>2, <1>3, <1>4 DEF Next

-----------------------------------------------------------------------------
(* Responses.                                                              *)

\* The method runs are counted up.
LEMMA ExecutionsGrow ==
    ASSUME TypeOK, [Next]_vars
    PROVE  \A c \in Calls : executions'[c] >= executions[c]
<1>1. CASE UNCHANGED executions
  BY <1>1, SMTT(60) DEF TypeOK
<1>2. CASE \E r \in working : handleRequest(r)
  <2>1. PICK r \in working : handleRequest(r)
    BY <1>2
  <2>2. executions' = executions
        \/ executions' = [executions EXCEPT ![r.call] = @ + 1]
    BY <2>1, ZenonT(60) DEF handleRequest
  <2>3. executions \in [Calls -> Nat]
    BY DEF TypeOK
  <2>4. QED
    BY <2>2, <2>3, SMTT(60)
<1>3. CASE UNCHANGED vars \/ (\E c \in Calls : Begin(c)) \/ ClientStep \/ Expire
           \/ OnMessage \/ ServerCloses \/ ResetArrives
  BY <1>1, <1>3, ZenonT(60)
  DEF vars, history, Begin, ClientStep, Expire, ConnectReuse, ConnectNew,
     ConnectFails, Send, SendFails, Timeout, Closed, PollFails, Read, ReadPart,
     DecodeHalf, DecodeThrows, Decode, OnMessage, ServerCloses, ResetArrives
<1>4. QED
  BY <1>2, <1>3 DEF Next

\* The stream afterwards is what lies between two places of the stream before.
Window(k, m) ==
    /\ k \in Nat /\ m \in Nat /\ k <= m /\ m <= Len(Stream)
    /\ Len(Stream') = m - k
    /\ \A i \in 1..(m - k) : Stream'[i] = Stream[k + i]

\* The stream, by its elements.
LEMMA StreamIs ==
    ASSUME NEW a \in Seq(Pieces), NEW b \in Seq(Pieces)
    PROVE  /\ a \o b \in Seq(Pieces)
           /\ Len(a \o b) = Len(a) + Len(b)
           /\ \A i \in 1..Len(a) : (a \o b)[i] = a[i]
           /\ \A i \in 1..Len(b) : (a \o b)[Len(a) + i] = b[i]
<1>1. /\ a \o b \in Seq(Pieces)
      /\ Len(a \o b) = Len(a) + Len(b)
      /\ \A i \in 1..(Len(a) + Len(b)) :
            (a \o b)[i] = IF i <= Len(a) THEN a[i] ELSE b[i - Len(a)]
  BY SMTT(60)
<1>2. Len(a) \in Nat /\ Len(b) \in Nat
  BY SMTT(60)
<1>3. QED
  BY <1>1, <1>2, SMTT(60)

\* It does not matter in which order pieces are put together.
LEMMA Together ==
    ASSUME NEW a \in Seq(Pieces), NEW b \in Seq(Pieces), NEW c \in Seq(Pieces)
    PROVE  (a \o b) \o c = a \o (b \o c)
BY SMTT(60)

\* A step that only drops from the stream keeps what is known of it: the end
\* of the stream is lost only with the connection or the attempt.
LEMMA WindowKeeps ==
    ASSUME TypeOK, TypeOK', Numbers, StreamInv, WholeInv,
           \A c \in Calls : executions'[c] >= executions[c],
           NEW k, NEW m, Window(k, m),
           \/ m = Len(Stream) /\ peer' = peer
           \/ peer' # "open"
           \/ seq' = 0
    PROVE  StreamInv' /\ WholeInv'
<1>1. /\ Stream \in Seq(Pieces) /\ Stream' \in Seq(Pieces)
      /\ Len(Stream) \in Nat /\ k \in Nat /\ m \in Nat /\ m <= Len(Stream)
      /\ Len(Stream') = m - k
  <2>1. inputBuffer \in Seq(Pieces) /\ toClient \in Seq(Pieces)
        /\ inputBuffer' \in Seq(Pieces) /\ toClient' \in Seq(Pieces)
    BY DEF TypeOK
  <2>2. Stream \in Seq(Pieces) /\ Stream' \in Seq(Pieces)
    BY <2>1, StreamIs DEF Stream
  <2>3. QED
    BY <2>2, SMTT(60) DEF Window
<1>2. ASSUME NEW i \in DOMAIN Stream'
      PROVE  /\ i \in 1..(m - k) /\ k + i \in DOMAIN Stream /\ k + i \in 1..m
             /\ Stream'[i] = Stream[k + i]
  BY <1>1, <1>2, SMTT(60) DEF Window
<1>3. StreamInv'
  <2>1. ASSUME NEW i \in DOMAIN Stream'
        PROVE  /\ KnownBy(Stream'[i], nextSeq', seq', cur')
               /\ Stream'[i].ok => executions'[Stream'[i].call] >= 1
    <3>1. /\ Known(Stream[k + i])
          /\ Stream[k + i].ok => executions[Stream[k + i].call] >= 1
      BY <1>2, <2>1 DEF StreamInv
    <3>2. KnownBy(Stream[k + i], nextSeq', seq', cur')
      BY <3>1, KnownStays
    <3>3. Stream[k + i] \in Pieces
      BY <1>1, <1>2, <2>1, SMTT(60)
    <3>4. Stream[k + i].call \in Calls
      BY <3>3 DEF Pieces
    <3>5. executions[Stream[k + i].call] \in Nat
          /\ executions'[Stream[k + i].call] \in Nat
      BY <3>4, ZenonT(60) DEF TypeOK
    <3>6. QED
      BY <1>2, <2>1, <3>1, <3>2, <3>4, <3>5, SMTT(60)
  <2>2. QED
    BY <2>1 DEF StreamInv, Known
<1>4. WholeInv'
  <2>1. SUFFICES ASSUME NEW i \in DOMAIN Stream',
                        Stream'[i].part = "head", Stream'[i].seq = seq'
                 PROVE  IF i = Len(Stream') THEN peer' # "open"
                        ELSE Stream'[i + 1].seq = seq'
    BY DEF WholeInv
  <2>2. /\ i \in 1..(m - k) /\ k + i \in DOMAIN Stream /\ k + i \in 1..m
        /\ Stream'[i] = Stream[k + i]
    BY <1>2
  <2>3. Known(Stream[k + i])
    BY <2>2 DEF StreamInv
  <2>4. seq' = seq /\ seq' # 0
    <3>1. /\ Stream[k + i].seq \in Nat /\ 0 < Stream[k + i].seq
          /\ Stream[k + i].seq < nextSeq
      BY <2>3 DEF Known, KnownBy
    <3>2. Stream[k + i].seq = seq'
      BY <2>1, <2>2
    <3>3. nextSeq \in Nat
      BY DEF TypeOK
    <3>4. seq' # 0 /\ seq' # nextSeq
      BY <3>1, <3>2, <3>3, SMTT(60)
    <3>5. QED
      BY <3>4 DEF Numbers
  <2>5. IF k + i = Len(Stream) THEN peer # "open" ELSE Stream[k + i + 1].seq = seq
    BY <2>1, <2>2, <2>4 DEF WholeInv
  <2>6. CASE i = Len(Stream')
    <3>1. k + i = m
      BY <1>1, <2>2, <2>6, SMTT(60)
    <3>2. QED
      BY <2>4, <2>5, <2>6, <3>1
  <2>7. CASE i # Len(Stream')
    <3>1. i + 1 \in 1..(m - k) /\ k + i # Len(Stream) /\ k + (i + 1) = k + i + 1
      <4>1. i \in 1..(m - k)
        BY <2>2
      <4>2. i # m - k
        BY <1>1, <2>7
      <4>3. Len(Stream) \in Nat /\ m <= Len(Stream) /\ k \in Nat /\ m \in Nat
        BY <1>1
      <4>4. QED
        BY <4>1, <4>2, <4>3, SMTT(60)
    <3>2. Stream'[i + 1] = Stream[k + (i + 1)]
      BY <3>1 DEF Window
    <3>3. QED
      BY <2>4, <2>5, <2>7, <3>1, <3>2
  <2>8. QED
    BY <2>6, <2>7
<1>5. QED
  BY <1>3, <1>4

\* A response that is sent keeps what is known of the stream.
LEMMA AnswerKeeps ==
    ASSUME TypeOK, StreamInv, WholeInv, executions' \in [Calls -> Nat],
           \A c \in Calls : executions'[c] >= executions[c],
           UNCHANGED <<inputBuffer, seq, nextSeq, cur, peer>>, peer = "open",
           NEW r \in [conn : Nat, seq : Nat, call : Calls], Known(r),
           NEW success \in BOOLEAN, success => executions'[r.call] >= 1,
           toClient' = toClient \o Answer(r, success)
    PROVE  StreamInv' /\ WholeInv'
<1> DEFINE A == Answer(r, success)
           n == Len(Stream)
<1>1. /\ A \in Seq(Pieces) /\ Len(A) = 2 /\ A[2].part = "tail"
      /\ \A i \in 1..2 : A[i].seq = r.seq /\ A[i].call = r.call /\ A[i].ok = success
  BY AnswerPieces, SMTT(60)
<1> HIDE DEF A
<1>2. inputBuffer \in Seq(Pieces) /\ toClient \in Seq(Pieces)
  BY DEF TypeOK
<1>3. Stream \in Seq(Pieces) /\ n \in Nat
  BY <1>2, StreamIs, SMTT(60) DEF Stream
<1>4. Stream' = Stream \o A
  <2>1. Stream' = inputBuffer \o (toClient \o A)
    BY DEF Stream, A
  <2>2. (inputBuffer \o toClient) \o A = inputBuffer \o (toClient \o A)
    BY <1>1, <1>2, Together, Zenon
  <2>3. QED
    BY <2>1, <2>2 DEF Stream
<1>5. /\ Stream' \in Seq(Pieces) /\ Len(Stream') = n + 2
      /\ \A i \in 1..n : Stream'[i] = Stream[i]
      /\ \A i \in 1..2 : Stream'[n + i] = A[i]
  <2>1. /\ Stream \o A \in Seq(Pieces) /\ Len(Stream \o A) = n + Len(A)
        /\ \A i \in 1..n : (Stream \o A)[i] = Stream[i]
        /\ \A i \in 1..Len(A) : (Stream \o A)[n + i] = A[i]
    BY <1>1, <1>3, StreamIs, Zenon
  <2>2. QED
    BY <1>1, <1>4, <2>1
<1> HIDE DEF n
<1>6. ASSUME NEW i \in DOMAIN Stream'
      PROVE  /\ i \in DOMAIN Stream /\ Stream'[i] = Stream[i] /\ i \in 1..n
             \/ /\ i \in {n + 1, n + 2}
                /\ Stream'[i] = A[i - n]
                /\ i - n \in 1..2
  <2>1. i \in 1..(n + 2)
    BY <1>5, <1>6, SMTT(60)
  <2>2. CASE i \in 1..n
    BY <1>3, <1>5, <2>2, SMTT(60) DEF n
  <2>3. CASE i \in {n + 1, n + 2}
    <3>1. i - n \in 1..2 /\ n + (i - n) = i
      BY <1>3, <2>3, SMTT(60)
    <3>2. QED
      BY <1>5, <2>3, <3>1
  <2>4. QED
    BY <1>3, <2>1, <2>2, <2>3, SMTT(60)
<1>7. StreamInv'
  <2>1. ASSUME NEW i \in DOMAIN Stream'
        PROVE  /\ KnownBy(Stream'[i], nextSeq', seq', cur')
               /\ Stream'[i].ok => executions'[Stream'[i].call] >= 1
    <3>1. CASE i \in DOMAIN Stream /\ Stream'[i] = Stream[i]
      <4>1. /\ Known(Stream[i]) /\ Stream[i] \in Pieces
            /\ Stream[i].ok => executions[Stream[i].call] >= 1
        BY <1>3, <3>1, SMTT(60) DEF StreamInv
      <4>2. Stream[i].call \in Calls
        BY <4>1 DEF Pieces
      <4>3. executions[Stream[i].call] \in Nat /\ executions'[Stream[i].call] \in Nat
            /\ executions'[Stream[i].call] >= executions[Stream[i].call]
        BY <4>2 DEF TypeOK
      <4>4. QED
        BY <3>1, <4>1, <4>3, SMTT(60) DEF Known
    <3>2. CASE Stream'[i] = A[i - n] /\ i - n \in 1..2
      <4>1. /\ Stream'[i].seq = r.seq /\ Stream'[i].call = r.call
            /\ Stream'[i].ok = success
        BY <1>1, <3>2
      <4>2. QED
        BY <4>1 DEF Known, KnownBy
    <3>3. QED
      BY <1>6, <2>1, <3>1, <3>2
  <2>2. QED
    BY <2>1 DEF StreamInv, Known
<1>8. WholeInv'
  <2>1. SUFFICES ASSUME NEW i \in DOMAIN Stream',
                        Stream'[i].part = "head", Stream'[i].seq = seq'
                 PROVE  IF i = Len(Stream') THEN peer' # "open"
                        ELSE Stream'[i + 1].seq = seq'
    BY DEF WholeInv
  <2>2. CASE i \in DOMAIN Stream /\ Stream'[i] = Stream[i] /\ i \in 1..n
    <3>1. i # n /\ Stream[i + 1].seq = seq
      BY <2>1, <2>2 DEF WholeInv, n
    <3>2. i + 1 \in 1..n /\ i # n + 2
      BY <1>3, <2>2, <3>1, SMTT(60)
    <3>3. QED
      BY <1>5, <3>1, <3>2
  <2>3. CASE i \in {n + 1, n + 2} /\ Stream'[i] = A[i - n]
    <3>1. i = n + 1
      <4>1. i = n + 2 => i - n = 2
        BY <1>3, SMTT(60)
      <4>2. QED
        BY <1>1, <2>1, <2>3, <4>1
    <3>2. i - n = 1 /\ i + 1 = n + 2 /\ i # n + 2
      BY <1>3, <3>1, SMTT(60)
    <3>3. Stream'[i + 1] = A[2]
      BY <1>5, <3>2, SMTT(60)
    <3>4. QED
      BY <1>1, <1>5, <2>1, <2>3, <3>2, <3>3, SMTT(60)
  <2>4. QED
    BY <1>6, <2>2, <2>3
<1>9. QED
  BY <1>7, <1>8

\* A stream that stays is a window.
LEMMA WindowAll ==
    ASSUME TypeOK, Stream' = Stream
    PROVE  Window(0, Len(Stream))
<1>1. Stream \in Seq(Pieces)
  BY StreamIs DEF Stream, TypeOK
<1>2. Len(Stream) \in Nat
  BY <1>1, SMTT(60)
<1>3. QED
  BY <1>2, SMTT(60) DEF Window

\* So is a stream of which the server sends only the start.
LEMMA WindowFront ==
    ASSUME TypeOK, inputBuffer' = inputBuffer, NEW n \in 0..Len(toClient),
           toClient' = SubSeq(toClient, 1, n)
    PROVE  Window(0, Len(inputBuffer) + n)
<1> DEFINE t == SubSeq(toClient, 1, n)
           b == Len(inputBuffer)
<1>1. inputBuffer \in Seq(Pieces) /\ toClient \in Seq(Pieces)
  BY DEF TypeOK
<1>2. t \in Seq(Pieces) /\ Len(t) = n /\ \A i \in 1..n : t[i] = toClient[i]
  BY <1>1, Part, SMTT(60)
<1>3. b \in Nat /\ n \in Nat /\ Len(toClient) \in Nat /\ n <= Len(toClient)
  BY <1>1, SMTT(60)
<1> HIDE DEF t
<1>4. /\ Len(Stream) = b + Len(toClient)
      /\ \A i \in 1..b : Stream[i] = inputBuffer[i]
      /\ \A i \in 1..Len(toClient) : Stream[b + i] = toClient[i]
  BY <1>1, StreamIs DEF Stream
<1>5. Stream' = inputBuffer \o t
  BY DEF Stream, t
<1>6. /\ Len(Stream') = b + Len(t)
      /\ \A i \in 1..b : Stream'[i] = inputBuffer[i]
      /\ \A i \in 1..Len(t) : Stream'[b + i] = t[i]
  BY <1>1, <1>2, <1>5, StreamIs, ZenonT(60)
<1> HIDE DEF b
<1>7. ASSUME NEW i \in 1..(b + n)
      PROVE  Stream'[i] = Stream[i]
  <2>1. CASE i \in 1..b
    BY <1>4, <1>6, <2>1
  <2>2. CASE i > b
    <3>1. i - b \in 1..n /\ i - b \in 1..Len(toClient) /\ b + (i - b) = i
      BY <1>3, <2>2, SMTT(60)
    <3>2. QED
      BY <1>2, <1>4, <1>6, <3>1, SMTT(60)
  <2>3. QED
    BY <1>3, <2>1, <2>2, SMTT(60)
<1>8. /\ 0 \in Nat /\ b + n \in Nat /\ 0 <= b + n /\ b + n <= Len(Stream)
      /\ Len(Stream') = (b + n) - 0
      /\ \A i \in 1..((b + n) - 0) : Stream'[i] = Stream[0 + i]
  BY <1>2, <1>3, <1>4, <1>6, <1>7, SMTT(60)
<1>9. QED
  BY <1>8 DEF Window, b

\* So is what is left when a message has been decoded.
LEMMA WindowBack ==
    ASSUME TypeOK, toClient' = toClient, NEW n \in Nat,
           inputBuffer' = SubSeq(inputBuffer, n + 1, Len(inputBuffer))
    PROVE  \E k \in Nat : Window(k, Len(Stream))
<1> DEFINE t == SubSeq(inputBuffer, n + 1, Len(inputBuffer))
           b == Len(inputBuffer)
           k == IF n <= b THEN n ELSE b
<1>1. inputBuffer \in Seq(Pieces) /\ toClient \in Seq(Pieces)
  BY DEF TypeOK
<1>2. b \in Nat /\ Len(toClient) \in Nat /\ k \in Nat /\ k <= b
  BY <1>1, SMTT(60)
<1>3. t \in Seq(Pieces) /\ Len(t) = b - k /\ \A i \in 1..(b - k) : t[i] = inputBuffer[k + i]
  <2>1. n + 1 \in Nat \ {0} /\ b \in 0..Len(inputBuffer)
    BY <1>2, SMTT(60)
  <2>2. /\ t \in Seq(Pieces) /\ Len(t) = IF n + 1 <= b THEN b - (n + 1) + 1 ELSE 0
        /\ \A i \in 1..(b - (n + 1) + 1) : t[i] = inputBuffer[(n + 1) + i - 1]
    BY <1>1, <2>1, Part
  <2> HIDE DEF t, b
  <2>3. CASE n <= b
    <3>1. /\ k = n /\ b - (n + 1) + 1 = b - n
          /\ \A i \in 1..(b - n) : (n + 1) + i - 1 = n + i
          /\ n + 1 <= b \/ b - n = 0
      BY <1>2, <2>3, SMTT(60)
    <3>2. Len(t) = b - n /\ \A i \in 1..(b - n) : t[i] = inputBuffer[n + i]
      BY <1>2, <2>2, <3>1
    <3>3. QED
      BY <2>2, <3>1, <3>2
  <2>4. CASE n > b
    <3>1. k = b /\ ~(n + 1 <= b) /\ b - b = 0 /\ 1..0 = {}
      BY <1>2, <2>4, SMTT(60)
    <3>2. QED
      BY <2>2, <3>1
  <2>5. QED
    BY <1>2, <2>3, <2>4, SMTT(60)
<1> HIDE DEF t, k
<1>4. /\ Len(Stream) = b + Len(toClient)
      /\ \A i \in 1..b : Stream[i] = inputBuffer[i]
      /\ \A i \in 1..Len(toClient) : Stream[b + i] = toClient[i]
  BY <1>1, StreamIs DEF Stream
<1>5. Stream' = t \o toClient
  BY DEF Stream, t
<1>6. /\ Len(Stream') = Len(t) + Len(toClient)
      /\ \A i \in 1..Len(t) : Stream'[i] = t[i]
      /\ \A i \in 1..Len(toClient) : Stream'[Len(t) + i] = toClient[i]
  BY <1>1, <1>3, <1>5, StreamIs, ZenonT(60)
<1> HIDE DEF b
<1> DEFINE m == Len(Stream)
<1>7. ASSUME NEW i \in 1..(m - k)
      PROVE  Stream'[i] = Stream[k + i]
  <2>1. CASE i \in 1..(b - k)
    <3>1. k + i \in 1..b
      BY <1>2, <2>1, SMTT(60)
    <3>2. QED
      BY <1>3, <1>4, <1>6, <2>1, <3>1, ZenonT(60)
  <2>2. CASE i > b - k
    <3>1. /\ i - (b - k) \in 1..Len(toClient)
          /\ (b - k) + (i - (b - k)) = i /\ b + (i - (b - k)) = k + i
      BY <1>2, <1>4, <2>2, SMTT(60)
    <3>2. QED
      BY <1>3, <1>4, <1>6, <3>1, SMTT(60)
  <2>3. QED
    BY <1>2, <1>4, <2>1, <2>2, SMTT(60)
<1>8. Window(k, m)
  BY <1>2, <1>3, <1>4, <1>6, <1>7, SMTT(60) DEF Window
<1>9. QED
  BY <1>2, <1>8

\* Every step keeps what is known of the responses.
LEMMA StreamNext ==
    ASSUME TypeOK, CallInv, SeqInv, StreamInv, WholeInv, [Next]_vars
    PROVE  StreamInv' /\ WholeInv'
<1>0. TypeOK' /\ Numbers /\ \A c \in Calls : executions'[c] >= executions[c]
  BY TypeNext, NumbersNext, ExecutionsGrow
<1>1. CASE Stream' = Stream /\ peer' = peer
  BY <1>0, <1>1, WindowAll, WindowKeeps
<1>2. CASE \/ UNCHANGED vars \/ (\E c \in Calls : Begin(c)) \/ ConnectReuse
           \/ ConnectFails \/ Send \/ Expire \/ Timeout \/ Closed \/ PollFails
           \/ ReadPart \/ DecodeHalf \/ DecodeThrows
  <2>1. UNCHANGED <<inputBuffer, toClient, peer>>
    BY <1>2 DEF vars, client, wire, Begin, ConnectReuse, ConnectFails, Send,
       Expire, Timeout, ReadPart, Closed, PollFails, DecodeHalf, DecodeThrows
  <2>2. QED
    BY <1>1, <2>1 DEF Stream
<1>3. CASE Read
  <2>1. PICK n \in 1..Len(toClient) :
          /\ inputBuffer' = inputBuffer \o SubSeq(toClient, 1, n)
          /\ toClient' = SubSeq(toClient, n + 1, Len(toClient))
    BY <1>3, ZenonT(60) DEF Read
  <2>2. toClient \in Seq(Pieces) /\ inputBuffer \in Seq(Pieces)
    BY DEF TypeOK
  <2>3. n \in 0..Len(toClient) /\ n + 1 \in Nat \ {0}
        /\ Len(toClient) \in 0..Len(toClient)
    BY <2>2, SMTT(60)
  <2>4. SubSeq(toClient, 1, n) \in Seq(Pieces)
    BY <2>2, <2>3, Part, SMTT(60)
  <2>5. SubSeq(toClient, n + 1, Len(toClient)) \in Seq(Pieces)
    BY <2>2, <2>3, Part
  <2>6. (inputBuffer \o SubSeq(toClient, 1, n)) \o SubSeq(toClient, n + 1,
      Len(toClient))
        = inputBuffer \o (SubSeq(toClient, 1, n) \o SubSeq(toClient, n + 1, Len(toClient)))
    BY <2>2, <2>4, <2>5, Together, ZenonT(60)
  <2>7. SubSeq(toClient, 1, n) \o SubSeq(toClient, n + 1, Len(toClient)) = toClient
    BY <2>2, <2>3, Cut
  <2>8. Stream' = Stream /\ peer' = peer
    <3>1. Stream' = inputBuffer' \o toClient'
      BY DEF Stream
    <3>2. Stream' = inputBuffer \o toClient
      BY <2>1, <2>6, <2>7, <3>1, Zenon
    <3>3. QED
      BY <1>3, <3>2, ZenonT(60) DEF Stream, Read
  <2>9. QED
    BY <1>1, <2>8
<1>4. CASE ConnectNew \/ SendFails \/ ResetArrives
  <2>1. /\ inputBuffer' = inputBuffer /\ toClient' = <<>>
        /\ seq' = 0 \/ peer' = "rst"
    BY <1>4 DEF ConnectNew, SendFails, ResetArrives, client, Finish, CallInv
  <2>2. 0 \in 0..Len(toClient) /\ SubSeq(toClient, 1, 0) = <<>>
    BY SMTT(60) DEF TypeOK
  <2>3. Window(0, Len(inputBuffer) + 0)
    BY <2>1, <2>2, WindowFront
  <2>4. QED
    BY <1>0, <2>1, <2>3, WindowKeeps
<1>5. CASE ServerCloses
  <2>1. PICK n \in 0..Len(toClient) : toClient' = SubSeq(toClient, 1, n)
    BY <1>5 DEF ServerCloses
  <2>2. inputBuffer' = inputBuffer /\ peer' = "fin"
    BY <1>5 DEF ServerCloses, client
  <2>3. Window(0, Len(inputBuffer) + n)
    BY <2>1, <2>2, WindowFront
  <2>4. QED
    BY <1>0, <2>2, <2>3, WindowKeeps
<1>6. CASE Decode
  <2>1. PICK n \in {2, 3} :
          inputBuffer' = SubSeq(inputBuffer, n + 1, Len(inputBuffer))
    BY <1>6 DEF Decode
  <2>2. toClient' = toClient /\ peer' = peer /\ n \in Nat
    BY <1>6, SMTT(60) DEF Decode, wire
  <2>3. PICK k \in Nat : Window(k, Len(Stream))
    BY <2>1, <2>2, WindowBack
  <2>4. QED
    BY <1>0, <2>2, <2>3, WindowKeeps
<1>7. ASSUME NEW r \in [conn : Nat, seq : Nat, call : Calls], Known(r),
             NEW success \in BOOLEAN, Respond(r, success),
             success => executions'[r.call] >= 1,
             UNCHANGED <<client, peer>>
      PROVE  StreamInv' /\ WholeInv'
  <2>1. UNCHANGED <<inputBuffer, seq, nextSeq, cur, peer>>
    BY <1>7 DEF client
  <2>2. CASE toClient' = toClient
    BY <1>1, <2>1, <2>2 DEF Stream
  <2>3. CASE peer = "open" /\ toClient' = toClient \o Answer(r, success)
    <3>1. executions' \in [Calls -> Nat]
      BY <1>0 DEF TypeOK
    <3>2. QED
      BY <1>0, <1>7, <2>1, <2>3, <3>1, AnswerKeeps
  <2>4. QED
    BY <1>7, <2>2, <2>3, Responds
<1>8. CASE OnMessage
  <2>1. UNCHANGED <<client, peer>>
    BY <1>8 DEF OnMessage
  <2>2. CASE toClient' = toClient
    BY <1>1, <2>1, <2>2 DEF Stream, client
  <2>3. CASE Respond(Request, FALSE)
    <3>1. Request \in [conn : Nat, seq : Nat, call : Calls]
      BY <1>8, Taken
    <3>2. Known(Request)
      BY <1>8, Taken DEF SeqInv, Known, KnownBy
    <3>3. QED
      BY <1>7, <2>1, <2>3, <3>1, <3>2, ZenonT(60)
  <2>4. QED
    BY <1>8, <2>2, <2>3, Taken, ZenonT(60)
<1>9. ASSUME NEW r \in working, handleRequest(r)
      PROVE  StreamInv' /\ WholeInv'
  <2>1. UNCHANGED <<client, peer>>
    BY <1>9 DEF handleRequest
  <2>2. r \in [conn : Nat, seq : Nat, call : Calls] /\ r.call \in Calls /\ Known(r)
    BY DEF TypeOK, SeqInv
  <2>3. CASE toClient' = toClient
    BY <1>1, <2>1, <2>3 DEF Stream, client
  <2>4. CASE Respond(r, FALSE)
    BY <1>7, <2>1, <2>2, <2>4, ZenonT(60)
  <2>5. CASE executions' = [executions EXCEPT ![r.call] = @ + 1]
             /\ \E success \in BOOLEAN : Respond(r, success)
    <3>1. executions'[r.call] >= 1
      <4>1. executions \in [Calls -> Nat]
        BY DEF TypeOK
      <4>2. QED
        BY <2>2, <2>5, <4>1, SMTT(60)
    <3>2. QED
      BY <1>7, <2>1, <2>2, <2>5, <3>1
  <2>6. QED
    BY <1>9, <2>3, <2>4, <2>5, ZenonT(60) DEF handleRequest
<1>10. QED
  BY <1>2, <1>3, <1>4, <1>5, <1>6, <1>8, <1>9 DEF Next, ClientStep

-----------------------------------------------------------------------------
(* Requests.                                                               *)

\* The step takes no request to a new place: some may be lost.
RequestsDrop ==
    /\ working' \subseteq working
    /\ toServer' = toServer \/ toServer' = <<>>

\* What a step does with the requests: it loses some, sends one, takes one off
\* the wire or handles one.
LEMMA RequestSteps ==
    ASSUME TypeOK, [Next]_vars
    PROVE  \/ RequestsDrop /\ UNCHANGED executions
           \/ /\ Send /\ toServer' = Append(toServer, [seq |-> nextSeq, call |-> cur])
              /\ UNCHANGED <<working, executions>>
           \/ OnMessage
           \/ \E r \in working : handleRequest(r)
<1>1. CASE UNCHANGED vars \/ \E c \in Calls : Begin(c)
  BY <1>1 DEF vars, wire, history, Begin, RequestsDrop
<1>2. CASE Send
  BY <1>2 DEF Send, RequestsDrop, history
<1>3. CASE ConnectReuse \/ ConnectNew \/ ConnectFails \/ SendFails
  BY <1>3
  DEF ConnectReuse, ConnectNew, ConnectFails, SendFails, wire, history,
     RequestsDrop
<1>4. CASE \/ Expire \/ Timeout \/ Closed \/ PollFails \/ Read \/ ReadPart
           \/ DecodeHalf \/ DecodeThrows \/ Decode
  BY <1>4 DEF Expire, Timeout, Closed, PollFails, Read, ReadPart, DecodeHalf,
     DecodeThrows, Decode, wire, history, RequestsDrop
<1>5. CASE ServerCloses \/ ResetArrives
  BY <1>5 DEF ServerCloses, ResetArrives, history, RequestsDrop
<1>6. QED
  BY <1>1, <1>2, <1>3, <1>4, <1>5 DEF Next, ClientStep

\* The wire after a Send.
LEMMA Sent ==
    ASSUME TypeOK, pc # "idle",
           toServer' = Append(toServer, [seq |-> nextSeq, call |-> cur])
    PROVE  /\ DOMAIN toServer' = 1..(Len(toServer) + 1) /\ Len(toServer) \in Nat
           /\ \A i \in DOMAIN toServer' :
                 \/ i \in DOMAIN toServer /\ toServer'[i] = toServer[i]
                 \/ /\ i = Len(toServer) + 1
                    /\ toServer'[i].seq = nextSeq /\ toServer'[i].call = cur
<1>1. toServer \in Seq([seq : Nat, call : Calls])
  BY DEF TypeOK
<1>2. [seq |-> nextSeq, call |-> cur] \in [seq : Nat, call : Calls]
  BY Current DEF TypeOK
<1>3. QED
  BY <1>1, <1>2, SMTT(60)

\* The wire after onMessage.
LEMMA Received ==
    ASSUME TypeOK, OnMessage
    PROVE  \A i \in DOMAIN toServer' :
              i + 1 \in DOMAIN toServer /\ i \in Nat \ {0} /\ toServer'[i] = toServer[i + 1]
<1>1. toServer \in Seq([seq : Nat, call : Calls]) /\ toServer # <<>>
      /\ toServer' = Tail(toServer)
  BY DEF TypeOK, OnMessage
<1>2. /\ Tail(toServer) \in Seq([seq : Nat, call : Calls])
      /\ Len(Tail(toServer)) = Len(toServer) - 1
      /\ \A i \in 1..Len(Tail(toServer)) : Tail(toServer)[i] = toServer[i + 1]
  BY <1>1, SMTT(60)
<1>3. Len(toServer) \in Nat
  BY <1>1, SMTT(60)
<1>4. QED
  BY <1>1, <1>2, <1>3, SMTT(60)

\* Every request keeps the seq of its attempt, and no two have the same.
LEMMA RequestNext ==
    ASSUME TypeOK, CallInv, SeqInv, UniqueInv, [Next]_vars
    PROVE  SeqInv' /\ UniqueInv'
<1>0. TypeOK' /\ Numbers
  BY TypeNext, NumbersNext
<1>1. ASSUME NEW x, Known(x) PROVE KnownBy(x, nextSeq', seq', cur') /\ x.seq # nextSeq
  <2>1. x.seq \in Nat /\ x.seq < nextSeq
    BY <1>1 DEF Known, KnownBy
  <2>2. x.seq # nextSeq
    BY <2>1, SMTT(60) DEF TypeOK
  <2>3. QED
    BY <1>0, <1>1, <2>2, KnownStays
<1>2. CASE RequestsDrop
  BY <1>1, <1>2, SMTT(60) DEF RequestsDrop, SeqInv, UniqueInv, Known
<1>3. CASE /\ Send /\ toServer' = Append(toServer, [seq |-> nextSeq, call |-> cur])
           /\ UNCHANGED working
  <2>1. /\ DOMAIN toServer' = 1..(Len(toServer) + 1) /\ Len(toServer) \in Nat
        /\ \A i \in DOMAIN toServer' :
              \/ i \in DOMAIN toServer /\ toServer'[i] = toServer[i]
              \/ /\ i = Len(toServer) + 1
                 /\ toServer'[i].seq = nextSeq /\ toServer'[i].call = cur
    BY <1>3, Sent DEF Send
  <2>2. cur' = cur /\ nextSeq' = nextSeq + 1 /\ nextSeq \in Nat /\ 0 < nextSeq
    BY <1>3, SMTT(60) DEF Send, TypeOK, CallInv
  <2>3. ASSUME NEW x, x.seq = nextSeq, x.call = cur
        PROVE  KnownBy(x, nextSeq', seq', cur')
    BY <2>2, <2>3, SMTT(60) DEF KnownBy
  <2>4. SeqInv'
    <3>1. ASSUME NEW i \in DOMAIN toServer'
          PROVE  KnownBy(toServer'[i], nextSeq', seq', cur')
      <4>1. CASE i \in DOMAIN toServer /\ toServer'[i] = toServer[i]
        BY <1>1, <4>1, ZenonT(60) DEF SeqInv
      <4>2. CASE toServer'[i].seq = nextSeq /\ toServer'[i].call = cur
        BY <2>3, <4>2
      <4>3. QED
        BY <2>1, <4>1, <4>2
    <3>2. QED
      BY <1>1, <1>3, <3>1 DEF SeqInv, Known
  <2>5. UniqueInv'
    <3>1. /\ \A i \in DOMAIN toServer : toServer[i].seq # nextSeq
          /\ \A r \in working : r.seq # nextSeq
      BY <1>1 DEF SeqInv
    <3>2. QED
      BY <1>3, <2>1, <3>1, SMTT(60) DEF UniqueInv
  <2>6. QED
    BY <2>4, <2>5
<1>4. CASE OnMessage
  <2>1. /\ Request.seq = toServer[1].seq /\ Request.call = toServer[1].call
        /\ 1 \in DOMAIN toServer
        /\ \A r \in working' : r \in working \/ r = Request
    BY <1>4, Taken, ZenonT(60)
  <2>2. \A i \in DOMAIN toServer' :
           i + 1 \in DOMAIN toServer /\ i \in Nat \ {0} /\ toServer'[i] = toServer[i + 1]
    BY <1>4, Received
  <2>3. SeqInv'
    <3>1. KnownBy(Request, nextSeq', seq', cur')
      <4>1. Known(toServer[1])
        BY <2>1 DEF SeqInv
      <4>2. KnownBy(toServer[1], nextSeq', seq', cur')
        BY <1>1, <4>1
      <4>3. QED
        BY <2>1, <4>2 DEF KnownBy
    <3>2. \A i \in DOMAIN toServer' : KnownBy(toServer'[i], nextSeq', seq', cur')
      BY <1>1, <2>2 DEF SeqInv
    <3>3. \A r \in working' : KnownBy(r, nextSeq', seq', cur')
      BY <1>1, <2>1, <3>1 DEF SeqInv
    <3>4. QED
      BY <3>2, <3>3 DEF SeqInv, Known
  <2>4. UniqueInv'
    <3>1. \A i, j \in DOMAIN toServer' : toServer'[i].seq = toServer'[j].seq => i = j
      BY <2>2, SMTT(60) DEF UniqueInv
    <3>2. \A r \in working, i \in DOMAIN toServer' : r.seq # toServer'[i].seq
      BY <2>1, <2>2, SMTT(60) DEF UniqueInv
    <3>3. \A i \in DOMAIN toServer' : Request.seq # toServer'[i].seq
      BY <2>1, <2>2, SMTT(60) DEF UniqueInv
    <3>4. \A r \in working : r.seq # Request.seq
      BY <2>1 DEF UniqueInv
    <3>5. QED
      BY <2>1, <3>1, <3>2, <3>3, <3>4 DEF UniqueInv
  <2>5. QED
    BY <2>3, <2>4
<1>5. CASE \E r \in working : handleRequest(r)
  <2>1. working' \subseteq working /\ toServer' = toServer
    BY <1>5 DEF handleRequest
  <2>2. QED
    BY <1>2, <2>1 DEF RequestsDrop
<1>6. QED
  BY <1>2, <1>3, <1>4, <1>5, RequestSteps

-----------------------------------------------------------------------------
(* Attempts.                                                               *)

\* The attempts of a call are numbers.
LEMMA AttemptsNat ==
    ASSUME TypeOK, NEW c \in Calls
    PROVE  Attempts(c) \in Nat
BY ChannelAssumption, SMTT(60) DEF Attempts, TypeOK

\* The attempts of a call are never taken back, and Send makes one.
LEMMA AttemptsNext ==
    ASSUME TypeOK, CallInv, [Next]_vars, NEW c \in Calls
    PROVE  /\ Attempts(c)' \in Nat /\ Attempts(c) \in Nat
           /\ Attempts(c)' >= Attempts(c)
           /\ Send /\ c = cur => Attempts(c)' >= Attempts(c) + 1
<1>0. /\ TypeOK' /\ CallInv' /\ attempt \in 0..maxRetries /\ maxRetries \in Nat
      /\ Attempts(c) \in Nat
  BY TypeNext, CallNext, ChannelAssumption, AttemptsNat, ZenonT(60) DEF TypeOK
<1>1. Attempts(c)' \in Nat
  <2>1. attempt' \in Nat
    BY <1>0, SMTT(60) DEF TypeOK
  <2>2. Attempts(c)' \in {attempt' + 1, attempt', 0, maxRetries + 1}
    BY DEF Attempts
  <2>3. QED
    BY <1>0, <2>1, <2>2, SMTT(60)
<1>2. CASE UNCHANGED <<pc, cur, attempt, result>>
  <2>1. Attempts(c)' = Attempts(c) /\ ~Send
    BY <1>2 DEF Attempts, Send
  <2>2. QED
    BY <1>0, <2>1, SMTT(60)
<1>3. CASE \E b \in Calls : Begin(b)
  <2>1. PICK b \in Calls : Begin(b)
    BY <1>3
  <2>2. /\ pc = "idle" /\ cur = None /\ cur' = b /\ pc' = "connect" /\ attempt' = 0
        /\ result[b] = None /\ result' = result
    BY <2>1 DEF Begin, TypeOK, CallInv, history
  <2>3. Attempts(c)' = Attempts(c)
    BY <2>2, ChannelAssumption DEF Attempts
  <2>4. QED
    BY <1>0, <2>2, <2>3, SMTT(60) DEF Send
<1>4. CASE Send
  <2>1. /\ pc = "send" /\ pc' = "wait" /\ UNCHANGED <<cur, attempt, result>>
    BY <1>4 DEF Send, history
  <2>2. Attempts(c)' = IF c = cur THEN Attempts(c) + 1 ELSE Attempts(c)
    BY <2>1 DEF Attempts
  <2>3. QED
    BY <1>0, <2>2, SMTT(60)
<1>5. CASE pc # "idle" /\ pc # "send" /\ UNCHANGED <<cur, result>>
           /\ \/ pc' \in {"wait", "decode"} /\ pc \in {"wait", "decode"} /\ attempt' = attempt
              \/ pc' = "send" /\ pc \in {"wait", "decode"} /\ attempt' = attempt + 1
              \/ pc' = "send" /\ pc = "connect" /\ attempt' = attempt
  <2>1. Attempts(c)' = Attempts(c)
    BY <1>5 DEF Attempts
  <2>2. QED
    BY <1>0, <1>5, <2>1, SMTT(60) DEF Send
<1>6. CASE ~Send /\ pc # "idle" /\ \E code \in Codes : Finish(code)
  <2>1. PICK code \in Codes : Finish(code)
    BY <1>6
  <2>2. /\ cur' = None /\ result' = [result EXCEPT ![cur] = code] /\ code # None
        /\ cur \in Calls /\ cur # None /\ result \in [Calls -> Codes \cup {None}]
    BY <1>6, <2>1, Finished, Current, ZenonT(60) DEF Finish, TypeOK
  <2>3. CASE c = cur
    <3>1. Attempts(c)' = maxRetries + 1
      BY <2>2, <2>3, ChannelAssumption, SMTT(60) DEF Attempts
    <3>2. Attempts(c) <= maxRetries + 1
      BY <1>0, <2>3, SMTT(60) DEF Attempts
    <3>3. QED
      BY <1>0, <1>6, <3>1, <3>2, SMTT(60)
  <2>4. CASE c # cur
    <3>1. result'[c] = result[c] /\ c # None
      BY <2>2, <2>4, ChannelAssumption
    <3>2. Attempts(c)' = Attempts(c)
      BY <2>2, <2>4, <3>1 DEF Attempts
    <3>3. QED
      BY <1>0, <1>6, <3>2, SMTT(60)
  <2>5. QED
    BY <2>3, <2>4
<1>7. CASE Expire \/ ConnectReuse \/ ConnectNew \/ Read \/ ReadPart \/ DecodeHalf
  BY <1>5, <1>7
  DEF Expire, ConnectReuse, ConnectNew, Read, ReadPart, DecodeHalf, PollAgain, history
<1>8. CASE ConnectFails \/ SendFails \/ Closed \/ PollFails \/ DecodeThrows
  <2>1. "failed" \in Codes
    BY DEF Codes
  <2>2. QED
    BY <1>6, <1>8, <2>1, ZenonT(60) DEF ConnectFails, SendFails, Closed, PollFails,
       DecodeThrows, Send, Finish
<1>9. CASE Timeout
  <2>1. "failed" \in Codes /\ pc = "wait" /\ ~Send
    BY <1>9 DEF Codes, Timeout, Send
  <2>2. QED
    BY <1>5, <1>6, <1>9, <2>1 DEF Timeout
<1>10. CASE Decode
  <2>1. (IF inputBuffer[1].ok THEN controller ELSE "failed") \in Codes
        /\ pc = "decode" /\ ~Send
    BY <1>10 DEF Codes, Decode, TypeOK, Send
  <2>2. CASE Finish(IF inputBuffer[1].ok THEN controller ELSE "failed")
    BY <1>6, <2>1, <2>2
  <2>3. CASE UNCHANGED <<pc, cur, attempt, seq, controller, expired, result, got>>
    BY <1>2, <2>3
  <2>4. QED
    BY <1>10, <2>2, <2>3 DEF Decode
<1>11. CASE UNCHANGED vars \/ OnMessage \/ ServerCloses \/ ResetArrives
            \/ \E r \in working : handleRequest(r)
  BY <1>2, <1>11, ZenonT(60) DEF vars, client, history, OnMessage, ServerCloses,
     ResetArrives, handleRequest
<1>12. QED
  BY <1>1, <1>3, <1>4, <1>7, <1>8, <1>9, <1>10, <1>11 DEF Next, ClientStep

-----------------------------------------------------------------------------
(* Results.                                                                *)

\* A call that is over keeps its result, and one that ends has its own
\* response or a failure.
LEMMA ResultNext ==
    ASSUME IInv, [Next]_vars
    PROVE  OwnResponse' /\ SuccessReported'
<1>0. /\ TypeOK /\ CallInv /\ StreamInv /\ WholeInv /\ OwnResponse
      /\ SuccessReported /\ TypeOK'
      /\ result \in [Calls -> Codes \cup {None}] /\ got \in [Calls -> Calls \cup {None}]
      /\ executions \in [Calls -> Nat] /\ executions' \in [Calls -> Nat]
      /\ \A c \in Calls : executions'[c] >= executions[c]
  BY TypeNext, ExecutionsGrow, ZenonT(60) DEF IInv, TypeOK
<1>1. CASE UNCHANGED <<result, got>>
  <2>1. OwnResponse'
    BY <1>0, <1>1, SMTT(60) DEF OwnResponse
  <2>2. QED
    BY <1>0, <1>1, <2>1 DEF SuccessReported
<1>2. CASE pc # "idle" /\ Finish("failed") /\ UNCHANGED got
  <2>1. /\ result' = [result EXCEPT ![cur] = "failed"] /\ result[cur] = None
        /\ cur \in Calls
    BY <1>0, <1>2, Finished, Current DEF Codes
  <2>2. got[cur] = None
    BY <1>0, <2>1, ChannelAssumption DEF SuccessReported
  <2>3. OwnResponse'
    BY <1>0, <1>2, <2>1, SMTT(60) DEF OwnResponse
  <2>4. SuccessReported'
    BY <1>0, <1>2, <2>1, <2>2 DEF SuccessReported
  <2>5. QED
    BY <2>1, <2>3, <2>4
<1>3. CASE Decode
  <2>1. /\ inputBuffer \in Seq(Pieces) /\ toClient \in Seq(Pieces)
        /\ Len(inputBuffer) >= 2 /\ inputBuffer[1].part = "head" /\ pc = "decode"
        /\ controller = "ok"
    BY <1>0, <1>3, ZenonT(60) DEF Decode, TypeOK, CallInv
  <2>2. CASE /\ inputBuffer[1].seq = seq /\ inputBuffer[1].ok /\ Finish(controller)
             /\ got' = [got EXCEPT ![cur] = inputBuffer[2].call]
    <3>1. /\ Len(Stream) = Len(inputBuffer) + Len(toClient)
          /\ Stream[1] = inputBuffer[1] /\ Stream[2] = inputBuffer[2]
          /\ 1 \in DOMAIN Stream /\ 2 \in DOMAIN Stream /\ Len(Stream) # 1
      <4>1. /\ Stream \in Seq(Pieces)
            /\ Len(Stream) = Len(inputBuffer) + Len(toClient)
            /\ \A i \in 1..Len(inputBuffer) : Stream[i] = inputBuffer[i]
        BY <2>1, StreamIs DEF Stream
      <4>2. /\ Len(inputBuffer) \in Nat /\ Len(toClient) \in Nat
            /\ 1 \in 1..Len(inputBuffer) /\ 2 \in 1..Len(inputBuffer)
        BY <2>1, SMTT(60)
      <4>3. QED
        BY <4>1, <4>2, SMTT(60)
    <3>2. Stream[2].seq = seq
      <4>1. Stream[1].part = "head" /\ Stream[1].seq = seq
        BY <2>1, <2>2, <3>1
      <4>2. IF 1 = Len(Stream) THEN peer # "open" ELSE Stream[1 + 1].seq = seq
        BY <1>0, <3>1, <4>1 DEF WholeInv
      <4>3. QED
        BY <3>1, <4>2, SMTT(60)
    <3>3. Stream[2].call = cur /\ Stream[1].call = cur
      BY <1>0, <2>2, <3>1, <3>2, ZenonT(60) DEF StreamInv, Known, KnownBy
    <3>4. executions[cur] >= 1
      BY <1>0, <2>2, <3>1, <3>3 DEF StreamInv
    <3>5. /\ result' = [result EXCEPT ![cur] = "ok"] /\ cur \in Calls
      BY <1>0, <2>1, <2>2, Finished, Current DEF Codes
    <3>6. got' = [got EXCEPT ![cur] = cur]
      BY <2>2, <3>1, <3>3
    <3>7. OwnResponse'
      BY <1>0, <3>4, <3>5, <3>6, SMTT(60) DEF OwnResponse
    <3>8. SuccessReported'
      BY <1>0, <3>5, <3>6 DEF SuccessReported
    <3>9. QED
      BY <3>5, <3>7, <3>8
  <2>3. CASE Finish("failed") /\ got' = got
    BY <1>2, <2>1, <2>3
  <2>4. CASE UNCHANGED <<pc, cur, attempt, seq, controller, expired, result, got>>
    BY <1>1, <2>4
  <2>5. QED
    BY <1>3, <2>2, <2>3, <2>4, ZenonT(60) DEF Decode, Matches
<1>4. CASE ConnectFails \/ SendFails \/ Closed \/ PollFails \/ DecodeThrows
  BY <1>2, <1>4 DEF ConnectFails, SendFails, Closed, PollFails, DecodeThrows
<1>5. CASE Timeout
  BY <1>1, <1>2, <1>5 DEF Timeout
<1>6. CASE \/ UNCHANGED vars \/ (\E c \in Calls : Begin(c)) \/ ConnectReuse
           \/ ConnectNew \/ Send \/ Expire \/ Read \/ ReadPart \/ DecodeHalf \/ OnMessage
           \/ ServerCloses \/ ResetArrives \/ \E r \in working : handleRequest(r)
  BY <1>1, <1>6, ZenonT(60)
  DEF vars, history, Begin, ConnectReuse, ConnectNew, Send, Expire, Read, ReadPart,
     DecodeHalf, OnMessage, ServerCloses, ResetArrives, handleRequest
<1>7. QED
  BY <1>3, <1>4, <1>5, <1>6 DEF Next, ClientStep

-----------------------------------------------------------------------------
(* Counting the attempts and the executions.                               *)

\* The proofs up to here need no cardinalities.
INSTANCE FiniteSetTheorems

\* A part of a finite set is no larger.
LEMMA Fewer ==
    ASSUME NEW S, IsFiniteSet(S), NEW T, T \subseteq S
    PROVE  Cardinality(T) \in Nat /\ Cardinality(S) \in Nat
           /\ Cardinality(T) <= Cardinality(S)
BY FS_Subset, FS_CardinalityType

\* It is smaller without one of the elements.
LEMMA OneFewer ==
    ASSUME NEW S, IsFiniteSet(S), NEW x \in S, NEW T, T \subseteq S \ {x}
    PROVE  Cardinality(T) \in Nat /\ Cardinality(S) \in Nat
           /\ Cardinality(T) + 1 <= Cardinality(S)
<1>1. IsFiniteSet(S \ {x}) /\ Cardinality(S \ {x}) = Cardinality(S) - 1
  BY FS_RemoveElement
<1>2. QED
  BY <1>1, Fewer, FS_CardinalityType, SMTT(60)

\* One more element makes it larger by one at most.
LEMMA OneMore ==
    ASSUME NEW S, IsFiniteSet(S), NEW x, NEW T, T \subseteq S \cup {x}
    PROVE  Cardinality(T) \in Nat /\ Cardinality(S) \in Nat
           /\ Cardinality(T) <= Cardinality(S) + 1
<1>1. IsFiniteSet(S \cup {x}) /\ Cardinality(S) \in Nat
      /\ Cardinality(S \cup {x}) \in {Cardinality(S), Cardinality(S) + 1}
  BY FS_AddElement, FS_CardinalityType, ZenonT(60)
<1>2. QED
  BY <1>1, Fewer, SMTT(60)

\* Only finitely many attempts have been made.
LEMMA OutstandingFinite ==
    ASSUME TypeOK, NEW c
    PROVE  IsFiniteSet(Outstanding(c))
<1>1. 1 \in Int /\ nextSeq - 1 \in Int
  BY SMTT(60) DEF TypeOK
<1>2. IsFiniteSet(1..(nextSeq - 1))
  BY <1>1, FS_Interval
<1>3. Outstanding(c) \subseteq 1..(nextSeq - 1)
  BY DEF Outstanding
<1>4. QED
  BY <1>2, <1>3, FS_Subset, ZenonT(60)

\* An execution uses up a request, and a request is an attempt.
LEMMA CountNext ==
    ASSUME TypeOK, CallInv, SeqInv, UniqueInv, CountInv, [Next]_vars
    PROVE  CountInv'
<1> SUFFICES ASSUME NEW c \in Calls
             PROVE  executions'[c] + Cardinality(Outstanding(c)') <= Attempts(c)'
  BY DEF CountInv
<1>0. /\ IsFiniteSet(Outstanding(c)) /\ Cardinality(Outstanding(c)) \in Nat
      /\ executions[c] \in Nat /\ executions'[c] \in Nat
      /\ executions[c] + Cardinality(Outstanding(c)) <= Attempts(c)
      /\ Attempts(c) \in Nat /\ Attempts(c)' \in Nat /\ Attempts(c)' >= Attempts(c)
      /\ Send /\ c = cur => Attempts(c)' >= Attempts(c) + 1
  <2>1. IsFiniteSet(Outstanding(c))
    BY OutstandingFinite
  <2>2. TypeOK'
    BY TypeNext
  <2>3. QED
    BY <2>1, <2>2, FS_CardinalityType, AttemptsNext, ZenonT(60) DEF CountInv, TypeOK
<1>1. ASSUME NEW n,
             \/ \E r \in working : r.seq = n /\ r.call = c
             \/ \E i \in DOMAIN toServer : toServer[i].seq = n /\ toServer[i].call = c
      PROVE  n \in Outstanding(c)
  <2>1. n \in Nat /\ 0 < n /\ n < nextSeq
    BY <1>1 DEF SeqInv, Known, KnownBy
  <2>2. n \in 1..(nextSeq - 1)
    BY <2>1, SMTT(60) DEF TypeOK
  <2>3. QED
    BY <1>1, <2>2 DEF Outstanding
<1>2. CASE RequestsDrop /\ UNCHANGED executions
  <2>1. Outstanding(c)' \subseteq Outstanding(c)
    BY <1>1, <1>2, SMTT(60) DEF Outstanding, RequestsDrop
  <2>2. QED
    BY <1>0, <1>2, <2>1, Fewer, SMTT(60)
<1>3. CASE /\ Send /\ toServer' = Append(toServer, [seq |-> nextSeq, call |-> cur])
           /\ UNCHANGED <<working, executions>>
  <2>1. \A i \in DOMAIN toServer' :
           \/ i \in DOMAIN toServer /\ toServer'[i] = toServer[i]
           \/ toServer'[i].seq = nextSeq /\ toServer'[i].call = cur
    BY <1>3, Sent DEF Send
  <2>2. CASE c = cur
    <3>1. Outstanding(c)' \subseteq Outstanding(c) \cup {nextSeq}
      BY <1>1, <1>3, <2>1 DEF Outstanding
    <3>2. Cardinality(Outstanding(c)') \in Nat
          /\ Cardinality(Outstanding(c)') <= Cardinality(Outstanding(c)) + 1
      BY <1>0, <3>1, OneMore
    <3>3. QED
      BY <1>0, <1>3, <2>2, <3>2, SMTT(60)
  <2>3. CASE c # cur
    <3>1. Outstanding(c)' \subseteq Outstanding(c)
      BY <1>1, <1>3, <2>1, <2>3 DEF Outstanding
    <3>2. QED
      BY <1>0, <1>3, <3>1, Fewer, SMTT(60)
  <2>4. QED
    BY <2>2, <2>3
<1>4. CASE OnMessage
  <2>1. /\ Request.seq = toServer[1].seq /\ Request.call = toServer[1].call
        /\ 1 \in DOMAIN toServer
        /\ \A r \in working' : r \in working \/ r = Request
    BY <1>4, Taken, ZenonT(60)
  <2>2. \A i \in DOMAIN toServer' :
           i + 1 \in DOMAIN toServer /\ toServer'[i] = toServer[i + 1]
    BY <1>4, Received
  <2>3. Outstanding(c)' \subseteq Outstanding(c)
    BY <1>1, <2>1, <2>2, SMTT(60) DEF Outstanding
  <2>4. executions' = executions
    BY <1>4 DEF OnMessage, history
  <2>5. QED
    BY <1>0, <2>3, <2>4, Fewer, SMTT(60)
<1>5. ASSUME NEW r \in working, handleRequest(r)
      PROVE  executions'[c] + Cardinality(Outstanding(c)') <= Attempts(c)'
  <2>1. /\ working' = working \ {r} /\ toServer' = toServer
        /\ executions' = executions
           \/ executions' = [executions EXCEPT ![r.call] = @ + 1]
    BY <1>5, ZenonT(60) DEF handleRequest
  <2>2. executions \in [Calls -> Nat]
    BY DEF TypeOK
  <2>3. CASE c = r.call
    <3>1. r.seq \in Outstanding(c)
      BY <1>1, <2>3
    <3>2. Outstanding(c)' \subseteq Outstanding(c) \ {r.seq}
      BY <1>1, <2>1 DEF Outstanding, UniqueInv
    <3>3. Cardinality(Outstanding(c)') \in Nat
          /\ Cardinality(Outstanding(c)') + 1 <= Cardinality(Outstanding(c))
      BY <1>0, <3>1, <3>2, OneFewer
    <3>4. executions'[c] <= executions[c] + 1
      BY <1>0, <2>1, <2>2, <2>3, SMTT(60)
    <3>5. QED
      BY <1>0, <3>3, <3>4, SMTT(60)
  <2>4. CASE c # r.call
    <3>1. Outstanding(c)' \subseteq Outstanding(c)
      BY <1>1, <2>1 DEF Outstanding
    <3>2. executions'[c] = executions[c]
      BY <2>1, <2>2, <2>4
    <3>3. QED
      BY <1>0, <3>1, <3>2, Fewer, SMTT(60)
  <2>5. QED
    BY <2>3, <2>4
<1>6. QED
  BY <1>2, <1>3, <1>4, <1>5, RequestSteps

-----------------------------------------------------------------------------
(* The theorems.                                                           *)

\* The strengthened invariant holds throughout.
LEMMA Invariance ==
    Spec => []IInv
<1>1. Init => IInv
  <2> SUFFICES ASSUME Init PROVE IInv
    OBVIOUS
  <2>1. TypeOK
    <3>1. 0 \in 0..maxRetries /\ 0 \in 0..MaxConns /\ 0 \in 0..0
      BY ChannelAssumption, SMTT(60)
    <3>2. /\ result \in [Calls -> Codes \cup {None}]
          /\ got \in [Calls -> Calls \cup {None}]
          /\ executions \in [Calls -> Nat]
      BY DEF Init
    <3>3. /\ inputBuffer \in Seq(Pieces) /\ toClient \in Seq(Pieces)
          /\ toServer \in Seq([seq : Nat, call : Calls])
      BY SMTT(60) DEF Init
    <3>4. QED
      BY <3>1, <3>2, <3>3, ZenonT(60) DEF Init, TypeOK, Codes
  <2>2. Stream = <<>>
    BY SMTT(60) DEF Init, Stream
  <2>3. CallInv /\ SeqInv /\ StreamInv /\ WholeInv /\ UniqueInv
    BY <2>2, SMTT(60) DEF Init, CallInv, SeqInv, StreamInv, WholeInv, UniqueInv
  <2>4. CountInv
    <3>1. ASSUME NEW c \in Calls
          PROVE  executions[c] + Cardinality(Outstanding(c)) <= Attempts(c)
      <4>1. Outstanding(c) = {}
        BY SMTT(60) DEF Init, Outstanding
      <4>2. executions[c] = 0 /\ Attempts(c) = 0
        BY ChannelAssumption DEF Init, Attempts
      <4>3. QED
        BY <4>1, <4>2, FS_EmptySet, SMTT(60)
    <3>2. QED
      BY <3>1 DEF CountInv
  <2>5. OwnResponse /\ SuccessReported
    BY ChannelAssumption DEF Init, OwnResponse, SuccessReported
  <2>6. QED
    BY <2>1, <2>3, <2>4, <2>5 DEF IInv
<1>2. IInv /\ [Next]_vars => IInv'
  <2> SUFFICES ASSUME IInv, [Next]_vars PROVE IInv'
    OBVIOUS
  <2>1. /\ TypeOK /\ CallInv /\ SeqInv /\ StreamInv /\ WholeInv /\ UniqueInv
        /\ CountInv
    BY DEF IInv
  <2>2. TypeOK' /\ CallInv' /\ StreamInv' /\ WholeInv' /\ SeqInv' /\ UniqueInv'
    BY <2>1, TypeNext, CallNext, StreamNext, RequestNext
  <2>3. CountInv' /\ OwnResponse' /\ SuccessReported'
    BY <2>1, CountNext, ResultNext
  <2>4. QED
    BY <2>2, <2>3 DEF IInv
<1>3. QED
  BY <1>1, <1>2, PTL DEF Spec

\* The channel, its call and the wire keep their types; CallMethod makes at
\* most maxRetries_ + 1 attempts.
THEOREM ChannelTypes ==
    Spec => []TypeOK
<1>1. IInv => TypeOK
  BY DEF IInv
<1>2. QED
  BY <1>1, Invariance, PTL

\* A successful call has its own response, from a method that ran, for any
\* number of late responses and lost connections (waitResponse).
THEOREM ResponseIsOwn ==
    Spec => []OwnResponse
<1>1. IInv => OwnResponse
  BY DEF IInv
<1>2. QED
  BY <1>1, Invariance, PTL

\* A call whose response was parsed is reported as successful (the Reset of
\* every attempt in CallMethod).
THEOREM SuccessIsReported ==
    Spec => []SuccessReported
<1>1. IInv => SuccessReported
  BY DEF IInv
<1>2. QED
  BY <1>1, Invariance, PTL

\* The server runs the method at most maxRetries_ + 1 times for a call
\* (CallMethod's attempt loop and handleRequest).
THEOREM ExecutionsAreBounded ==
    Spec => []ExecutionsBounded
<1>1. IInv => ExecutionsBounded
  <2> SUFFICES ASSUME IInv, NEW c \in Calls
               PROVE  executions[c] <= maxRetries + 1
    BY DEF ExecutionsBounded
  <2>1. TypeOK /\ executions[c] + Cardinality(Outstanding(c)) <= Attempts(c)
    BY DEF IInv, CountInv
  <2>2. Cardinality(Outstanding(c)) \in Nat
    BY <2>1, OutstandingFinite, FS_CardinalityType
  <2>3. Attempts(c) <= maxRetries + 1 /\ maxRetries \in Nat
    BY <2>1, ChannelAssumption, SMTT(60) DEF Attempts, TypeOK
  <2>4. executions[c] \in Nat /\ Attempts(c) \in Nat
    BY <2>1, AttemptsNat DEF TypeOK
  <2>5. QED
    BY <2>1, <2>2, <2>3, <2>4, SMTT(60)
<1>2. QED
  BY <1>1, Invariance, PTL

=============================================================================
