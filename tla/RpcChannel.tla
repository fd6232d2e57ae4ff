------------------------------ MODULE RpcChannel ------------------------------
(***************************************************************************)
(* The synchronous client of src/rpc/RpcChannel.cpp against the server of  *)
(* src/rpc/RpcServer.cpp.                                                  *)
(*                                                                         *)
(* ioMutex_ is held for a whole CallMethod, so the client is one thread of *)
(* control that takes calls one after the other.  The server decodes       *)
(* requests in order but its pool runs them in any order, and may close or *)
(* lose the connection at any point, also in the middle of a response.     *)
(* On the wire a response is two pieces, its head (the 24-byte header and  *)
(* the start of the body) and its tail, because readFd may return either   *)
(* side of any boundary.                                                   *)
(***************************************************************************)
EXTENDS Integers, Sequences, FiniteSets

CONSTANTS
    Calls,          \* the calls ever made through the channel
    maxRetries,     \* maxRetries_
    MaxConns,       \* bound: connections the server accepts in a behaviour
    SendRoom,       \* requests the buffers of the two kernels hold
    None

ASSUME ChannelAssumption ==
    /\ maxRetries \in Nat
    /\ MaxConns \in Nat
    /\ SendRoom \in Nat \ {0}
    /\ None \notin Calls \cup {"ok", "failed"}

VARIABLES
    \* the client
    pc, cur, attempt, seq, nextSeq, fd, inputBuffer, controller,
    expired,        \* the deadline of waitResponse has passed
    \* the connection fd, as seen from the client: "open", "fin", "rst"
    peer, toServer, toClient,
    \* the server: connections accepted, requests in its thread pool
    conns, working,
    \* history: what each caller was told, and which body it got
    result, got, executions, mixed

client == <<pc, cur, attempt, seq, nextSeq, fd, inputBuffer, controller, expired>>
wire == <<peer, toServer, toClient>>
history == <<result, got, executions, mixed>>
vars == <<client, wire, conns, working, history>>

\* What the caller's controller says: Failed() or not.  The channel never looks
\* at the ErrorCode it stores.
Codes == {"ok", "failed"}

Init ==
    /\ pc = "idle" /\ cur = None /\ attempt = 0 /\ seq = 0 /\ nextSeq = 1
    /\ fd = 0 /\ inputBuffer = <<>> /\ controller = "ok"
    /\ expired = FALSE
    /\ peer = "open" /\ toServer = <<>> /\ toClient = <<>>
    /\ conns = 0 /\ working = {}
    /\ result = [c \in Calls |-> None] /\ got = [c \in Calls |-> None]
    /\ executions = [c \in Calls |-> 0]
    /\ mixed = FALSE

-----------------------------------------------------------------------------
(* CallMethod.                                                             *)

\* Fault: the controller keeps the failure of an earlier attempt.
ResetForgotten == UNCHANGED controller

\* RpcController::Reset
Reset == controller' = "ok"

\* CallMethod is entered: Reset, then connect().
Begin(c) ==
    /\ pc = "idle"
    /\ result[c] = None
    /\ cur' = c
    /\ Reset
    /\ pc' = "connect"
    /\ UNCHANGED <<attempt, seq, nextSeq, fd, inputBuffer, expired, wire, conns,
                   working, history>>

\* CallMethod returns with the caller's controller at `code`, which done->Run()
\* lets the caller see; the locals and the controller are the caller's again.
Finish(code) ==
    /\ result' = [result EXCEPT ![cur] = code]
    /\ cur' = None /\ attempt' = 0 /\ seq' = 0 /\ controller' = "ok"
    /\ expired' = FALSE
    /\ pc' = "idle"

\* connect() keeps an fd it already has.
ConnectReuse ==
    /\ pc = "connect"
    /\ fd # 0
    /\ pc' = "send"
    /\ UNCHANGED <<cur, attempt, seq, nextSeq, fd, inputBuffer, controller, expired,
                   wire, conns, working, history>>

ConnectNew ==
    /\ pc = "connect"
    /\ fd = 0
    /\ conns < MaxConns
    /\ conns' = conns + 1
    /\ fd' = conns + 1
    /\ peer' = "open" /\ toServer' = <<>> /\ toClient' = <<>>
    /\ pc' = "send"
    /\ UNCHANGED <<cur, attempt, seq, nextSeq, inputBuffer, controller, expired,
                   working, history>>

ConnectFails ==
    /\ pc = "connect"
    /\ fd = 0
    /\ Finish("failed")
    /\ UNCHANGED <<nextSeq, fd, inputBuffer, wire, conns, working, got,
                   executions, mixed>>

\* sendAll: the kernel takes the bytes also when the server has closed its
\* side; they are lost then, and ResetArrives may follow.
sendAll == peer # "rst"

\* ::send on the blocking socket: nothing bounds the time it takes while the
\* server does not read and the buffers of both kernels are full.
SendBlocks == peer = "open" /\ Len(toServer) >= SendRoom

\* One turn of the attempt loop up to the deadline: Reset, a new seq, the
\* request.
Send ==
    /\ pc = "send"
    /\ sendAll /\ ~SendBlocks
    /\ Reset
    /\ seq' = nextSeq
    /\ nextSeq' = nextSeq + 1
    /\ toServer' = IF peer = "open"
                   THEN Append(toServer, [seq |-> nextSeq, call |-> cur])
                   ELSE toServer
    /\ expired' = FALSE
    /\ pc' = "wait"
    /\ UNCHANGED <<cur, attempt, fd, inputBuffer, peer, toClient, conns, working,
                   history>>

\* sendAll fails: the call fails and the fd is closed.
SendFails ==
    /\ pc = "send"
    /\ ~sendAll
    /\ nextSeq' = nextSeq + 1
    /\ fd' = 0
    /\ peer' = "open" /\ toServer' = <<>> /\ toClient' = <<>>
    /\ Finish("failed")
    /\ UNCHANGED <<inputBuffer, conns, working, got, executions, mixed>>

-----------------------------------------------------------------------------
(* waitResponse.                                                           *)

\* Fault: one attempt too many.
MayRetryOnceMore == attempt <= maxRetries

\* The condition of the attempt loop, after ++attempt.
MayRetry == attempt < maxRetries

\* Time passes, at whatever place of its loop waitResponse is.
Expire ==
    /\ pc \in {"wait", "decode"}
    /\ ~expired
    /\ expired' = TRUE
    /\ UNCHANGED <<pc, cur, attempt, seq, nextSeq, fd, inputBuffer, controller, wire,
                   conns, working, history>>

\* The deadline has passed at the top of the loop or in poll(): the only failure
\* that is retried.
Timeout ==
    /\ pc = "wait"
    /\ expired
    /\ \/ /\ MayRetry
          /\ attempt' = attempt + 1
          /\ controller' = "failed"
          /\ expired' = FALSE
          /\ pc' = "send"
          /\ UNCHANGED <<cur, seq, result>>
       \/ /\ ~MayRetry
          /\ Finish("failed")
    /\ UNCHANGED <<nextSeq, fd, inputBuffer, wire, conns, working, got,
                   executions, mixed>>

\* POLLERR or POLLHUP, or a read of 0 bytes.  The fd stays as it is.
Closed ==
    /\ pc = "wait" /\ ~expired
    /\ peer = "rst" \/ (peer = "fin" /\ toClient = <<>>)
    /\ Finish("failed")
    /\ UNCHANGED <<nextSeq, fd, inputBuffer, wire, conns, working, got,
                   executions, mixed>>

\* poll() itself fails.
PollFails ==
    /\ pc = "wait" /\ ~expired
    /\ Finish("failed")
    /\ UNCHANGED <<nextSeq, fd, inputBuffer, wire, conns, working, got,
                   executions, mixed>>

\* readFd returns some of the bytes that have arrived.
Read ==
    /\ pc = "wait" /\ ~expired
    /\ peer # "rst"
    /\ \E n \in 1..Len(toClient) :
          /\ inputBuffer' = inputBuffer \o SubSeq(toClient, 1, n)
          /\ toClient' = SubSeq(toClient, n + 1, Len(toClient))
    /\ pc' = "decode"
    /\ UNCHANGED <<cur, attempt, seq, nextSeq, fd, controller, expired, peer, toServer,
                   conns, working, history>>

\* readFd returns bytes that do not complete a piece.
ReadPart ==
    /\ pc = "wait" /\ ~expired
    /\ peer # "rst" /\ toClient # <<>>
    /\ pc' = "decode"
    /\ UNCHANGED <<cur, attempt, seq, nextSeq, fd, inputBuffer, controller, expired,
                   wire, conns, working, history>>

\* The head at the front of the buffer is followed by the bytes of another
\* response: its own tail was lost with its connection.
Broken ==
    /\ Len(inputBuffer) >= 2
    /\ inputBuffer[1].part = "head"
    /\ inputBuffer[2].seq # inputBuffer[1].seq

\* Fault: every turn of the loop starts a timeout of its own.
PollAnew == pc' = "wait" /\ expired' = FALSE

\* tryDecode returned nothing: back to the top of the loop of waitResponse, with
\* the deadline that was set before it.
PollAgain == pc' = "wait" /\ UNCHANGED expired

\* tryDecode finds less than the message announced and consumes nothing.
DecodeHalf ==
    /\ pc = "decode"
    /\ inputBuffer # <<>> => inputBuffer[1].part = "head"
    /\ Len(inputBuffer) < 2 \/ Broken
    /\ PollAgain
    /\ UNCHANGED <<cur, attempt, seq, nextSeq, fd, inputBuffer, controller,
                   wire, conns, working, history>>

\* tryDecode throws on a wrong magic number, consuming nothing.
DecodeThrows ==
    /\ pc = "decode"
    /\ inputBuffer # <<>>
    /\ inputBuffer[1].part = "tail"
    /\ Finish("failed")
    /\ UNCHANGED <<nextSeq, fd, inputBuffer, wire, conns, working, got,
                   executions, mixed>>

\* Fault: the seq of a response is not compared.
MatchesAny(head) == TRUE

\* The response is to the attempt that waits.
Matches(head) == head.seq = seq

\* tryDecode consumes a head and as many bytes after it as the head announces,
\* whatever response they belong to: behind a broken head that may be part of
\* the next response or all of it.  A response with the seq of this attempt
\* ends the call, with the controller as it stands; any other is dropped.
Decode ==
    /\ pc = "decode"
    /\ Len(inputBuffer) >= 2
    /\ inputBuffer[1].part = "head"
    /\ \E n \in IF Broken THEN {2, 3} ELSE {2} :
          inputBuffer' = SubSeq(inputBuffer, n + 1, Len(inputBuffer))
    /\ mixed' = (mixed \/ Broken)
    /\ LET head == inputBuffer[1] IN
       \/ /\ Matches(head)
          /\ Finish(IF head.ok THEN controller ELSE "failed")
          /\ got' = IF head.ok THEN [got EXCEPT ![cur] = inputBuffer[2].call]
                               ELSE got
       \/ /\ ~Matches(head)
          /\ UNCHANGED <<pc, cur, attempt, seq, controller, expired, result, got>>
    /\ UNCHANGED <<nextSeq, fd, wire, conns, working, executions>>

-----------------------------------------------------------------------------
(* RpcServer.                                                              *)

\* sendEnvelope: the response goes out if the connection it answers is open.
Respond(r, success) ==
    toClient' =
        IF r.conn = fd /\ peer = "open"
        THEN toClient \o <<[part |-> "head", seq |-> r.seq, call |-> r.call,
                            ok |-> success],
                           [part |-> "tail", seq |-> r.seq, call |-> r.call,
                            ok |-> success]>>
        ELSE toClient

\* onMessage: decode one request in the loop thread and submit it to the pool,
\* or answer kSystem if the pool does not take it.
OnMessage ==
    /\ fd # 0 /\ peer = "open"
    /\ toServer # <<>>
    /\ LET r == [conn |-> fd, seq |-> Head(toServer).seq,
                 call |-> Head(toServer).call]
       IN  \/ /\ working' = working \cup {r}
              /\ UNCHANGED toClient
           \/ /\ Respond(r, FALSE)
              /\ UNCHANGED working
    /\ toServer' = Tail(toServer)
    /\ UNCHANGED <<client, peer, conns, history>>

\* handleRequest on a pool thread: a request that does not parse or names no
\* method is answered without running anything; otherwise the method runs.  An
\* exception it throws ends up in the future nobody reads: no answer is sent.
handleRequest(r) ==
    /\ working' = working \ {r}
    /\ \/ /\ Respond(r, FALSE)
          /\ UNCHANGED executions
       \/ /\ (\E success \in BOOLEAN : Respond(r, success)) \/ UNCHANGED toClient
          /\ executions' = [executions EXCEPT ![r.call] = @ + 1]
    /\ UNCHANGED <<client, peer, toServer, conns, result, got, mixed>>

\* The server closes the connection or dies, losing what it had not sent; a
\* process that dies takes its queued requests with it.
ServerCloses ==
    /\ fd # 0 /\ peer = "open"
    /\ peer' = "fin"
    /\ toServer' = <<>>
    /\ \E n \in 0..Len(toClient) : toClient' = SubSeq(toClient, 1, n)
    /\ working' \in {working, {}}
    /\ UNCHANGED <<client, conns, history>>

\* The kernel of the peer resets the connection, and what the client had not
\* read is gone.
ResetArrives ==
    /\ fd # 0 /\ peer # "rst"
    /\ peer' = "rst" /\ toServer' = <<>> /\ toClient' = <<>>
    /\ working' \in {working, {}}
    /\ UNCHANGED <<client, conns, history>>

-----------------------------------------------------------------------------

ClientStep ==
    \/ ConnectReuse \/ ConnectNew \/ ConnectFails \/ Send \/ SendFails
    \/ Timeout \/ Closed \/ PollFails \/ Read \/ ReadPart
    \/ DecodeHalf \/ DecodeThrows \/ Decode

Next ==
    \/ \E c \in Calls : Begin(c)
    \/ ClientStep \/ Expire
    \/ OnMessage \/ ServerCloses \/ ResetArrives
    \/ \E r \in working : handleRequest(r)

Spec == Init /\ [][Next]_vars

\* The calling thread runs whenever it can, and time passes.  The server owes the
\* client nothing, not even to read its requests.
FairSpec == Spec /\ WF_vars(ClientStep) /\ WF_vars(Expire)

-----------------------------------------------------------------------------
(* Properties.                                                             *)

Pieces == [part : {"head", "tail"}, seq : Nat, call : Calls, ok : BOOLEAN]

\* The values of the channel's members, of the call in progress and of what is
\* on the wire; a call never makes more than maxRetries_ + 1 attempts.
TypeOK ==
    /\ pc \in {"idle", "connect", "send", "wait", "decode"}
    /\ cur \in Calls \cup {None}
    /\ (cur = None) = (pc = "idle")
    /\ attempt \in 0..maxRetries
    /\ seq \in Nat /\ nextSeq \in Nat
    /\ conns \in 0..MaxConns /\ fd \in 0..conns
    /\ inputBuffer \in Seq(Pieces) /\ toClient \in Seq(Pieces)
    /\ controller \in Codes /\ expired \in BOOLEAN
    /\ peer \in {"open", "fin", "rst"}
    /\ toServer \in Seq([seq : Nat, call : Calls])
    /\ working \subseteq [conn : Nat, seq : Nat, call : Calls]
    /\ result \in [Calls -> Codes \cup {None}]
    /\ got \in [Calls -> Calls \cup {None}]
    /\ executions \in [Calls -> Nat]
    /\ mixed \in BOOLEAN

\* A call that is reported as successful got the response to itself, from a
\* method that ran, however many late responses to earlier attempts and
\* earlier calls arrive in between: the seq comparison in waitResponse.
OwnResponse ==
    \A c \in Calls :
        result[c] = "ok" => got[c] = c /\ executions[c] >= 1

\* A call whose response was parsed is reported as successful: the failure
\* mark of an attempt that timed out does not outlive it (the Reset in the
\* attempt loop of CallMethod).
SuccessReported ==
    \A c \in Calls : got[c] # None => result[c] = "ok"

\* The server runs the method at most once for each attempt of the client:
\* timeout retries are the only source of repeated execution.
ExecutionsBounded ==
    \A c \in Calls : executions[c] <= maxRetries + 1

\* Every CallMethod returns, whatever the server sends, withholds or lets trickle
\* in: the deadline of a wait is absolute and the attempts run out.  The one way
\* to be stuck is ::send, which has no timeout, on a connection whose server has
\* stopped reading.
Blocked == pc = "send" /\ SendBlocks
CallReturns == []<>~Blocked => (pc # "idle" ~> pc = "idle")

\* "a new seq for every attempt: old responses do not match, no mixing of
\* packets" (the comment on nextSeq_++): no message is put together from the
\* bytes of two responses.
NoMixing == ~mixed
=============================================================================
