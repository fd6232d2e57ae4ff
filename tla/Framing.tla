------------------------------- MODULE Framing --------------------------------
(***************************************************************************)
(* Messages over a byte stream: src/codec/Codec.cpp on the Buffer of       *)
(* Buffer.tla, from encode at the sender to the decode loops of            *)
(* RpcServer::onMessage and RpcChannel::waitResponse.  TCP delivers the    *)
(* bytes in any pieces.                                                    *)
(*                                                                         *)
(* The header has the magic number, the version and the type as a byte     *)
(* each, and seq and bodyLen as big-endian numbers of SeqWidth and         *)
(* LenWidth bytes; flags and reserved are written as 0 and never looked at.*)
(***************************************************************************)
EXTENDS Buffer

CONSTANTS
    Base,               \* Byte = 0..Base-1
    SeqWidth, LenWidth, \* 8 and 4
    kMagic, kProtocolVersion,
    kMaxBodySize,
    Messages,           \* [type, seq, body] the sender may send
    MaxMessages         \* bound: messages sent in a behaviour

ASSUME CodecAssumption ==
    /\ Base \in Nat /\ Byte = 0..(Base - 1)
    /\ SeqWidth \in Nat /\ LenWidth \in Nat
    /\ kMagic \in Byte /\ kProtocolVersion \in Byte
    /\ kMaxBodySize \in Nat /\ MaxMessages \in Nat
    /\ Messages \subseteq [type : Byte, seq : 0..(Base^SeqWidth - 1), body : Seq(Byte)]
    /\ \A m \in Messages : Len(m.body) < Base^LenWidth

\* Arithmetic that the provers do not know.
ASSUME PowerAssumption ==
    /\ Base^0 = 1
    /\ \A n \in {SeqWidth, LenWidth} : \A i \in 0..n :
          Base^i \in Nat \ {0} /\ Base^(i + 1) = Base * Base^i

VARIABLES
    reader,             \* whose decode loop it is: "server" or "client"
    sent, stream,       \* messages passed to encode, and their bytes
    inbound,            \* bytes on their way or in the socket
    in,                 \* inputBuffer_
    pc,                 \* "poll" or "decode"
    decoded, consumed,  \* messages tryDecode returned, and the bytes it took
    refused             \* tryDecode has thrown

vars == <<reader, sent, stream, inbound, in, pc, decoded, consumed, refused>>

kHeaderSize == 3 + SeqWidth + LenWidth

-----------------------------------------------------------------------------
(* Codec.                                                                  *)

\* htons, htonl, htobe64: the low n bytes of v, the highest first.
ToBytes(v, n) == [i \in 1..n |-> (v \div Base^(n - i)) % Base]

\* Fault: the bytes are read in the order of the host.
FromHostBytes(s) ==
    LET high[i \in 0..Len(s)] ==
            IF i = 0 THEN 0 ELSE high[i - 1] * Base + s[Len(s) + 1 - i]
    IN  high[Len(s)]

\* ntohs, ntohl, be64toh
FromBytes(s) ==
    LET high[i \in 0..Len(s)] == IF i = 0 THEN 0 ELSE high[i - 1] * Base + s[i]
    IN  high[Len(s)]

\* encode: field after field is appended, then the body.
encode(m, out) ==
    LET magic == append(out, <<kMagic>>)
        version == append(magic, <<kProtocolVersion>>)
        type == append(version, <<m.type>>)
        seq == append(type, ToBytes(m.seq, SeqWidth))
        len == append(seq, ToBytes(Len(m.body), LenWidth))
    IN  append(len, m.body)

\* The bytes of m: what the buffer of its own holds that it is encoded into.
Encoded ==
    [m \in Messages |->
        LET out == encode(m, NewBuffer) IN Taken(out, readableBytes(out))]

\* The fields of the header that stands at the front of p.
Seq_(p) == FromBytes(SubSeq(p, 4, 3 + SeqWidth))
BodyLen(p) == FromBytes(SubSeq(p, 4 + SeqWidth, kHeaderSize))

\* Fault: a body of exactly the limit is refused.
InvalidAtLimit(p) ==
    p[1] # kMagic \/ p[2] # kProtocolVersion \/ BodyLen(p) \notin 0..(kMaxBodySize - 1)

\* The checks of tryDecode that throw; bodyLen is unsigned.
Invalid(p) ==
    p[1] # kMagic \/ p[2] # kProtocolVersion \/ BodyLen(p) \notin 0..kMaxBodySize

\* tryDecode finds less than a message.
Half(b) ==
    IF readableBytes(b) < kHeaderSize THEN TRUE
    ELSE /\ ~Invalid(Unread(b))
         /\ readableBytes(b) < kHeaderSize + BodyLen(Unread(b))

-----------------------------------------------------------------------------

Init ==
    /\ reader \in {"server", "client"}
    /\ sent = <<>> /\ stream = <<>> /\ inbound = <<>>
    /\ in = NewBuffer
    /\ pc = "poll"
    /\ decoded = <<>> /\ consumed = <<>>
    /\ refused = FALSE

\* A message is encoded and its bytes are written.
Send(m) ==
    /\ Len(sent) < MaxMessages
    /\ stream' = stream \o Encoded[m]
    /\ inbound' = inbound \o Encoded[m]
    /\ sent' = Append(sent, m)
    /\ UNCHANGED <<reader, in, pc, decoded, consumed, refused>>

\* The descriptor is readable: readFd takes some of what has arrived.
Read ==
    /\ pc = "poll"
    /\ \E n \in 1..Len(inbound) :
          /\ n <= ReadLimit(in)
          /\ in' = readFd(in, SubSeq(inbound, 1, n))
          /\ inbound' = SubSeq(inbound, n + 1, Len(inbound))
    /\ pc' = "decode"
    /\ UNCHANGED <<reader, sent, stream, decoded, consumed, refused>>

\* tryDecode returns nullopt and consumes nothing.
DecodeHalf ==
    /\ pc = "decode"
    /\ Half(in)
    /\ pc' = "poll"
    /\ UNCHANGED <<reader, sent, stream, inbound, in, decoded, consumed, refused>>

\* tryDecode throws and consumes nothing: onMessage shuts the connection down,
\* waitResponse fails the call; both read on when more arrives.
DecodeThrows ==
    /\ pc = "decode"
    /\ ~Half(in) /\ Invalid(Unread(in))
    /\ refused' = TRUE
    /\ pc' = "poll"
    /\ UNCHANGED <<reader, sent, stream, inbound, in, decoded, consumed>>

\* Fault: one message for each read.
OncePerRead == pc' = "poll"

\* while (auto msg = tryDecode(...)): onMessage after every message,
\* waitResponse after one that is not the response it waits for.
Again == UNCHANGED pc

\* waitResponse returns with the response it waited for.  What stands behind it
\* stays in the buffer until a later call has read more.
Return == reader = "client" /\ pc' = "poll"

\* tryDecode returns a message.
Decode ==
    /\ pc = "decode"
    /\ ~Half(in) /\ ~Invalid(Unread(in))
    /\ LET p == Unread(in)
           len == BodyLen(p)
       IN  /\ in' = retrieve(retrieve(in, kHeaderSize), len)
           /\ decoded' = Append(decoded,
                  [type |-> p[3], seq |-> Seq_(p),
                   body |-> Taken(retrieve(in, kHeaderSize), len)])
           /\ consumed' = consumed \o SubSeq(p, 1, kHeaderSize + len)
    /\ Again \/ Return
    /\ UNCHANGED <<reader, sent, stream, inbound, refused>>

Next ==
    \/ \E m \in Messages : Send(m)
    \/ Read \/ DecodeHalf \/ DecodeThrows \/ Decode

Spec == Init /\ [][Next]_vars

\* Data that has arrived is read, and the decode loop runs on.
FairSpec == Spec /\ WF_vars(Read) /\ WF_vars(DecodeHalf \/ DecodeThrows \/ Decode)

-----------------------------------------------------------------------------
(* Properties.                                                             *)

\* The values of the buffer, of the streams and of the decode loop; the
\* indices of the buffer stay in order and inside its vector.
TypeOK ==
    /\ reader \in {"server", "client"}
    /\ sent \in Seq(Messages)
    /\ stream \in Seq(Byte) /\ inbound \in Seq(Byte) /\ consumed \in Seq(Byte)
    /\ Valid(in)
    /\ pc \in {"poll", "decode"}
    /\ decoded \in Seq([type : Byte, seq : Nat, body : Seq(Byte)])
    /\ refused \in BOOLEAN

\* No byte is lost, repeated or moved on its way from encode through the
\* socket, readFd's second buffer, moves and growth of the vector to tryDecode.
StreamConserved == stream = consumed \o Unread(in) \o inbound

\* Whatever pieces the stream arrives in, tryDecode returns the messages that
\* were encoded, each once, in order and unchanged.
Queue == INSTANCE MessageQueue WITH received <- decoded
ImplementsQueue == Queue!Spec

\* tryDecode throws on nothing that encode made, but for a body over the limit,
\* which encode does not check, and then at that message.
RefusesOversizedOnly ==
    refused => /\ Len(decoded) < Len(sent)
               /\ Len(sent[Len(decoded) + 1].body) > kMaxBodySize

\* At the server, while messages are well-formed, the vector stays within the
\* largest incomplete message and one read, however long the connection lives:
\* onMessage leaves no whole message unread.
GrowthBounded ==
    LET incomplete == kHeaderSize + kMaxBodySize - 1
        needed == incomplete + 2 * ExtraSize - 1
    IN  reader = "server" /\ ~refused =>
            Len(in.data) <= kCheapPrepend
                            + (IF kInitialSize > needed THEN kInitialSize ELSE needed)

\* The server decodes every message in the end, unless one before it was
\* refused: no read leaves a whole message behind for a read that may not come.
AllDecoded ==
    \A n \in 1..MaxMessages :
        reader = "server" /\ Len(sent) >= n ~> (Len(decoded) >= n \/ refused)
=============================================================================
