---------------------------- MODULE FramingProofs -----------------------------
(***************************************************************************)
(* TLAPS proofs about Buffer and Framing, for every size of the buffer, of *)
(* readFd's second buffer and of the messages, and every way of cutting    *)
(* the stream.                                                             *)
(***************************************************************************)
EXTENDS Framing, SequenceTheorems, TLAPS

\* How long a prover may take over a step that names none.
USE ZenonT(60), SMTT(60)

\* A part of a sequence, by its elements.
LEMMA Part ==
    ASSUME NEW S, NEW s \in Seq(S), NEW m \in Nat \ {0}, NEW n \in 0..Len(s)
    PROVE  /\ SubSeq(s, m, n) \in Seq(S)
           /\ Len(SubSeq(s, m, n)) = IF m <= n THEN n - m + 1 ELSE 0
           /\ \A i \in 1..(n - m + 1) : SubSeq(s, m, n)[i] = s[m + i - 1]
<1>1. \A i \in m..n : s[i] \in S
  BY SMTT(60)
<1>2. QED
  BY <1>1, SubSeqProperties, SMTT(60)

\* What lies between two indices, by its elements.
LEMMA Between ==
    ASSUME NEW S, NEW data \in Seq(S), NEW r \in Nat, NEW w \in Nat,
           r <= w, w <= Len(data)
    PROVE  /\ SubSeq(data, r + 1, w) \in Seq(S)
           /\ Len(SubSeq(data, r + 1, w)) = w - r
           /\ \A i \in 1..(w - r) : SubSeq(data, r + 1, w)[i] = data[r + i]
<1>1. r + 1 \in Nat \ {0} /\ w \in 0..Len(data)
  BY SMTT(60)
<1>2. QED
  BY <1>1, Part, SMTT(60)

\* The rest of a part, and what a prefix and the rest make together.
LEMMA PartOfPart ==
    ASSUME NEW S, NEW d \in Seq(S), NEW r \in Nat, NEW w \in Nat, NEW len \in Nat,
           r + len <= w, w <= Len(d)
    PROVE  SubSeq(d, (r + len) + 1, w) = SubSeq(SubSeq(d, r + 1, w), len + 1, w - r)
<1> DEFINE u == SubSeq(d, r + 1, w)
<1>1. /\ u \in Seq(S) /\ Len(u) = w - r
      /\ \A i \in 1..(w - r) : u[i] = d[r + i]
  BY Between, SMTT(60)
<1>2. /\ SubSeq(d, (r + len) + 1, w) \in Seq(S)
      /\ Len(SubSeq(d, (r + len) + 1, w)) = w - (r + len)
      /\ \A i \in 1..(w - (r + len)) :
            SubSeq(d, (r + len) + 1, w)[i] = d[(r + len) + i]
  BY Between, SMTT(60)
<1> HIDE DEF u
<1>3. /\ SubSeq(u, len + 1, w - r) \in Seq(S)
      /\ Len(SubSeq(u, len + 1, w - r)) = (w - r) - len
      /\ \A i \in 1..((w - r) - len) : SubSeq(u, len + 1, w - r)[i] = u[len + i]
  <2>1. w - r \in Nat /\ len <= w - r /\ w - r <= Len(u)
    BY <1>1, SMTT(60)
  <2>2. QED
    BY <1>1, <2>1, Between, SMTT(60)
<1>4. ASSUME NEW i \in 1..(w - (r + len))
      PROVE  SubSeq(d, (r + len) + 1, w)[i] = SubSeq(u, len + 1, w - r)[i]
  <2>1. i \in 1..((w - r) - len) /\ len + i \in 1..(w - r)
    BY SMTT(60)
  <2>2. d[(r + len) + i] = d[r + (len + i)]
    BY SMTT(60)
  <2>3. QED
    BY <1>1, <1>2, <1>3, <2>1, <2>2
<1>5. SubSeq(d, (r + len) + 1, w) = SubSeq(u, len + 1, w - r)
  <2>1. w - (r + len) = (w - r) - len
    BY SMTT(60)
  <2>2. QED
    BY <1>2, <1>3, <1>4, <2>1, SeqEqual
<1>6. QED
  BY <1>5 DEF u

\* A sequence is what comes before a cut and what comes after it.
LEMMA Cut ==
    ASSUME NEW S, NEW s \in Seq(S), NEW n \in 0..Len(s)
    PROVE  SubSeq(s, 1, n) \o SubSeq(s, n + 1, Len(s)) = s
<1>1. 1 \in 1..Len(s)+1 /\ n \in 1-1..Len(s) /\ Len(s) \in n..Len(s)
  BY SMTT(60)
<1>2. SubSeq(s, 1, n) \o SubSeq(s, n + 1, Len(s)) = SubSeq(s, 1, Len(s))
  BY <1>1, ConcatAdjacentSubSeq, Zenon
<1>3. QED
  BY <1>2, SubSeqFull, Zenon

\* std::copy overwrites its target and nothing else.
LEMMA CopyElements ==
    ASSUME NEW S, NEW s \in Seq(S), NEW data \in Seq(S), NEW at \in Nat,
           at + Len(s) <= Len(data)
    PROVE  /\ Copy(s, data, at) \in Seq(S)
           /\ Len(Copy(s, data, at)) = Len(data)
           /\ \A i \in 1..Len(data) :
                 Copy(s, data, at)[i] = IF i > at /\ i <= at + Len(s)
                                        THEN s[i - at] ELSE data[i]
<1> DEFINE front == SubSeq(data, 1, at)
           back == SubSeq(data, at + Len(s) + 1, Len(data))
           start == front \o s
<1>1. /\ front \in Seq(S) /\ Len(front) = at
      /\ \A i \in 1..at : front[i] = data[i]
  BY Part, SMTT(60)
<1>2. /\ back \in Seq(S) /\ Len(back) = Len(data) - at - Len(s)
      /\ \A i \in 1..(Len(data) - at - Len(s)) : back[i] = data[at + Len(s) + i]
  BY Part, SMTT(60)
<1> HIDE DEF front, back
<1>3. /\ start \in Seq(S) /\ Len(start) = at + Len(s)
      /\ \A i \in 1..(at + Len(s)) :
            start[i] = IF i <= at THEN front[i] ELSE s[i - at]
  BY <1>1, ConcatProperties
<1>5. Copy(s, data, at) = start \o back
  BY DEF Copy, front, back
<1> HIDE DEF start
<1>4. /\ start \o back \in Seq(S)
      /\ Len(start \o back) = Len(data)
      /\ \A i \in 1..Len(data) :
            (start \o back)[i] = IF i <= at + Len(s) THEN start[i]
                                 ELSE back[i - (at + Len(s))]
  BY <1>2, <1>3, ConcatProperties, SMTT(60)
<1>6. ASSUME NEW i \in 1..Len(data)
      PROVE  (start \o back)[i] =
                 IF i > at /\ i <= at + Len(s) THEN s[i - at] ELSE data[i]
  BY <1>1, <1>2, <1>3, <1>4, SMTT(60)
<1>7. QED
  BY <1>4, <1>5, <1>6

\* After a copy to index w, the bytes from r on are the old ones and the copied.
LEMMA CopyExtends ==
    ASSUME NEW S, NEW s \in Seq(S), NEW d \in Seq(S), NEW r \in Nat, NEW w \in Nat,
           r <= w, w + Len(s) <= Len(d)
    PROVE  SubSeq(Copy(s, d, w), r + 1, w + Len(s)) = SubSeq(d, r + 1, w) \o s
<1> DEFINE c == Copy(s, d, w)
           u == SubSeq(d, r + 1, w)
           n == w + Len(s)
<1>1. /\ c \in Seq(S) /\ Len(c) = Len(d)
      /\ \A i \in 1..Len(d) : c[i] = IF i > w /\ i <= w + Len(s) THEN s[i - w] ELSE d[i]
  BY CopyElements, SMTT(60)
<1>2. /\ u \in Seq(S) /\ Len(u) = w - r /\ \A i \in 1..(w - r) : u[i] = d[r + i]
  <2>1. w <= Len(d)
    BY SMTT(60)
  <2>2. QED
    BY <2>1, Between
<1>3. n \in Nat /\ n = w + Len(s) /\ r <= n /\ n <= Len(d) /\ Len(s) \in Nat
  BY SMTT(60)
<1> HIDE DEF c, u, n
<1>4. /\ SubSeq(c, r + 1, n) \in Seq(S) /\ Len(SubSeq(c, r + 1, n)) = n - r
      /\ \A i \in 1..(n - r) : SubSeq(c, r + 1, n)[i] = c[r + i]
  BY <1>1, <1>3, Between, SMTT(60)
<1>5. /\ u \o s \in Seq(S) /\ Len(u \o s) = n - r
      /\ \A i \in 1..(n - r) : (u \o s)[i] = IF i <= w - r THEN u[i] ELSE s[i - (w - r)]
  <2>1. Len(u) = w - r /\ Len(u) + Len(s) = n - r
    BY <1>2, <1>3, SMTT(60)
  <2>2. /\ u \o s \in Seq(S) /\ Len(u \o s) = Len(u) + Len(s)
        /\ \A i \in 1..(Len(u) + Len(s)) :
              (u \o s)[i] = IF i <= Len(u) THEN u[i] ELSE s[i - Len(u)]
    BY <1>2, ConcatProperties, ZenonT(60)
  <2>3. QED
    BY <2>1, <2>2, Zenon
<1>6. ASSUME NEW i \in 1..(n - r)
      PROVE  SubSeq(c, r + 1, n)[i] = (u \o s)[i]
  <2>1. CASE i <= w - r
    <3>1. i \in 1..(w - r) /\ r + i \in 1..Len(d) /\ ~(r + i > w)
      BY <2>1, <1>3, SMTT(60)
    <3>2. c[r + i] = d[r + i]
      BY <1>1, <3>1
    <3>3. QED
      BY <1>2, <1>4, <1>5, <2>1, <3>1, <3>2
  <2>2. CASE i > w - r
    <3>1. /\ ~(i <= w - r) /\ r + i \in 1..Len(d) /\ r + i > w
          /\ r + i <= w + Len(s) /\ (r + i) - w = i - (w - r)
      BY <2>2, <1>3, SMTT(60)
    <3>2. c[r + i] = s[i - (w - r)]
      BY <1>1, <3>1
    <3>3. QED
      BY <1>4, <1>5, <3>1, <3>2, ZenonT(60)
  <2>3. i <= w - r \/ i > w - r
    BY <1>3, SMTT(60)
  <2>4. QED
    BY <2>1, <2>2, <2>3, ZenonT(60)
<1>7. SubSeq(c, r + 1, n) = u \o s
  BY <1>4, <1>5, <1>6, SeqEqual, ZenonT(60)
<1>8. QED
  BY <1>7, ZenonT(60) DEF c, u, n

\* It does not matter in which order runs of bytes are put together.
LEMMA Together ==
    ASSUME NEW a \in Seq(Byte), NEW b \in Seq(Byte), NEW c \in Seq(Byte)
    PROVE  (a \o b) \o c = a \o (b \o c)
BY ConcatAssociative, SMTT(60)

\* Growing the vector appends zeros and keeps what lies before.
LEMMA ResizeKeeps ==
    ASSUME NEW d \in Seq(Byte), NEW n \in Nat, Len(d) <= n,
           NEW r \in Nat, NEW w \in Nat, r <= w, w <= Len(d)
    PROVE  /\ Resize(d, n) \in Seq(Byte) /\ Len(Resize(d, n)) = n
           /\ SubSeq(Resize(d, n), r + 1, w) = SubSeq(d, r + 1, w)
<1> DEFINE z == [i \in 1..(n - Len(d)) |-> 0]
           g == Resize(d, n)
<1>1. z \in Seq(Byte) /\ Len(z) = n - Len(d)
  BY BufferAssumption, SMTT(60)
<1>2. g = d \o z
  BY DEF Resize
<1> HIDE DEF z, g
<1>3. /\ g \in Seq(Byte) /\ Len(g) = n
      /\ \A i \in 1..Len(d) : g[i] = d[i]
  BY <1>1, <1>2, ConcatProperties, SMTT(60)
<1>4. /\ SubSeq(g, r + 1, w) \in Seq(Byte) /\ Len(SubSeq(g, r + 1, w)) = w - r
      /\ \A i \in 1..(w - r) : SubSeq(g, r + 1, w)[i] = g[r + i]
  <2>1. w <= Len(g)
    BY <1>3, SMTT(60)
  <2>2. QED
    BY <1>3, <2>1, Between, SMTT(60)
<1>5. /\ SubSeq(d, r + 1, w) \in Seq(Byte) /\ Len(SubSeq(d, r + 1, w)) = w - r
      /\ \A i \in 1..(w - r) : SubSeq(d, r + 1, w)[i] = d[r + i]
  BY Between
<1>6. ASSUME NEW i \in 1..(w - r)
      PROVE  SubSeq(g, r + 1, w)[i] = SubSeq(d, r + 1, w)[i]
  <2>1. r + i \in 1..Len(d)
    BY SMTT(60)
  <2>2. g[r + i] = d[r + i]
    BY <1>3, <2>1, Zenon
  <2>3. QED
    BY <1>4, <1>5, <2>2, Zenon
<1>7. SubSeq(g, r + 1, w) = SubSeq(d, r + 1, w)
  BY <1>4, <1>5, <1>6, SeqEqual, ZenonT(60)
<1>8. QED
  BY <1>3, <1>7 DEF g

\* A buffer by its members.
Members(d, r, w) == [data |-> d, r |-> r, w |-> w]

\* retrieveAll puts both indices back to kCheapPrepend.
LEMMA RetrieveAllMembers ==
    ASSUME NEW d, NEW r, NEW w
    PROVE  retrieveAll(Members(d, r, w)) = Members(d, kCheapPrepend, kCheapPrepend)
<1>1. retrieveAll(Members(d, r, w))
          = [[Members(d, r, w) EXCEPT !.r = kCheapPrepend] EXCEPT !.w = kCheapPrepend]
  BY DEF Members, retrieveAll
<1>2. [Members(d, r, w) EXCEPT !.r = kCheapPrepend] = Members(d, kCheapPrepend, w)
  BY SMTT(60) DEF Members
<1>3. [Members(d, kCheapPrepend, w) EXCEPT !.w = kCheapPrepend]
          = Members(d, kCheapPrepend, kCheapPrepend)
  BY SMTT(60) DEF Members
<1>4. QED
  BY <1>1, <1>2, <1>3, ZenonT(60)

\* Written copies behind writerIndex_ and moves that index only.
LEMMA WrittenMembers ==
    ASSUME NEW d, NEW r, NEW w, NEW s
    PROVE  Written(Members(d, r, w), s) = Members(Copy(s, d, w), r, w + Len(s))
<1>1. Written(Members(d, r, w), s)
          = [[Members(d, r, w) EXCEPT !.data = Copy(s, d, w)] EXCEPT !.w = w + Len(s)]
  BY DEF Members, Written
<1>2. [Members(d, r, w) EXCEPT !.data = Copy(s, d, w)] = Members(Copy(s, d, w), r, w)
  BY SMTT(60) DEF Members
<1>3. [Members(Copy(s, d, w), r, w) EXCEPT !.w = w + Len(s)]
          = Members(Copy(s, d, w), r, w + Len(s))
  BY SMTT(60) DEF Members
<1>4. QED
  BY <1>1, <1>2, <1>3, ZenonT(60)

\* A valid buffer is a vector and two indices in order.
LEMMA Opened ==
    ASSUME NEW b, Valid(b)
    PROVE  \E d \in Seq(Byte), r \in Nat, w \in Nat :
               /\ b = Members(d, r, w)
               /\ kCheapPrepend <= r /\ r <= w /\ w <= Len(d)
<1>1. /\ b.data \in Seq(Byte) /\ b.r \in Nat /\ b.w \in Nat
      /\ b = [data |-> b.data, r |-> b.r, w |-> b.w]
      /\ kCheapPrepend <= b.r /\ b.r <= b.w /\ b.w <= Len(b.data)
  BY DEF Valid
<1>2. QED
  BY <1>1, Zenon DEF Members

\* A vector and two indices in order are a valid buffer, with these sizes.
LEMMA Closed ==
    ASSUME NEW d \in Seq(Byte), NEW r \in Nat, NEW w \in Nat,
           kCheapPrepend <= r, r <= w, w <= Len(d)
    PROVE  /\ Valid(Members(d, r, w))
           /\ readableBytes(Members(d, r, w)) = w - r
           /\ writableBytes(Members(d, r, w)) = Len(d) - w
           /\ Unread(Members(d, r, w)) = SubSeq(d, r + 1, w)
<1>1. /\ Members(d, r, w).data = d /\ Members(d, r, w).r = r
      /\ Members(d, r, w).w = w
      /\ Members(d, r, w) \in [data : Seq(Byte), r : Nat, w : Nat]
  BY DEF Members
<1>2. QED
  BY <1>1 DEF Valid, readableBytes, writableBytes, Unread

\* readableBytes() counts the unread bytes.
LEMMA UnreadBytes ==
    ASSUME NEW b, Valid(b)
    PROVE  /\ Unread(b) \in Seq(Byte) /\ Len(Unread(b)) = readableBytes(b)
           /\ readableBytes(b) \in Nat
<1>1. PICK d \in Seq(Byte), r \in Nat, w \in Nat :
          /\ b = Members(d, r, w)
          /\ kCheapPrepend <= r /\ r <= w /\ w <= Len(d)
  BY Opened
<1>2. readableBytes(b) = w - r /\ Unread(b) = SubSeq(d, r + 1, w)
  BY <1>1, Closed
<1>3. /\ SubSeq(d, r + 1, w) \in Seq(Byte) /\ Len(SubSeq(d, r + 1, w)) = w - r
      /\ w - r \in Nat
  BY <1>1, Between, SMTT(60)
<1>4. QED
  BY <1>2, <1>3

\* retrieve(len) takes the first len unread bytes and leaves the others.
LEMMA RetrieveUnread ==
    ASSUME NEW b, Valid(b), NEW len \in Nat, len <= readableBytes(b)
    PROVE  /\ Valid(retrieve(b, len))
           /\ Unread(retrieve(b, len)) = SubSeq(Unread(b), len + 1, readableBytes(b))
           /\ readableBytes(retrieve(b, len)) = readableBytes(b) - len
           /\ retrieve(b, len).data = b.data
<1>1. PICK d \in Seq(Byte), r \in Nat, w \in Nat :
          /\ b = Members(d, r, w)
          /\ kCheapPrepend <= r /\ r <= w /\ w <= Len(d)
  BY Opened
<1>2. readableBytes(b) = w - r /\ Unread(b) = SubSeq(d, r + 1, w) /\ b.data = d
  BY <1>1, Closed DEF Members
<1>3. CASE len < w - r
  <2>1. retrieve(b, len) = Members(d, r + len, w)
    BY <1>1, <1>2, <1>3 DEF retrieve, Members
  <2>2. /\ Valid(Members(d, r + len, w))
        /\ readableBytes(Members(d, r + len, w)) = w - (r + len)
        /\ Unread(Members(d, r + len, w)) = SubSeq(d, (r + len) + 1, w)
    <3>1. r + len \in Nat /\ kCheapPrepend <= r + len /\ r + len <= w
      BY <1>1, <1>3, BufferAssumption, SMTT(60)
    <3>2. QED
      BY <1>1, <3>1, Closed
  <2>3. SubSeq(d, (r + len) + 1, w) = SubSeq(SubSeq(d, r + 1, w), len + 1, w - r)
    BY <1>1, <1>3, PartOfPart, SMTT(60)
  <2>4. Members(d, r + len, w).data = d /\ w - (r + len) = (w - r) - len
    BY <1>1, SMTT(60) DEF Members
  <2>5. QED
    BY <1>2, <2>1, <2>2, <2>3, <2>4
<1>4. CASE len = w - r
  <2>1. retrieve(b, len) = Members(d, kCheapPrepend, kCheapPrepend)
    <3>1. retrieve(b, len) = retrieveAll(b)
      BY <1>1, <1>2, <1>4, SMTT(60) DEF retrieve
    <3>2. retrieveAll(b) = Members(d, kCheapPrepend, kCheapPrepend)
      BY <1>1, RetrieveAllMembers
    <3>3. QED
      BY <3>1, <3>2
  <2>2. /\ Valid(Members(d, kCheapPrepend, kCheapPrepend))
        /\ readableBytes(Members(d, kCheapPrepend, kCheapPrepend)) = 0
        /\ Unread(Members(d, kCheapPrepend, kCheapPrepend))
               = SubSeq(d, kCheapPrepend + 1, kCheapPrepend)
    BY <1>1, Closed, BufferAssumption, SMTT(60)
  <2>3. SubSeq(d, kCheapPrepend + 1, kCheapPrepend) = << >>
    BY SubSeqEmpty, BufferAssumption, SMTT(60)
  <2>4. SubSeq(SubSeq(d, r + 1, w), len + 1, w - r) = << >>
    BY <1>1, <1>4, SubSeqEmpty, SMTT(60)
  <2>5. Members(d, kCheapPrepend, kCheapPrepend).data = d /\ (w - r) - len = 0
    BY <1>1, <1>4, SMTT(60) DEF Members
  <2>6. QED
    BY <1>2, <2>1, <2>2, <2>3, <2>4, <2>5, ZenonT(60)
<1>5. len < w - r \/ len = w - r
  BY <1>1, <1>2, SMTT(60)
<1>6. QED
  BY <1>3, <1>4, <1>5

\* Bytes written where there is room follow the unread ones.
LEMMA WrittenUnread ==
    ASSUME NEW b, Valid(b), NEW s \in Seq(Byte), Len(s) <= writableBytes(b)
    PROVE  /\ Valid(Written(b, s))
           /\ Unread(Written(b, s)) = Unread(b) \o s
           /\ readableBytes(Written(b, s)) = readableBytes(b) + Len(s)
           /\ writableBytes(Written(b, s)) = writableBytes(b) - Len(s)
           /\ Len(Written(b, s).data) = Len(b.data)
<1>1. PICK d \in Seq(Byte), r \in Nat, w \in Nat :
          /\ b = Members(d, r, w)
          /\ kCheapPrepend <= r /\ r <= w /\ w <= Len(d)
  BY Opened
<1>2. /\ readableBytes(b) = w - r /\ writableBytes(b) = Len(d) - w
      /\ Unread(b) = SubSeq(d, r + 1, w)
  BY <1>1, Closed
<1>3. b.data = d /\ b.w = w
  BY <1>1 DEF Members
<1> DEFINE c == Copy(s, d, w)
           n == w + Len(s)
<1>4. n \in Nat /\ n = w + Len(s) /\ r <= n /\ n <= Len(d) /\ Len(s) \in Nat
  BY <1>1, <1>2, SMTT(60)
<1>5. c \in Seq(Byte) /\ Len(c) = Len(d)
  BY <1>4, CopyElements
<1>6. SubSeq(c, r + 1, n) = SubSeq(d, r + 1, w) \o s
  BY <1>1, <1>4, CopyExtends, ZenonT(60)
<1>7. Written(b, s) = Members(c, r, n)
  BY <1>1, WrittenMembers, SMTT(60)
<1> HIDE DEF c, n
<1>8. /\ Valid(Members(c, r, n)) /\ readableBytes(Members(c, r, n)) = n - r
      /\ writableBytes(Members(c, r, n)) = Len(c) - n
      /\ Unread(Members(c, r, n)) = SubSeq(c, r + 1, n)
  <2>1. n <= Len(c)
    BY <1>4, <1>5
  <2>2. QED
    BY <1>1, <1>4, <1>5, <2>1, Closed, ZenonT(60)
<1>9. Members(c, r, n).data = c
  BY DEF Members
<1>10. n - r = (w - r) + Len(s) /\ Len(c) - n = (Len(d) - w) - Len(s)
  BY <1>4, <1>5, SMTT(60)
<1>11. QED
  BY <1>2, <1>3, <1>5, <1>6, <1>7, <1>8, <1>9, <1>10, ZenonT(60)

\* Moving the unread bytes to the front keeps them, although the copy may
\* overlap them.
LEMMA MoveKeeps ==
    ASSUME NEW b, Valid(b)
    PROVE  \E d \in Seq(Byte), w \in Nat :
               /\ MoveUnread(b) = Members(d, kCheapPrepend, w)
               /\ w = kCheapPrepend + readableBytes(b)
               /\ w <= Len(d) /\ Len(d) = Len(b.data)
               /\ SubSeq(d, kCheapPrepend + 1, w) = Unread(b)
<1>1. PICK d \in Seq(Byte), r \in Nat, w \in Nat :
          /\ b = Members(d, r, w)
          /\ kCheapPrepend <= r /\ r <= w /\ w <= Len(d)
  BY Opened
<1>2. readableBytes(b) = w - r /\ Unread(b) = SubSeq(d, r + 1, w)
  BY <1>1, Closed
<1>3. b.data = d
  BY <1>1 DEF Members
<1> DEFINE k == kCheapPrepend
           u == SubSeq(d, r + 1, w)
           c == Copy(u, d, k)
<1>4. k \in Nat /\ k <= r
  BY <1>1, BufferAssumption
<1>5. u \in Seq(Byte) /\ Len(u) = w - r
  BY <1>1, Between
<1>6. MoveUnread(b) = Members(c, k, k + (w - r))
  BY <1>2, <1>3 DEF MoveUnread, Members
<1> HIDE DEF k, u
<1>7. k + Len(u) <= Len(d) /\ k + (w - r) \in Nat
  BY <1>1, <1>4, <1>5, SMTT(60)
<1>8. c \in Seq(Byte) /\ Len(c) = Len(d)
  BY <1>4, <1>5, <1>7, CopyElements, SMTT(60)
<1>9. SubSeq(c, k + 1, k + Len(u)) = SubSeq(d, k + 1, k) \o u
  <2>1. k <= k
    BY <1>4, SMTT(60)
  <2>2. QED
    BY <1>4, <1>5, <1>7, <2>1, CopyExtends, Zenon
<1>10. SubSeq(d, k + 1, k) = << >>
  BY <1>4, SubSeqEmpty, SMTT(60)
<1>11. << >> \o u = u
  BY <1>5, ConcatEmptySeq
<1> HIDE DEF c
<1>12. /\ SubSeq(c, k + 1, k + (w - r)) = u
       /\ k + (w - r) <= Len(c)
  BY <1>5, <1>7, <1>8, <1>9, <1>10, <1>11, ZenonT(60)
<1>13. /\ MoveUnread(b) = Members(c, kCheapPrepend, k + (w - r))
       /\ k + (w - r) = kCheapPrepend + readableBytes(b)
       /\ SubSeq(c, kCheapPrepend + 1, k + (w - r)) = Unread(b)
  BY <1>2, <1>6, <1>12, ZenonT(60) DEF k, u
<1>14. QED
  BY <1>3, <1>7, <1>8, <1>12, <1>13, Zenon


\* ensureWritableBytes makes the room and keeps the unread bytes; the vector
\* grows to no more than they and the new ones need.
LEMMA EnsureKeeps ==
    ASSUME NEW b, Valid(b), NEW len \in Nat
    PROVE  LET e == ensureWritableBytes(b, len)
           IN  /\ Valid(e) /\ Unread(e) = Unread(b)
               /\ readableBytes(e) = readableBytes(b)
               /\ len <= writableBytes(e)
               /\ \/ Len(e.data) = Len(b.data)
                  \/ Len(e.data) = kCheapPrepend + readableBytes(b) + len
<1> DEFINE e == ensureWritableBytes(b, len)
<1>1. CASE writableBytes(b) >= len
  <2>1. e = b
    BY <1>1 DEF ensureWritableBytes
  <2>2. writableBytes(b) \in Int
    BY SMTT(60) DEF Valid, writableBytes
  <2>3. QED
    BY <1>1, <2>1, <2>2
<1>2. CASE ~(writableBytes(b) >= len)
  <2>1. PICK d \in Seq(Byte), w \in Nat :
            /\ MoveUnread(b) = Members(d, kCheapPrepend, w)
            /\ w = kCheapPrepend + readableBytes(b)
            /\ w <= Len(d) /\ Len(d) = Len(b.data)
            /\ SubSeq(d, kCheapPrepend + 1, w) = Unread(b)
    BY MoveKeeps
  <2>2. readableBytes(b) \in Nat /\ kCheapPrepend \in Nat /\ kCheapPrepend <= w
    BY <2>1, BufferAssumption, SMTT(60) DEF Valid, readableBytes
  <2>3. /\ Valid(Members(d, kCheapPrepend, w))
        /\ readableBytes(Members(d, kCheapPrepend, w)) = w - kCheapPrepend
        /\ writableBytes(Members(d, kCheapPrepend, w)) = Len(d) - w
        /\ Unread(Members(d, kCheapPrepend, w)) = Unread(b)
    <3>1. kCheapPrepend <= kCheapPrepend
      BY <2>2, SMTT(60)
    <3>2. QED
      BY <2>1, <2>2, <3>1, Closed, ZenonT(60)
  <2>4. /\ Members(d, kCheapPrepend, w).data = d
        /\ Members(d, kCheapPrepend, w).r = kCheapPrepend
        /\ Members(d, kCheapPrepend, w).w = w
    BY DEF Members
  <2>5. CASE Len(d) - w >= len
    <3>1. e = Members(d, kCheapPrepend, w)
      BY <1>2, <2>1, <2>3, <2>5 DEF ensureWritableBytes
    <3>2. w - kCheapPrepend = readableBytes(b)
      BY <2>1, <2>2, SMTT(60)
    <3>3. QED
      BY <2>1, <2>3, <2>4, <2>5, <3>1, <3>2
  <2>6. CASE ~(Len(d) - w >= len)
    <3> DEFINE n == w + len
               g == Resize(d, n)
    <3>1. e = Members(g, kCheapPrepend, w)
      BY <1>2, <2>1, <2>3, <2>4, <2>6 DEF ensureWritableBytes, Grown, Members
    <3>2. n \in Nat /\ Len(d) <= n /\ n - w = len /\ w <= n
      BY <2>1, <2>6, SMTT(60)
    <3> HIDE DEF n
    <3>3. /\ g \in Seq(Byte) /\ Len(g) = n
          /\ SubSeq(g, kCheapPrepend + 1, w) = SubSeq(d, kCheapPrepend + 1, w)
      <4>1. w <= Len(d) /\ kCheapPrepend <= w /\ kCheapPrepend \in Nat
        BY <2>1, <2>2
      <4>2. QED
        BY <3>2, <4>1, ResizeKeeps, SMTT(60)
    <3> HIDE DEF g
    <3>4. /\ Valid(Members(g, kCheapPrepend, w))
          /\ readableBytes(Members(g, kCheapPrepend, w)) = w - kCheapPrepend
          /\ writableBytes(Members(g, kCheapPrepend, w)) = Len(g) - w
          /\ Unread(Members(g, kCheapPrepend, w)) = SubSeq(g, kCheapPrepend + 1, w)
      <4>1. kCheapPrepend <= kCheapPrepend /\ w <= Len(g)
        BY <2>2, <3>2, <3>3, SMTT(60)
      <4>2. QED
        BY <2>1, <2>2, <3>3, <4>1, Closed, ZenonT(60)
    <3>5. w - kCheapPrepend = readableBytes(b) /\ len <= len
      BY <2>1, <2>2, SMTT(60)
    <3>6. Members(g, kCheapPrepend, w).data = g
      BY DEF Members
    <3>7. n = kCheapPrepend + readableBytes(b) + len
      BY <2>1 DEF n
    <3>8. QED
      BY <2>1, <3>1, <3>2, <3>3, <3>4, <3>5, <3>6, <3>7, ZenonT(60)
  <2>7. QED
    BY <2>5, <2>6
<1>3. QED
  BY <1>1, <1>2

\* append puts s behind the unread bytes.
LEMMA AppendUnread ==
    ASSUME NEW b, Valid(b), NEW s \in Seq(Byte)
    PROVE  /\ Valid(append(b, s))
           /\ Unread(append(b, s)) = Unread(b) \o s
           /\ readableBytes(append(b, s)) = readableBytes(b) + Len(s)
           /\ \/ Len(append(b, s).data) = Len(b.data)
              \/ Len(append(b, s).data) = kCheapPrepend + readableBytes(b) + Len(s)
<1> DEFINE e == ensureWritableBytes(b, Len(s))
<1>1. /\ Valid(e) /\ Unread(e) = Unread(b)
      /\ readableBytes(e) = readableBytes(b)
      /\ Len(s) <= writableBytes(e)
      /\ \/ Len(e.data) = Len(b.data)
         \/ Len(e.data) = kCheapPrepend + readableBytes(b) + Len(s)
  <2>1. Len(s) \in Nat
    BY SMTT(60)
  <2>2. QED
    BY <2>1, EnsureKeeps
<1>2. append(b, s) = Written(e, s)
  BY DEF append
<1> HIDE DEF e
<1>3. QED
  BY <1>1, <1>2, WrittenUnread, ZenonT(60)

\* readFd puts what readv returned behind the unread bytes, whether or not it
\* went through extrabuf.
LEMMA ReadUnread ==
    ASSUME NEW b, Valid(b), NEW s \in Seq(Byte)
    PROVE  /\ Valid(readFd(b, s))
           /\ Unread(readFd(b, s)) = Unread(b) \o s
           /\ readableBytes(readFd(b, s)) = readableBytes(b) + Len(s)
           /\ \/ Len(readFd(b, s).data) = Len(b.data)
              \/ /\ Len(s) > writableBytes(b)
                 /\ Len(readFd(b, s).data) = kCheapPrepend + readableBytes(b) + Len(s)
<1>1. Len(s) \in Nat /\ writableBytes(b) \in Nat /\ readableBytes(b) \in Nat
  BY SMTT(60) DEF Valid, writableBytes, readableBytes
<1>2. CASE Len(s) <= writableBytes(b)
  BY <1>2, WrittenUnread DEF readFd
<1>3. CASE ~(Len(s) <= writableBytes(b))
  <2> DEFINE v == writableBytes(b)
             s1 == SubSeq(s, 1, v)
             s2 == SubSeq(s, v + 1, Len(s))
             c == Filled(b, s)
  <2>1. s1 \in Seq(Byte) /\ Len(s1) = v /\ s2 \in Seq(Byte) /\ Len(s2) = Len(s) - v
    <3>1. v \in 0..Len(s) /\ v + 1 \in Nat \ {0} /\ v + 1 <= Len(s)
      BY <1>1, <1>3, SMTT(60)
    <3>2. QED
      BY <1>1, <3>1, Part, SMTT(60)
  <2>2. s1 \o s2 = s
    <3>1. v \in 0..Len(s)
      BY <1>1, <1>3, SMTT(60)
    <3>2. QED
      BY <3>1, Cut, ZenonT(60)
  <2>3. readFd(b, s) = append(c, s2)
    BY <1>3 DEF readFd, Spill
  <2>4. c = Written(b, s1)
    BY DEF Filled
  <2>5. v \in Nat /\ v <= v
    BY <1>1, SMTT(60)
  <2> HIDE DEF s1, s2, c
  <2>6. /\ Valid(c) /\ Unread(c) = Unread(b) \o s1
        /\ readableBytes(c) = readableBytes(b) + v
        /\ Len(c.data) = Len(b.data)
    BY <2>1, <2>4, <2>5, WrittenUnread
  <2>7. /\ Valid(append(c, s2)) /\ Unread(append(c, s2)) = Unread(c) \o s2
        /\ readableBytes(append(c, s2)) = readableBytes(c) + Len(s2)
        /\ \/ Len(append(c, s2).data) = Len(c.data)
           \/ Len(append(c, s2).data) = kCheapPrepend + readableBytes(c) + Len(s2)
    BY <2>1, <2>6, AppendUnread, ZenonT(60)
  <2>8. (Unread(b) \o s1) \o s2 = Unread(b) \o (s1 \o s2)
    <3> DEFINE u == Unread(b)
    <3>1. u \in Seq(Byte) /\ s1 \in Seq(Byte) /\ s2 \in Seq(Byte)
      BY <2>1, UnreadBytes
    <3> HIDE DEF u
    <3>2. (u \o s1) \o s2 = u \o (s1 \o s2)
      BY <3>1, SMTT(60)
    <3>3. QED
      BY <3>2 DEF u
  <2>9. /\ readableBytes(c) + Len(s2) = readableBytes(b) + Len(s)
        /\ kCheapPrepend + readableBytes(c) + Len(s2)
               = kCheapPrepend + readableBytes(b) + Len(s)
    BY <1>1, <2>1, <2>6, BufferAssumption, SMTT(60)
  <2>10. Len(s) > writableBytes(b)
    BY <1>1, <1>3, SMTT(60)
  <2>11. QED
    BY <2>2, <2>3, <2>6, <2>7, <2>8, <2>9, <2>10
<1>4. QED
  BY <1>2, <1>3


\* What tryDecode takes out: two retrieves are one.
LEMMA RetrieveTwice ==
    ASSUME NEW b, Valid(b), NEW h \in Nat, NEW len \in Nat, h + len <= readableBytes(b)
    PROVE  LET c == retrieve(retrieve(b, h), len)
           IN  /\ Valid(c) /\ c.data = b.data
               /\ Unread(b) = SubSeq(Unread(b), 1, h + len) \o Unread(c)
<1> DEFINE u == Unread(b)
           n == readableBytes(b)
           e == retrieve(b, h)
           c == retrieve(e, len)
<1>1. u \in Seq(Byte) /\ Len(u) = n /\ n \in Nat /\ h + len <= n
  BY UnreadBytes
<1>2. /\ Valid(e) /\ Unread(e) = SubSeq(u, h + 1, n)
      /\ readableBytes(e) = n - h /\ e.data = b.data
  <2>1. h <= readableBytes(b)
    BY <1>1, SMTT(60)
  <2>2. QED
    BY <2>1, RetrieveUnread
<1>3. /\ Valid(c) /\ Unread(c) = SubSeq(Unread(e), len + 1, readableBytes(e))
      /\ c.data = e.data
  <2>1. len <= readableBytes(e)
    BY <1>1, <1>2, SMTT(60)
  <2> HIDE DEF e
  <2>2. QED
    BY <1>2, <2>1, RetrieveUnread, ZenonT(60)
<1> HIDE DEF u, n, e, c
<1>4. SubSeq(u, (h + len) + 1, n) = SubSeq(SubSeq(u, h + 1, n), len + 1, n - h)
  <2>1. n <= Len(u)
    BY <1>1, SMTT(60)
  <2>2. QED
    BY <1>1, <2>1, PartOfPart, SMTT(60)
<1>5. SubSeq(u, 1, h + len) \o SubSeq(u, (h + len) + 1, Len(u)) = u
  <2>1. h + len \in 0..Len(u)
    BY <1>1, SMTT(60)
  <2>2. QED
    BY <1>1, <2>1, Cut
<1>6. u = SubSeq(u, 1, h + len) \o Unread(c)
  BY <1>1, <1>2, <1>3, <1>4, <1>5
<1>7. QED
  BY <1>2, <1>3, <1>6, ZenonT(60) DEF u, n, e, c

\* A new buffer is valid and empty, and has its initial size.
LEMMA NewBufferValid ==
    /\ Valid(NewBuffer) /\ readableBytes(NewBuffer) = 0
    /\ Unread(NewBuffer) = << >>
    /\ Len(NewBuffer.data) = kCheapPrepend + kInitialSize
<1> DEFINE d == [i \in 1..(kCheapPrepend + kInitialSize) |-> 0]
<1>1. /\ d \in Seq(Byte) /\ Len(d) = kCheapPrepend + kInitialSize
      /\ kCheapPrepend \in Nat /\ kCheapPrepend <= Len(d)
      /\ kCheapPrepend <= kCheapPrepend
  BY BufferAssumption, SMTT(60)
<1>2. NewBuffer = Members(d, kCheapPrepend, kCheapPrepend)
  BY DEF NewBuffer, Members
<1> HIDE DEF d
<1>3. /\ Valid(NewBuffer) /\ readableBytes(NewBuffer) = kCheapPrepend - kCheapPrepend
      /\ Unread(NewBuffer) = SubSeq(d, kCheapPrepend + 1, kCheapPrepend)
  BY <1>1, <1>2, Closed
<1>4. SubSeq(d, kCheapPrepend + 1, kCheapPrepend) = << >>
  BY <1>1, SubSeqEmpty, SMTT(60)
<1>5. NewBuffer.data = d
  BY <1>2 DEF Members
<1>6. QED
  BY <1>1, <1>3, <1>4, <1>5, SMTT(60)

\* The digits of a number are bytes.
LEMMA ToBytesType ==
    ASSUME NEW v \in Nat, NEW n \in {SeqWidth, LenWidth}
    PROVE  ToBytes(v, n) \in Seq(Byte)
<1>1. n \in Nat /\ Base \in Nat \ {0} /\ Byte = 0..(Base - 1)
  BY CodecAssumption, BufferAssumption, SMTT(60)
<1>2. ASSUME NEW i \in 1..n
      PROVE  (v \div Base^(n - i)) % Base \in Byte
  <2>1. Base^(n - i) \in Nat \ {0}
    <3>1. n - i \in 0..n
      BY <1>1, SMTT(60)
    <3>2. QED
      BY <3>1, PowerAssumption
  <2>2. v \div Base^(n - i) \in Int
    BY <2>1, SMTT(60)
  <2>3. QED
    BY <1>1, <2>2, SMTT(60)
<1>3. QED
  BY <1>1, <1>2, SMTT(60) DEF ToBytes

\* encode writes the fields of the header one behind the other, then the body.
LEMMA EncodedIs ==
    ASSUME NEW m \in Messages
    PROVE  /\ m.type \in Byte /\ m.seq \in 0..(Base^SeqWidth - 1)
           /\ m.body \in Seq(Byte) /\ Len(m.body) \in 0..(Base^LenWidth - 1)
           /\ ToBytes(m.seq, SeqWidth) \in Seq(Byte)
           /\ ToBytes(Len(m.body), LenWidth) \in Seq(Byte)
           /\ Encoded[m] = ((((<<kMagic>> \o <<kProtocolVersion>>) \o <<m.type>>)
                                \o ToBytes(m.seq, SeqWidth))
                                \o ToBytes(Len(m.body), LenWidth)) \o m.body
<1> DEFINE b1 == append(NewBuffer, <<kMagic>>)
           b2 == append(b1, <<kProtocolVersion>>)
           b3 == append(b2, <<m.type>>)
           b4 == append(b3, ToBytes(m.seq, SeqWidth))
           b5 == append(b4, ToBytes(Len(m.body), LenWidth))
           b6 == append(b5, m.body)
<1>1. /\ <<kMagic>> \in Seq(Byte) /\ <<kProtocolVersion>> \in Seq(Byte)
      /\ <<m.type>> \in Seq(Byte) /\ m.body \in Seq(Byte)
      /\ m.seq \in Nat /\ Len(m.body) \in Nat /\ m.type \in Byte
      /\ m.seq \in 0..(Base^SeqWidth - 1) /\ Len(m.body) < Base^LenWidth
  <2>1. m \in [type : Byte, seq : 0..(Base^SeqWidth - 1), body : Seq(Byte)]
    BY CodecAssumption
  <2>2. m.type \in Byte /\ m.seq \in 0..(Base^SeqWidth - 1) /\ m.body \in Seq(Byte)
    BY <2>1, Zenon
  <2>3. m.seq \in Nat /\ Len(m.body) \in Nat /\ <<m.type>> \in Seq(Byte)
    BY <2>2, SMTT(60)
  <2>4. <<kMagic>> \in Seq(Byte) /\ <<kProtocolVersion>> \in Seq(Byte)
    BY CodecAssumption, SMTT(60)
  <2>5. QED
    BY <2>2, <2>3, <2>4, CodecAssumption
<1>2. /\ ToBytes(m.seq, SeqWidth) \in Seq(Byte)
      /\ ToBytes(Len(m.body), LenWidth) \in Seq(Byte)
  BY <1>1, ToBytesType, ZenonT(60)
<1>3. b6 = encode(m, NewBuffer)
  BY DEF encode
<1>4. Valid(b1) /\ Unread(b1) = <<kMagic>>
  <2>1. Valid(b1) /\ Unread(b1) = << >> \o <<kMagic>>
    BY <1>1, NewBufferValid, AppendUnread, ZenonT(60)
  <2>2. << >> \o <<kMagic>> = <<kMagic>>
    BY <1>1, ConcatEmptySeq
  <2>3. QED
    BY <2>1, <2>2
<1> HIDE DEF b1
<1>5. Valid(b2) /\ Unread(b2) = Unread(b1) \o <<kProtocolVersion>>
  BY <1>1, <1>4, AppendUnread, ZenonT(60)
<1> HIDE DEF b2
<1>6. Valid(b3) /\ Unread(b3) = Unread(b2) \o <<m.type>>
  BY <1>1, <1>5, AppendUnread, ZenonT(60)
<1> HIDE DEF b3
<1>7. Valid(b4) /\ Unread(b4) = Unread(b3) \o ToBytes(m.seq, SeqWidth)
  BY <1>2, <1>6, AppendUnread
<1> HIDE DEF b4
<1>8. Valid(b5) /\ Unread(b5) = Unread(b4) \o ToBytes(Len(m.body), LenWidth)
  BY <1>2, <1>7, AppendUnread
<1> HIDE DEF b5
<1>9. Valid(b6) /\ Unread(b6) = Unread(b5) \o m.body
  BY <1>1, <1>8, AppendUnread
<1> HIDE DEF b6
<1>10. /\ Unread(b6) \in Seq(Byte) /\ Len(Unread(b6)) = readableBytes(b6)
       /\ readableBytes(b6) \in Nat
  BY <1>9, UnreadBytes
<1>11. Encoded[m] = SubSeq(Unread(b6), 1, readableBytes(b6))
  BY <1>3, <1>10 DEF Encoded, Taken
<1>12. Encoded[m] = Unread(b6)
  BY <1>10, <1>11, SubSeqFull
<1>13. Len(m.body) \in 0..(Base^LenWidth - 1)
  <2>1. Base^LenWidth \in Nat
    BY PowerAssumption, CodecAssumption, SMTT(60)
  <2>2. QED
    BY <1>1, <2>1, SMTT(60)
<1>14. QED
  BY <1>1, <1>2, <1>4, <1>5, <1>6, <1>7, <1>8, <1>9, <1>12, <1>13, Zenon

\* encode writes bytes, and only bytes.
LEMMA EncodedBytes ==
    ASSUME NEW m \in Messages
    PROVE  Encoded[m] \in Seq(Byte)
<1> DEFINE h == ((<<kMagic>> \o <<kProtocolVersion>>) \o <<m.type>>)
           s == ToBytes(m.seq, SeqWidth)
           l == ToBytes(Len(m.body), LenWidth)
<1>1. /\ m.type \in Byte /\ s \in Seq(Byte) /\ l \in Seq(Byte) /\ m.body \in Seq(Byte)
      /\ Encoded[m] = ((h \o s) \o l) \o m.body
  BY EncodedIs
<1>2. h \in Seq(Byte)
  BY <1>1, CodecAssumption, SMTT(60)
<1> HIDE DEF h, s, l
<1>3. QED
  BY <1>1, <1>2, SMTT(60)


-----------------------------------------------------------------------------
(* The invariants of Framing.                                              *)

\* Where the bytes are, and what tryDecode left of them.
ByteInv ==
    /\ inbound \in Seq(Byte) /\ consumed \in Seq(Byte)
    /\ Valid(in)
    /\ StreamConserved

\* A header has at least magic number, version and type.
LEMMA HeaderSize ==
    kHeaderSize \in Nat /\ kHeaderSize >= 3
  BY CodecAssumption, SMTT(60) DEF kHeaderSize

\* What Decode finds when it returns a message.
LEMMA Whole ==
    ASSUME Valid(in), ~Half(in), ~Invalid(Unread(in))
    PROVE  /\ BodyLen(Unread(in)) \in Nat
           /\ kHeaderSize + BodyLen(Unread(in)) <= readableBytes(in)
<1>1. BodyLen(Unread(in)) \in 0..kMaxBodySize
  BY DEF Invalid
<1>2. ~(readableBytes(in) < kHeaderSize + BodyLen(Unread(in)))
  BY DEF Half
<1>3. QED
  BY <1>1, <1>2, HeaderSize, UnreadBytes, CodecAssumption, SMTT(60)

\* Encoding, reading and decoding keep the bytes of the stream together.
LEMMA ByteInvStep ==
    ASSUME ByteInv, [Next]_vars
    PROVE  ByteInv'
<1> DEFINE u == Unread(in)
<1>1. /\ inbound \in Seq(Byte) /\ consumed \in Seq(Byte) /\ Valid(in)
      /\ stream = consumed \o u \o inbound /\ u \in Seq(Byte)
  BY UnreadBytes DEF ByteInv, StreamConserved
<1>2. ASSUME NEW m \in Messages, Send(m)
      PROVE  ByteInv'
  <2> DEFINE x == Encoded[m]
  <2>1. x \in Seq(Byte)
    BY EncodedBytes
  <2>2. /\ stream' = stream \o x /\ inbound' = inbound \o x
        /\ in' = in /\ consumed' = consumed
    BY <1>2 DEF Send
  <2> HIDE DEF x
  <2>3. inbound' \in Seq(Byte)
    BY <1>1, <2>1, <2>2, ConcatProperties
  <2> HIDE DEF u
  <2>4. (consumed \o u \o inbound) \o x = consumed \o u \o (inbound \o x)
    BY <1>1, <2>1, SMTT(60)
  <2>5. QED
    BY <1>1, <2>2, <2>3, <2>4 DEF ByteInv, StreamConserved, u
<1>3. CASE Read
  <2>1. PICK n \in 1..Len(inbound) :
            /\ in' = readFd(in, SubSeq(inbound, 1, n))
            /\ inbound' = SubSeq(inbound, n + 1, Len(inbound))
    BY <1>3 DEF Read
  <2> DEFINE x == SubSeq(inbound, 1, n)
             y == SubSeq(inbound, n + 1, Len(inbound))
  <2>2. x \in Seq(Byte) /\ y \in Seq(Byte)
    <3>1. n \in 0..Len(inbound) /\ 1 \in Nat \ {0} /\ n + 1 \in Nat \ {0}
          /\ Len(inbound) \in 0..Len(inbound)
      BY <1>1, SMTT(60)
    <3>2. QED
      BY <1>1, <3>1, Part
  <2>3. x \o y = inbound
    <3>1. n \in 0..Len(inbound)
      BY <1>1, SMTT(60)
    <3>2. QED
      BY <1>1, <3>1, Cut
  <2>4. Valid(in') /\ Unread(in') = u \o x
    <3>1. in' = readFd(in, x)
      BY <2>1
    <3> HIDE DEF x
    <3>2. QED
      BY <1>1, <2>2, <3>1, ReadUnread, ZenonT(60)
  <2>5. stream' = stream /\ consumed' = consumed /\ inbound' = y
    BY <1>3, <2>1 DEF Read
  <2> HIDE DEF u, x, y
  <2>6. consumed \o u \o (x \o y) = consumed \o (u \o x) \o y
    <3> DEFINE a == consumed \o u
    <3>1. /\ consumed \in Seq(Byte) /\ u \in Seq(Byte) /\ x \in Seq(Byte)
          /\ y \in Seq(Byte)
      BY <1>1, <2>2
    <3>2. a \o x = consumed \o (u \o x)
      BY <3>1, Together, Zenon
    <3>3. a \in Seq(Byte)
      BY <3>1, ConcatProperties
    <3> HIDE DEF a
    <3>4. (a \o x) \o y = a \o (x \o y)
      BY <3>1, <3>3, Together, Zenon
    <3>5. QED
      BY <3>2, <3>4 DEF a
  <2>7. QED
    BY <1>1, <2>2, <2>3, <2>4, <2>5, <2>6 DEF ByteInv, StreamConserved
<1>4. CASE Decode
  <2> DEFINE len == BodyLen(u)
             x == SubSeq(u, 1, kHeaderSize + len)
             c == retrieve(retrieve(in, kHeaderSize), len)
  <2>1. /\ ~Half(in) /\ ~Invalid(u) /\ in' = c /\ consumed' = consumed \o x
        /\ stream' = stream /\ inbound' = inbound
    BY <1>4 DEF Decode
  <2>2. len \in Nat /\ kHeaderSize + len <= readableBytes(in)
    BY <1>1, <2>1, Whole
  <2>3. Valid(c) /\ u = x \o Unread(c)
    <3> HIDE DEF len
    <3>1. QED
      BY <1>1, <2>2, HeaderSize, RetrieveTwice, ZenonT(60)
  <2>4. x \in Seq(Byte) /\ Unread(c) \in Seq(Byte)
    <3>1. kHeaderSize + len \in 0..Len(u) /\ 1 \in Nat \ {0}
      BY <1>1, <2>2, HeaderSize, UnreadBytes, SMTT(60)
    <3>2. Unread(c) \in Seq(Byte)
      BY <2>3, UnreadBytes
    <3>3. x \in Seq(Byte)
      BY <1>1, <3>1, Part
    <3>4. QED
      BY <3>2, <3>3
  <2> DEFINE v == Unread(c)
  <2>5. v = Unread(in')
    BY <2>1
  <2>6. u = x \o v /\ v \in Seq(Byte) /\ Valid(in')
    BY <2>1, <2>3, <2>4
  <2> HIDE DEF u, x, c, v
  <2>7. consumed \o (x \o v) \o inbound = (consumed \o x) \o v \o inbound
    BY <1>1, <2>4, <2>6, SMTT(60)
  <2>8. consumed' \in Seq(Byte)
    BY <1>1, <2>1, <2>4, ConcatProperties
  <2>9. QED
    BY <1>1, <2>1, <2>5, <2>6, <2>7, <2>8 DEF ByteInv, StreamConserved
<1>5. CASE DecodeHalf \/ DecodeThrows \/ UNCHANGED vars
  <2>1. UNCHANGED <<stream, inbound, in, consumed>>
    BY <1>5 DEF DecodeHalf, DecodeThrows, vars
  <2>2. QED
    BY <2>1 DEF ByteInv, StreamConserved
<1>6. QED
  BY <1>2, <1>3, <1>4, <1>5 DEF Next

\* No byte is lost, repeated or moved between encode and tryDecode, for every
\* size of the vector, of readFd's second buffer and of the messages, and every
\* way in which readv cuts the stream.
THEOREM StreamIsConserved == Spec => []StreamConserved
<1>1. Init => ByteInv
  <2> SUFFICES ASSUME Init PROVE ByteInv
    OBVIOUS
  <2>1. /\ stream = << >> /\ inbound = << >> /\ consumed = << >> /\ in = NewBuffer
    BY DEF Init
  <2>2. << >> \o << >> \o << >> = << >> /\ << >> \in Seq(Byte)
    BY SMTT(60)
  <2>3. QED
    BY <2>1, <2>2, NewBufferValid DEF ByteInv, StreamConserved
<1>2. ByteInv /\ [Next]_vars => ByteInv'
  BY ByteInvStep
<1>3. ByteInv => StreamConserved
  BY DEF ByteInv
<1>4. QED
  BY <1>1, <1>2, <1>3, PTL DEF Spec


\* The most that can wait for the rest of a message, and the largest vector.
Incomplete == kHeaderSize + kMaxBodySize - 1
Needed == Incomplete + 2 * ExtraSize - 1
Bound == kCheapPrepend + (IF kInitialSize > Needed THEN kInitialSize ELSE Needed)

\* GrowthBounded made inductive: between reads the server leaves no whole
\* message unread.
GrowthInv ==
    /\ inbound \in Seq(Byte) /\ Valid(in) /\ refused \in BOOLEAN
    /\ reader = "server" /\ ~refused =>
          /\ Len(in.data) <= Bound
          /\ pc = "poll" => readableBytes(in) <= Incomplete

\* Reads and the decode loop keep the vector within its bound.
LEMMA GrowthStep ==
    ASSUME ByteInv, ByteInv', GrowthInv, [Next]_vars
    PROVE  GrowthInv'
<1>1. /\ inbound \in Seq(Byte) /\ inbound' \in Seq(Byte)
      /\ Valid(in) /\ Valid(in') /\ refused \in BOOLEAN
      /\ readableBytes(in) \in Nat /\ writableBytes(in) \in Nat /\ Len(in.data) \in Nat
  BY SMTT(60) DEF ByteInv, GrowthInv, Valid, readableBytes, writableBytes
<1>2. /\ Incomplete \in Nat /\ Needed \in Nat /\ Bound \in Nat
      /\ Bound >= kCheapPrepend + Incomplete + 2 * ExtraSize - 1
      /\ kCheapPrepend \in Nat /\ ExtraSize \in Nat \ {0}
  BY HeaderSize, BufferAssumption, CodecAssumption, SMTT(60) DEF Incomplete, Needed, Bound
<1>3. CASE Read
  <2>1. PICK n \in 1..Len(inbound) :
            n <= ReadLimit(in) /\ in' = readFd(in, SubSeq(inbound, 1, n))
    BY <1>3 DEF Read
  <2> DEFINE x == SubSeq(inbound, 1, n)
  <2>2. x \in Seq(Byte) /\ Len(x) = n /\ n \in Nat
    <3>1. n \in 0..Len(inbound) /\ 1 \in Nat \ {0} /\ 1 <= n
      BY <1>1, SMTT(60)
    <3>2. QED
      BY <1>1, <3>1, Part, SMTT(60)
  <2>3. in' = readFd(in, x) /\ n <= ReadLimit(in)
    BY <2>1
  <2>4. pc = "poll" /\ pc' = "decode" /\ refused' = refused /\ reader' = reader
    BY <1>3 DEF Read
  <2> HIDE DEF x
  <2>5. \/ Len(in'.data) = Len(in.data)
        \/ /\ n > writableBytes(in)
           /\ Len(in'.data) = kCheapPrepend + readableBytes(in) + n
    BY <1>1, <2>2, <2>3, ReadUnread, ZenonT(60)
  <2>6. ASSUME reader = "server", ~refused PROVE Len(in'.data) <= Bound
    <3>1. Len(in.data) <= Bound /\ readableBytes(in) <= Incomplete
      BY <2>4, <2>6 DEF GrowthInv
    <3>2. CASE Len(in'.data) = Len(in.data)
      BY <3>1, <3>2
    <3>3. CASE n > writableBytes(in) /\ Len(in'.data) = kCheapPrepend + readableBytes(in) + n
      <4>1. n <= 2 * ExtraSize - 1
        BY <1>1, <1>2, <2>2, <2>3, <3>3, SMTT(60) DEF ReadLimit
      <4>2. QED
        BY <1>1, <1>2, <2>2, <3>1, <3>3, <4>1, SMTT(60)
    <3>4. QED
      BY <2>5, <3>2, <3>3
  <2>7. QED
    BY <1>1, <2>4, <2>6 DEF GrowthInv
<1>4. CASE DecodeHalf
  <2>1. /\ Half(in) /\ pc' = "poll" /\ in' = in /\ refused' = refused
        /\ reader' = reader
    BY <1>4 DEF DecodeHalf
  <2>2. readableBytes(in) <= Incomplete
    <3>1. CASE readableBytes(in) < kHeaderSize
      BY <1>1, <3>1, HeaderSize, CodecAssumption, SMTT(60) DEF Incomplete
    <3>2. CASE ~(readableBytes(in) < kHeaderSize)
      <4>1. /\ BodyLen(Unread(in)) \in 0..kMaxBodySize
            /\ readableBytes(in) < kHeaderSize + BodyLen(Unread(in))
        BY <2>1, <3>2 DEF Half, Invalid
      <4>2. QED
        BY <1>1, <4>1, HeaderSize, CodecAssumption, SMTT(60) DEF Incomplete
    <3>3. QED
      BY <3>1, <3>2
  <2>3. QED
    BY <1>1, <2>1, <2>2 DEF GrowthInv
<1>5. CASE DecodeThrows
  BY <1>1, <1>5 DEF DecodeThrows, GrowthInv
<1>6. CASE Decode
  <2> DEFINE len == BodyLen(Unread(in))
             c == retrieve(retrieve(in, kHeaderSize), len)
  <2>1. /\ ~Half(in) /\ ~Invalid(Unread(in)) /\ in' = c
        /\ pc = "decode" /\ refused' = refused /\ reader' = reader
        /\ reader = "server" => pc' = pc
    BY <1>6 DEF Decode, Again, Return
  <2>2. len \in Nat /\ kHeaderSize + len <= readableBytes(in)
    BY <1>1, <2>1, Whole
  <2>3. c.data = in.data
    <3> HIDE DEF len
    <3>1. QED
      BY <1>1, <2>2, HeaderSize, RetrieveTwice, ZenonT(60)
  <2> HIDE DEF c
  <2>4. QED
    BY <1>1, <2>1, <2>3 DEF GrowthInv
<1>7. CASE (\E m \in Messages : Send(m)) \/ UNCHANGED vars
  <2>1. UNCHANGED <<reader, in, pc, refused>>
    BY <1>7 DEF Send, vars
  <2>2. QED
    BY <1>1, <2>1 DEF GrowthInv
<1>8. QED
  BY <1>3, <1>4, <1>5, <1>6, <1>7 DEF Next

\* The input buffer of the server never outgrows the largest incomplete message
\* and one read, for every size and every way of cutting the stream.
THEOREM GrowthIsBounded == Spec => []GrowthBounded
<1>1. Init => ByteInv /\ GrowthInv
  <2> SUFFICES ASSUME Init PROVE ByteInv /\ GrowthInv
    OBVIOUS
  <2>1. /\ stream = << >> /\ inbound = << >> /\ consumed = << >> /\ in = NewBuffer
        /\ refused = FALSE
    BY DEF Init
  <2>2. << >> \o << >> \o << >> = << >> /\ << >> \in Seq(Byte)
    BY SMTT(60)
  <2>3. ByteInv
    BY <2>1, <2>2, NewBufferValid DEF ByteInv, StreamConserved
  <2>4. /\ Incomplete \in Nat /\ Needed \in Nat /\ kInitialSize \in Nat
        /\ kCheapPrepend \in Nat
    BY HeaderSize, BufferAssumption, CodecAssumption, SMTT(60) DEF Incomplete, Needed
  <2>5. Len(NewBuffer.data) <= Bound /\ readableBytes(NewBuffer) <= Incomplete
    BY <2>4, NewBufferValid, SMTT(60) DEF Bound
  <2>6. QED
    BY <2>1, <2>2, <2>3, <2>5, NewBufferValid, ZenonT(60) DEF GrowthInv
<1>2. ByteInv /\ GrowthInv /\ [Next]_vars => (ByteInv /\ GrowthInv)'
  <2> SUFFICES ASSUME ByteInv, GrowthInv, [Next]_vars PROVE ByteInv' /\ GrowthInv'
    OBVIOUS
  <2>1. ByteInv'
    BY ByteInvStep
  <2>2. QED
    BY <2>1, GrowthStep
<1>3. GrowthInv => GrowthBounded
  BY DEF GrowthInv, GrowthBounded, Incomplete, Needed, Bound
<1>4. QED
  BY <1>1, <1>2, <1>3, PTL DEF Spec

-----------------------------------------------------------------------------
(* tryDecode undoes encode.                                                *)

INSTANCE WellFoundedInduction

\* A set of naturals has a least element: where two recursions first differ.
LEMMA Least ==
    ASSUME NEW T \in SUBSET Nat, T # {}
    PROVE  \E x \in T : \A y \in T : x <= y
<1> DEFINE R == OpToRel(<, Nat)
<1>1. IsWellFoundedOn(R, Nat)
  BY NatLessThanWellFounded, Zenon
<1>2. \A x, y \in Nat : x < y => <<x, y>> \in R
  BY DEF OpToRel
<1> HIDE DEF R
<1>3. PICK x \in T : \A y \in T : ~(<<y, x>> \in R)
  BY <1>1, WFMin, Zenon
<1>4. ASSUME NEW y \in T
      PROVE  x <= y
  <2>1. x \in Nat /\ y \in Nat
    OBVIOUS
  <2>2. ~(y < x)
    BY <1>2, <1>3, <2>1, Zenon
  <2>3. QED
    BY <2>1, <2>2, SMTT(60)
<1>5. QED
  BY <1>4

\* Quotient and remainder.
LEMMA Quotient ==
    ASSUME NEW v \in Nat, NEW q \in Nat \ {0}
    PROVE  /\ v \div q \in Nat /\ v % q \in 0..(q - 1)
           /\ v = (v \div q) * q + (v % q)
  BY SMTT(60)

\* There is one quotient.
LEMMA QuotientIs ==
    ASSUME NEW v \in Nat, NEW q \in Nat \ {0}, NEW a \in Nat, NEW r \in 0..(q - 1),
           v = a * q + r
    PROVE  v \div q = a
  BY SMTT(60)

\* The digits above a digit, and the digit, are the digits from it upwards.
LEMMA Shifted ==
    ASSUME NEW v \in Nat, NEW b \in Nat \ {0}, NEW q \in Nat \ {0}
    PROVE  (v \div (b * q)) * b + ((v \div q) % b) = v \div q
<1> DEFINE a == v \div q
           c == a \div b
           d == a % b
           r == v % q
<1>1. /\ a \in Nat /\ r \in 0..(q - 1) /\ v = a * q + r
      /\ c \in Nat /\ d \in 0..(b - 1) /\ a = c * b + d
  <2>1. a \in Nat /\ r \in 0..(q - 1) /\ v = a * q + r
    BY Quotient
  <2> HIDE DEF a, r
  <2>2. c \in Nat /\ d \in 0..(b - 1) /\ a = c * b + d
    BY <2>1, Quotient
  <2>3. QED
    BY <2>1, <2>2
<1> HIDE DEF a, c, d, r
<1>2. v = c * (b * q) + (d * q + r)
  BY <1>1, SMTT(60)
<1>3. d * q + r \in 0..((b * q) - 1) /\ b * q \in Nat \ {0}
  BY <1>1, SMTT(60)
<1>4. v \div (b * q) = c
  BY <1>1, <1>2, <1>3, QuotientIs
<1>5. QED
  BY <1>1, <1>4, SMTT(60) DEF a, d

\* The loop that reads a number's bytes has one result.
LEMMA OneRecursion ==
    ASSUME NEW n \in Nat, NEW s, NEW f, NEW g,
           f[0] = 0, \A i \in 1..n : f[i] = f[i - 1] * Base + s[i],
           g[0] = 0, \A i \in 1..n : g[i] = g[i - 1] * Base + s[i]
    PROVE  f[n] = g[n]
<1> DEFINE T == {i \in 0..n : f[i] # g[i]}
<1>2. ASSUME T # {}
      PROVE  FALSE
  <2>1. T \in SUBSET Nat
    BY SMTT(60)
  <2>2. PICK i \in T : \A j \in T : i <= j
    BY <1>2, <2>1, Least
  <2>3. i # 0
    OBVIOUS
  <2>4. i \in 1..n /\ i - 1 \in 0..n /\ ~(i <= i - 1)
    BY <2>3, SMTT(60)
  <2>5. f[i - 1] = g[i - 1]
    BY <2>2, <2>4
  <2>6. QED
    BY <2>4, <2>5
<1>3. n \in 0..n
  BY SMTT(60)
<1>4. QED
  BY <1>2, <1>3

\* A number that fits is read as it was written: be64toh undoes htobe64.
LEMMA BytesBack ==
    ASSUME NEW n \in {SeqWidth, LenWidth}, NEW v \in 0..(Base^n - 1)
    PROVE  FromBytes(ToBytes(v, n)) = v
<1> DEFINE s == ToBytes(v, n)
           power == [i \in 0..(n + 1) |-> Base^i]
           g == [i \in 0..n |-> v \div power[n - i]]
           Follows(f) == f = [i \in 0..n |-> IF i = 0 THEN 0 ELSE f[i - 1] * Base + s[i]]
<1>1. n \in Nat /\ Base \in Nat \ {0}
  BY CodecAssumption, BufferAssumption, SMTT(60)
<1>2. /\ power[0] = 1 /\ v \in Nat /\ v < power[n]
      /\ \A i \in 0..n : power[i] \in Nat \ {0} /\ power[i + 1] = Base * power[i]
  <2>1. /\ 0 \in 0..(n + 1) /\ n \in 0..(n + 1) /\ n \in 0..n
        /\ \A i \in 0..n : i \in 0..(n + 1) /\ i + 1 \in 0..(n + 1)
    BY <1>1, SMTT(60)
  <2>2. \A i \in 0..(n + 1) : power[i] = Base^i
    OBVIOUS
  <2>3. /\ power[0] = 1 /\ power[n] = Base^n
        /\ \A i \in 0..n : power[i] \in Nat \ {0} /\ power[i + 1] = Base * power[i]
    BY <2>1, <2>2, PowerAssumption
  <2> HIDE DEF power
  <2>4. v \in 0..(power[n] - 1)
    BY <2>3
  <2>5. QED
    BY <2>1, <2>3, <2>4, SMTT(60)
<1>3. Len(s) = n /\ \A i \in 1..n : s[i] = (v \div power[n - i]) % Base
  <2>1. \A i \in 1..n : n - i \in 0..(n + 1)
    BY <1>1, SMTT(60)
  <2>2. \A i \in 1..n : s[i] = (v \div Base^(n - i)) % Base
    BY DEF ToBytes
  <2>3. DOMAIN s = 1..n
    BY DEF ToBytes
  <2>4. Len(s) = n
    BY <1>1, <2>3, SMTT(60) DEF ToBytes
  <2>5. QED
    BY <2>1, <2>2, <2>4
<1> HIDE DEF power, s
<1>4. Follows(g)
  <2>1. g[0] = 0
    <3>1. v \div power[n] = 0
      BY <1>1, <1>2, SMTT(60)
    <3>2. 0 \in 0..n /\ n - 0 = n
      BY <1>1, SMTT(60)
    <3>3. QED
      BY <3>1, <3>2
  <2>2. ASSUME NEW i \in 1..n
        PROVE  g[i] = g[i - 1] * Base + s[i]
    <3>1. /\ n - i \in 0..n /\ n - (i - 1) = (n - i) + 1
          /\ i \in 0..n /\ i - 1 \in 0..n
      BY <1>1, SMTT(60)
    <3>2. g[i] = v \div power[n - i] /\ g[i - 1] = v \div power[(n - i) + 1]
      BY <3>1
    <3>3. power[n - i] \in Nat \ {0} /\ power[(n - i) + 1] = Base * power[n - i]
      BY <1>2, <3>1
    <3>4. (v \div (Base * power[n - i])) * Base + ((v \div power[n - i]) % Base)
              = v \div power[n - i]
      BY <1>1, <1>2, <3>3, Shifted, Zenon
    <3>5. QED
      BY <1>3, <3>2, <3>3, <3>4
  <2> HIDE DEF g
  <2>3. g = [i \in 0..n |-> g[i]]
    BY DEF g
  <2>4. \A i \in 0..n : g[i] = IF i = 0 THEN 0 ELSE g[i - 1] * Base + s[i]
    <3>1. \A i \in 0..n : i = 0 \/ i \in 1..n
      BY <1>1, SMTT(60)
    <3>2. QED
      BY <2>1, <2>2, <3>1
  <2>5. QED
    BY <2>3, <2>4
<1>5. g[n] = v
  <2>1. n \in 0..n /\ n - n = 0 /\ v \div 1 = v
    BY <1>1, <1>2, SMTT(60)
  <2>2. QED
    BY <1>2, <2>1
<1> HIDE DEF g
<1> DEFINE h == CHOOSE f : Follows(f)
<1>6. FromBytes(s) = h[n]
  BY <1>3 DEF FromBytes
<1>7. Follows(h)
  BY <1>4
<1> HIDE DEF h
<1> HIDE DEF Follows
<1>8. ASSUME NEW f, Follows(f)
      PROVE  f[0] = 0 /\ \A i \in 1..n : f[i] = f[i - 1] * Base + s[i]
  BY <1>1, <1>8, SMTT(60) DEF Follows
<1>9. h[0] = 0 /\ \A i \in 1..n : h[i] = h[i - 1] * Base + s[i]
  BY <1>7, <1>8
<1>10. g[0] = 0 /\ \A i \in 1..n : g[i] = g[i - 1] * Base + s[i]
  BY <1>4, <1>8
<1>11. h[n] = g[n]
  BY <1>1, <1>9, <1>10, OneRecursion
<1>12. QED
  BY <1>5, <1>6, <1>11 DEF s

\* Sequences with the same elements are the same.
LEMMA SameElements ==
    ASSUME NEW S, NEW s \in Seq(S), NEW t \in Seq(S), Len(s) = Len(t),
           \A i \in 1..Len(s) : s[i] = t[i]
    PROVE  s = t
  BY SMTT(60)

\* Two sequences, one behind the other, by their elements.
LEMMA Behind ==
    ASSUME NEW s \in Seq(Byte), NEW t \in Seq(Byte)
    PROVE  /\ s \o t \in Seq(Byte) /\ Len(s \o t) = Len(s) + Len(t)
           /\ \A i \in 1..Len(s) : (s \o t)[i] = s[i]
           /\ \A i \in 1..Len(t) : (s \o t)[Len(s) + i] = t[i]
<1>1. s \o t \in Seq(Byte) /\ Len(s \o t) = Len(s) + Len(t)
  BY SMTT(60)
<1>2. \A i \in 1..Len(s) : (s \o t)[i] = s[i]
  BY SMTT(60)
<1>3. \A i \in 1..Len(t) : (s \o t)[Len(s) + i] = t[i]
  BY SMTT(60)
<1>4. QED
  BY <1>1, <1>2, <1>3

\* Three bytes, one behind the other.
LEMMA ThreeBytes ==
    ASSUME NEW a \in Byte, NEW b \in Byte, NEW c \in Byte
    PROVE  LET h == (<<a>> \o <<b>>) \o <<c>>
           IN  h \in Seq(Byte) /\ Len(h) = 3 /\ h[1] = a /\ h[2] = b /\ h[3] = c
<1> DEFINE ab == <<a>> \o <<b>>
           t == <<c>>
           h == ab \o t
           n == 2
<1>1. ab \in Seq(Byte) /\ Len(ab) = n /\ ab[1] = a /\ ab[2] = b
  BY SMTT(60)
<1>2. t \in Seq(Byte) /\ Len(t) = 1 /\ t[1] = c /\ n \in Nat
  BY SMTT(60)
<1> HIDE DEF ab, t, n
<1>3. /\ h \in Seq(Byte) /\ Len(h) = n + Len(t)
      /\ \A i \in 1..n : h[i] = ab[i]
      /\ \A i \in 1..Len(t) : h[n + i] = t[i]
  <2>1. /\ h \in Seq(Byte) /\ Len(h) = Len(ab) + Len(t)
        /\ \A i \in 1..Len(ab) : h[i] = ab[i]
        /\ \A i \in 1..Len(t) : h[Len(ab) + i] = t[i]
    BY <1>1, <1>2, Behind, Zenon
  <2>2. QED
    BY <1>1, <2>1, Zenon
<1>4. /\ 1 \in 1..n /\ 2 \in 1..n /\ 1 \in 1..Len(t) /\ n + 1 = 3
      /\ n + Len(t) = 3
  BY <1>2, SMTT(60) DEF n
<1>5. h[1] = a /\ h[2] = b /\ h[3] = c
  BY <1>1, <1>2, <1>3, <1>4, Zenon
<1>6. QED
  BY <1>3, <1>4, <1>5 DEF ab, t

\* The bytes of a number are as many as its width.
LEMMA ToBytesLength ==
    ASSUME NEW v, NEW n \in {SeqWidth, LenWidth}
    PROVE  Len(ToBytes(v, n)) = n
<1>1. n \in Nat
  BY CodecAssumption
<1>2. QED
  BY <1>1, SMTT(60) DEF ToBytes

\* The bytes of a message by position: the header has its fixed size.
LEMMA EncodedLayout ==
    ASSUME NEW m \in Messages
    PROVE  LET e == Encoded[m]
           IN  /\ Len(e) = kHeaderSize + Len(m.body)
               /\ e[1] = kMagic /\ e[2] = kProtocolVersion /\ e[3] = m.type
               /\ \A i \in 1..SeqWidth : e[3 + i] = ToBytes(m.seq, SeqWidth)[i]
               /\ \A i \in 1..LenWidth :
                     e[3 + SeqWidth + i] = ToBytes(Len(m.body), LenWidth)[i]
               /\ \A i \in 1..Len(m.body) : e[kHeaderSize + i] = m.body[i]
<1> DEFINE h == (<<kMagic>> \o <<kProtocolVersion>>) \o <<m.type>>
           s == ToBytes(m.seq, SeqWidth)
           l == ToBytes(Len(m.body), LenWidth)
           y == m.body
           e == Encoded[m]
           d == 3
<1>1. /\ m.type \in Byte /\ s \in Seq(Byte) /\ l \in Seq(Byte) /\ y \in Seq(Byte)
      /\ e = ((h \o s) \o l) \o y
  BY EncodedIs
<1>2. /\ h \in Seq(Byte) /\ Len(h) = d /\ d \in Nat
      /\ h[1] = kMagic /\ h[2] = kProtocolVersion /\ h[3] = m.type
  BY <1>1, CodecAssumption, ThreeBytes, SMTT(60)
<1>3. Len(s) = SeqWidth /\ Len(l) = LenWidth
  BY ToBytesLength
<1> HIDE DEF h, s, l, y, e, d
<1>4. /\ Len(e) = d + Len(s) + Len(l) + Len(y)
      /\ \A i \in 1..d : e[i] = h[i]
      /\ \A i \in 1..Len(s) : e[d + i] = s[i]
      /\ \A i \in 1..Len(l) : e[d + Len(s) + i] = l[i]
      /\ \A i \in 1..Len(y) : e[d + Len(s) + Len(l) + i] = y[i]
  <2> DEFINE hs == h \o s
             hl == hs \o l
             k == Len(h) + Len(s)
             n == k + Len(l)
  <2>1. /\ h \in Seq(Byte) /\ s \in Seq(Byte) /\ l \in Seq(Byte) /\ y \in Seq(Byte)
    BY <1>1, <1>2
  <2>2. e = hl \o y
    BY <1>1
  <2>3. /\ hs \in Seq(Byte) /\ Len(hs) = k
        /\ \A i \in 1..Len(h) : hs[i] = h[i]
        /\ \A i \in 1..Len(s) : hs[Len(h) + i] = s[i]
    BY <2>1, Behind, Zenon
  <2> HIDE DEF hs, k
  <2>4. /\ hl \in Seq(Byte) /\ Len(hl) = n
        /\ \A i \in 1..k : hl[i] = hs[i]
        /\ \A i \in 1..Len(l) : hl[k + i] = l[i]
    <3>1. /\ hl \in Seq(Byte) /\ Len(hl) = Len(hs) + Len(l)
          /\ \A i \in 1..Len(hs) : hl[i] = hs[i]
          /\ \A i \in 1..Len(l) : hl[Len(hs) + i] = l[i]
      BY <2>1, <2>3, Behind, Zenon
    <3>2. QED
      BY <2>3, <3>1, Zenon
  <2> HIDE DEF hl, n
  <2>5. /\ Len(e) = n + Len(y)
        /\ \A i \in 1..n : e[i] = hl[i]
        /\ \A i \in 1..Len(y) : e[n + i] = y[i]
    <3> DEFINE x == hl \o y
    <3>1. /\ Len(x) = Len(hl) + Len(y)
          /\ \A i \in 1..Len(hl) : x[i] = hl[i]
          /\ \A i \in 1..Len(y) : x[Len(hl) + i] = y[i]
      BY <2>1, <2>4, Behind, Zenon
    <3>2. QED
      BY <2>2, <2>4, <3>1, Zenon
  <2>6. /\ \A i \in 1..Len(h) : i \in 1..k
        /\ \A i \in 1..k : i \in 1..n
        /\ \A i \in 1..Len(s) : Len(h) + i \in 1..k
        /\ \A i \in 1..Len(l) : k + i \in 1..n
    BY <2>1, SMTT(60) DEF k, n
  <2>7. \A i \in 1..k : e[i] = hs[i]
    BY <2>4, <2>5, <2>6, Zenon
  <2>8. \A i \in 1..Len(h) : e[i] = h[i]
    BY <2>3, <2>6, <2>7, Zenon
  <2>9. \A i \in 1..Len(s) : e[Len(h) + i] = s[i]
    BY <2>3, <2>6, <2>7, Zenon
  <2>10. \A i \in 1..Len(l) : e[k + i] = l[i]
    BY <2>4, <2>5, <2>6, Zenon
  <2>11. QED
    BY <1>2, <2>5, <2>8, <2>9, <2>10, Zenon DEF k, n
<1>5. 1 \in 1..d /\ 2 \in 1..d /\ 3 \in 1..d
  BY SMTT(60) DEF d
<1>6. e[1] = kMagic /\ e[2] = kProtocolVersion /\ e[3] = m.type
  BY <1>2, <1>4, <1>5, Zenon
<1>7. QED
  BY <1>3, <1>4, <1>6, Zenon DEF kHeaderSize, s, l, y, e, d

\* A part of p whose elements are the bytes of a number is those bytes.
LEMMA FieldOf ==
    ASSUME NEW p \in Seq(Byte), NEW t \in Seq(Byte), NEW k \in Nat,
           k + Len(t) <= Len(p), \A i \in 1..Len(t) : p[k + i] = t[i]
    PROVE  SubSeq(p, k + 1, k + Len(t)) = t
<1> DEFINE q == SubSeq(p, k + 1, k + Len(t))
<1>1. Len(t) \in Nat /\ k + Len(t) \in Nat /\ k <= k + Len(t) /\ (k + Len(t)) - k = Len(t)
  BY SMTT(60)
<1>2. q \in Seq(Byte) /\ Len(q) = Len(t) /\ \A i \in 1..Len(t) : q[i] = p[k + i]
  BY <1>1, Between, SMTT(60)
<1> HIDE DEF q
<1>3. q = t
  BY <1>2, SameElements
<1>4. QED
  BY <1>3 DEF q

\* tryDecode reads from the header the fields that encode wrote: the numbers
\* are the same, and only a body over the limit is refused.
LEMMA HeaderRead ==
    ASSUME NEW m \in Messages, NEW p \in Seq(Byte), kHeaderSize <= Len(p),
           \A i \in 1..kHeaderSize : p[i] = Encoded[m][i]
    PROVE  /\ p[3] = m.type /\ Seq_(p) = m.seq /\ BodyLen(p) = Len(m.body)
           /\ Invalid(p) <=> Len(m.body) > kMaxBodySize
<1> DEFINE s == ToBytes(m.seq, SeqWidth)
           l == ToBytes(Len(m.body), LenWidth)
           e == Encoded[m]
<1>1. /\ s \in Seq(Byte) /\ l \in Seq(Byte) /\ Len(s) = SeqWidth /\ Len(l) = LenWidth
      /\ FromBytes(s) = m.seq /\ FromBytes(l) = Len(m.body)
  BY EncodedIs, ToBytesLength, BytesBack
<1>2. /\ e[1] = kMagic /\ e[2] = kProtocolVersion /\ e[3] = m.type
      /\ \A i \in 1..SeqWidth : e[3 + i] = s[i]
      /\ \A i \in 1..LenWidth : e[3 + SeqWidth + i] = l[i]
  BY EncodedLayout
<1>3. /\ SeqWidth \in Nat /\ LenWidth \in Nat /\ kMaxBodySize \in Nat
      /\ kHeaderSize = 3 + SeqWidth + LenWidth
  BY CodecAssumption DEF kHeaderSize
<1>4. /\ 1 \in 1..kHeaderSize /\ 2 \in 1..kHeaderSize /\ 3 \in 1..kHeaderSize
      /\ \A i \in 1..SeqWidth : 3 + i \in 1..kHeaderSize
      /\ \A i \in 1..LenWidth : 3 + SeqWidth + i \in 1..kHeaderSize
  BY <1>3, SMTT(60)
<1> HIDE DEF s, l
<1>5. /\ p[1] = kMagic /\ p[2] = kProtocolVersion /\ p[3] = m.type
      /\ \A i \in 1..SeqWidth : p[3 + i] = s[i]
      /\ \A i \in 1..LenWidth : p[3 + SeqWidth + i] = l[i]
  BY <1>2, <1>4, Zenon
<1>6. SubSeq(p, 3 + 1, 3 + SeqWidth) = s
  <2>1. 3 \in Nat /\ 3 + Len(s) <= Len(p) /\ \A i \in 1..Len(s) : p[3 + i] = s[i]
    BY <1>1, <1>3, <1>5, SMTT(60)
  <2>2. QED
    BY <1>1, <2>1, FieldOf
<1>7. SubSeq(p, (3 + SeqWidth) + 1, (3 + SeqWidth) + LenWidth) = l
  <2>1. /\ 3 + SeqWidth \in Nat /\ (3 + SeqWidth) + Len(l) <= Len(p)
        /\ \A i \in 1..Len(l) : p[(3 + SeqWidth) + i] = l[i]
    BY <1>1, <1>3, <1>5, SMTT(60)
  <2>2. QED
    BY <1>1, <2>1, FieldOf
<1>8. /\ 3 + 1 = 4 /\ (3 + SeqWidth) + 1 = 4 + SeqWidth
      /\ (3 + SeqWidth) + LenWidth = kHeaderSize
  BY <1>3, SMTT(60)
<1>9. Seq_(p) = m.seq /\ BodyLen(p) = Len(m.body)
  BY <1>1, <1>6, <1>7, <1>8 DEF Seq_, BodyLen
<1>10. Len(m.body) \in Nat
  BY EncodedIs, SMTT(60)
<1>11. Len(m.body) \notin 0..kMaxBodySize <=> Len(m.body) > kMaxBodySize
  BY <1>3, <1>10, SMTT(60)
<1>12. Invalid(p) <=> Len(m.body) > kMaxBodySize
  BY <1>5, <1>9, <1>11 DEF Invalid
<1>13. QED
  BY <1>5, <1>9, <1>12

\* What retrieveAsString returns behind the header is the body, if it is there.
LEMMA BodyRead ==
    ASSUME NEW m \in Messages, Valid(in), Len(Encoded[m]) <= readableBytes(in),
           \A i \in 1..Len(Encoded[m]) : Unread(in)[i] = Encoded[m][i]
    PROVE  Taken(retrieve(in, kHeaderSize), Len(m.body)) = m.body
<1> DEFINE u == Unread(in)
           n == readableBytes(in)
           b == retrieve(in, kHeaderSize)
           v == Unread(b)
           y == m.body
           e == Encoded[m]
<1>1. u \in Seq(Byte) /\ Len(u) = n /\ n \in Nat
  BY UnreadBytes
<1>2. /\ y \in Seq(Byte) /\ Len(y) \in Nat /\ Len(e) = kHeaderSize + Len(y)
      /\ \A i \in 1..Len(y) : e[kHeaderSize + i] = y[i]
      /\ \A i \in 1..Len(e) : u[i] = e[i] /\ Len(e) <= n
  <2>1. y \in Seq(Byte)
    BY EncodedIs
  <2>2. Len(y) \in Nat
    BY <2>1, SMTT(60)
  <2>3. QED
    BY <2>1, <2>2, EncodedLayout
<1>3. kHeaderSize \in Nat /\ kHeaderSize <= n /\ Len(y) <= n - kHeaderSize
  <2>1. Len(e) <= n
    OBVIOUS
  <2>2. QED
    BY <1>1, <1>2, <2>1, HeaderSize, SMTT(60)
<1>4. /\ Valid(b) /\ v = SubSeq(u, kHeaderSize + 1, n)
      /\ readableBytes(b) = n - kHeaderSize
  BY <1>3, RetrieveUnread
<1> HIDE DEF b, v, y
<1>5. /\ v \in Seq(Byte) /\ Len(v) = n - kHeaderSize
      /\ \A i \in 1..(n - kHeaderSize) : v[i] = u[kHeaderSize + i]
  <2>1. n <= Len(u)
    BY <1>1, SMTT(60)
  <2> HIDE DEF u, n
  <2>2. LET q == SubSeq(u, kHeaderSize + 1, n)
        IN  /\ q \in Seq(Byte) /\ Len(q) = n - kHeaderSize
            /\ \A i \in 1..(n - kHeaderSize) : q[i] = u[kHeaderSize + i]
    BY <1>1, <1>3, <2>1, Between, SMTT(60)
  <2>3. QED
    BY <1>4, <2>2
<1>6. Taken(b, Len(y)) = SubSeq(v, 0 + 1, 0 + Len(y))
  <2> HIDE DEF n
  <2>1. (IF Len(y) < n - kHeaderSize THEN Len(y) ELSE n - kHeaderSize) = Len(y)
    BY <1>1, <1>2, <1>3, SMTT(60)
  <2>2. 0 + 1 = 1 /\ 0 + Len(y) = Len(y)
    BY <1>2, SMTT(60)
  <2>3. Taken(b, Len(y)) = SubSeq(v, 1, Len(y))
    BY <1>4, <2>1 DEF Taken, v
  <2>4. QED
    BY <2>2, <2>3
<1>7. ASSUME NEW i \in 1..Len(y)
      PROVE  v[0 + i] = y[i]
  <2> HIDE DEF u, n, e
  <2>1. 0 + i = i /\ i \in 1..(n - kHeaderSize) /\ kHeaderSize + i \in 1..Len(e)
    BY <1>1, <1>2, <1>3, SMTT(60)
  <2>2. QED
    BY <1>2, <1>5, <2>1
<1>8. 0 \in Nat /\ 0 + Len(y) <= Len(v)
  <2> HIDE DEF n
  <2>1. QED
    BY <1>1, <1>2, <1>3, <1>5, SMTT(60)
<1>9. SubSeq(v, 0 + 1, 0 + Len(y)) = y
  BY <1>2, <1>5, <1>7, <1>8, FieldOf
<1>10. QED
  BY <1>6, <1>9 DEF b, y

-----------------------------------------------------------------------------
(* The decoder implements the queue of messages.                           *)

\* The stream is the messages one behind the other: cut says where each ends.
\* What tryDecode has consumed ends where a message does.
Placed(cut) ==
    /\ cut \in [0..Len(sent) -> 0..Len(stream)]
    /\ cut[0] = 0 /\ cut[Len(sent)] = Len(stream)
    /\ \A i \in 1..Len(sent) :
          /\ cut[i] = cut[i - 1] + Len(Encoded[sent[i]])
          /\ \A j \in 1..Len(Encoded[sent[i]]) :
                stream[cut[i - 1] + j] = Encoded[sent[i]][j]
    /\ cut[Len(decoded)] = Len(consumed)

\* The messages of the queue and their places, and what a refusal stands for.
FrameInv ==
    /\ sent \in Seq(Messages) /\ decoded \in Seq(Messages) /\ stream \in Seq(Byte)
    /\ Len(decoded) <= Len(sent)
    /\ \E cut : Placed(cut)
    /\ pc \in {"poll", "decode"} /\ refused \in BOOLEAN
    /\ RefusesOversizedOnly

\* The message that tryDecode has to return next.
Front == sent[Len(decoded) + 1]

\* The unread bytes begin with the message that comes next, as far as it has
\* arrived; when every message was returned, there are none.
LEMMA FrontUnread ==
    ASSUME ByteInv, FrameInv
    PROVE  /\ Len(decoded) \in Nat /\ Len(sent) \in Nat
           /\ Len(decoded) = Len(sent) => Len(Unread(in)) = 0
           /\ Len(decoded) < Len(sent) =>
                 /\ Front \in Messages
                 /\ \A i \in 1..Len(Unread(in)) :
                       i <= Len(Encoded[Front]) => Unread(in)[i] = Encoded[Front][i]
<1> DEFINE u == Unread(in)
           k == Len(decoded)
           c == Len(consumed)
<1>1. /\ consumed \in Seq(Byte) /\ u \in Seq(Byte) /\ inbound \in Seq(Byte)
      /\ stream = (consumed \o u) \o inbound
  BY UnreadBytes DEF ByteInv, StreamConserved
<1>2. /\ sent \in Seq(Messages) /\ decoded \in Seq(Messages) /\ stream \in Seq(Byte)
      /\ Len(decoded) <= Len(sent)
  BY DEF FrameInv
<1>3. PICK cut : Placed(cut)
  BY DEF FrameInv
<1>4. /\ k \in Nat /\ Len(sent) \in Nat /\ c \in Nat /\ Len(u) \in Nat
      /\ Len(inbound) \in Nat /\ Len(stream) \in Nat
  BY <1>1, <1>2, SMTT(60)
<1> HIDE DEF u, c
<1>5. /\ Len(stream) = (c + Len(u)) + Len(inbound)
      /\ \A i \in 1..Len(u) : stream[c + i] = u[i]
  <2> DEFINE a == consumed \o u
  <2>1. /\ a \in Seq(Byte) /\ Len(a) = c + Len(u)
        /\ \A i \in 1..Len(u) : a[c + i] = u[i]
    BY <1>1, Behind, Zenon DEF c
  <2> HIDE DEF a
  <2>2. /\ Len(a \o inbound) = Len(a) + Len(inbound)
        /\ \A i \in 1..Len(a) : (a \o inbound)[i] = a[i]
    BY <1>1, <2>1, Behind, Zenon
  <2>3. \A i \in 1..Len(u) : c + i \in 1..Len(a)
    BY <1>4, <2>1, SMTT(60)
  <2>4. stream = a \o inbound
    BY <1>1 DEF a
  <2>5. QED
    BY <2>1, <2>2, <2>3, <2>4, Zenon
<1>6. cut[k] = c
  BY <1>3 DEF Placed, c
<1>7. ASSUME k = Len(sent) PROVE Len(u) = 0
  <2>1. cut[k] = Len(stream)
    BY <1>3, <1>7 DEF Placed
  <2>2. QED
    BY <1>4, <1>5, <1>6, <2>1, SMTT(60)
<1>8. ASSUME k < Len(sent)
      PROVE  /\ Front \in Messages
             /\ \A i \in 1..Len(u) : i <= Len(Encoded[Front]) => u[i] = Encoded[Front][i]
  <2>1. k + 1 \in 1..Len(sent) /\ (k + 1) - 1 = k
    BY <1>4, <1>8, SMTT(60)
  <2>2. Front \in Messages
    BY <1>2, <2>1, SMTT(60) DEF Front
  <2>3. \A j \in 1..Len(Encoded[Front]) : stream[c + j] = Encoded[Front][j]
    BY <1>3, <1>6, <2>1 DEF Placed, Front
  <2>4. Len(Encoded[Front]) \in Nat
    BY <2>2, EncodedBytes, SMTT(60)
  <2>5. \A i \in 1..Len(u) : i <= Len(Encoded[Front]) => i \in 1..Len(Encoded[Front])
    BY <1>4, <2>4, SMTT(60)
  <2>6. QED
    BY <1>5, <2>2, <2>3, <2>5, Zenon
<1>9. QED
  BY <1>4, <1>7, <1>8 DEF u

\* A whole header is unread: it is the one of the next message, so tryDecode
\* finds its fields and refuses it for its size or not at all.
LEMMA FrontHeader ==
    ASSUME ByteInv, FrameInv, ~(readableBytes(in) < kHeaderSize)
    PROVE  /\ Len(decoded) < Len(sent) /\ Front \in Messages
           /\ Unread(in)[3] = Front.type /\ Seq_(Unread(in)) = Front.seq
           /\ BodyLen(Unread(in)) = Len(Front.body)
           /\ Invalid(Unread(in)) <=> Len(Front.body) > kMaxBodySize
<1> DEFINE u == Unread(in)
           e == Encoded[Front]
<1>1. u \in Seq(Byte) /\ kHeaderSize <= Len(u) /\ Len(u) \in Nat /\ Len(u) # 0
  <2>1. /\ u \in Seq(Byte) /\ Len(u) = readableBytes(in) /\ readableBytes(in) \in Nat
    BY UnreadBytes DEF ByteInv
  <2>2. QED
    BY <2>1, HeaderSize, SMTT(60)
<1>2. Len(decoded) < Len(sent)
  <2>1. /\ Len(decoded) \in Nat /\ Len(sent) \in Nat
        /\ Len(decoded) = Len(sent) => Len(u) = 0
    BY FrontUnread
  <2>2. Len(decoded) <= Len(sent)
    BY DEF FrameInv
  <2>3. QED
    BY <1>1, <2>1, <2>2, SMTT(60)
<1>3. /\ Front \in Messages
      /\ \A i \in 1..Len(u) : i <= Len(e) => u[i] = e[i]
  BY <1>2, FrontUnread
<1>4. Len(e) \in Nat /\ kHeaderSize <= Len(e)
  <2>1. Front.body \in Seq(Byte) /\ Len(e) = kHeaderSize + Len(Front.body)
    BY <1>3, EncodedIs, EncodedLayout
  <2>2. QED
    BY <2>1, HeaderSize, SMTT(60)
<1>5. \A i \in 1..kHeaderSize : i \in 1..Len(u) /\ i <= Len(e)
  BY <1>1, <1>4, HeaderSize, SMTT(60)
<1>6. \A i \in 1..kHeaderSize : u[i] = e[i]
  BY <1>3, <1>5, Zenon
<1> HIDE DEF u
<1>7. /\ u[3] = Front.type /\ Seq_(u) = Front.seq /\ BodyLen(u) = Len(Front.body)
      /\ Invalid(u) <=> Len(Front.body) > kMaxBodySize
  BY <1>1, <1>3, <1>6, HeaderRead
<1>8. QED
  BY <1>2, <1>3, <1>7 DEF u

\* tryDecode returns the message that comes next, whole and unchanged, and
\* consumes its bytes; it returns no message that is over the limit.
LEMMA DecodeFront ==
    ASSUME ByteInv, FrameInv, Decode
    PROVE  /\ Len(decoded) < Len(sent) /\ Front \in Messages
           /\ decoded' = Append(decoded, Front)
           /\ consumed' \in Seq(Byte)
           /\ Len(consumed') = Len(consumed) + Len(Encoded[Front])
           /\ Len(Front.body) <= kMaxBodySize
<1> DEFINE u == Unread(in)
           n == readableBytes(in)
           e == Encoded[Front]
           len == BodyLen(u)
           x == SubSeq(u, 1, kHeaderSize + len)
<1>1. /\ u \in Seq(Byte) /\ Len(u) = n /\ n \in Nat /\ Valid(in)
      /\ consumed \in Seq(Byte)
  BY UnreadBytes DEF ByteInv
<1>2. /\ ~Half(in) /\ ~Invalid(u) /\ consumed' = consumed \o x
      /\ decoded' = Append(decoded,
             [type |-> u[3], seq |-> Seq_(u),
              body |-> Taken(retrieve(in, kHeaderSize), len)])
  BY DEF Decode
<1>3. ~(n < kHeaderSize)
  BY <1>2 DEF Half
<1>4. /\ Len(decoded) < Len(sent) /\ Front \in Messages
      /\ u[3] = Front.type /\ Seq_(u) = Front.seq /\ len = Len(Front.body)
      /\ Invalid(u) <=> Len(Front.body) > kMaxBodySize
  BY <1>3, FrontHeader
<1>5. Len(e) = kHeaderSize + len /\ len \in Nat /\ Front.body \in Seq(Byte)
  <2>1. Len(e) = kHeaderSize + Len(Front.body) /\ Front.body \in Seq(Byte)
    BY <1>4, EncodedIs, EncodedLayout
  <2>2. Len(Front.body) \in Nat
    BY <2>1, SMTT(60)
  <2>3. QED
    BY <1>4, <2>1, <2>2
<1>6. kHeaderSize + len <= n
  <2>1. ~(n < kHeaderSize + len)
    BY <1>2, <1>3 DEF Half
  <2>2. QED
    BY <1>1, <1>5, <2>1, HeaderSize, SMTT(60)
<1>7. \A i \in 1..Len(e) : u[i] = e[i]
  <2>1. \A i \in 1..Len(u) : i <= Len(e) => u[i] = e[i]
    BY <1>4, FrontUnread
  <2>2. \A i \in 1..Len(e) : i \in 1..Len(u) /\ i <= Len(e)
    BY <1>1, <1>5, <1>6, HeaderSize, SMTT(60)
  <2>3. QED
    BY <2>1, <2>2, Zenon
<1>8. Taken(retrieve(in, kHeaderSize), len) = Front.body
  <2>1. Len(e) <= readableBytes(in)
    BY <1>5, <1>6
  <2>2. Taken(retrieve(in, kHeaderSize), Len(Front.body)) = Front.body
    BY <1>1, <1>4, <1>7, <2>1, BodyRead
  <2>3. QED
    BY <1>4, <2>2
<1>9. Front = [type |-> Front.type, seq |-> Front.seq, body |-> Front.body]
  <2>1. Front \in [type : Byte, seq : 0..(Base^SeqWidth - 1), body : Seq(Byte)]
    BY <1>4, CodecAssumption
  <2> HIDE DEF e
  <2>2. QED
    BY <2>1, Zenon
<1>10. decoded' = Append(decoded, Front)
  BY <1>2, <1>4, <1>8, <1>9, Zenon
<1>11. x \in Seq(Byte) /\ Len(x) = Len(e)
  <2>1. /\ kHeaderSize + len \in 0..Len(u) /\ 1 \in Nat \ {0}
        /\ 1 <= kHeaderSize + len /\ (kHeaderSize + len) - 1 + 1 = kHeaderSize + len
    BY <1>1, <1>5, <1>6, HeaderSize, SMTT(60)
  <2> HIDE DEF u, len
  <2>2. x \in Seq(Byte) /\ Len(x) = (kHeaderSize + len) - 1 + 1
    BY <1>1, <2>1, Part
  <2>3. QED
    BY <1>5, <2>1, <2>2
<1> HIDE DEF x, e
<1>12. consumed' \in Seq(Byte) /\ Len(consumed') = Len(consumed) + Len(e)
  <2>1. /\ consumed \o x \in Seq(Byte)
        /\ Len(consumed \o x) = Len(consumed) + Len(x)
    BY <1>1, <1>11, Behind, Zenon
  <2>2. QED
    BY <1>2, <1>11, <2>1
<1>13. Len(Front.body) <= kMaxBodySize
  BY <1>2, <1>4, <1>5, CodecAssumption, SMTT(60)
<1>14. QED
  BY <1>4, <1>10, <1>12, <1>13 DEF e

\* A message that is encoded comes behind the others.
LEMMA PlacedSend ==
    ASSUME ByteInv, FrameInv, NEW m \in Messages, Send(m)
    PROVE  \E cut : Placed(cut)'
<1> DEFINE e == Encoded[m]
           n == Len(sent)
           s == Len(stream)
<1>1. /\ sent \in Seq(Messages) /\ stream \in Seq(Byte) /\ e \in Seq(Byte)
      /\ decoded \in Seq(Messages) /\ Len(decoded) <= n
  BY EncodedBytes DEF FrameInv
<1>2. /\ sent' = Append(sent, m) /\ stream' = stream \o e
      /\ decoded' = decoded /\ consumed' = consumed
  BY DEF Send
<1>3. /\ n \in Nat /\ s \in Nat /\ Len(e) \in Nat /\ Len(decoded) \in 0..n
      /\ Len(sent') = n + 1 /\ sent'[n + 1] = m /\ \A i \in 1..n : sent'[i] = sent[i]
  BY <1>1, <1>2, SMTT(60)
<1> HIDE DEF e
<1>4. /\ Len(stream') = s + Len(e)
      /\ \A i \in 1..s : stream'[i] = stream[i]
      /\ \A i \in 1..Len(e) : stream'[s + i] = e[i]
  BY <1>1, <1>2, Behind, Zenon
<1>5. PICK cut : Placed(cut)
  BY DEF FrameInv
<1>6. /\ cut \in [0..n -> 0..s] /\ cut[0] = 0 /\ cut[n] = s
      /\ \A i \in 1..n :
            /\ cut[i] = cut[i - 1] + Len(Encoded[sent[i]])
            /\ \A j \in 1..Len(Encoded[sent[i]]) :
                  stream[cut[i - 1] + j] = Encoded[sent[i]][j]
      /\ cut[Len(decoded)] = Len(consumed)
  BY <1>5 DEF Placed
<1> DEFINE new == [i \in 0..(n + 1) |-> IF i <= n THEN cut[i] ELSE s + Len(e)]
<1> HIDE DEF n, s
<1>7. /\ \A i \in 0..n : new[i] = cut[i]
      /\ new[n + 1] = s + Len(e)
      /\ new \in [0..(n + 1) -> 0..(s + Len(e))]
  <2>1. \A i \in 0..n : cut[i] \in 0..s
    BY <1>6
  <2>2. \A i \in 0..(n + 1) :
           (IF i <= n THEN cut[i] ELSE s + Len(e)) \in 0..(s + Len(e))
    BY <1>3, <2>1, SMTT(60)
  <2>3. new \in [0..(n + 1) -> 0..(s + Len(e))]
    BY <2>2
  <2>4. /\ \A i \in 0..n : i \in 0..(n + 1) /\ i <= n
        /\ n + 1 \in 0..(n + 1) /\ ~(n + 1 <= n)
    BY <1>3, SMTT(60)
  <2>5. QED
    BY <2>3, <2>4
<1> HIDE DEF new
<1>8. ASSUME NEW i \in 1..(n + 1)
      PROVE  /\ new[i] = new[i - 1] + Len(Encoded[sent'[i]])
             /\ \A j \in 1..Len(Encoded[sent'[i]]) :
                   stream'[new[i - 1] + j] = Encoded[sent'[i]][j]
  <2>1. CASE i \in 1..n
    <3> DEFINE f == Encoded[sent[i]]
    <3>1. i \in 0..n /\ i - 1 \in 0..n
      BY <1>3, <2>1, SMTT(60)
    <3>2. /\ cut[i] = cut[i - 1] + Len(f)
          /\ \A j \in 1..Len(f) : stream[cut[i - 1] + j] = f[j]
      BY <1>6, <2>1
    <3>3. f \in Seq(Byte)
      <4>1. sent[i] \in Messages
        BY <1>1, <2>1, SMTT(60) DEF n
      <4>2. QED
        BY <4>1, EncodedBytes
    <3> HIDE DEF f
    <3>4. cut[i] \in 0..s /\ cut[i - 1] \in 0..s /\ Len(f) \in Nat
      BY <1>6, <3>1, <3>3, SMTT(60)
    <3>5. \A j \in 1..Len(f) : cut[i - 1] + j \in 1..s
      BY <1>3, <3>2, <3>4, SMTT(60)
    <3>6. \A j \in 1..Len(f) : stream'[cut[i - 1] + j] = f[j]
      BY <1>4, <3>2, <3>5, Zenon
    <3>7. sent'[i] = sent[i] /\ new[i] = cut[i] /\ new[i - 1] = cut[i - 1]
      BY <1>3, <1>7, <2>1, <3>1
    <3>8. QED
      BY <3>2, <3>6, <3>7, Zenon DEF f
  <2>2. CASE i = n + 1
    <3>1. i - 1 = n /\ n \in 0..n
      BY <1>3, <2>2, SMTT(60)
    <3>2. new[i] = s + Len(e) /\ new[i - 1] = s /\ sent'[i] = m
      BY <1>3, <1>6, <1>7, <2>2, <3>1
    <3>3. QED
      BY <1>4, <3>2 DEF e
  <2>3. i \in 1..n \/ i = n + 1
    BY <1>3, SMTT(60)
  <2>4. QED
    BY <2>1, <2>2, <2>3
<1>9. new[0] = 0 /\ new[Len(decoded)] = Len(consumed)
  <2>1. 0 \in 0..n
    BY <1>3, SMTT(60)
  <2>2. QED
    BY <1>3, <1>6, <1>7, <2>1
<1>10. /\ new \in [0..Len(sent') -> 0..Len(stream')]
       /\ new[0] = 0 /\ new[Len(sent')] = Len(stream')
       /\ \A i \in 1..Len(sent') :
             /\ new[i] = new[i - 1] + Len(Encoded[sent'[i]])
             /\ \A j \in 1..Len(Encoded[sent'[i]]) :
                   stream'[new[i - 1] + j] = Encoded[sent'[i]][j]
       /\ new[Len(decoded')] = Len(consumed')
  BY <1>2, <1>3, <1>4, <1>7, <1>8, <1>9, Zenon
<1>11. PICK w : w = new
  OBVIOUS
<1>12. Placed(w)'
  BY <1>10, <1>11 DEF Placed
<1>13. QED
  BY <1>12

\* The messages stay in their places, and what is refused is over the limit.
LEMMA FrameInvStep ==
    ASSUME ByteInv, FrameInv, [Next]_vars
    PROVE  FrameInv'
<1>1. /\ sent \in Seq(Messages) /\ decoded \in Seq(Messages) /\ stream \in Seq(Byte)
      /\ Len(decoded) <= Len(sent) /\ Len(decoded) \in Nat /\ Len(sent) \in Nat
      /\ pc \in {"poll", "decode"} /\ refused \in BOOLEAN
  BY FrontUnread DEF FrameInv
<1>2. refused => Len(decoded) < Len(sent) /\ Len(Front.body) > kMaxBodySize
  BY DEF FrameInv, RefusesOversizedOnly, Front
<1>3. ASSUME NEW m \in Messages, Send(m)
      PROVE  FrameInv'
  <2>1. /\ sent' = Append(sent, m) /\ stream' = stream \o Encoded[m]
        /\ decoded' = decoded /\ refused' = refused /\ pc' = pc
    BY <1>3 DEF Send
  <2>2. /\ sent' \in Seq(Messages) /\ Len(sent') = Len(sent) + 1
        /\ \A i \in 1..Len(sent) : sent'[i] = sent[i]
    BY <1>1, <2>1, SMTT(60)
  <2>3. stream' \in Seq(Byte)
    BY <1>1, <2>1, EncodedBytes, Behind
  <2>4. \E cut : Placed(cut)'
    BY <1>3, PlacedSend
  <2>5. Len(decoded') <= Len(sent')
    BY <1>1, <2>1, <2>2, SMTT(60)
  <2>6. RefusesOversizedOnly'
    <3> SUFFICES ASSUME refused
                 PROVE  /\ Len(decoded) < Len(sent')
                        /\ Len(sent'[Len(decoded) + 1].body) > kMaxBodySize
      BY <2>1 DEF RefusesOversizedOnly
    <3>1. Len(decoded) + 1 \in 1..Len(sent) /\ Len(decoded) < Len(sent')
      BY <1>1, <1>2, <2>2, SMTT(60)
    <3>2. QED
      BY <1>2, <2>2, <3>1 DEF Front
  <2>7. QED
    BY <1>1, <2>1, <2>2, <2>3, <2>4, <2>5, <2>6 DEF FrameInv
<1>4. CASE Decode
  <2>1. /\ Len(decoded) < Len(sent) /\ Front \in Messages
        /\ decoded' = Append(decoded, Front)
        /\ Len(consumed') = Len(consumed) + Len(Encoded[Front])
        /\ Len(Front.body) <= kMaxBodySize
    BY <1>4, DecodeFront
  <2>2. /\ sent' = sent /\ stream' = stream /\ refused' = refused
        /\ pc' \in {"poll", "decode"}
    BY <1>4 DEF Decode, Again, Return
  <2>3. ~refused
    <3>1. Front.body \in Seq(Byte)
      BY <2>1, EncodedIs
    <3>2. Len(Front.body) \in Nat
      BY <3>1, SMTT(60)
    <3>3. QED
      BY <1>2, <2>1, <3>2, CodecAssumption, SMTT(60)
  <2>4. /\ decoded' \in Seq(Messages) /\ Len(decoded') = Len(decoded) + 1
    BY <1>1, <2>1, SMTT(60)
  <2>5. Len(decoded') <= Len(sent')
    BY <1>1, <2>1, <2>2, <2>4, SMTT(60)
  <2>6. \E cut : Placed(cut)'
    <3>1. PICK cut : Placed(cut)
      BY DEF FrameInv
    <3>2. Len(decoded) + 1 \in 1..Len(sent) /\ (Len(decoded) + 1) - 1 = Len(decoded)
      BY <1>1, <2>1, SMTT(60)
    <3>3. cut[Len(decoded) + 1] = cut[Len(decoded)] + Len(Encoded[Front])
      BY <3>1, <3>2 DEF Placed, Front
    <3>4. cut[Len(decoded')] = Len(consumed')
      BY <2>1, <2>4, <3>1, <3>3 DEF Placed
    <3>5. Placed(cut)'
      BY <2>2, <3>1, <3>4 DEF Placed
    <3>6. QED
      BY <3>5
  <2>7. QED
    BY <1>1, <2>2, <2>3, <2>4, <2>5, <2>6 DEF FrameInv, RefusesOversizedOnly
<1>5. CASE DecodeThrows
  <2>1. /\ ~Half(in) /\ Invalid(Unread(in)) /\ refused' = TRUE /\ pc' = "poll"
        /\ UNCHANGED <<sent, stream, decoded, consumed>>
    BY <1>5 DEF DecodeThrows
  <2>2. ~(readableBytes(in) < kHeaderSize)
    BY <2>1 DEF Half
  <2>3. Len(decoded) < Len(sent) /\ Len(Front.body) > kMaxBodySize
    BY <2>1, <2>2, FrontHeader
  <2>4. RefusesOversizedOnly'
    BY <2>1, <2>3 DEF RefusesOversizedOnly, Front
  <2>5. \E cut : Placed(cut)'
    BY <2>1 DEF FrameInv, Placed
  <2>6. QED
    BY <1>1, <2>1, <2>4, <2>5 DEF FrameInv
<1>6. CASE Read \/ DecodeHalf \/ UNCHANGED vars
  <2>1. /\ UNCHANGED <<sent, stream, decoded, consumed, refused>>
        /\ pc' \in {"poll", "decode"}
    BY <1>1, <1>6 DEF Read, DecodeHalf, vars
  <2>2. \E cut : Placed(cut)'
    BY <2>1 DEF FrameInv, Placed
  <2>3. RefusesOversizedOnly'
    BY <2>1 DEF FrameInv, RefusesOversizedOnly
  <2>4. QED
    BY <1>1, <2>1, <2>2, <2>3 DEF FrameInv
<1>7. QED
  BY <1>3, <1>4, <1>5, <1>6 DEF Next

\* Nothing was sent and nothing read.
LEMMA FrameInvInit == Init => ByteInv /\ FrameInv
<1> SUFFICES ASSUME Init PROVE ByteInv /\ FrameInv
  OBVIOUS
<1>1. /\ sent = << >> /\ stream = << >> /\ inbound = << >> /\ consumed = << >>
      /\ decoded = << >> /\ in = NewBuffer /\ refused = FALSE /\ pc = "poll"
  BY DEF Init
<1>2. /\ << >> \o << >> \o << >> = << >> /\ << >> \in Seq(Byte)
      /\ << >> \in Seq(Messages)
  BY SMTT(60)
<1>3. ByteInv
  BY <1>1, <1>2, NewBufferValid DEF ByteInv, StreamConserved
<1>4. Placed([i \in 0..0 |-> 0])
  <2>1. /\ Len(sent) = 0 /\ Len(stream) = 0 /\ Len(decoded) = 0 /\ Len(consumed) = 0
    BY <1>1, SMTT(60)
  <2>2. 0 \in 0..0 /\ 1..0 = {}
    BY SMTT(60)
  <2>3. QED
    BY <2>1, <2>2 DEF Placed
<1>5. Len(decoded) <= Len(sent)
  BY <1>1, SMTT(60)
<1>6. FrameInv
  BY <1>1, <1>2, <1>4, <1>5 DEF FrameInv, RefusesOversizedOnly
<1>7. QED
  BY <1>3, <1>6

\* The two invariants together are inductive.
LEMMA FrameInductive == Spec => [](ByteInv /\ FrameInv)
<1>1. Init => ByteInv /\ FrameInv
  BY FrameInvInit
<1>2. ByteInv /\ FrameInv /\ [Next]_vars => (ByteInv /\ FrameInv)'
  <2> SUFFICES ASSUME ByteInv, FrameInv, [Next]_vars PROVE ByteInv' /\ FrameInv'
    OBVIOUS
  <2>1. QED
    BY ByteInvStep, FrameInvStep
<1>3. QED
  BY <1>1, <1>2, PTL DEF Spec

\* The buffer's indices stay in order and inside its vector, what travels is
\* bytes, and what tryDecode returns is a message.
THEOREM FramingTypes == Spec => []TypeOK
<1>1. ByteInv /\ FrameInv /\ reader \in {"server", "client"} => TypeOK
  <2> SUFFICES ASSUME ByteInv, FrameInv, reader \in {"server", "client"}
               PROVE  TypeOK
    OBVIOUS
  <2>1. \A m \in Messages : m \in [type : Byte, seq : Nat, body : Seq(Byte)]
    <3> SUFFICES ASSUME NEW m \in Messages
                 PROVE  m \in [type : Byte, seq : Nat, body : Seq(Byte)]
      OBVIOUS
    <3>1. m \in [type : Byte, seq : 0..(Base^SeqWidth - 1), body : Seq(Byte)]
      BY CodecAssumption
    <3>2. \A v \in 0..(Base^SeqWidth - 1) : v \in Nat
      BY SMTT(60)
    <3>3. QED
      BY <3>1, <3>2, Zenon
  <2>2. decoded \in Seq([type : Byte, seq : Nat, body : Seq(Byte)])
    <3> DEFINE R == [type : Byte, seq : Nat, body : Seq(Byte)]
    <3>1. decoded \in Seq(Messages) /\ \A m \in Messages : m \in R
      BY <2>1 DEF FrameInv
    <3> HIDE DEF R
    <3>2. decoded \in Seq(R)
      BY <3>1, SMTT(60)
    <3>3. QED
      BY <3>2 DEF R
  <2>3. QED
    BY <2>2 DEF ByteInv, FrameInv, TypeOK
<1>2. Init => reader \in {"server", "client"}
  BY DEF Init
<1>3. reader \in {"server", "client"} /\ [Next]_vars => (reader \in {"server", "client"})'
  BY DEF Next, Send, Read, DecodeHalf, DecodeThrows, Decode, vars
<1>4. QED
  BY <1>1, <1>2, <1>3, FrameInductive, PTL DEF Spec

\* tryDecode throws only at a message whose body is over kMaxBodySize, for every
\* width of the header's fields, every limit and every way of cutting the
\* stream: no piece of a body or of a header is ever taken for a header.
THEOREM OnlyOversizedRefused == Spec => []RefusesOversizedOnly
<1>1. FrameInv => RefusesOversizedOnly
  BY DEF FrameInv
<1>2. QED
  BY <1>1, FrameInductive, PTL

\* The bytes, the buffer and the two decode loops disappear behind a queue: a
\* step of the decoder hands out the next message or changes nothing.
LEMMA DecoderStep ==
    ASSUME ByteInv, FrameInv, [Next]_vars
    PROVE  [Queue!Next]_<<sent, decoded>>
<1>1. ASSUME NEW m \in Messages, Send(m)
      PROVE  Queue!Next
  BY <1>1 DEF Send, Queue!Next, Queue!Send
<1>2. CASE Decode
  <2>1. /\ Len(decoded) < Len(sent)
        /\ decoded' = Append(decoded, sent[Len(decoded) + 1])
    BY <1>2, DecodeFront DEF Front
  <2>2. sent' = sent
    BY <1>2 DEF Decode
  <2>3. QED
    BY <2>1, <2>2 DEF Queue!Next, Queue!Receive
<1>3. CASE Read \/ DecodeHalf \/ DecodeThrows \/ UNCHANGED vars
  BY <1>3 DEF Read, DecodeHalf, DecodeThrows, vars
<1>4. QED
  BY <1>1, <1>2, <1>3 DEF Next

\* Codec over Buffer implements the queue: for every message, width, buffer size
\* and way of cutting the stream, tryDecode returns the messages that encode was
\* given, each once, unchanged and in order.
THEOREM DecoderImplementsQueue == Spec => ImplementsQueue
<1>1. Init => Queue!Init
  BY DEF Init, Queue!Init
<1>2. ByteInv /\ FrameInv /\ [Next]_vars => [Queue!Next]_<<sent, decoded>>
  BY DecoderStep
<1>3. QED
  BY <1>1, <1>2, FrameInductive, PTL DEF Spec, ImplementsQueue, Queue!Spec

=============================================================================
