-------------------------------- MODULE Buffer --------------------------------
(***************************************************************************)
(* The byte buffer of src/net/Buffer.cpp as functions on its three members:*)
(* data is buffer_, r and w are readerIndex_ and writerIndex_.  Indices    *)
(* count from 0 as in the code: the byte at index i is data[i + 1].        *)
(***************************************************************************)
EXTENDS Integers, Sequences

CONSTANTS
    Byte,           \* the values of a char; a fresh vector holds 0
    kInitialSize,
    kCheapPrepend,
    ExtraSize       \* sizeof(extrabuf) in readFd

ASSUME BufferAssumption ==
    /\ 0 \in Byte
    /\ kInitialSize \in Nat
    /\ kCheapPrepend \in Nat
    /\ ExtraSize \in Nat \ {0}

NewBuffer ==
    [data |-> [i \in 1..(kCheapPrepend + kInitialSize) |-> 0],
     r |-> kCheapPrepend, w |-> kCheapPrepend]

\* The indices are in order and inside the vector.
Valid(b) ==
    /\ b \in [data : Seq(Byte), r : Nat, w : Nat]
    /\ kCheapPrepend <= b.r /\ b.r <= b.w /\ b.w <= Len(b.data)

readableBytes(b) == b.w - b.r
writableBytes(b) == Len(b.data) - b.w

\* The unread bytes, from peek() to beginWrite().
Unread(b) == SubSeq(b.data, b.r + 1, b.w)

retrieveAll(b) == [b EXCEPT !.r = kCheapPrepend, !.w = kCheapPrepend]

retrieve(b, len) ==
    IF len < readableBytes(b) THEN [b EXCEPT !.r = @ + len] ELSE retrieveAll(b)

\* retrieveAsString: the bytes that come out; retrieve(b, len) is what is left.
Taken(b, len) ==
    SubSeq(Unread(b), 1, IF len < readableBytes(b) THEN len ELSE readableBytes(b))

\* std::copy of s to index `at' of data.
Copy(s, data, at) ==
    SubSeq(data, 1, at) \o s \o SubSeq(data, at + Len(s) + 1, Len(data))

\* vector::resize to n bytes, when that grows it.
Resize(data, n) == data \o [i \in 1..(n - Len(data)) |-> 0]

\* Fault: the unread bytes are not moved before the indices are.
MoveNothing(b) ==
    [b EXCEPT !.r = kCheapPrepend, !.w = kCheapPrepend + readableBytes(b)]

\* The unread bytes are moved to the front.
MoveUnread(b) ==
    [data |-> Copy(Unread(b), b.data, kCheapPrepend),
     r |-> kCheapPrepend, w |-> kCheapPrepend + readableBytes(b)]

\* Fault: room for the new bytes on top of the whole vector.
GrownTwice(b, len) == Len(b.data) + b.w + len

\* The size that ensureWritableBytes grows to.
Grown(b, len) == b.w + len

ensureWritableBytes(b, len) ==
    LET moved == MoveUnread(b)
    IN  IF writableBytes(b) >= len THEN b
        ELSE IF writableBytes(moved) >= len THEN moved
        ELSE [data |-> Resize(moved.data, Grown(moved, len)),
              r |-> moved.r, w |-> moved.w]

\* s is copied to beginWrite() and writerIndex_ moves past it.
Written(b, s) == [b EXCEPT !.data = Copy(s, @, b.w), !.w = @ + Len(s)]

append(b, s) ==
    LET e == ensureWritableBytes(b, Len(s))
    IN  Written(e, s)

\* The most bytes one readv can return.
ReadLimit(b) ==
    IF writableBytes(b) < ExtraSize THEN writableBytes(b) + ExtraSize
                                    ELSE writableBytes(b)

\* The part of s that fits into the vector is there, the rest in extrabuf.
Filled(b, s) == Written(b, SubSeq(s, 1, writableBytes(b)))

\* readFd when readv returned more than the vector has room for.
Spill(b, s) ==
    LET filled == Filled(b, s)
    IN  append(filled, SubSeq(s, writableBytes(b) + 1, Len(s)))

\* readFd when readv returns the bytes s.
readFd(b, s) ==
    IF Len(s) <= writableBytes(b)
    THEN Written(b, s)
    ELSE Spill(b, s)
=============================================================================
