-------------------------------- MODULE Buffer --------------------------------
(***************************************************************************)
(* Buffer.h and Buffer.cpp: a vector and two indices.                      *)
(*                                                                         *)
(*     0  <=  reader  <=  writer  <=  Len(data)                            *)
(*                                                                         *)
(* The byte at index i of the vector is data[i + 1].  An operation is an   *)
(* operator that returns the buffer after it.                              *)
(***************************************************************************)
EXTENDS Integers, Sequences

CONSTANTS
    kCheapPrepend,      \* where reader and writer begin
    kInitialSize,
    ExtraSize           \* sizeof(extrabuf), readFd()'s array on the stack

ASSUME BufferAssumption ==
    /\ kCheapPrepend \in Nat /\ kInitialSize \in Nat /\ ExtraSize \in Nat \ {0}

Zeros(n) == [i \in 1 .. n |-> 0]

NewBuffer ==
    [data |-> Zeros(kInitialSize + kCheapPrepend),
     reader |-> kCheapPrepend, writer |-> kCheapPrepend]

ReadableBytes(b) == b.writer - b.reader
WritableBytes(b) == Len(b.data) - b.writer
PrependableBytes(b) == b.reader

\* len bytes from peek() on.
Peek(b, len) == SubSeq(b.data, b.reader + 1, b.reader + len)

Content(b) == Peek(b, ReadableBytes(b))

-----------------------------------------------------------------------------
RetrieveAll(b) == [b EXCEPT !.reader = kCheapPrepend, !.writer = kCheapPrepend]

Retrieve(b, len) ==
    IF len < ReadableBytes(b) THEN [b EXCEPT !.reader = @ + len] ELSE RetrieveAll(b)

\* std::copy() of s to index i of a vector.
Copy(data, i, s) ==
    [k \in DOMAIN data |-> IF k - i \in DOMAIN s THEN s[k - i] ELSE data[k]]

\* The content moves to the front, and writer stays.
FaultMakeSpace(b, len) ==
    IF WritableBytes(b) + PrependableBytes(b) < len + kCheapPrepend
    THEN [b EXCEPT !.data = @ \o Zeros(b.writer + len - Len(@))]
    ELSE [b EXCEPT !.data = Copy(@, kCheapPrepend, Content(b)), !.reader = kCheapPrepend]

\* The vector grows, or the content moves to the front.
MakeSpace(b, len) ==
    IF WritableBytes(b) + PrependableBytes(b) < len + kCheapPrepend
    THEN [b EXCEPT !.data = @ \o Zeros(b.writer + len - Len(@))]
    ELSE [data |-> Copy(b.data, kCheapPrepend, Content(b)),
          reader |-> kCheapPrepend,
          writer |-> kCheapPrepend + ReadableBytes(b)]

EnsureWritableBytes(b, len) ==
    IF len > WritableBytes(b) THEN MakeSpace(b, len) ELSE b

\* append(): s is copied behind writer, which is not advanced.
AppendBytes(b, s) ==
    LET room == EnsureWritableBytes(b, Len(s))
    IN  [room EXCEPT !.data = Copy(@, room.writer, s)]

-----------------------------------------------------------------------------
\* How much a readv() of readFd() may return.
ReadSpace(b) ==
    WritableBytes(b) + IF WritableBytes(b) < ExtraSize THEN ExtraSize ELSE 0

\* writerIndex_ += n, whatever n is.
FaultReadFd(b, s) ==
    [b EXCEPT !.data = Copy(@, b.writer, s), !.writer = @ + Len(s)]

\* readFd() that reads s: what the free space does not hold is in extrabuf.
ReadFd(b, s) ==
    LET writable == WritableBytes(b)
        filled == [b EXCEPT !.data = Copy(@, b.writer, s)]
    IN  IF Len(s) < writable
        THEN [filled EXCEPT !.writer = @ + Len(s)]
        ELSE AppendBytes([filled EXCEPT !.writer = Len(b.data)],
                         SubSeq(s, writable + 1, Len(s)))

\* Bytes of s that readFd() leaves to append().
Spilled(b, s) ==
    {s[i] : i \in {k \in DOMAIN s : k > WritableBytes(b)}}

\* The diagram of Buffer.h:6-11.
IsBuffer(b) ==
    /\ kCheapPrepend <= b.reader /\ b.reader <= b.writer /\ b.writer <= Len(b.data)
=============================================================================
