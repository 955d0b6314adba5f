----------------------------- MODULE BufferProofs -----------------------------
(***************************************************************************)
(* What the operations of Buffer.h and Buffer.cpp do to the content of a   *)
(* buffer, for a vector of any size: lemmas for TcpStreamProofs.           *)
(***************************************************************************)
EXTENDS Buffer, SequenceTheorems, TLAPS

\* Buffers as the diagram of Buffer.h:6-11 has them.
Buffers == {b \in [data : Seq(Nat), reader : Nat, writer : Nat] : IsBuffer(b)}

\* Their parts.
LEMMA Parts ==
    ASSUME NEW b \in Buffers
    PROVE  /\ b \in [data : Seq(Nat), reader : Nat, writer : Nat]
           /\ b.data \in Seq(Nat) /\ b.reader \in Nat /\ b.writer \in Nat /\ Len(b.data) \in Nat
           /\ kCheapPrepend <= b.reader /\ b.reader <= b.writer /\ b.writer <= Len(b.data)
           /\ kCheapPrepend \in Nat
           /\ ReadableBytes(b) \in Nat /\ WritableBytes(b) \in Nat
<1>1. b.data \in Seq(Nat) /\ Len(b.data) \in Nat
  BY LenProperties DEF Buffers
<1> QED  BY <1>1, BufferAssumption DEF Buffers, IsBuffer, ReadableBytes, WritableBytes

\* What there is to know of the indices.
LEMMA Indices ==
    ASSUME NEW b \in Buffers
    PROVE  /\ b.reader \in Nat /\ b.writer \in Nat /\ Len(b.data) \in Nat /\ kCheapPrepend \in Nat
           /\ kCheapPrepend <= b.reader /\ b.reader <= b.writer /\ b.writer <= Len(b.data)
           /\ ReadableBytes(b) \in Nat /\ ReadableBytes(b) = b.writer - b.reader
           /\ WritableBytes(b) \in Nat /\ WritableBytes(b) = Len(b.data) - b.writer
BY Parts DEF ReadableBytes, WritableBytes

\* peek() gives the bytes behind reader.
LEMMA PeekBytes ==
    ASSUME NEW b \in Buffers, NEW len \in 0 .. ReadableBytes(b)
    PROVE  /\ Peek(b, len) \in Seq(Nat) /\ Len(Peek(b, len)) = len
           /\ \A i \in 1 .. len : Peek(b, len)[i] = b.data[b.reader + i]
<1>0. /\ b.data \in Seq(Nat) /\ b.reader \in Nat /\ b.writer \in Nat /\ Len(b.data) \in Nat
      /\ b.writer <= Len(b.data) /\ ReadableBytes(b) = b.writer - b.reader /\ len \in Nat
      /\ ReadableBytes(b) \in Nat
  BY Parts DEF ReadableBytes
<1>1. ASSUME NEW i \in b.reader + 1 .. b.reader + len PROVE b.data[i] \in Nat
  <2>1. /\ b.reader \in Nat /\ b.writer \in Nat /\ Len(b.data) \in Nat /\ len \in Nat
        /\ b.writer <= Len(b.data) /\ len <= b.writer - b.reader
    BY <1>0
  <2>2. i \in 1 .. Len(b.data)
    BY <2>1
  <2> QED  BY <1>0, <2>2, ElementOfSeq
<1> DEFINE m == b.reader + 1
           n == b.reader + len
           s == b.data
<1>2. m \in Int /\ n \in Int /\ \A i \in m .. n : s[i] \in Nat
  BY <1>0, <1>1
<1>3. /\ SubSeq(s, m, n) \in Seq(Nat) /\ Len(SubSeq(s, m, n)) = IF m <= n THEN n - m + 1 ELSE 0
      /\ \A i \in 1 .. n - m + 1 : SubSeq(s, m, n)[i] = s[m + i - 1]
  <2> HIDE DEF m, n, s
  <2> QED  BY <1>2, SubSeqProperties
<1>4. /\ (IF m <= n THEN n - m + 1 ELSE 0) = len /\ n - m + 1 = len
      /\ \A i \in 1 .. len : m + i - 1 = b.reader + i
  BY <1>0
<1> QED  BY <1>3, <1>4 DEF Peek

\* The content, byte by byte.
LEMMA ContentBytes ==
    ASSUME NEW b \in Buffers
    PROVE  /\ Content(b) \in Seq(Nat) /\ Len(Content(b)) = ReadableBytes(b)
           /\ \A i \in 1 .. ReadableBytes(b) : Content(b)[i] = b.data[b.reader + i]
<1>1. ReadableBytes(b) \in 0 .. ReadableBytes(b)
  BY Parts
<1> QED  BY <1>1, PeekBytes DEF Content

\* What decides whether two buffers have the same content.
LEMMA SameContent ==
    ASSUME NEW b \in Buffers, NEW c \in Buffers, ReadableBytes(c) = ReadableBytes(b),
           \A i \in 1 .. ReadableBytes(b) : c.data[c.reader + i] = b.data[b.reader + i]
    PROVE  Content(c) = Content(b)
<1>1. /\ Content(b) \in Seq(Nat) /\ Content(c) \in Seq(Nat) /\ Len(Content(c)) = Len(Content(b))
      /\ \A i \in 1 .. Len(Content(c)) : Content(c)[i] = Content(b)[i]
  BY ContentBytes
<1> QED  BY <1>1, SeqEqual

\* Copying changes the bytes from index i on.
LEMMA CopyBytes ==
    ASSUME NEW data \in Seq(Nat), NEW i \in Nat, NEW s \in Seq(Nat)
    PROVE  /\ Copy(data, i, s) \in Seq(Nat) /\ Len(Copy(data, i, s)) = Len(data)
           /\ \A k \in 1 .. Len(data) :
                  Copy(data, i, s)[k] = IF k - i \in 1 .. Len(s) THEN s[k - i] ELSE data[k]
<1>1. /\ Len(data) \in Nat /\ DOMAIN data = 1 .. Len(data)
      /\ Len(s) \in Nat /\ DOMAIN s = 1 .. Len(s)
  BY LenProperties
<1>2. \A k \in 1 .. Len(data) : (IF k - i \in 1 .. Len(s) THEN s[k - i] ELSE data[k]) \in Nat
  BY <1>1, ElementOfSeq
<1>3. Copy(data, i, s) = [k \in 1 .. Len(data) |-> IF k - i \in 1 .. Len(s) THEN s[k - i] ELSE data[k]]
  BY <1>1 DEF Copy
<1>4. Copy(data, i, s) \in [1 .. Len(data) -> Nat]
  BY <1>2, <1>3
<1>5. Copy(data, i, s) \in Seq(Nat)
  BY <1>1, <1>4, SeqDef
<1>6. Len(Copy(data, i, s)) = Len(data)
  BY <1>1, <1>4, <1>5, LenProperties
<1> QED  BY <1>3, <1>5, <1>6

\* Zeros at the end of the vector.
LEMMA ZerosBytes ==
    ASSUME NEW n \in Nat
    PROVE  Zeros(n) \in Seq(Nat) /\ Len(Zeros(n)) = n
<1>1. Zeros(n) \in [1 .. n -> Nat]
  BY DEF Zeros
<1>2. Zeros(n) \in Seq(Nat)
  BY <1>1, SeqDef
<1> QED  BY <1>1, <1>2, LenProperties

\* A buffer begins without content.
LEMMA NewIsEmpty == NewBuffer \in Buffers /\ ReadableBytes(NewBuffer) = 0
<1>1. /\ Zeros(kInitialSize + kCheapPrepend) \in Seq(Nat)
      /\ Len(Zeros(kInitialSize + kCheapPrepend)) = kInitialSize + kCheapPrepend
  BY ZerosBytes, BufferAssumption
<1> QED  BY <1>1, BufferAssumption DEF NewBuffer, Buffers, IsBuffer, ReadableBytes

\* Nothing to read is no content.
LEMMA NoContent ==
    ASSUME NEW b \in Buffers, ReadableBytes(b) = 0
    PROVE  Content(b) = <<>>
BY ContentBytes, EmptySeq

-----------------------------------------------------------------------------
\* retrieveAll() leaves nothing.
LEMMA RetrieveAllLeaves ==
    ASSUME NEW b \in Buffers
    PROVE  RetrieveAll(b) \in Buffers /\ Content(RetrieveAll(b)) = <<>>
<1> DEFINE c == RetrieveAll(b)
<1>1. /\ b \in [data : Seq(Nat), reader : Nat, writer : Nat] /\ kCheapPrepend \in Nat
      /\ Len(b.data) \in Nat /\ kCheapPrepend <= Len(b.data)
  BY Parts
<1>2. /\ c \in [data : Seq(Nat), reader : Nat, writer : Nat]
      /\ c.data = b.data /\ c.reader = kCheapPrepend /\ c.writer = kCheapPrepend
  BY <1>1 DEF RetrieveAll
<1> HIDE DEF c
<1>3. c \in Buffers /\ ReadableBytes(c) = 0
  BY <1>1, <1>2 DEF Buffers, IsBuffer, ReadableBytes
<1>4. Content(c) = <<>>
  BY <1>3, NoContent
<1> QED  BY <1>3, <1>4 DEF c

\* retrieve() leaves what is behind the bytes that were retrieved.
LEMMA RetrieveLeaves ==
    ASSUME NEW b \in Buffers, NEW len \in 1 .. ReadableBytes(b)
    PROVE  /\ Retrieve(b, len) \in Buffers
           /\ Peek(b, len) \in Seq(Nat)
           /\ Content(b) = Peek(b, len) \o Content(Retrieve(b, len))
<1> DEFINE c == Retrieve(b, len)
<1> SUFFICES /\ c \in Buffers /\ Peek(b, len) \in Seq(Nat)
             /\ Content(b) = Peek(b, len) \o Content(c)
  OBVIOUS
<1>1. /\ Peek(b, len) \in Seq(Nat) /\ Len(Peek(b, len)) = len
      /\ \A i \in 1 .. len : Peek(b, len)[i] = b.data[b.reader + i]
  BY PeekBytes
<1>0. /\ b \in [data : Seq(Nat), reader : Nat, writer : Nat]
      /\ b.reader \in Nat /\ b.writer \in Nat /\ Len(b.data) \in Nat /\ kCheapPrepend \in Nat
      /\ kCheapPrepend <= b.reader /\ b.writer <= Len(b.data)
      /\ ReadableBytes(b) \in Nat /\ ReadableBytes(b) = b.writer - b.reader
  BY Parts DEF ReadableBytes
<1>2. CASE len = ReadableBytes(b)
  <2>1. c = RetrieveAll(b)
    BY <1>0, <1>2 DEF Retrieve
  <2> HIDE DEF c
  <2>2. Content(b) = Peek(b, len)
    BY <1>2 DEF Content
  <2> QED  BY <1>1, <2>1, <2>2, RetrieveAllLeaves, ConcatEmptySeq
<1>3. CASE len < ReadableBytes(b)
  <2>1. c = [b EXCEPT !.reader = b.reader + len]
    BY <1>3 DEF Retrieve
  <2>2. /\ c \in [data : Seq(Nat), reader : Nat, writer : Nat]
        /\ c.data = b.data /\ c.reader = b.reader + len /\ c.writer = b.writer
    <3>1. len \in Nat /\ b.reader + len \in Nat
      BY <1>0
    <3> HIDE DEF c
    <3> QED  BY <1>0, <2>1, <3>1
  <2> HIDE DEF c
  <2>3. c \in Buffers /\ ReadableBytes(c) = ReadableBytes(b) - len
    <3>1. /\ kCheapPrepend <= b.reader + len /\ b.reader + len <= b.writer
          /\ b.writer - (b.reader + len) = (b.writer - b.reader) - len
      BY <1>3, Indices
    <3>2. b.writer <= Len(b.data)
      BY Indices
    <3> QED  BY <2>2, <3>1, <3>2 DEF Buffers, IsBuffer, ReadableBytes
  <2>4. /\ Content(c) \in Seq(Nat) /\ Len(Content(c)) = ReadableBytes(b) - len
        /\ \A i \in 1 .. ReadableBytes(b) - len : Content(c)[i] = b.data[b.reader + len + i]
    <3>1. /\ Content(c) \in Seq(Nat) /\ Len(Content(c)) = ReadableBytes(c)
          /\ \A i \in 1 .. ReadableBytes(c) : Content(c)[i] = c.data[c.reader + i]
      BY <2>3, ContentBytes
    <3> QED  BY <2>2, <2>3, <3>1
  <2>5. /\ Content(b) \in Seq(Nat) /\ Len(Content(b)) = ReadableBytes(b)
        /\ \A i \in 1 .. ReadableBytes(b) : Content(b)[i] = b.data[b.reader + i]
    BY ContentBytes
  <2> DEFINE t == Peek(b, len) \o Content(c)
  <2>6. /\ t \in Seq(Nat) /\ Len(t) = len + (ReadableBytes(b) - len)
        /\ \A i \in 1 .. len + (ReadableBytes(b) - len) :
               t[i] = IF i <= len THEN Peek(b, len)[i] ELSE Content(c)[i - len]
    <3> HIDE DEF t
    <3>1. /\ t \in Seq(Nat) /\ Len(t) = Len(Peek(b, len)) + Len(Content(c))
          /\ \A i \in 1 .. Len(Peek(b, len)) + Len(Content(c)) :
                 t[i] = IF i <= Len(Peek(b, len)) THEN Peek(b, len)[i]
                        ELSE Content(c)[i - Len(Peek(b, len))]
      <4>1. Peek(b, len) \in Seq(Nat) /\ Content(c) \in Seq(Nat)
        BY <1>1, <2>4
      <4> QED  BY <4>1, ConcatProperties DEF t
    <3>2. Len(Peek(b, len)) = len /\ Len(Content(c)) = ReadableBytes(b) - len
      BY <1>1, <2>4
    <3> QED  BY <3>1, <3>2
  <2>7. ReadableBytes(b) \in Nat /\ b.reader \in Nat
    BY <1>0
  <2>8. Len(t) = Len(Content(b))
    BY <2>5, <2>6, <2>7
  <2> HIDE DEF t
  <2>9. ASSUME NEW i \in 1 .. Len(Content(b)) PROVE Content(b)[i] = t[i]
    <3>1. i \in 1 .. ReadableBytes(b) /\ i \in 1 .. len + (ReadableBytes(b) - len)
      BY <2>5, <2>7, <2>9
    <3>2. CASE i <= len
      <4>1. i \in 1 .. len
        BY <1>0, <3>1, <3>2
      <4> QED  BY <1>1, <2>5, <2>6, <3>1, <3>2, <4>1
    <3>3. CASE ~(i <= len)
      <4>1. i - len \in 1 .. ReadableBytes(b) - len /\ b.reader + len + (i - len) = b.reader + i
        BY <2>7, <3>1, <3>3
      <4> QED  BY <2>4, <2>5, <2>6, <3>1, <3>3, <4>1
    <3> QED  BY <3>2, <3>3
  <2>10. Content(b) = t
    <3>1. Content(b) \in Seq(Nat) /\ t \in Seq(Nat)
      BY <2>5, <2>6
    <3> QED  BY <2>8, <2>9, <3>1, SeqEqual
  <2> QED  BY <1>1, <2>3, <2>10 DEF t
<1> HIDE DEF c
<1>4. len = ReadableBytes(b) \/ len < ReadableBytes(b)
  <2>1. ReadableBytes(b) \in Nat
    BY <1>0
  <2> QED  BY <2>1
<1> QED  BY <1>2, <1>3, <1>4

\* makeSpace() keeps the content, and makes the space.
LEMMA MakeSpaceKeeps ==
    ASSUME NEW b \in Buffers, NEW len \in Nat, len > WritableBytes(b)
    PROVE  /\ MakeSpace(b, len) \in Buffers
           /\ Content(MakeSpace(b, len)) = Content(b)
           /\ WritableBytes(MakeSpace(b, len)) >= len
<1> DEFINE c == MakeSpace(b, len)
<1>0. /\ b \in [data : Seq(Nat), reader : Nat, writer : Nat] /\ b.data \in Seq(Nat)
      /\ b.reader \in Nat /\ b.writer \in Nat /\ Len(b.data) \in Nat /\ kCheapPrepend \in Nat
      /\ kCheapPrepend <= b.reader /\ b.reader <= b.writer /\ b.writer <= Len(b.data)
      /\ ReadableBytes(b) \in Nat /\ ReadableBytes(b) = b.writer - b.reader
      /\ WritableBytes(b) = Len(b.data) - b.writer
  BY Parts DEF ReadableBytes, WritableBytes
<1>1. CASE WritableBytes(b) + PrependableBytes(b) < len + kCheapPrepend
  <2> DEFINE n == b.writer + len - Len(b.data)
             z == Zeros(n)
  <2>1. n \in Nat
    BY <1>0
  <2>2. z \in Seq(Nat) /\ Len(z) = n
    <3> HIDE DEF n
    <3> QED  BY <2>1, ZerosBytes
  <2>3. c = [b EXCEPT !.data = b.data \o z]
    BY <1>1 DEF MakeSpace
  <2> HIDE DEF z
  <2>4. /\ b.data \o z \in Seq(Nat) /\ Len(b.data \o z) = Len(b.data) + n
        /\ \A i \in 1 .. Len(b.data) : (b.data \o z)[i] = b.data[i]
    <3>1. /\ b.data \o z \in Seq(Nat) /\ Len(b.data \o z) = Len(b.data) + Len(z)
          /\ \A i \in 1 .. Len(b.data) + Len(z) :
                 (b.data \o z)[i] = IF i <= Len(b.data) THEN b.data[i] ELSE z[i - Len(b.data)]
      BY <1>0, <2>2, ConcatProperties
    <3>2. Len(b.data) \in Nat /\ Len(z) \in Nat /\ Len(z) = n
      BY <1>0, <2>1, <2>2
    <3> HIDE DEF n
    <3> QED  BY <3>1, <3>2
  <2>5. /\ c \in [data : Seq(Nat), reader : Nat, writer : Nat]
        /\ c.data = b.data \o z /\ c.reader = b.reader /\ c.writer = b.writer
    BY <1>0, <2>3, <2>4
  <2> HIDE DEF c
  <2>6. c \in Buffers /\ ReadableBytes(c) = ReadableBytes(b) /\ WritableBytes(c) = len
    <3>1. n = b.writer + len - Len(b.data)
      OBVIOUS
    <3> HIDE DEF n
    <3>2. Len(c.data) = b.writer + len
      <4>1. Len(c.data) = Len(b.data) + n
        BY <2>4, <2>5
      <4> QED  BY <1>0, <2>1, <3>1, <4>1
    <3>3. c.reader = b.reader /\ c.writer = b.writer
      BY <2>5
    <3>4. c \in Buffers
      BY <1>0, <2>5, <3>2, <3>3 DEF Buffers, IsBuffer
    <3> QED  BY <1>0, <3>2, <3>3, <3>4 DEF ReadableBytes, WritableBytes
  <2>7. ASSUME NEW i \in 1 .. ReadableBytes(b) PROVE c.data[c.reader + i] = b.data[b.reader + i]
    <3>1. /\ b.reader \in Nat /\ b.writer \in Nat /\ Len(b.data) \in Nat
          /\ b.writer <= Len(b.data) /\ ReadableBytes(b) = b.writer - b.reader
      BY <1>0
    <3>2. b.reader + i \in 1 .. Len(b.data)
      BY <3>1
    <3> QED  BY <2>4, <2>5, <3>2
  <2> QED  BY <2>6, <2>7, SameContent DEF c
<1>2. CASE ~(WritableBytes(b) + PrependableBytes(b) < len + kCheapPrepend)
  <2> DEFINE d == Copy(b.data, kCheapPrepend, Content(b))
  <2>1. c = [data |-> d, reader |-> kCheapPrepend, writer |-> kCheapPrepend + ReadableBytes(b)]
    BY <1>2 DEF MakeSpace
  <2>2. /\ d \in Seq(Nat) /\ Len(d) = Len(b.data)
        /\ \A k \in 1 .. Len(b.data) :
               d[k] = IF k - kCheapPrepend \in 1 .. ReadableBytes(b) THEN Content(b)[k - kCheapPrepend]
                      ELSE b.data[k]
    <3>1. Content(b) \in Seq(Nat) /\ Len(Content(b)) = ReadableBytes(b)
      BY ContentBytes
    <3> DEFINE x == b.data
               y == Content(b)
    <3>2. x \in Seq(Nat) /\ kCheapPrepend \in Nat /\ y \in Seq(Nat)
      BY <1>0, <3>1
    <3> HIDE DEF d, x, y
    <3>3. /\ Copy(x, kCheapPrepend, y) \in Seq(Nat)
          /\ Len(Copy(x, kCheapPrepend, y)) = Len(x)
          /\ \A k \in 1 .. Len(x) :
                 Copy(x, kCheapPrepend, y)[k] =
                     IF k - kCheapPrepend \in 1 .. Len(y) THEN y[k - kCheapPrepend] ELSE x[k]
      BY <3>2, CopyBytes
    <3> QED  BY <3>1, <3>3 DEF d, x, y
  <2> HIDE DEF d
  <2>3. /\ c \in [data : Seq(Nat), reader : Nat, writer : Nat]
        /\ c.data = d /\ c.reader = kCheapPrepend /\ c.writer = kCheapPrepend + ReadableBytes(b)
    BY <1>0, <2>1, <2>2
  <2> HIDE DEF c
  <2>4. c \in Buffers /\ ReadableBytes(c) = ReadableBytes(b)
    <3>1. /\ kCheapPrepend <= c.reader /\ c.reader <= c.writer /\ c.writer <= Len(c.data)
          /\ c.writer - c.reader = ReadableBytes(b)
      BY <1>0, <2>2, <2>3
    <3> QED  BY <2>3, <3>1 DEF Buffers, IsBuffer, ReadableBytes
  <2>5. WritableBytes(c) >= len
    <3>1. (Len(b.data) - b.writer) + b.reader >= len + kCheapPrepend
      BY <1>0, <1>2 DEF PrependableBytes
    <3>2. Len(c.data) - c.writer = Len(b.data) - (kCheapPrepend + (b.writer - b.reader))
      BY <1>0, <2>2, <2>3
    <3>3. Len(b.data) - (kCheapPrepend + (b.writer - b.reader)) >= len
      BY <1>0, <3>1
    <3> QED  BY <3>2, <3>3 DEF WritableBytes
  <2>6. ASSUME NEW i \in 1 .. ReadableBytes(b) PROVE c.data[c.reader + i] = b.data[b.reader + i]
    <3>1. kCheapPrepend + i \in 1 .. Len(b.data) /\ (kCheapPrepend + i) - kCheapPrepend = i
      BY <1>0
    <3>2. d[kCheapPrepend + i] = Content(b)[i]
      BY <2>2, <3>1
    <3> QED  BY <2>3, <3>2, ContentBytes
  <2> QED  BY <2>4, <2>5, <2>6, SameContent DEF c
<1> QED  BY <1>1, <1>2

\* append() adds nothing to the content: it copies behind writerIndex_, which
\* it does not advance.
THEOREM AppendAddsNothing ==
    ASSUME NEW b \in Buffers, NEW s \in Seq(Nat)
    PROVE  AppendBytes(b, s) \in Buffers /\ Content(AppendBytes(b, s)) = Content(b)
<1> DEFINE room == EnsureWritableBytes(b, Len(s))
           d == Copy(room.data, room.writer, s)
           c == AppendBytes(b, s)
<1>1. room \in Buffers /\ Content(room) = Content(b)
  BY MakeSpaceKeeps, LenProperties DEF EnsureWritableBytes
<1> HIDE DEF room
<1>2. c = [room EXCEPT !.data = d]
  BY DEF AppendBytes, room
<1>0. /\ room \in [data : Seq(Nat), reader : Nat, writer : Nat] /\ room.data \in Seq(Nat)
      /\ room.reader \in Nat /\ room.writer \in Nat /\ Len(room.data) \in Nat
      /\ kCheapPrepend \in Nat /\ kCheapPrepend <= room.reader
      /\ room.reader <= room.writer /\ room.writer <= Len(room.data)
      /\ ReadableBytes(room) = room.writer - room.reader
  BY <1>1, Parts DEF ReadableBytes
<1>3. /\ d \in Seq(Nat) /\ Len(d) = Len(room.data)
      /\ \A k \in 1 .. Len(room.data) :
             d[k] = IF k - room.writer \in 1 .. Len(s) THEN s[k - room.writer] ELSE room.data[k]
  <2>1. room.data \in Seq(Nat) /\ room.writer \in Nat
    BY <1>0
  <2> QED  BY <2>1, CopyBytes, Zenon
<1> HIDE DEF d
<1>4. /\ c \in [data : Seq(Nat), reader : Nat, writer : Nat]
      /\ c.data = d /\ c.reader = room.reader /\ c.writer = room.writer
  BY <1>0, <1>2, <1>3
<1> HIDE DEF c
<1>5. c \in Buffers /\ ReadableBytes(c) = ReadableBytes(room)
  <2>1. /\ kCheapPrepend <= c.reader /\ c.reader <= c.writer /\ c.writer <= Len(c.data)
        /\ c.writer - c.reader = room.writer - room.reader
    BY <1>0, <1>3, <1>4
  <2> QED  BY <1>4, <2>1 DEF Buffers, IsBuffer, ReadableBytes
<1>6. ASSUME NEW i \in 1 .. ReadableBytes(room) PROVE c.data[c.reader + i] = room.data[room.reader + i]
  <2>1. /\ room.reader \in Nat /\ room.writer \in Nat /\ Len(room.data) \in Nat
        /\ room.writer <= Len(room.data) /\ ReadableBytes(room) = room.writer - room.reader
    BY <1>0
  <2>2. room.reader + i \in 1 .. Len(room.data) /\ ~((room.reader + i) - room.writer >= 1)
    BY <2>1
  <2>3. d[room.reader + i] = room.data[room.reader + i]
    <3> DEFINE k == room.reader + i
    <3>1. k \in 1 .. Len(room.data) /\ ~(k - room.writer \in 1 .. Len(s))
      BY <2>2
    <3> HIDE DEF k
    <3> QED  BY <1>3, <3>1 DEF k
  <2> QED  BY <1>4, <2>3
<1>7. Content(c) = Content(room)
  BY <1>1, <1>5, <1>6, SameContent
<1> QED  BY <1>1, <1>5, <1>7 DEF c

\* readFd() adds what the writable space holds; the rest of what it read is lost.
THEOREM ReadFdAdds ==
    ASSUME NEW b \in Buffers, NEW s \in Seq(Nat)
    PROVE  LET n == IF Len(s) < WritableBytes(b) THEN Len(s) ELSE WritableBytes(b)
           IN  /\ ReadFd(b, s) \in Buffers
               /\ Content(ReadFd(b, s)) = Content(b) \o SubSeq(s, 1, n)
               /\ Spilled(b, s) = {s[i] : i \in n + 1 .. Len(s)}
<1> DEFINE w == WritableBytes(b)
           n == IF Len(s) < w THEN Len(s) ELSE w
           d == Copy(b.data, b.writer, s)
           filled == [b EXCEPT !.data = d, !.writer = b.writer + n]
<1>0. /\ b \in [data : Seq(Nat), reader : Nat, writer : Nat] /\ b.data \in Seq(Nat)
      /\ b.reader \in Nat /\ b.writer \in Nat /\ Len(b.data) \in Nat /\ kCheapPrepend \in Nat
      /\ kCheapPrepend <= b.reader /\ b.reader <= b.writer /\ b.writer <= Len(b.data)
      /\ ReadableBytes(b) \in Nat /\ ReadableBytes(b) = b.writer - b.reader
      /\ w = Len(b.data) - b.writer
      /\ Len(s) \in Nat /\ DOMAIN s = 1 .. Len(s)
  BY Parts, LenProperties DEF ReadableBytes, WritableBytes
<1>1. /\ Len(s) \in Nat /\ DOMAIN s = 1 .. Len(s) /\ w \in Nat /\ n \in 0 .. Len(s)
      /\ b.writer + n <= Len(b.data)
  <2> HIDE DEF w
  <2> QED  BY <1>0
<1>2. /\ d \in Seq(Nat) /\ Len(d) = Len(b.data)
      /\ \A k \in 1 .. Len(b.data) :
             d[k] = IF k - b.writer \in 1 .. Len(s) THEN s[k - b.writer] ELSE b.data[k]
  BY <1>0, CopyBytes
<1> HIDE DEF d
<1>3. /\ filled \in [data : Seq(Nat), reader : Nat, writer : Nat]
      /\ filled.data = d /\ filled.reader = b.reader /\ filled.writer = b.writer + n
  <2> HIDE DEF n
  <2>1. n \in Nat /\ b.writer + n \in Nat
    BY <1>0, <1>1
  <2>2. filled = [data |-> d, reader |-> b.reader, writer |-> b.writer + n]
    <3>1. b \in [data : Seq(Nat), reader : Nat, writer : Nat]
      BY <1>0
    <3> DEFINE x == b.writer + n
    <3>2. filled = [b EXCEPT !.data = d, !.writer = x]
      OBVIOUS
    <3> HIDE DEF filled, x
    <3>3. filled = [data |-> d, reader |-> b.reader, writer |-> x]
      BY <3>1, <3>2
    <3> QED  BY <3>3 DEF x
  <2> HIDE DEF filled
  <2> QED  BY <1>0, <1>2, <2>1, <2>2
<1>4. filled \in Buffers /\ ReadableBytes(filled) = ReadableBytes(b) + n
  <2> HIDE DEF filled, n
  <2> QED  BY <1>0, <1>1, <1>2, <1>3 DEF Buffers, IsBuffer, ReadableBytes
<1>5. /\ SubSeq(s, 1, n) \in Seq(Nat) /\ Len(SubSeq(s, 1, n)) = n
      /\ \A i \in 1 .. n : SubSeq(s, 1, n)[i] = s[i]
  <2> HIDE DEF n
  <2>1. 1 \in Int /\ n \in Int /\ \A i \in 1 .. n : s[i] \in Nat
    BY <1>1, ElementOfSeq
  <2>2. /\ SubSeq(s, 1, n) \in Seq(Nat) /\ Len(SubSeq(s, 1, n)) = IF 1 <= n THEN n - 1 + 1 ELSE 0
        /\ \A i \in 1 .. n - 1 + 1 : SubSeq(s, 1, n)[i] = s[1 + i - 1]
    BY <2>1, SubSeqProperties
  <2> QED  BY <1>1, <2>2
<1>6. Content(filled) = Content(b) \o SubSeq(s, 1, n)
  <2> HIDE DEF filled, n, w
  <2>0. /\ b.reader \in Nat /\ b.writer \in Nat /\ Len(b.data) \in Nat /\ Len(s) \in Nat
        /\ ReadableBytes(b) \in Nat /\ ReadableBytes(b) = b.writer - b.reader
        /\ n \in 0 .. Len(s) /\ b.writer + n <= Len(b.data)
    BY <1>0, <1>1
  <2> DEFINE t == Content(b) \o SubSeq(s, 1, n)
             r == ReadableBytes(b)
  <2>1. /\ Content(b) \in Seq(Nat) /\ Len(Content(b)) = r /\ r \in Nat
        /\ \A i \in 1 .. r : Content(b)[i] = b.data[b.reader + i]
    BY <1>0, ContentBytes
  <2>2. /\ t \in Seq(Nat) /\ Len(t) = r + n
        /\ \A i \in 1 .. r + n : t[i] = IF i <= r THEN Content(b)[i] ELSE SubSeq(s, 1, n)[i - r]
    <3> DEFINE u == SubSeq(s, 1, n)
    <3>1. Content(b) \in Seq(Nat) /\ u \in Seq(Nat) /\ Len(Content(b)) = r /\ Len(u) = n
      BY <1>5, <2>1
    <3> HIDE DEF u
    <3>2. /\ Content(b) \o u \in Seq(Nat) /\ Len(Content(b) \o u) = Len(Content(b)) + Len(u)
          /\ \A i \in 1 .. Len(Content(b)) + Len(u) :
                 (Content(b) \o u)[i]
                     = IF i <= Len(Content(b)) THEN Content(b)[i] ELSE u[i - Len(Content(b))]
      BY <3>1, ConcatProperties, Zenon
    <3> QED  BY <3>1, <3>2 DEF u
  <2>3. /\ Content(filled) \in Seq(Nat) /\ Len(Content(filled)) = r + n
        /\ \A i \in 1 .. r + n : Content(filled)[i] = d[b.reader + i]
    <3>1. /\ Content(filled) \in Seq(Nat) /\ Len(Content(filled)) = ReadableBytes(filled)
          /\ \A i \in 1 .. ReadableBytes(filled) : Content(filled)[i] = filled.data[filled.reader + i]
      BY <1>4, ContentBytes
    <3> QED  BY <1>3, <1>4, <3>1
  <2>4. ASSUME NEW i \in 1 .. Len(Content(filled)) PROVE Content(filled)[i] = t[i]
    <3>1. i \in 1 .. r + n /\ b.reader + i \in 1 .. Len(b.data) /\ b.writer = b.reader + r
      <4>1. Len(Content(filled)) = r + n
        BY <2>3
      <4>2. i \in Nat /\ 1 <= i /\ i <= r + n
        BY <2>0, <2>4, <4>1
      <4>3. b.writer = b.reader + r
        BY <2>0
      <4>4. b.reader + i <= b.writer + n
        <5>1. b.reader \in Nat /\ r \in Nat /\ n \in Nat
          BY <2>0
        <5> HIDE DEF r
        <5> QED  BY <4>2, <4>3, <5>1
      <4>5. b.reader + i \in 1 .. Len(b.data)
        <5>0. b.reader \in Nat
          BY <2>0
        <5>1. b.reader + i \in Nat /\ 1 <= b.reader + i
          BY <4>2, <5>0
        <5>2. b.reader + i <= Len(b.data)
          BY <2>0, <4>4, <5>1
        <5> QED  BY <2>0, <5>1, <5>2
      <4>6. i \in 1 .. r + n
        <5>1. r \in Nat
          BY <2>0
        <5> HIDE DEF r
        <5> QED  BY <2>0, <4>2, <5>1
      <4> QED  BY <4>3, <4>5, <4>6
    <3>2. CASE i <= r
      <4>1. ~((b.reader + i) - b.writer \in 1 .. Len(s)) /\ i \in 1 .. r
        <5>1. r \in Nat
          BY <2>0
        <5> HIDE DEF r
        <5>2. i \in Nat /\ 1 <= i /\ (b.reader + i) - b.writer = i - r
          BY <2>0, <3>1, <5>1
        <5>3. ~((b.reader + i) - b.writer >= 1)
          BY <3>2, <5>1, <5>2
        <5> QED  BY <2>0, <3>2, <5>1, <5>2, <5>3
      <4> QED  BY <1>2, <2>1, <2>2, <2>3, <3>1, <3>2, <4>1
    <3>3. CASE ~(i <= r)
      <4>1. /\ (b.reader + i) - b.writer = i - r /\ i - r \in 1 .. n /\ i - r \in 1 .. Len(s)
        <5>1. r \in Nat /\ n \in Nat /\ n <= Len(s) /\ Len(s) \in Nat /\ b.reader \in Nat
          BY <2>0
        <5> HIDE DEF r
        <5>2. i \in Nat /\ i > r /\ i <= r + n /\ (b.reader + i) - b.writer = i - r
          BY <3>1, <3>3, <5>1
        <5>3. i - r \in Nat /\ 1 <= i - r /\ i - r <= n
          BY <5>1, <5>2
        <5>4. i - r \in 1 .. n /\ i - r \in 1 .. Len(s)
          BY <5>1, <5>3
        <5> QED  BY <5>2, <5>4
      <4> QED  BY <1>2, <1>5, <2>2, <2>3, <3>1, <3>3, <4>1
    <3> QED  BY <3>2, <3>3
  <2> HIDE DEF t
  <2>5. Content(filled) = t
    BY <2>2, <2>3, <2>4, SeqEqual
  <2> QED  BY <2>5 DEF t
<1>7. Spilled(b, s) = {s[i] : i \in n + 1 .. Len(s)}
  <2>1. {k \in DOMAIN s : k > w} = n + 1 .. Len(s)
    <3> HIDE DEF w
    <3> QED  BY <1>1
  <2> QED  BY <2>1 DEF Spilled
<1>8. ReadFd(b, s) \in Buffers /\ Content(ReadFd(b, s)) = Content(filled)
  <2>1. CASE Len(s) < w
    <3>1. ReadFd(b, s) = filled
      BY <2>1 DEF ReadFd, d
    <3> QED  BY <1>4, <3>1
  <2>2. CASE ~(Len(s) < w)
    <3> DEFINE rest == SubSeq(s, w + 1, Len(s))
    <3>1. n = w /\ b.writer + n = Len(b.data)
      BY <1>0, <1>1, <2>2
    <3>2. ReadFd(b, s) = AppendBytes(filled, rest)
      BY <2>2, <3>1 DEF ReadFd, d
    <3>3. rest \in Seq(Nat)
      <4> HIDE DEF w
      <4>1. w + 1 \in Int /\ Len(s) \in Int /\ \A i \in w + 1 .. Len(s) : i \in 1 .. Len(s)
        BY <1>1
      <4>2. \A i \in w + 1 .. Len(s) : s[i] \in Nat
        BY <4>1, ElementOfSeq
      <4> QED  BY <4>1, <4>2, SubSeqProperties
    <3> HIDE DEF filled, rest
    <3> QED  BY <1>4, <3>2, <3>3, AppendAddsNothing
  <2> QED  BY <2>1, <2>2
<1> HIDE DEF filled
<1> QED  BY <1>6, <1>7, <1>8
=============================================================================
