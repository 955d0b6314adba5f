---------------------------- MODULE TcpStreamProofs ----------------------------
(***************************************************************************)
(* TcpStream for any number of bytes, any size of the buffers and any      *)
(* capacity of the socket: what the other side sent is retrieved once and  *)
(* in order, and what send() was given goes out once and in order, but for *)
(* the bytes that append() was given.                                      *)
(***************************************************************************)
EXTENDS TcpStream, BufferProofs

\* The bytes of s that are in B come before those of t.
Before(s, t, B) ==
    \A x \in ToSet(s) \cap B, y \in ToSet(t) \cap B : x < y

\* The smaller of two numbers is one that is no larger than either.
LEMMA MinOfTwo ==
    ASSUME NEW a \in Nat, NEW b \in Nat
    PROVE  Min({a, b}) \in Nat /\ Min({a, b}) <= a /\ Min({a, b}) <= b
<1> DEFINE m == CHOOSE x \in {a, b} : \A y \in {a, b} : x <= y
<1>1. \E x \in {a, b} : \A y \in {a, b} : x <= y
  OBVIOUS
<1>2. m \in {a, b} /\ \A y \in {a, b} : m <= y
  BY <1>1
<1>3. Min({a, b}) = m
  BY DEF Min
<1> HIDE DEF m
<1> QED  BY <1>2, <1>3

-----------------------------------------------------------------------------
(* Concatenation *)

\* A concatenation has the bytes of both.
LEMMA ConcatSet ==
    ASSUME NEW s \in Seq(Nat), NEW t \in Seq(Nat)
    PROVE  s \o t \in Seq(Nat) /\ ToSet(s \o t) = ToSet(s) \cup ToSet(t)
<1> DEFINE u == s \o t
<1>1. /\ u \in Seq(Nat) /\ Len(u) = Len(s) + Len(t)
      /\ \A i \in 1 .. Len(s) + Len(t) : u[i] = IF i <= Len(s) THEN s[i] ELSE t[i - Len(s)]
  BY ConcatProperties
<1> HIDE DEF u
<1>2. /\ DOMAIN s = 1 .. Len(s) /\ DOMAIN t = 1 .. Len(t) /\ DOMAIN u = 1 .. Len(u)
      /\ Len(s) \in Nat /\ Len(t) \in Nat
  BY <1>1, LenProperties
<1>3. ASSUME NEW i \in DOMAIN u PROVE u[i] \in ToSet(s) \cup ToSet(t)
  <2>1. i \in 1 .. Len(s) + Len(t)
    BY <1>1, <1>2, <1>3
  <2>2. CASE i <= Len(s)
    <3>1. i \in DOMAIN s /\ u[i] = s[i]
      BY <1>1, <1>2, <2>1, <2>2
    <3> QED  BY <3>1 DEF ToSet
  <2>3. CASE ~(i <= Len(s))
    <3>1. i - Len(s) \in DOMAIN t /\ u[i] = t[i - Len(s)]
      BY <1>1, <1>2, <2>1, <2>3
    <3> QED  BY <3>1 DEF ToSet
  <2> QED  BY <2>2, <2>3
<1>4. ASSUME NEW i \in DOMAIN s PROVE s[i] \in ToSet(u)
  <2>1. i \in DOMAIN u /\ u[i] = s[i]
    BY <1>1, <1>2, <1>4
  <2> QED  BY <2>1 DEF ToSet
<1>5. ASSUME NEW i \in DOMAIN t PROVE t[i] \in ToSet(u)
  <2>1. /\ Len(s) + i \in 1 .. Len(s) + Len(t) /\ ~(Len(s) + i <= Len(s))
        /\ (Len(s) + i) - Len(s) = i
    BY <1>2, <1>5
  <2>2. Len(s) + i \in DOMAIN u /\ u[Len(s) + i] = t[i]
    BY <1>1, <1>2, <2>1
  <2> QED  BY <2>2 DEF ToSet
<1>6. ToSet(u) = ToSet(s) \cup ToSet(t)
  <2>1. ToSet(u) \subseteq ToSet(s) \cup ToSet(t)
    BY <1>3 DEF ToSet
  <2>2. ToSet(s) \subseteq ToSet(u)
    BY <1>4 DEF ToSet
  <2>3. ToSet(t) \subseteq ToSet(u)
    BY <1>5 DEF ToSet
  <2> QED  BY <2>1, <2>2, <2>3
<1> QED  BY <1>1, <1>6 DEF u

\* How three sequences are grouped makes no difference.
Grouped(s, t, u) == (s \o t) \o u = s \o (t \o u)

LEMMA Regroup == \A s, t, u \in Seq(Nat) : Grouped(s, t, u)
<1> TAKE s, t, u \in Seq(Nat)
<1>1. (s \o t) \o u = s \o (t \o u)
  BY ConcatAssociative, SMTT(20)
<1> QED  BY <1>1 DEF Grouped

\* It is in order if both are and the first one's bytes come before the second's.
LEMMA ConcatOrder ==
    ASSUME NEW s \in Seq(Nat), NEW t \in Seq(Nat), NEW B
    PROVE  InOrder(s \o t, B) <=> InOrder(s, B) /\ InOrder(t, B) /\ Before(s, t, B)
<1> DEFINE u == s \o t
<1>1. /\ u \in Seq(Nat) /\ Len(u) = Len(s) + Len(t)
      /\ \A i \in 1 .. Len(s) + Len(t) : u[i] = IF i <= Len(s) THEN s[i] ELSE t[i - Len(s)]
  BY ConcatProperties
<1> HIDE DEF u
<1>2. /\ DOMAIN s = 1 .. Len(s) /\ DOMAIN t = 1 .. Len(t) /\ DOMAIN u = 1 .. Len(s) + Len(t)
      /\ Len(s) \in Nat /\ Len(t) \in Nat
  BY <1>1, LenProperties
<1>3. \A i \in DOMAIN s : i \in DOMAIN u /\ u[i] = s[i]
  BY <1>1, <1>2
<1>4. ASSUME NEW i \in DOMAIN t PROVE Len(s) + i \in DOMAIN u /\ u[Len(s) + i] = t[i]
  <2>1. /\ Len(s) + i \in 1 .. Len(s) + Len(t) /\ ~(Len(s) + i <= Len(s))
        /\ (Len(s) + i) - Len(s) = i
    BY <1>2, <1>4
  <2> QED  BY <1>1, <1>2, <2>1
<1>5. ASSUME NEW i \in DOMAIN u
      PROVE  \/ i \in DOMAIN s /\ u[i] = s[i]
             \/ i > Len(s) /\ i - Len(s) \in DOMAIN t /\ u[i] = t[i - Len(s)]
  <2>1. CASE i <= Len(s)
    BY <1>1, <1>2, <2>1
  <2>2. CASE ~(i <= Len(s))
    BY <1>1, <1>2, <2>2
  <2> QED  BY <2>1, <2>2
<1>6. ASSUME InOrder(u, B) PROVE InOrder(s, B) /\ InOrder(t, B) /\ Before(s, t, B)
  <2>1. InOrder(s, B)
    BY <1>3, <1>6 DEF InOrder
  <2>2. InOrder(t, B)
    <3>1. SUFFICES ASSUME NEW i \in DOMAIN t, NEW j \in DOMAIN t, i < j, {t[i], t[j]} \subseteq B
                   PROVE  t[i] < t[j]
      BY DEF InOrder
    <3>2. Len(s) + i < Len(s) + j
      BY <1>2, <3>1
    <3>3. /\ Len(s) + i \in DOMAIN u /\ u[Len(s) + i] = t[i]
          /\ Len(s) + j \in DOMAIN u /\ u[Len(s) + j] = t[j]
      BY <1>4
    <3> QED  BY <1>6, <3>1, <3>2, <3>3 DEF InOrder
  <2>3. Before(s, t, B)
    <3>1. SUFFICES ASSUME NEW i \in DOMAIN s, NEW j \in DOMAIN t, s[i] \in B, t[j] \in B
                   PROVE  s[i] < t[j]
      BY DEF Before, ToSet
    <3>2. i < Len(s) + j
      BY <1>2, <3>1
    <3>3. i \in DOMAIN u /\ u[i] = s[i] /\ Len(s) + j \in DOMAIN u /\ u[Len(s) + j] = t[j]
      BY <1>3, <1>4
    <3> QED  BY <1>6, <3>1, <3>2, <3>3 DEF InOrder
  <2> QED  BY <2>1, <2>2, <2>3
<1>7. ASSUME InOrder(s, B), InOrder(t, B), Before(s, t, B) PROVE InOrder(u, B)
  <2>1. SUFFICES ASSUME NEW i \in DOMAIN u, NEW j \in DOMAIN u, i < j, u[i] \in B, u[j] \in B
                 PROVE  u[i] < u[j]
    BY DEF InOrder
  <2>2. CASE i \in DOMAIN s /\ u[i] = s[i] /\ j \in DOMAIN s /\ u[j] = s[j]
    BY <1>7, <2>1, <2>2 DEF InOrder
  <2>3. CASE /\ i \in DOMAIN s /\ u[i] = s[i]
             /\ j - Len(s) \in DOMAIN t /\ u[j] = t[j - Len(s)]
    BY <1>7, <2>1, <2>3 DEF Before, ToSet
  <2>4. CASE /\ i - Len(s) \in DOMAIN t /\ u[i] = t[i - Len(s)]
             /\ j - Len(s) \in DOMAIN t /\ u[j] = t[j - Len(s)]
    <3>1. i - Len(s) < j - Len(s)
      BY <1>2, <2>1
    <3> QED  BY <1>7, <2>1, <2>4, <3>1 DEF InOrder
  <2>5. CASE i > Len(s) /\ j \in DOMAIN s
    BY <1>2, <2>1, <2>5
  <2> QED  BY <1>5, <2>2, <2>3, <2>4, <2>5
<1> QED  BY <1>6, <1>7 DEF u

\* A sequence that is cut into two.
LEMMA Cut ==
    ASSUME NEW s \in Seq(Nat), NEW n \in 0 .. Len(s)
    PROVE  /\ SubSeq(s, 1, n) \in Seq(Nat) /\ SubSeq(s, n + 1, Len(s)) \in Seq(Nat)
           /\ Len(SubSeq(s, 1, n)) = n
           /\ SubSeq(s, 1, n) \o SubSeq(s, n + 1, Len(s)) = s
<1>1. Len(s) \in Nat /\ n \in Nat /\ n <= Len(s)
  BY LenProperties
<1>2. ASSUME NEW i \in Int, 1 <= i, i <= Len(s) PROVE s[i] \in Nat
  <2>1. i \in 1 .. Len(s)
    BY <1>1, <1>2
  <2> QED  BY <2>1, ElementOfSeq
<1>3. (\A i \in 1 .. n : s[i] \in Nat) /\ (\A i \in n + 1 .. Len(s) : s[i] \in Nat)
  BY <1>1, <1>2
<1>4. SubSeq(s, 1, n) \in Seq(Nat) /\ Len(SubSeq(s, 1, n)) = IF 1 <= n THEN n - 1 + 1 ELSE 0
  BY <1>1, <1>3, SubSeqProperties
<1>5. n + 1 \in Int /\ Len(s) \in Int
  BY <1>1
<1>6. SubSeq(s, n + 1, Len(s)) \in Seq(Nat)
  BY <1>3, <1>5, SubSeqProperties
<1>7. SubSeq(s, 1, n) \o SubSeq(s, n + 1, Len(s)) = SubSeq(s, 1, Len(s))
  <2>1. 1 \in 1 .. Len(s) + 1 /\ n \in 1 - 1 .. Len(s) /\ Len(s) \in n .. Len(s)
    BY <1>1
  <2> QED  BY <2>1, ConcatAdjacentSubSeq
<1>8. SubSeq(s, 1, Len(s)) = s
  BY SubSeqFull
<1>9. Len(SubSeq(s, 1, n)) = n
  BY <1>1, <1>4
<1> QED  BY <1>4, <1>6, <1>7, <1>8, <1>9

-----------------------------------------------------------------------------
(* Types *)

\* What runInLoop() is given.
Functors == [op : {"send", "shutdown"}, bytes : Seq(Nat)]

\* What the variables hold.
Typed ==
    /\ state \in {"kConnected", "kDisconnecting", "kDisconnected"}
    /\ pc \in {"idle", "message", "replied", "shutdown", "queue"}
    /\ call \in {"none", "send", "shutdown", "queue"}
    /\ watched \in BOOLEAN /\ fin \in BOOLEAN /\ down \in BOOLEAN
    /\ inputBuffer \in Buffers /\ outputBuffer \in Buffers
    /\ sent \in 0 .. MaxBytes /\ userSent \in 0 .. MaxUserBytes /\ free \in 0 .. SendSpace
    /\ functors \in Seq(Functors)
    /\ received \in Seq(Nat) /\ wire \in Seq(Nat)
    /\ delivered \in Seq(Nat) /\ echoed \in Seq(Nat) /\ promised \in Seq(Nat)

\* They hold what the type invariant says.
LEMMA TypedIsTypeOK == Typed => TypeOK
<1>1. SUFFICES ASSUME Typed PROVE TypeOK
  OBVIOUS
<1>2. ASSUME NEW f \in ToSet(functors) PROVE f.op \in {"send", "shutdown"}
  <2>1. PICK i \in DOMAIN functors : f = functors[i]
    BY DEF ToSet
  <2>2. functors \in Seq(Functors)
    BY <1>1 DEF Typed
  <2>3. functors[i] \in Functors
    BY <2>2, LenProperties, ElementOfSeq
  <2> QED  BY <2>1, <2>3 DEF Functors
<1>3. IsBuffer(inputBuffer) /\ IsBuffer(outputBuffer)
  BY <1>1 DEF Typed, Buffers
<1> QED  BY <1>1, <1>2, <1>3 DEF Typed, TypeOK

\* Of s, taken goes on the wire and rest into append().
Splits(s, taken, rest) ==
    s = taken \o rest /\ wire' = wire \o taken /\ unsent' = unsent \cup ToSet(rest)

\* sendInLoop() splits its bytes in two, or does nothing.
LEMMA SendEffect ==
    ASSUME Typed, NEW s \in Seq(Nat), SendInLoop(s)
    PROVE  /\ outputBuffer' \in Buffers /\ free' \in 0 .. SendSpace /\ wire' \in Seq(Nat)
           /\ watched' \in BOOLEAN
           /\ Content(outputBuffer') = Content(outputBuffer)
           /\ state = "kDisconnected" \/ fin => wire' = wire /\ unsent' = unsent
           /\ ~(state = "kDisconnected" \/ fin) =>
                  \E taken, rest \in Seq(Nat) : Splits(s, taken, rest)
<1>1. CASE state = "kDisconnected" \/ fin
  BY <1>1 DEF Typed, SendInLoop
<1>2. CASE ~(state = "kDisconnected" \/ fin)
  <2> DEFINE n == IF ReadableBytes(outputBuffer) = 0 THEN Min({Len(s), free}) ELSE 0
             taken == SubSeq(s, 1, n)
             rest == SubSeq(s, n + 1, Len(s))
  <2>1. Len(s) \in Nat /\ free \in Nat /\ SendSpace \in Nat /\ free <= SendSpace
    BY LenProperties, TcpStreamAssumption DEF Typed
  <2>2. /\ Min({Len(s), free}) \in Nat
        /\ Min({Len(s), free}) <= Len(s) /\ Min({Len(s), free}) <= free
    BY <2>1, MinOfTwo
  <2>3. n \in Nat /\ n <= Len(s) /\ n <= free
    BY <2>1, <2>2
  <2>4. /\ wire' = wire \o taken /\ free' = free - n
        /\ outputBuffer' = AppendBytes(outputBuffer, rest)
        /\ unsent' = unsent \cup ToSet(rest) /\ watched' \in BOOLEAN
    BY <1>2 DEF SendInLoop, Typed
  <2> HIDE DEF n
  <2>5. taken \in Seq(Nat) /\ rest \in Seq(Nat) /\ taken \o rest = s
    <3>1. n \in 0 .. Len(s)
      BY <2>1, <2>3
    <3> QED  BY <3>1, Cut
  <2> HIDE DEF taken, rest
  <2>6. free' \in 0 .. SendSpace
    BY <2>1, <2>3, <2>4
  <2>7. outputBuffer' \in Buffers /\ Content(outputBuffer') = Content(outputBuffer)
    BY <2>4, <2>5, AppendAddsNothing DEF Typed
  <2>8. wire' \in Seq(Nat)
    BY <2>4, <2>5, ConcatSet DEF Typed
  <2>9. Splits(s, taken, rest)
    BY <2>4, <2>5 DEF Splits
  <2> QED  BY <1>2, <2>4, <2>5, <2>6, <2>7, <2>8, <2>9
<1> QED  BY <1>1, <1>2

\* handleRead() takes bytes off the socket, keeps the first of them and gives
\* the others to append().
LEMMA ReadEffect ==
    ASSUME Typed, HandleRead
    PROVE  /\ inputBuffer' \in Buffers /\ received' \in Seq(Nat)
           /\ \E kept, lost \in Seq(Nat) :
                  /\ received = (kept \o lost) \o received'
                  /\ Content(inputBuffer') = Content(inputBuffer) \o kept
                  /\ spilled' = spilled \cup ToSet(lost)
<1> DEFINE n == Min({Len(received), ReadSpace(inputBuffer)})
           s == SubSeq(received, 1, n)
           w == WritableBytes(inputBuffer)
           m == IF Len(s) < w THEN Len(s) ELSE w
           kept == SubSeq(s, 1, m)
           lost == SubSeq(s, m + 1, Len(s))
<1>1. /\ inputBuffer' = ReadFd(inputBuffer, s)
      /\ received' = SubSeq(received, n + 1, Len(received))
      /\ spilled' = spilled \cup Spilled(inputBuffer, s)
  BY DEF HandleRead
<1>2. /\ received \in Seq(Nat) /\ Len(received) \in Nat /\ inputBuffer \in Buffers
      /\ w \in Nat /\ ReadSpace(inputBuffer) \in Nat
  <2>1. received \in Seq(Nat) /\ inputBuffer \in Buffers
    BY DEF Typed
  <2>2. Len(received) \in Nat
    BY <2>1, LenProperties
  <2>3. w \in Nat
    BY <2>1, Parts
  <2> HIDE DEF w
  <2>4. (w + IF w < ExtraSize THEN ExtraSize ELSE 0) \in Nat
    BY <2>3, BufferAssumption
  <2>5. ReadSpace(inputBuffer) = w + IF w < ExtraSize THEN ExtraSize ELSE 0
    BY DEF ReadSpace, w
  <2> QED  BY <2>1, <2>2, <2>3, <2>4, <2>5
<1>3. n \in 0 .. Len(received)
  <2>1. n \in Nat /\ n <= Len(received)
    BY <1>2, MinOfTwo
  <2> HIDE DEF n
  <2> QED  BY <1>2, <2>1
<1> HIDE DEF n, w
<1>4. s \in Seq(Nat) /\ received' \in Seq(Nat) /\ received = s \o received'
  BY <1>1, <1>2, <1>3, Cut
<1> HIDE DEF s
<1>5. Len(s) \in Nat /\ m \in 0 .. Len(s) /\ DOMAIN s = 1 .. Len(s)
  BY <1>2, <1>4, LenProperties
<1>6. /\ ReadFd(inputBuffer, s) \in Buffers
      /\ Content(ReadFd(inputBuffer, s)) = Content(inputBuffer) \o kept
      /\ Spilled(inputBuffer, s) = {s[i] : i \in m + 1 .. Len(s)}
  BY <1>2, <1>4, ReadFdAdds DEF w
<1> HIDE DEF m
<1>7. kept \in Seq(Nat) /\ lost \in Seq(Nat) /\ s = kept \o lost
  BY <1>4, <1>5, Cut
<1>8. ToSet(lost) = {s[i] : i \in m + 1 .. Len(s)}
  <2>1. m \in Nat /\ m <= Len(s) /\ m + 1 \in Int /\ Len(s) \in Int
    BY <1>5
  <2>2. ASSUME NEW i \in m + 1 .. Len(s) PROVE s[i] \in Nat
    <3>1. i \in 1 .. Len(s)
      BY <2>1
    <3> QED  BY <1>4, <3>1, ElementOfSeq
  <2>3. /\ Len(lost) = IF m + 1 <= Len(s) THEN Len(s) - (m + 1) + 1 ELSE 0
        /\ \A i \in 1 .. Len(s) - (m + 1) + 1 : lost[i] = s[m + 1 + i - 1]
    BY <2>1, <2>2, SubSeqProperties
  <2>4. DOMAIN lost = 1 .. Len(lost)
    BY <1>7, LenProperties
  <2> HIDE DEF lost
  <2>5. Len(lost) = Len(s) - m /\ Len(s) - (m + 1) + 1 = Len(s) - m
    BY <2>1, <2>3
  <2>6. ASSUME NEW i \in DOMAIN lost PROVE m + i \in m + 1 .. Len(s) /\ lost[i] = s[m + i]
    <3>1. i \in 1 .. Len(s) - m /\ m + 1 + i - 1 = m + i
      BY <2>1, <2>4, <2>5
    <3>2. lost[i] = s[m + i]
      BY <2>3, <2>5, <3>1
    <3>3. m + i \in m + 1 .. Len(s)
      BY <2>1, <3>1
    <3> QED  BY <3>2, <3>3
  <2>7. ASSUME NEW i \in m + 1 .. Len(s) PROVE i - m \in DOMAIN lost /\ lost[i - m] = s[i]
    <3>1. i - m \in DOMAIN lost /\ m + (i - m) = i
      BY <2>1, <2>4, <2>5
    <3> QED  BY <2>6, <3>1
  <2> QED  BY <2>6, <2>7 DEF ToSet
<1> HIDE DEF kept, lost
<1> QED  BY <1>1, <1>4, <1>6, <1>7, <1>8

\* What UserQueues queues.
LEMMA QueueEffect ==
    ASSUME Typed, UserQueues
    PROVE  \E n \in Nat \ {0} : \E s \in Seq(Nat) :
               /\ functors' = Append(functors, [op |-> "send", bytes |-> s])
               /\ userSent' = userSent + n /\ userSent' <= MaxUserBytes
               /\ Len(s) = n /\ \A i \in 1 .. n : s[i] = MaxBytes + userSent + i
               /\ promised' = IF state = "kConnected" THEN promised \o s ELSE promised
<1>1. PICK n \in 1 .. Min({2, MaxUserBytes - userSent}) :
          LET s == [i \in 1 .. n |-> MaxBytes + userSent + i]
          IN  /\ Queue(Functor("send", s))
              /\ userSent' = userSent + n
              /\ promised' = IF state = "kConnected" THEN promised \o s ELSE promised
  BY DEF UserQueues
<1> DEFINE s == [i \in 1 .. n |-> MaxBytes + userSent + i]
<1>2. MaxBytes \in Nat /\ MaxUserBytes \in Nat /\ userSent \in Nat /\ userSent <= MaxUserBytes
  BY TcpStreamAssumption DEF Typed
<1>3. n \in Nat \ {0} /\ n <= MaxUserBytes - userSent
  <2>1. MaxUserBytes - userSent \in Nat
    BY <1>2
  <2>2. /\ Min({2, MaxUserBytes - userSent}) \in Nat
        /\ Min({2, MaxUserBytes - userSent}) <= MaxUserBytes - userSent
    BY <2>1, MinOfTwo
  <2> QED  BY <2>1, <2>2
<1>4. s \in [1 .. n -> Nat]
  BY <1>2, <1>3
<1>5. s \in Seq(Nat)
  BY <1>3, <1>4, SeqDef
<1>6. Len(s) = n
  BY <1>3, <1>4, <1>5, LenProperties
<1>7. \A i \in 1 .. n : s[i] = MaxBytes + userSent + i
  OBVIOUS
<1>8. userSent' <= MaxUserBytes
  BY <1>1, <1>2, <1>3
<1>9. /\ functors' = Append(functors, [op |-> "send", bytes |-> s])
      /\ userSent' = userSent + n
      /\ promised' = IF state = "kConnected" THEN promised \o s ELSE promised
  BY <1>1 DEF Queue, Functor
<1> HIDE DEF s
<1> QED  BY <1>3, <1>5, <1>6, <1>7, <1>8, <1>9
-----------------------------------------------------------------------------
(* Typed is inductive *)

\* Init is typed.
LEMMA InitTyped == Init => Typed
<1>1. SUFFICES ASSUME Init PROVE Typed
  OBVIOUS
<1>2. <<>> \in Seq(Nat) /\ <<>> \in Seq(Functors)
  BY EmptySeq
<1>3. MaxBytes \in Nat /\ MaxUserBytes \in Nat /\ SendSpace \in Nat
  BY TcpStreamAssumption
<1>4. 0 \in 0 .. MaxBytes /\ 0 \in 0 .. MaxUserBytes /\ SendSpace \in 0 .. SendSpace
  BY <1>3
<1> QED  BY <1>1, <1>2, <1>4, NewIsEmpty DEF Init, Typed

\* Every step keeps the types.
LEMMA TypedStep == Typed /\ [Next]_vars => Typed'
<1> SUFFICES ASSUME Typed, [Next]_vars PROVE Typed'
  OBVIOUS
<1> USE DEF socket, history
<1>1. CASE PeerSends
  <2>1. sent' \in Nat /\ sent' \in 0 .. MaxBytes
    BY <1>1, TcpStreamAssumption DEF PeerSends, Typed
  <2>2. received' \in Seq(Nat)
    BY <1>1, <2>1, AppendProperties DEF PeerSends, Typed
  <2> QED  BY <1>1, <2>1, <2>2 DEF PeerSends, Typed
<1>2. CASE PeerReads
  <2>1. free' \in 0 .. SendSpace
    BY <1>2, TcpStreamAssumption DEF PeerReads
  <2> QED  BY <1>2, <2>1 DEF PeerReads, Typed
<1>3. CASE SendBuffer
  <2>1. Content(inputBuffer) \in Seq(Nat)
    BY ContentBytes DEF Typed
  <2>2. /\ outputBuffer' \in Buffers /\ free' \in 0 .. SendSpace /\ wire' \in Seq(Nat)
        /\ watched' \in BOOLEAN
    BY <1>3, <2>1, SendEffect DEF SendBuffer
  <2>3. inputBuffer' \in Buffers
    BY <1>3, RetrieveAllLeaves DEF SendBuffer, Typed
  <2>4. delivered' \in Seq(Nat) /\ echoed' \in Seq(Nat)
    BY <1>3, <2>1, ConcatSet DEF SendBuffer, Typed
  <2> QED  BY <1>3, <2>2, <2>3, <2>4 DEF SendBuffer, Typed
<1>4. CASE UserCalls \/ UserSetsDisconnecting \/ LoopShutdown \/ LoopSetsDisconnecting
  BY <1>4 DEF UserCalls, UserSetsDisconnecting, LoopShutdown, LoopSetsDisconnecting, Typed
<1>5. CASE UserQueues
  <2>1. PICK n \in Nat \ {0}, s \in Seq(Nat) :
            /\ functors' = Append(functors, [op |-> "send", bytes |-> s])
            /\ userSent' = userSent + n /\ userSent' <= MaxUserBytes
            /\ promised' = IF state = "kConnected" THEN promised \o s ELSE promised
    BY <1>5, QueueEffect
  <2>2. userSent' \in 0 .. MaxUserBytes
    BY <2>1, TcpStreamAssumption DEF Typed
  <2>3. [op |-> "send", bytes |-> s] \in Functors
    BY DEF Functors
  <2>4. functors' \in Seq(Functors)
    BY <2>1, <2>3, AppendProperties DEF Typed
  <2>5. promised' \in Seq(Nat)
    BY <2>1, ConcatSet DEF Typed
  <2> QED  BY <1>5, <2>2, <2>4, <2>5 DEF UserQueues, Typed
<1>6. ASSUME functors' = Append(functors, Functor("shutdown", <<>>)) PROVE functors' \in Seq(Functors)
  <2>1. Functor("shutdown", <<>>) \in Functors
    BY EmptySeq DEF Functor, Functors
  <2> QED  BY <1>6, <2>1, AppendProperties DEF Typed
<1>7. CASE LoopQueuesShutdown
  BY <1>6, <1>7 DEF LoopQueuesShutdown, Queue, Typed
<1>8. CASE UserQueuesShutdown
  BY <1>6, <1>8 DEF UserQueuesShutdown, Queue, Typed
<1>9. CASE HandleRead
  <2>1. inputBuffer' \in Buffers /\ received' \in Seq(Nat)
    BY <1>9, ReadEffect
  <2> QED  BY <1>9, <2>1 DEF HandleRead, Typed
<1>10. CASE HandleClose
  BY <1>10 DEF HandleClose, Typed
<1>11. CASE CallbackReturns
  BY <1>11 DEF CallbackReturns, Typed
<1>12. CASE RunFunctor
  <2>1. functors \in Seq(Functors) /\ functors # <<>>
    BY <1>12 DEF RunFunctor, Typed
  <2>2. Head(functors) \in Functors /\ Tail(functors) \in Seq(Functors)
    BY <2>1, HeadTailProperties
  <2>3. Head(functors).bytes \in Seq(Nat)
    BY <2>2 DEF Functors
  <2>4. /\ outputBuffer' \in Buffers /\ free' \in 0 .. SendSpace /\ wire' \in Seq(Nat)
        /\ watched' \in BOOLEAN
    <3>1. CASE Head(functors).op = "send"
      BY <1>12, <2>3, <3>1, SendEffect DEF RunFunctor
    <3>2. CASE Head(functors).op # "send"
      BY <1>12, <3>2 DEF RunFunctor, Typed
    <3> QED  BY <3>1, <3>2
  <2>5. fin' \in BOOLEAN
    BY <1>12 DEF RunFunctor
  <2> QED  BY <1>12, <2>2, <2>4, <2>5 DEF RunFunctor, Typed
<1>13. ASSUME NEW len \in 1 .. ReadableBytes(inputBuffer), RetrieveAsString(len) PROVE Typed'
  <2>1. /\ inputBuffer' \in Buffers /\ Peek(inputBuffer, len) \in Seq(Nat)
    BY <1>13, RetrieveLeaves DEF RetrieveAsString, Typed
  <2>2. delivered' \in Seq(Nat)
    BY <1>13, <2>1, ConcatSet DEF RetrieveAsString, Typed
  <2> QED  BY <1>13, <2>1, <2>2 DEF RetrieveAsString, Typed
<1>14. CASE UNCHANGED vars
  BY <1>14 DEF vars, Typed
<1> HIDE DEF socket, history
<1> QED  BY <1>1, <1>2, <1>3, <1>4, <1>5, <1>7, <1>8, <1>9, <1>10, <1>11, <1>12, <1>13, <1>14
         DEF Next

\* Both buffers are always as the diagram of Buffer.h:6-11 has them.
THEOREM TypeCorrect == Spec => []TypeOK
<1>1. Spec => []Typed
  BY InitTyped, TypedStep, PTL DEF Spec
<1> QED  BY <1>1, TypedIsTypeOK, PTL

-----------------------------------------------------------------------------
(* The way in *)

\* All that the other side sent and readFd() did not lose.
Arrived == delivered \o Content(inputBuffer) \o received

\* InputIntact, and readFd() loses only what was sent.
InputInv ==
    /\ InOrder(Arrived, Nat) /\ ToSet(Arrived) = (1 .. sent) \ spilled
    /\ spilled \subseteq 1 .. sent

\* Nothing has arrived in the beginning.
LEMMA InitInput == Init => InputInv
<1>1. SUFFICES ASSUME Init PROVE InputInv
  OBVIOUS
<1>2. Content(inputBuffer) = <<>>
  BY <1>1, NewIsEmpty, NoContent DEF Init
<1>3. Arrived = <<>>
  <2>1. <<>> \in Seq(Nat) /\ <<>> \o <<>> = <<>>
    BY EmptySeq, ConcatEmptySeq
  <2> QED  BY <1>1, <1>2, <2>1 DEF Init, Arrived
<1>4. DOMAIN Arrived = {}
  <2>1. Arrived \in Seq(Nat) /\ Len(Arrived) = 0
    BY <1>3, EmptySeq
  <2> QED  BY <2>1, LenProperties
<1>5. ToSet(Arrived) = {} /\ InOrder(Arrived, Nat)
  BY <1>4 DEF ToSet, InOrder
<1>6. 1 .. sent = {} /\ spilled = {}
  BY <1>1 DEF Init
<1> QED  BY <1>5, <1>6 DEF InputInv

\* A byte that arrives is the largest.
LEMMA ArrivedSends ==
    ASSUME Typed, InputInv, PeerSends
    PROVE  InputInv'
<1> DEFINE c == Content(inputBuffer)
           t == <<sent + 1>>
<1>1. /\ delivered \in Seq(Nat) /\ c \in Seq(Nat) /\ received \in Seq(Nat) /\ sent \in Nat
      /\ sent + 1 \in Nat
  BY ContentBytes, TcpStreamAssumption DEF Typed
<1>2. /\ sent' = sent + 1 /\ delivered' = delivered /\ inputBuffer' = inputBuffer
      /\ spilled' = spilled /\ received' = received \o t
  <2>1. Append(received, sent + 1) = received \o t
    BY <1>1, AppendIsConcat
  <2> QED  BY <2>1 DEF PeerSends, history
<1>3. t \in Seq(Nat) /\ DOMAIN t = {1} /\ t[1] = sent + 1
  BY <1>1
<1> HIDE DEF t, c
<1>4. ToSet(t) = {sent + 1} /\ InOrder(t, Nat)
  BY <1>3 DEF ToSet, InOrder
<1>5. delivered \o c \in Seq(Nat) /\ (delivered \o c) \o received \in Seq(Nat)
  <2>1. delivered \o c \in Seq(Nat)
    BY <1>1, ConcatSet
  <2> QED  BY <1>1, <2>1, ConcatSet
<1>6. Arrived = (delivered \o c) \o received
  BY DEF Arrived, c
<1>7. Arrived' = Arrived \o t
  <2>1. Arrived' = (delivered \o c) \o (received \o t)
    BY <1>2 DEF Arrived, c
  <2> DEFINE x == delivered \o c
  <2>2. x \in Seq(Nat)
    BY <1>5
  <2> HIDE DEF x
  <2>3. Grouped(x, received, t)
    BY <1>1, <1>3, <2>2, Regroup
  <2> QED  BY <1>6, <2>1, <2>3 DEF x, Grouped
<1>8. ToSet(Arrived') = ToSet(Arrived) \cup {sent + 1}
  <2>1. Arrived \in Seq(Nat)
    BY <1>5, <1>6
  <2>2. ToSet(Arrived \o t) = ToSet(Arrived) \cup ToSet(t)
    BY <1>3, <2>1, ConcatSet
  <2> QED  BY <1>4, <1>7, <2>2
<1>9. Before(Arrived, t, Nat)
  <2>1. \A x \in 1 .. sent : x < sent + 1
    BY <1>1
  <2> QED  BY <1>4, <2>1 DEF Before, InputInv
<1>10. InOrder(Arrived', Nat)
  BY <1>3, <1>4, <1>5, <1>6, <1>7, <1>9, ConcatOrder DEF InputInv
<1>11. /\ 1 .. sent' = (1 .. sent) \cup {sent + 1} /\ sent + 1 \notin 1 .. sent
  BY <1>1, <1>2
<1> QED  BY <1>2, <1>8, <1>10, <1>11 DEF InputInv

\* readFd() loses bytes from the middle.
LEMMA ArrivedRead ==
    ASSUME Typed, InputInv, HandleRead
    PROVE  InputInv'
<1> DEFINE c == Content(inputBuffer)
<1>1. /\ delivered \in Seq(Nat) /\ c \in Seq(Nat) /\ received \in Seq(Nat)
      /\ received' \in Seq(Nat)
  BY ContentBytes, ReadEffect DEF Typed
<1>2. PICK kept \in Seq(Nat), lost \in Seq(Nat) :
          /\ received = (kept \o lost) \o received'
          /\ Content(inputBuffer') = c \o kept
          /\ spilled' = spilled \cup ToSet(lost)
  BY ReadEffect
<1>3. delivered' = delivered /\ sent' = sent
  BY DEF HandleRead, history
<1> HIDE DEF c
<1> DEFINE p == (delivered \o c) \o kept
<1>4. /\ delivered \o c \in Seq(Nat) /\ p \in Seq(Nat) /\ p \o lost \in Seq(Nat)
      /\ kept \o lost \in Seq(Nat)
  <2>1. delivered \o c \in Seq(Nat) /\ kept \o lost \in Seq(Nat)
    BY <1>1, ConcatSet
  <2>2. p \in Seq(Nat)
    BY <2>1, ConcatSet
  <2> HIDE DEF p
  <2> QED  BY <2>1, <2>2, ConcatSet
<1>5. Arrived = (p \o lost) \o received'
  <2>1. Arrived = (delivered \o c) \o ((kept \o lost) \o received')
    BY <1>2 DEF Arrived, c
  <2>2. ((delivered \o c) \o (kept \o lost)) \o received'
            = (delivered \o c) \o ((kept \o lost) \o received')
    <3> DEFINE x == delivered \o c
               y == kept \o lost
    <3>1. x \in Seq(Nat) /\ y \in Seq(Nat) /\ received' \in Seq(Nat)
      BY <1>1, <1>4
    <3> HIDE DEF x, y
    <3>2. Grouped(x, y, received')
      BY <3>1, Regroup
    <3> QED  BY <3>2 DEF x, y, Grouped
  <2>3. (delivered \o c) \o (kept \o lost) = p \o lost
    <3> DEFINE x == delivered \o c
    <3>1. x \in Seq(Nat) /\ kept \in Seq(Nat) /\ lost \in Seq(Nat)
      BY <1>2, <1>4
    <3> HIDE DEF x
    <3>2. Grouped(x, kept, lost)
      BY <3>1, Regroup
    <3> QED  BY <3>2 DEF x, Grouped
  <2> QED  BY <2>1, <2>2, <2>3
<1>6. Arrived' = p \o received'
  <2>1. Arrived' = (delivered \o (c \o kept)) \o received'
    BY <1>2, <1>3 DEF Arrived
  <2>2. delivered \o (c \o kept) = p
    <3>1. delivered \in Seq(Nat) /\ c \in Seq(Nat) /\ kept \in Seq(Nat)
      BY <1>1, <1>2
    <3>2. Grouped(delivered, c, kept)
      BY <3>1, Regroup
    <3> QED  BY <3>2 DEF Grouped
  <2> QED  BY <2>1, <2>2
<1> HIDE DEF p
<1>7. /\ InOrder(p \o lost, Nat) /\ InOrder(received', Nat) /\ Before(p \o lost, received', Nat)
      /\ ToSet(Arrived) = ToSet(p \o lost) \cup ToSet(received')
  BY <1>1, <1>4, <1>5, ConcatOrder, ConcatSet DEF InputInv
<1>8. /\ InOrder(p, Nat) /\ Before(p, lost, Nat)
      /\ ToSet(p \o lost) = ToSet(p) \cup ToSet(lost)
  BY <1>4, <1>7, ConcatOrder, ConcatSet
<1>9. Before(p, received', Nat) /\ Before(lost, received', Nat)
  BY <1>7, <1>8 DEF Before
<1>10. InOrder(Arrived', Nat) /\ ToSet(Arrived') = ToSet(p) \cup ToSet(received')
  BY <1>1, <1>4, <1>6, <1>7, <1>8, <1>9, ConcatOrder, ConcatSet
<1>11. ToSet(lost) \subseteq 1 .. sent
  BY <1>7, <1>8 DEF InputInv
<1>12. ASSUME NEW x \in ToSet(lost) PROVE x \notin ToSet(p) /\ x \notin ToSet(received')
  <2>1. x \in Nat /\ ~(x < x)
    BY <1>11
  <2> QED  BY <1>8, <1>9, <2>1 DEF Before
<1>13. ToSet(p) \cup ToSet(received') = (1 .. sent) \ (spilled \cup ToSet(lost))
  BY <1>7, <1>8, <1>11, <1>12 DEF InputInv
<1> QED  BY <1>2, <1>3, <1>10, <1>11, <1>13 DEF InputInv

\* The callback moves bytes from the buffer behind those that are delivered.
LEMMA ArrivedTaken ==
    ASSUME Typed, InputInv,
           UNCHANGED <<received, sent, spilled>>,
           NEW s \in Seq(Nat), delivered' = delivered \o s,
           Content(inputBuffer') \in Seq(Nat),
           Content(inputBuffer) = s \o Content(inputBuffer')
    PROVE  InputInv'
<1>1. delivered \in Seq(Nat)
  BY DEF Typed
<1>2. Grouped(delivered, s, Content(inputBuffer'))
  BY <1>1, Regroup
<1>3. Arrived' = Arrived
  BY <1>2 DEF Arrived, Grouped
<1> QED  BY <1>3 DEF InputInv

\* Every step keeps InputInv.
LEMMA InputStep == Typed /\ InputInv /\ [Next]_vars => InputInv'
<1> SUFFICES ASSUME Typed, InputInv, [Next]_vars PROVE InputInv'
  OBVIOUS
<1>1. CASE PeerSends
  BY <1>1, ArrivedSends
<1>2. CASE HandleRead
  BY <1>2, ArrivedRead
<1>3. CASE SendBuffer
  <2>1. /\ Content(inputBuffer) \in Seq(Nat) /\ inputBuffer' = RetrieveAll(inputBuffer)
        /\ delivered' = delivered \o Content(inputBuffer)
        /\ UNCHANGED <<received, sent, spilled>>
    BY <1>3, ContentBytes DEF SendBuffer, Typed
  <2>2. Content(inputBuffer') = <<>> /\ <<>> \in Seq(Nat)
    BY <2>1, RetrieveAllLeaves, EmptySeq DEF Typed
  <2>3. Content(inputBuffer) = Content(inputBuffer) \o <<>>
    BY <2>1, ConcatEmptySeq
  <2> QED  BY <2>1, <2>2, <2>3, ArrivedTaken
<1>4. ASSUME NEW len \in 1 .. ReadableBytes(inputBuffer), RetrieveAsString(len) PROVE InputInv'
  <2>1. /\ inputBuffer' \in Buffers /\ Peek(inputBuffer, len) \in Seq(Nat)
        /\ Content(inputBuffer) = Peek(inputBuffer, len) \o Content(inputBuffer')
    BY <1>4, RetrieveLeaves DEF RetrieveAsString, Typed
  <2>2. Content(inputBuffer') \in Seq(Nat)
    BY <2>1, ContentBytes
  <2>3. /\ delivered' = delivered \o Peek(inputBuffer, len)
        /\ UNCHANGED <<received, sent, spilled>>
    BY <1>4 DEF RetrieveAsString, socket
  <2> QED  BY <2>1, <2>2, <2>3, ArrivedTaken
<1>5. ASSUME UNCHANGED <<delivered, inputBuffer, received, sent, spilled>> PROVE InputInv'
  BY <1>5 DEF InputInv, Arrived
<1>6. CASE \/ PeerReads \/ UserCalls \/ UserQueues \/ UserSetsDisconnecting \/ UserQueuesShutdown
           \/ LoopShutdown \/ LoopSetsDisconnecting \/ LoopQueuesShutdown
           \/ HandleClose \/ CallbackReturns \/ RunFunctor \/ UNCHANGED vars
  BY <1>5, <1>6 DEF PeerReads, UserCalls, UserQueues, UserSetsDisconnecting, UserQueuesShutdown,
                    LoopShutdown, LoopSetsDisconnecting, LoopQueuesShutdown, HandleClose,
                    CallbackReturns, RunFunctor, vars, socket, history
<1> QED  BY <1>1, <1>2, <1>3, <1>4, <1>6 DEF Next

\* What the other side sent is retrieved once and in order, whatever the
\* callback takes each time and however the buffer moves its content, but for
\* the bytes that went through extrabuf.
THEOREM InputReachesCallback == Spec => []InputIntact
<1>1. Typed /\ InputInv => InputIntact
  BY DEF InputInv, InputIntact, Arrived
<1>2. Spec => [](Typed /\ InputInv)
  <2>1. Init => Typed /\ InputInv
    BY InitTyped, InitInput
  <2>2. Typed /\ InputInv /\ [Next]_vars => (Typed /\ InputInv)'
    BY TypedStep, InputStep
  <2> QED  BY <2>1, <2>2, PTL DEF Spec
<1> QED  BY <1>1, <1>2, PTL
-----------------------------------------------------------------------------
(* The way out *)

\* What the other thread has sent so far.
UserSent == MaxBytes + 1 .. MaxBytes + userSent

\* What is echoed was delivered, and is on the wire unless a write() had no
\* room for it.
EchoInv ==
    /\ ToSet(echoed) \subseteq ToSet(delivered)
    /\ unsent \cap PeerBytes \subseteq ToSet(echoed)
    /\ InOrder(wire, PeerBytes)
    /\ ToSet(wire) \cap PeerBytes = ToSet(echoed) \ unsent

\* The functors have bytes of the other thread in the order they were sent,
\* behind those that are on the wire; none of either was lost.
QueueInv ==
    /\ \A i \in DOMAIN functors :
           /\ ToSet(functors[i].bytes) \subseteq UserSent \ unsent
           /\ InOrder(functors[i].bytes, UserBytes)
           /\ Before(wire, functors[i].bytes, UserBytes)
    /\ \A i, j \in DOMAIN functors :
           i < j => Before(functors[i].bytes, functors[j].bytes, UserBytes)
    /\ InOrder(wire, UserBytes)
    /\ ToSet(wire) \cap UserBytes \subseteq UserSent \ unsent
    /\ unsent \cap UserBytes \subseteq UserSent

\* While state_ is kConnected no shutdown() has queued shutdownInLoop(), nor is
\* any about to; and only handleClose() makes it kDisconnected.
ShutdownInv ==
    /\ state = "kConnected" =>
           /\ ~fin /\ \A i \in DOMAIN functors : functors[i].op # "shutdown"
           /\ pc # "queue" /\ call # "queue"
    /\ state = "kDisconnected" => down

\* What was promised is on the wire or will be, until the other side closes.
PromiseInv == ~down => ToSet(promised) \ unsent \subseteq ToSet(wire) \cup PendingBytes

BytesInv == EchoInv /\ QueueInv /\ PromiseInv

OutputInv == BytesInv /\ ShutdownInv

\* The bytes of the two threads differ.
LEMMA TwoThreads ==
    ASSUME Typed
    PROVE  UserSent \subseteq UserBytes /\ 1 .. sent \subseteq PeerBytes /\ PeerBytes \subseteq Nat
<1>1. MaxBytes \in Nat /\ userSent \in Nat /\ sent \in Nat /\ sent <= MaxBytes
  BY TcpStreamAssumption DEF Typed
<1> QED  BY <1>1 DEF UserSent, UserBytes, PeerBytes

\* Order among more bytes is order among fewer.
LEMMA FewerInOrder ==
    ASSUME NEW s \in Seq(Nat), NEW t \in Seq(Nat), NEW B, NEW C, B \subseteq C
    PROVE  (InOrder(s, C) => InOrder(s, B)) /\ (Before(s, t, C) => Before(s, t, B))
BY DEF InOrder, Before

\* No byte comes before itself.
LEMMA NotBeforeItself ==
    ASSUME NEW s, NEW t, NEW B, B \subseteq Nat, Before(s, t, B)
    PROVE  \A x \in B : ~(x \in ToSet(s) /\ x \in ToSet(t))
<1>1. \A x \in B : x \in Nat
  OBVIOUS
<1>2. \A x \in Nat : ~(x < x)
  OBVIOUS
<1> QED  BY <1>1, <1>2 DEF Before

\* Other bytes are in any order.
LEMMA NoneInOrder ==
    ASSUME NEW s, NEW B, ToSet(s) \cap B = {}
    PROVE  InOrder(s, B)
BY DEF InOrder, ToSet

\* The queue, one functor longer.
LEMMA AppendFunctor ==
    ASSUME Typed, NEW f \in Functors, functors' = Append(functors, f)
    PROVE  /\ Len(functors) \in Nat /\ DOMAIN functors = 1 .. Len(functors)
           /\ DOMAIN functors' = 1 .. Len(functors) + 1
           /\ functors'[Len(functors) + 1] = f
           /\ \A i \in DOMAIN functors :
                  i \in DOMAIN functors' /\ functors'[i] = functors[i] /\ i < Len(functors) + 1
           /\ \A i \in DOMAIN functors' : i \in DOMAIN functors \/ i = Len(functors) + 1
<1>1. functors \in Seq(Functors)
  BY DEF Typed
<1>2. Len(functors) \in Nat /\ DOMAIN functors = 1 .. Len(functors)
  BY <1>1, LenProperties
<1>3. /\ functors' \in Seq(Functors) /\ Len(functors') = Len(functors) + 1
      /\ \A i \in 1 .. Len(functors) : functors'[i] = functors[i]
      /\ functors'[Len(functors) + 1] = f
  BY <1>1, AppendProperties
<1>4. DOMAIN functors' = 1 .. Len(functors) + 1
  BY <1>3, LenProperties
<1> QED  BY <1>2, <1>3, <1>4

\* The queue without its first functor.
LEMMA TailFunctors ==
    ASSUME Typed, functors # <<>>, functors' = Tail(functors)
    PROVE  /\ 1 \in DOMAIN functors /\ Head(functors) = functors[1] /\ functors[1] \in Functors
           /\ DOMAIN functors \subseteq Nat \ {0} /\ DOMAIN functors' \subseteq Nat \ {0}
           /\ \A i \in DOMAIN functors' : i + 1 \in DOMAIN functors /\ functors'[i] = functors[i + 1]
           /\ \A i \in DOMAIN functors :
                  i = 1 \/ (i - 1 \in DOMAIN functors' /\ functors'[i - 1] = functors[i])
<1>1. functors \in Seq(Functors)
  BY DEF Typed
<1>2. Len(functors) \in Nat /\ DOMAIN functors = 1 .. Len(functors) /\ Len(functors) # 0
  BY <1>1, LenProperties, EmptySeq
<1>3. /\ functors' \in Seq(Functors) /\ Len(functors') = Len(functors) - 1
      /\ \A i \in 1 .. Len(functors') : functors'[i] = functors[i + 1]
  BY <1>1, HeadTailProperties
<1>4. DOMAIN functors' = 1 .. Len(functors) - 1
  BY <1>3, LenProperties
<1>5. 1 \in DOMAIN functors
  BY <1>2
<1>6. functors[1] \in Functors
  BY <1>1, <1>2, <1>5, ElementOfSeq
<1>7. \A i \in DOMAIN functors' : i + 1 \in DOMAIN functors /\ functors'[i] = functors[i + 1]
  BY <1>2, <1>3, <1>4
<1>8. ASSUME NEW i \in DOMAIN functors, i # 1
      PROVE  i - 1 \in DOMAIN functors' /\ functors'[i - 1] = functors[i]
  <2>1. i - 1 \in DOMAIN functors' /\ (i - 1) + 1 = i
    BY <1>2, <1>4, <1>8
  <2> QED  BY <1>7, <2>1
<1>9. DOMAIN functors \subseteq Nat \ {0} /\ DOMAIN functors' \subseteq Nat \ {0}
  BY <1>2, <1>4
<1>10. Head(functors) = functors[1]
  BY <1>1
<1>11. \A i \in DOMAIN functors :
           i = 1 \/ (i - 1 \in DOMAIN functors' /\ functors'[i - 1] = functors[i])
  BY <1>8
<1> QED  BY <1>5, <1>6, <1>7, <1>9, <1>10, <1>11

-----------------------------------------------------------------------------
(* The bytes that are pending *)

\* After FIN nothing is.
LEMMA NonePending == fin => PendingBytes = {}
BY DEF PendingBytes, Pending

\* A send() adds its bytes unless shutdown() came first; shutdown() adds none.
LEMMA PendingAppend ==
    ASSUME Typed, NEW f \in Functors, functors' = Append(functors, f), fin' = fin
    PROVE  PendingBytes' =
               IF f.op = "send" /\ ~fin /\ \A k \in DOMAIN functors : functors[k].op # "shutdown"
               THEN PendingBytes \cup ToSet(f.bytes) ELSE PendingBytes
<1> DEFINE n == Len(functors) + 1
<1>1. /\ Len(functors) \in Nat /\ DOMAIN functors = 1 .. Len(functors)
      /\ DOMAIN functors' = 1 .. n /\ functors'[n] = f
      /\ \A i \in DOMAIN functors : i \in DOMAIN functors' /\ functors'[i] = functors[i] /\ i < n
      /\ \A i \in DOMAIN functors' : i \in DOMAIN functors \/ i = n
  BY AppendFunctor
<1>2. ASSUME NEW i \in DOMAIN functors PROVE i \in Pending' <=> i \in Pending
  <2>1. \A k \in 1 .. i : k \in DOMAIN functors
    BY <1>1
  <2> QED  BY <1>1, <2>1 DEF Pending
<1>3. n \in Pending' <=> /\ f.op = "send" /\ ~fin
                         /\ \A k \in DOMAIN functors : functors[k].op # "shutdown"
  <2>1. n \in DOMAIN functors' /\ \A k \in 1 .. n : k \in DOMAIN functors \/ k = n
    BY <1>1
  <2>2. \A k \in DOMAIN functors : k \in 1 .. n
    BY <1>1
  <2>3. ASSUME f.op = "send" PROVE f.op # "shutdown"
    BY <2>3
  <2> HIDE DEF n
  <2> QED  BY <1>1, <2>1, <2>2, <2>3 DEF Pending
<1>4. n \notin DOMAIN functors
  BY <1>1
<1> HIDE DEF n
<1>5. Pending' \subseteq DOMAIN functors' /\ Pending \subseteq DOMAIN functors
  BY DEF Pending
<1>6. CASE n \in Pending'
  <2>1. Pending' = Pending \cup {n}
    BY <1>1, <1>2, <1>5, <1>6
  <2>2. PendingBytes' = PendingBytes \cup ToSet(f.bytes)
    BY <1>1, <1>5, <2>1 DEF PendingBytes
  <2> QED  BY <1>3, <1>6, <2>2
<1>7. CASE n \notin Pending'
  <2>1. Pending' = Pending
    BY <1>1, <1>2, <1>5, <1>7
  <2>2. PendingBytes' = PendingBytes
    BY <1>1, <1>5, <2>1 DEF PendingBytes
  <2> QED  BY <1>3, <1>7, <2>2
<1> QED  BY <1>6, <1>7

\* A send() that is run was the first of them.
LEMMA PendingTail ==
    ASSUME Typed, functors # <<>>, functors' = Tail(functors), fin' = fin, ~fin,
           Head(functors).op = "send"
    PROVE  PendingBytes = ToSet(functors[1].bytes) \cup PendingBytes'
<1>1. /\ 1 \in DOMAIN functors /\ functors[1].op = "send"
      /\ DOMAIN functors \subseteq Nat \ {0} /\ DOMAIN functors' \subseteq Nat \ {0}
      /\ \A i \in DOMAIN functors' : i + 1 \in DOMAIN functors /\ functors'[i] = functors[i + 1]
      /\ \A i \in DOMAIN functors :
             i = 1 \/ (i - 1 \in DOMAIN functors' /\ functors'[i - 1] = functors[i])
      /\ DOMAIN functors = 1 .. Len(functors) /\ Len(functors) \in Nat
  <2>1. functors \in Seq(Functors)
    BY DEF Typed
  <2> QED  BY <2>1, TailFunctors, LenProperties
<1>2. 1 \in Pending
  BY <1>1 DEF Pending
<1>3. ASSUME NEW i \in Pending' PROVE i + 1 \in Pending /\ functors'[i] = functors[i + 1]
  <2>1. /\ i \in DOMAIN functors' /\ functors'[i].op = "send"
        /\ \A k \in 1 .. i : functors'[k].op # "shutdown"
    BY <1>3 DEF Pending
  <2>2. i + 1 \in DOMAIN functors /\ functors'[i] = functors[i + 1] /\ i \in Nat \ {0}
    BY <1>1, <2>1
  <2>3. ASSUME NEW k \in 1 .. i + 1 PROVE functors[k].op # "shutdown"
    <3>1. CASE k = 1
      BY <1>1, <3>1
    <3>2. CASE k # 1
      <4>1. k \in DOMAIN functors /\ k - 1 \in 1 .. i
        BY <1>1, <2>2, <3>2
      <4> QED  BY <1>1, <2>1, <3>2, <4>1
    <3> QED  BY <3>1, <3>2
  <2> QED  BY <2>1, <2>2, <2>3 DEF Pending
<1>4. ASSUME NEW i \in Pending, i # 1 PROVE i - 1 \in Pending' /\ functors'[i - 1] = functors[i]
  <2>1. /\ i \in DOMAIN functors /\ functors[i].op = "send"
        /\ \A k \in 1 .. i : functors[k].op # "shutdown"
    BY <1>4 DEF Pending
  <2>2. i - 1 \in DOMAIN functors' /\ functors'[i - 1] = functors[i] /\ i \in Nat
    BY <1>1, <1>4, <2>1
  <2>3. ASSUME NEW k \in 1 .. i - 1 PROVE functors'[k].op # "shutdown"
    <3>1. k + 1 \in 1 .. i /\ k + 1 \in DOMAIN functors /\ k + 1 # 1 /\ (k + 1) - 1 = k
      BY <1>1, <2>1, <2>2
    <3>2. functors'[k] = functors[k + 1]
      BY <1>1, <3>1
    <3> QED  BY <2>1, <3>1, <3>2
  <2> QED  BY <2>1, <2>2, <2>3 DEF Pending
<1>5. PendingBytes \subseteq ToSet(functors[1].bytes) \cup PendingBytes'
  BY <1>4 DEF PendingBytes
<1>6. PendingBytes' \subseteq PendingBytes
  BY <1>3 DEF PendingBytes
<1>7. ToSet(functors[1].bytes) \subseteq PendingBytes
  BY <1>2 DEF PendingBytes
<1> QED  BY <1>5, <1>6, <1>7
-----------------------------------------------------------------------------
(* Every step keeps OutputInv *)

\* Nothing is on its way in the beginning.
LEMMA InitOutput == Init => OutputInv
<1>1. SUFFICES ASSUME Init PROVE OutputInv
  OBVIOUS
<1>2. DOMAIN <<>> = {}
  OBVIOUS
<1>3. ToSet(<<>>) = {} /\ \A B : InOrder(<<>>, B)
  BY <1>2 DEF ToSet, InOrder
<1>4. PendingBytes = {}
  BY <1>1, <1>2 DEF Init, PendingBytes, Pending
<1>5. /\ DOMAIN functors = {} /\ wire = <<>> /\ echoed = <<>> /\ delivered = <<>>
      /\ promised = <<>> /\ unsent = {} /\ state = "kConnected" /\ fin = FALSE
      /\ pc = "idle" /\ call = "none"
  BY <1>1, <1>2 DEF Init
<1>6. EchoInv
  BY <1>3, <1>5 DEF EchoInv
<1>7. QueueInv
  BY <1>3, <1>5 DEF QueueInv
<1>8. ShutdownInv
  BY <1>5 DEF ShutdownInv
<1>9. PromiseInv
  BY <1>3, <1>4, <1>5 DEF PromiseInv
<1> QED  BY <1>6, <1>7, <1>8, <1>9 DEF OutputInv, BytesInv

\* Every step keeps ShutdownInv: a shutdown() queues behind its setState().
LEMMA ShutdownStep == Typed /\ ShutdownInv /\ [Next]_vars => ShutdownInv'
<1> SUFFICES ASSUME Typed, ShutdownInv, [Next]_vars PROVE ShutdownInv'
  OBVIOUS
<1> USE DEF socket, history
<1>1. ASSUME UNCHANGED <<state, fin, functors, down>>,
             state = "kConnected" => pc' # "queue" /\ call' # "queue"
      PROVE  ShutdownInv'
  BY <1>1 DEF ShutdownInv
<1>2. CASE \/ PeerSends \/ PeerReads \/ SendBuffer \/ UserCalls \/ LoopShutdown \/ HandleRead
           \/ CallbackReturns \/ UNCHANGED vars
  BY <1>1, <1>2 DEF PeerSends, PeerReads, SendBuffer, UserCalls, LoopShutdown, HandleRead,
                    CallbackReturns, vars, ShutdownInv
<1>3. ASSUME NEW len \in 1 .. ReadableBytes(inputBuffer), RetrieveAsString(len) PROVE ShutdownInv'
  BY <1>1, <1>3 DEF RetrieveAsString, ShutdownInv
<1>4. CASE UserSetsDisconnecting \/ LoopSetsDisconnecting \/ HandleClose
  BY <1>4 DEF UserSetsDisconnecting, LoopSetsDisconnecting, HandleClose, ShutdownInv
<1>5. CASE UserQueuesShutdown \/ LoopQueuesShutdown
  BY <1>5 DEF UserQueuesShutdown, LoopQueuesShutdown, ShutdownInv
<1>6. CASE UserQueues
  <2>1. PICK s \in Seq(Nat) : functors' = Append(functors, [op |-> "send", bytes |-> s])
    BY <1>6, QueueEffect
  <2> DEFINE f == [op |-> "send", bytes |-> s]
  <2>2. f \in Functors /\ f.op = "send" /\ functors' = Append(functors, f)
    BY <2>1 DEF Functors
  <2> HIDE DEF f
  <2>3. \A i \in DOMAIN functors' :
            functors'[i] = f \/ (i \in DOMAIN functors /\ functors'[i] = functors[i])
    BY <2>2, AppendFunctor
  <2> QED  BY <1>6, <2>2, <2>3 DEF UserQueues, ShutdownInv
<1>7. CASE RunFunctor
  <2>1. /\ 1 \in DOMAIN functors /\ Head(functors) = functors[1]
        /\ \A i \in DOMAIN functors' : i + 1 \in DOMAIN functors /\ functors'[i] = functors[i + 1]
    BY <1>7, TailFunctors DEF RunFunctor
  <2> QED  BY <1>7, <2>1 DEF RunFunctor, ShutdownInv
<1> HIDE DEF socket, history
<1> QED  BY <1>2, <1>3, <1>4, <1>5, <1>6, <1>7 DEF Next

\* Steps that send nothing: more may be delivered, and the other side may close.
LEMMA OutputSame ==
    ASSUME BytesInv, UNCHANGED <<functors, fin, wire, echoed, promised, userSent, unsent>>,
           ToSet(delivered) \subseteq ToSet(delivered'), down => down'
    PROVE  BytesInv'
<1>1. EchoInv'
  BY DEF BytesInv, EchoInv
<1>2. QueueInv'
  BY DEF BytesInv, QueueInv, UserSent
<1>3. PromiseInv'
  BY DEF BytesInv, PromiseInv, PendingBytes, Pending
<1> QED  BY <1>1, <1>2, <1>3 DEF BytesInv

\* shutdown() queues shutdownInLoop() behind all that was sent.
LEMMA OutputShutdown ==
    ASSUME Typed, BytesInv, functors' = Append(functors, Functor("shutdown", <<>>)),
           UNCHANGED <<fin, wire, delivered, echoed, promised, userSent, unsent, down>>
    PROVE  BytesInv'
<1> DEFINE f == Functor("shutdown", <<>>)
           n == Len(functors) + 1
<1>1. f \in Functors /\ f.op = "shutdown" /\ f.bytes = <<>>
  BY EmptySeq DEF Functor, Functors
<1>2. functors' = Append(functors, f)
  OBVIOUS
<1> HIDE DEF f
<1>3. /\ Len(functors) \in Nat /\ DOMAIN functors = 1 .. Len(functors)
      /\ DOMAIN functors' = 1 .. n /\ functors'[n] = f
      /\ \A i \in DOMAIN functors : i \in DOMAIN functors' /\ functors'[i] = functors[i] /\ i < n
      /\ \A i \in DOMAIN functors' : i \in DOMAIN functors \/ i = n
  BY <1>1, <1>2, AppendFunctor
<1>4. ToSet(f.bytes) = {} /\ \A B : InOrder(f.bytes, B)
  <2>1. DOMAIN <<>> = {}
    OBVIOUS
  <2> QED  BY <1>1, <2>1 DEF ToSet, InOrder
<1>5. n \in DOMAIN functors' /\ \A i \in DOMAIN functors' : ~(n < i)
  BY <1>3
<1> HIDE DEF n
<1>6. EchoInv'
  BY DEF BytesInv, EchoInv
<1>7. QueueInv'
  <2>1. UserSent' = UserSent
    BY DEF UserSent
  <2>2. ASSUME NEW i \in DOMAIN functors'
        PROVE  /\ ToSet(functors'[i].bytes) \subseteq UserSent \ unsent
               /\ InOrder(functors'[i].bytes, UserBytes)
               /\ Before(wire, functors'[i].bytes, UserBytes)
    <3>1. CASE i \in DOMAIN functors
      BY <1>3, <3>1 DEF BytesInv, QueueInv
    <3>2. CASE i = n
      BY <1>3, <1>4, <3>2 DEF Before
    <3> QED  BY <1>3, <3>1, <3>2
  <2>3. ASSUME NEW i \in DOMAIN functors', NEW j \in DOMAIN functors', i < j
        PROVE  Before(functors'[i].bytes, functors'[j].bytes, UserBytes)
    <3>1. CASE j = n
      BY <1>3, <1>4, <3>1 DEF Before
    <3>2. CASE i \in DOMAIN functors /\ j \in DOMAIN functors
      BY <1>3, <2>3, <3>2 DEF BytesInv, QueueInv
    <3> QED  BY <1>3, <1>5, <2>3, <3>1, <3>2
  <2> QED  BY <2>1, <2>2, <2>3 DEF BytesInv, QueueInv
<1>8. PendingBytes' = PendingBytes
  BY <1>1, <1>2, PendingAppend
<1>9. PromiseInv'
  BY <1>8 DEF BytesInv, PromiseInv
<1> QED  BY <1>6, <1>7, <1>9 DEF BytesInv

\* The other thread's send() queues bytes that are larger than all before.
LEMMA OutputQueued ==
    ASSUME Typed, OutputInv, UserQueues
    PROVE  BytesInv'
<1> USE DEF OutputInv
<1>1. PICK m \in Nat \ {0}, s \in Seq(Nat) :
          /\ functors' = Append(functors, [op |-> "send", bytes |-> s])
          /\ userSent' = userSent + m /\ Len(s) = m
          /\ \A i \in 1 .. m : s[i] = MaxBytes + userSent + i
          /\ promised' = IF state = "kConnected" THEN promised \o s ELSE promised
  BY QueueEffect
<1> DEFINE f == [op |-> "send", bytes |-> s]
           n == Len(functors) + 1
<1>2. UNCHANGED <<state, fin, wire, delivered, echoed, down, unsent>>
  BY DEF UserQueues, socket
<1>3. f \in Functors /\ f.op = "send" /\ f.bytes = s /\ f.op # "shutdown"
  BY DEF Functors
<1>4. functors' = Append(functors, f)
  BY <1>1
<1> HIDE DEF f
<1>5. /\ Len(functors) \in Nat /\ DOMAIN functors = 1 .. Len(functors)
      /\ DOMAIN functors' = 1 .. n /\ functors'[n] = f
      /\ \A i \in DOMAIN functors : i \in DOMAIN functors' /\ functors'[i] = functors[i] /\ i < n
      /\ \A i \in DOMAIN functors' : i \in DOMAIN functors \/ i = n
  BY <1>3, <1>4, AppendFunctor
<1>6. n \in DOMAIN functors' /\ \A i \in DOMAIN functors' : ~(n < i)
  BY <1>5
<1> HIDE DEF n
<1>7. MaxBytes \in Nat /\ userSent \in Nat /\ m \in Nat /\ DOMAIN s = 1 .. m
  BY <1>1, LenProperties, TcpStreamAssumption DEF Typed
<1>8. InOrder(s, UserBytes)
  <2>1. \A i, j \in 1 .. m : i < j => s[i] < s[j]
    BY <1>1, <1>7
  <2> QED  BY <1>7, <2>1 DEF InOrder
<1>9. \A y \in ToSet(s) : y \in UserSent' /\ y \notin UserSent /\ \A x \in UserSent : x < y
  <2>1. ASSUME NEW i \in 1 .. m
        PROVE  s[i] \in UserSent' /\ s[i] \notin UserSent /\ \A x \in UserSent : x < s[i]
    <3>1. s[i] = MaxBytes + userSent + i
      BY <1>1
    <3>2. userSent' = userSent + m
      BY <1>1
    <3> QED  BY <1>7, <3>1, <3>2 DEF UserSent
  <2> QED  BY <1>7, <2>1 DEF ToSet
<1>10. UserSent \subseteq UserSent' /\ UserSent' \subseteq UserBytes
  BY <1>1, <1>7 DEF UserSent, UserBytes, PeerBytes
<1>11. EchoInv'
  BY <1>2 DEF BytesInv, EchoInv
<1>12. QueueInv'
  <2>1. ASSUME NEW i \in DOMAIN functors'
        PROVE  /\ ToSet(functors'[i].bytes) \subseteq UserSent' \ unsent
               /\ InOrder(functors'[i].bytes, UserBytes)
               /\ Before(wire, functors'[i].bytes, UserBytes)
    <3>1. CASE i \in DOMAIN functors
      BY <1>5, <1>10, <3>1 DEF BytesInv, QueueInv
    <3>2. CASE i = n
      <4>1. Before(wire, s, UserBytes)
        BY <1>9 DEF BytesInv, QueueInv, Before
      <4>2. ToSet(s) \subseteq UserSent' \ unsent
        BY <1>9, <1>10 DEF BytesInv, QueueInv
      <4> QED  BY <1>3, <1>5, <1>8, <3>2, <4>1, <4>2
    <3> QED  BY <1>5, <3>1, <3>2
  <2>2. ASSUME NEW i \in DOMAIN functors', NEW j \in DOMAIN functors', i < j
        PROVE  Before(functors'[i].bytes, functors'[j].bytes, UserBytes)
    <3>1. i \in DOMAIN functors /\ functors'[i] = functors[i]
      BY <1>5, <1>6, <2>2
    <3>2. CASE j = n
      <4>1. ToSet(functors[i].bytes) \subseteq UserSent
        BY <3>1 DEF BytesInv, QueueInv
      <4> QED  BY <1>3, <1>5, <1>9, <3>1, <3>2, <4>1 DEF Before
    <3>3. CASE j \in DOMAIN functors
      BY <1>5, <2>2, <3>1, <3>3 DEF BytesInv, QueueInv
    <3> QED  BY <1>5, <3>2, <3>3
  <2>3. /\ InOrder(wire, UserBytes) /\ unsent \cap UserBytes \subseteq UserSent'
        /\ ToSet(wire) \cap UserBytes \subseteq UserSent' \ unsent
    BY <1>10 DEF BytesInv, QueueInv
  <2> QED  BY <1>2, <2>1, <2>2, <2>3 DEF QueueInv
<1>13. PromiseInv'
  <2>1. PendingBytes' =
            IF f.op = "send" /\ ~fin /\ \A k \in DOMAIN functors : functors[k].op # "shutdown"
            THEN PendingBytes \cup ToSet(f.bytes) ELSE PendingBytes
    BY <1>2, <1>3, <1>4, PendingAppend
  <2>2. CASE state = "kConnected"
    <3>1. PendingBytes' = PendingBytes \cup ToSet(s)
      BY <1>3, <2>1, <2>2 DEF ShutdownInv
    <3>2. ToSet(promised') = ToSet(promised) \cup ToSet(s)
      BY <1>1, <2>2, ConcatSet DEF Typed
    <3> QED  BY <1>2, <3>1, <3>2 DEF BytesInv, PromiseInv
  <2>3. CASE state # "kConnected"
    <3>1. PendingBytes \subseteq PendingBytes' /\ promised' = promised
      BY <1>1, <2>1, <2>3
    <3> QED  BY <1>2, <3>1 DEF BytesInv, PromiseInv
  <2> QED  BY <2>2, <2>3
<1> QED  BY <1>11, <1>12, <1>13 DEF BytesInv

\* An echo goes behind what was echoed before, and leaves the other thread's
\* bytes alone.
LEMMA OutputEchoed ==
    ASSUME Typed, InputInv, OutputInv, SendBuffer
    PROVE  BytesInv'
<1> USE DEF OutputInv
<1> DEFINE s == Content(inputBuffer)
<1>1. s \in Seq(Nat) /\ delivered \in Seq(Nat) /\ received \in Seq(Nat) /\ echoed \in Seq(Nat)
      /\ wire \in Seq(Nat)
  BY ContentBytes DEF Typed
<1>2. /\ SendInLoop(s) /\ state = "kConnected"
      /\ delivered' = delivered \o s /\ echoed' = echoed \o s
      /\ UNCHANGED <<functors, fin, promised, userSent, down>>
  BY DEF SendBuffer
<1>3. ~(state = "kDisconnected" \/ fin)
  BY <1>2 DEF ShutdownInv
<1>4. Arrived = (delivered \o s) \o received
  BY DEF Arrived
<1> HIDE DEF s
<1>5. PICK taken \in Seq(Nat), rest \in Seq(Nat) : Splits(s, taken, rest)
  BY <1>1, <1>2, <1>3, SendEffect
<1> USE DEF Splits
<1>6. /\ InOrder(s, Nat) /\ Before(delivered, s, Nat) /\ ToSet(s) \subseteq 1 .. sent
  <2>1. delivered \o s \in Seq(Nat) /\ ToSet(delivered \o s) = ToSet(delivered) \cup ToSet(s)
    BY <1>1, ConcatSet
  <2>2. InOrder(delivered \o s, Nat) /\ ToSet(delivered \o s) \subseteq ToSet(Arrived)
    BY <1>1, <1>4, <2>1, ConcatOrder, ConcatSet DEF InputInv
  <2>3. InOrder(s, Nat) /\ Before(delivered, s, Nat)
    BY <1>1, <2>2, ConcatOrder
  <2> QED  BY <2>1, <2>2, <2>3 DEF InputInv
<1>7. ToSet(s) = ToSet(taken) \cup ToSet(rest)
  BY <1>5, ConcatSet
<1>8. InOrder(taken, Nat) /\ InOrder(rest, Nat) /\ Before(taken, rest, Nat)
  BY <1>5, <1>6, ConcatOrder
<1>9. ToSet(s) \subseteq PeerBytes /\ PeerBytes \subseteq Nat /\ ToSet(s) \cap UserBytes = {}
  BY <1>6, TwoThreads DEF UserBytes
<1>10. \A x \in ToSet(delivered) \cap Nat, y \in ToSet(s) : x < y
  BY <1>9, <1>6 DEF Before
<1>11. \A x \in ToSet(s) : x \notin ToSet(delivered)
  <2>1. \A x \in Nat : ~(x \in ToSet(delivered) /\ x \in ToSet(s))
    BY <1>6, NotBeforeItself
  <2>2. ToSet(s) \subseteq Nat
    BY <1>9
  <2> QED  BY <2>1, <2>2
<1>12. ToSet(taken) \cap ToSet(rest) = {}
  <2>1. \A x \in Nat : ~(x \in ToSet(taken) /\ x \in ToSet(rest))
    BY <1>8, NotBeforeItself
  <2>2. ToSet(taken) \subseteq Nat
    BY <1>7, <1>9
  <2> QED  BY <2>1, <2>2
<1>13. ToSet(echoed') = ToSet(echoed) \cup ToSet(s)
  BY <1>1, <1>2, ConcatSet
<1>14. ToSet(delivered') = ToSet(delivered) \cup ToSet(s)
  BY <1>1, <1>2, ConcatSet
<1>15. ToSet(wire') = ToSet(wire) \cup ToSet(taken)
  BY <1>1, <1>5, ConcatSet
<1>16. EchoInv'
  <2>1. /\ ToSet(echoed) \subseteq ToSet(delivered) /\ unsent \cap PeerBytes \subseteq ToSet(echoed)
        /\ InOrder(wire, PeerBytes) /\ ToSet(wire) \cap PeerBytes = ToSet(echoed) \ unsent
    BY DEF BytesInv, EchoInv
  <2>2. ToSet(echoed') \subseteq ToSet(delivered')
    BY <1>13, <1>14, <2>1
  <2>3. unsent' \cap PeerBytes \subseteq ToSet(echoed')
    BY <1>5, <1>7, <1>13, <2>1
  <2>4. InOrder(wire', PeerBytes)
    <3>1. InOrder(taken, PeerBytes)
      BY <1>8, <1>9, FewerInOrder
    <3>2. Before(wire, taken, PeerBytes)
      BY <1>7, <1>9, <1>10, <2>1 DEF Before
    <3> QED  BY <1>1, <1>5, <2>1, <3>1, <3>2, ConcatOrder
  <2>5. ToSet(wire') \cap PeerBytes = ToSet(echoed') \ unsent'
    <3>1. ToSet(taken) \cap unsent = {}
      BY <1>7, <1>9, <1>11, <2>1
    <3>2. ToSet(echoed) \cap ToSet(rest) = {}
      BY <1>7, <1>11, <2>1
    <3> QED  BY <1>5, <1>7, <1>9, <1>12, <1>13, <1>15, <2>1, <3>1, <3>2
  <2> QED  BY <2>2, <2>3, <2>4, <2>5 DEF EchoInv
<1>17. ToSet(wire') \cap UserBytes = ToSet(wire) \cap UserBytes
  BY <1>7, <1>9, <1>15
<1>18. unsent' \cap UserBytes = unsent \cap UserBytes
  BY <1>5, <1>7, <1>9
<1>19. InOrder(wire', UserBytes)
  <2>1. InOrder(wire, UserBytes)
    BY DEF BytesInv, QueueInv
  <2>2. ToSet(taken) \cap UserBytes = {}
    BY <1>7, <1>9
  <2>3. InOrder(taken, UserBytes) /\ Before(wire, taken, UserBytes)
    BY <2>2, NoneInOrder DEF Before
  <2> QED  BY <1>1, <1>5, <2>1, <2>3, ConcatOrder
<1>20. QueueInv'
  <2>1. UserSent' = UserSent /\ UserSent \subseteq UserBytes
    BY <1>2, TwoThreads DEF UserSent
  <2>2. ASSUME NEW i \in DOMAIN functors
        PROVE  /\ ToSet(functors[i].bytes) \subseteq UserSent \ unsent'
               /\ InOrder(functors[i].bytes, UserBytes)
               /\ Before(wire', functors[i].bytes, UserBytes)
    <3>1. /\ ToSet(functors[i].bytes) \subseteq UserSent \ unsent
          /\ InOrder(functors[i].bytes, UserBytes)
          /\ Before(wire, functors[i].bytes, UserBytes)
      BY DEF BytesInv, QueueInv
    <3>2. ToSet(functors[i].bytes) \subseteq UserSent \ unsent'
      BY <1>18, <2>1, <3>1
    <3> QED  BY <1>17, <3>1, <3>2 DEF Before
  <2>3. \A i, j \in DOMAIN functors : i < j => Before(functors[i].bytes, functors[j].bytes, UserBytes)
    BY DEF BytesInv, QueueInv
  <2>4. /\ ToSet(wire') \cap UserBytes \subseteq UserSent \ unsent'
        /\ unsent' \cap UserBytes \subseteq UserSent
    BY <1>17, <1>18 DEF BytesInv, QueueInv
  <2> QED  BY <1>2, <1>19, <2>1, <2>2, <2>3, <2>4 DEF QueueInv
<1>21. PromiseInv'
  <2>1. PendingBytes' = PendingBytes
    BY <1>2 DEF PendingBytes, Pending
  <2> QED  BY <1>2, <1>5, <1>15, <2>1 DEF BytesInv, PromiseInv
<1> QED  BY <1>16, <1>20, <1>21 DEF BytesInv

\* What is left in the queue, when the first functor's bytes go nowhere.
LEMMA QueueTail ==
    ASSUME Typed, QueueInv, functors # <<>>, functors' = Tail(functors),
           UNCHANGED <<wire, unsent, userSent>>
    PROVE  QueueInv'
<1>1. /\ DOMAIN functors' \subseteq Nat
      /\ \A i \in DOMAIN functors' : i + 1 \in DOMAIN functors /\ functors'[i] = functors[i + 1]
  BY TailFunctors
<1>2. \A i, j \in DOMAIN functors' : i < j => i + 1 < j + 1
  BY <1>1
<1> QED  BY <1>1, <1>2 DEF QueueInv, UserSent

\* The first functor's bytes go on the wire, the other thread's next ones.
LEMMA OutputSent ==
    ASSUME Typed, InputInv, OutputInv, RunFunctor, Head(functors).op = "send",
           ~(state = "kDisconnected" \/ fin)
    PROVE  BytesInv'
<1> USE DEF OutputInv
<1> DEFINE s == functors[1].bytes
<1>1. /\ 1 \in DOMAIN functors /\ Head(functors) = functors[1] /\ functors[1] \in Functors
      /\ DOMAIN functors' \subseteq Nat \ {0}
      /\ \A i \in DOMAIN functors' : i + 1 \in DOMAIN functors /\ functors'[i] = functors[i + 1]
      /\ \A i \in DOMAIN functors :
             i = 1 \/ (i - 1 \in DOMAIN functors' /\ functors'[i - 1] = functors[i])
  BY TailFunctors DEF RunFunctor
<1>2. s \in Seq(Nat) /\ wire \in Seq(Nat)
  BY <1>1 DEF Functors, Typed
<1>3. /\ SendInLoop(s) /\ fin' = fin /\ functors' = Tail(functors) /\ functors # <<>>
      /\ UNCHANGED <<delivered, echoed, promised, userSent, down>>
  BY <1>1 DEF RunFunctor, Typed
<1>4. /\ ToSet(s) \subseteq UserSent \ unsent /\ InOrder(s, UserBytes)
      /\ Before(wire, s, UserBytes) /\ UserSent \subseteq UserBytes
  BY <1>1, TwoThreads DEF BytesInv, QueueInv
<1>5. PendingBytes = ToSet(s) \cup PendingBytes'
  BY <1>3, PendingTail
<1>6. ASSUME NEW i \in DOMAIN functors' PROVE Before(s, functors'[i].bytes, UserBytes)
  <2>1. i + 1 \in DOMAIN functors /\ functors'[i] = functors[i + 1] /\ 1 < i + 1
    BY <1>1
  <2> QED  BY <1>1, <2>1 DEF BytesInv, QueueInv
<1> HIDE DEF s
<1>7. PICK taken \in Seq(Nat), rest \in Seq(Nat) : Splits(s, taken, rest)
  BY <1>2, <1>3, SendEffect
<1> USE DEF Splits
<1>8. ToSet(s) = ToSet(taken) \cup ToSet(rest)
  BY <1>7, ConcatSet
<1>9. InOrder(taken, UserBytes) /\ Before(taken, rest, UserBytes)
  BY <1>4, <1>7, ConcatOrder
<1>10. ToSet(wire') = ToSet(wire) \cup ToSet(taken)
  BY <1>2, <1>7, ConcatSet
<1>11. ToSet(s) \subseteq UserBytes /\ ToSet(s) \cap PeerBytes = {} /\ UserBytes \subseteq Nat
  BY <1>4 DEF UserBytes
<1>12. EchoInv'
  <2>1. InOrder(taken, PeerBytes) /\ Before(wire, taken, PeerBytes)
    BY <1>8, <1>11, NoneInOrder DEF Before
  <2>2. InOrder(wire, PeerBytes)
    BY DEF BytesInv, EchoInv
  <2>3. InOrder(wire', PeerBytes)
    BY <1>2, <1>7, <2>1, <2>2, ConcatOrder
  <2>4. ToSet(wire') \cap PeerBytes = ToSet(wire) \cap PeerBytes
    BY <1>8, <1>10, <1>11
  <2>5. unsent' \cap PeerBytes = unsent \cap PeerBytes
    BY <1>7, <1>8, <1>11
  <2>6. ToSet(echoed) \subseteq PeerBytes
    <3>1. ToSet(echoed) \subseteq ToSet(delivered)
      BY DEF BytesInv, EchoInv
    <3>2. ToSet(delivered) \subseteq ToSet(Arrived)
      <4>1. Content(inputBuffer) \in Seq(Nat) /\ delivered \in Seq(Nat) /\ received \in Seq(Nat)
        BY ContentBytes DEF Typed
      <4>2. /\ delivered \o Content(inputBuffer) \in Seq(Nat)
            /\ ToSet(delivered) \subseteq ToSet(delivered \o Content(inputBuffer))
        BY <4>1, ConcatSet
      <4> DEFINE x == delivered \o Content(inputBuffer)
      <4> HIDE DEF x
      <4>3. ToSet(x \o received) = ToSet(x) \cup ToSet(received)
        <5>1. x \in Seq(Nat)
          BY <4>2 DEF x
        <5> QED  BY <4>1, <5>1, ConcatSet
      <4> QED  BY <4>2, <4>3 DEF Arrived, x
    <3>3. ToSet(Arrived) \subseteq PeerBytes
      BY TwoThreads DEF InputInv
    <3> QED  BY <3>1, <3>2, <3>3
  <2> QED  BY <1>3, <2>3, <2>4, <2>5, <2>6 DEF BytesInv, EchoInv
<1>13. ASSUME NEW x \in ToSet(rest)
       PROVE  x \notin ToSet(wire') /\ \A i \in DOMAIN functors' : x \notin ToSet(functors'[i].bytes)
  <2>1. x \in ToSet(s) /\ x \in UserBytes
    BY <1>8, <1>11
  <2>2. x \notin ToSet(wire)
    BY <1>4, <1>11, <2>1, NotBeforeItself
  <2>3. x \notin ToSet(taken)
    BY <1>9, <1>11, <1>13, <2>1, NotBeforeItself
  <2>4. \A i \in DOMAIN functors' : x \notin ToSet(functors'[i].bytes)
    BY <1>6, <1>11, <2>1, NotBeforeItself
  <2> QED  BY <1>10, <2>2, <2>3, <2>4
<1>14. QueueInv'
  <2>1. UserSent' = UserSent
    BY <1>3 DEF UserSent
  <2>2. ASSUME NEW i \in DOMAIN functors'
        PROVE  /\ ToSet(functors'[i].bytes) \subseteq UserSent \ unsent'
               /\ InOrder(functors'[i].bytes, UserBytes)
               /\ Before(wire', functors'[i].bytes, UserBytes)
    <3>1. /\ ToSet(functors'[i].bytes) \subseteq UserSent \ unsent
          /\ InOrder(functors'[i].bytes, UserBytes)
          /\ Before(wire, functors'[i].bytes, UserBytes)
      BY <1>1 DEF BytesInv, QueueInv
    <3>2. Before(wire', functors'[i].bytes, UserBytes)
      BY <1>6, <1>8, <1>10, <3>1 DEF Before
    <3>3. ToSet(functors'[i].bytes) \subseteq UserSent \ unsent'
      BY <1>7, <1>13, <3>1
    <3> QED  BY <3>1, <3>2, <3>3
  <2>3. ASSUME NEW i \in DOMAIN functors', NEW j \in DOMAIN functors', i < j
        PROVE  Before(functors'[i].bytes, functors'[j].bytes, UserBytes)
    <3>1. i + 1 < j + 1
      BY <1>1, <2>3
    <3> QED  BY <1>1, <3>1 DEF BytesInv, QueueInv
  <2>4. InOrder(wire', UserBytes)
    <3>1. Before(wire, taken, UserBytes)
      BY <1>4, <1>8 DEF Before
    <3>2. InOrder(wire, UserBytes)
      BY DEF BytesInv, QueueInv
    <3> QED  BY <1>2, <1>7, <1>9, <3>1, <3>2, ConcatOrder
  <2>5. unsent' \cap UserBytes \subseteq UserSent
    BY <1>4, <1>7, <1>8 DEF BytesInv, QueueInv
  <2>6. ToSet(wire') \cap UserBytes \subseteq UserSent \ unsent'
    <3>1. ToSet(wire') \cap UserBytes \subseteq UserSent \ unsent
      BY <1>4, <1>8, <1>10 DEF BytesInv, QueueInv
    <3> QED  BY <1>7, <1>13, <3>1
  <2> QED  BY <2>1, <2>2, <2>3, <2>4, <2>5, <2>6 DEF QueueInv
<1>15. PromiseInv'
  BY <1>3, <1>5, <1>7, <1>8, <1>10 DEF BytesInv, PromiseInv
<1> QED  BY <1>12, <1>14, <1>15 DEF BytesInv

\* shutdownInLoop(), after which nothing is pending; or a send() after it or
\* after the connection's end.
LEMMA OutputEnds ==
    ASSUME Typed, OutputInv, RunFunctor,
           \/ Head(functors).op # "send"
           \/ state = "kDisconnected" \/ fin
    PROVE  BytesInv'
<1> USE DEF OutputInv
<1>1. /\ 1 \in DOMAIN functors /\ Head(functors) = functors[1] /\ functors[1] \in Functors
      /\ \A i \in DOMAIN functors' : i + 1 \in DOMAIN functors /\ functors'[i] = functors[i + 1]
      /\ \A i \in DOMAIN functors :
             i = 1 \/ (i - 1 \in DOMAIN functors' /\ functors'[i - 1] = functors[i])
  BY TailFunctors DEF RunFunctor
<1>2. /\ functors' = Tail(functors) /\ functors # <<>>
      /\ fin' = (fin \/ Head(functors).op = "shutdown")
      /\ UNCHANGED <<delivered, echoed, promised, userSent, down>>
  BY DEF RunFunctor
<1>3. wire' = wire /\ unsent' = unsent
  <2>1. CASE Head(functors).op = "send"
    <3>1. Head(functors).bytes \in Seq(Nat) /\ SendInLoop(Head(functors).bytes)
      BY <1>1, <2>1 DEF RunFunctor, Functors
    <3> QED  BY <2>1, <3>1, SendEffect
  <2>2. CASE Head(functors).op # "send"
    BY <2>2 DEF RunFunctor
  <2> QED  BY <2>1, <2>2
<1>4. EchoInv'
  BY <1>2, <1>3 DEF BytesInv, EchoInv
<1>5. QueueInv'
  BY <1>2, <1>3, QueueTail DEF BytesInv
<1>6. PromiseInv'
  <2>1. SUFFICES ASSUME ~down PROVE ToSet(promised) \ unsent \subseteq ToSet(wire)
    BY <1>2, <1>3 DEF PromiseInv
  <2>2. fin \/ functors[1].op = "shutdown"
    BY <1>1, <2>1 DEF ShutdownInv, Functors
  <2>3. PendingBytes = {}
    <3>1. CASE fin
      BY <3>1, NonePending
    <3>2. CASE functors[1].op = "shutdown"
      <4>1. ASSUME NEW i \in DOMAIN functors PROVE 1 \in 1 .. i
        <5>1. functors \in Seq(Functors)
          BY DEF Typed
        <5>2. i \in 1 .. Len(functors) /\ Len(functors) \in Nat
          BY <5>1, LenProperties
        <5> QED  BY <5>2
      <4> QED  BY <3>2, <4>1 DEF PendingBytes, Pending
    <3> QED  BY <2>2, <3>1, <3>2
  <2> QED  BY <2>1, <2>3 DEF BytesInv, PromiseInv
<1> QED  BY <1>4, <1>5, <1>6 DEF BytesInv

\* Every step keeps OutputInv.
LEMMA OutputStep == Typed /\ InputInv /\ OutputInv /\ [Next]_vars => OutputInv'
<1> SUFFICES ASSUME Typed, InputInv, OutputInv, [Next]_vars PROVE BytesInv'
  BY ShutdownStep DEF OutputInv
<1>1. BytesInv
  BY DEF OutputInv
<1>2. CASE SendBuffer
  BY <1>2, OutputEchoed
<1>3. CASE UserQueues
  BY <1>3, OutputQueued
<1>4. CASE UserQueuesShutdown \/ LoopQueuesShutdown
  BY <1>1, <1>4, OutputShutdown
     DEF UserQueuesShutdown, LoopQueuesShutdown, Queue, socket, history
<1>5. CASE RunFunctor
  BY <1>5, OutputSent, OutputEnds
<1>6. ASSUME NEW len \in 1 .. ReadableBytes(inputBuffer), RetrieveAsString(len) PROVE BytesInv'
  <2>1. /\ delivered' = delivered \o Peek(inputBuffer, len)
        /\ UNCHANGED <<functors, fin, wire, echoed, promised, userSent, down, unsent>>
    BY <1>6 DEF RetrieveAsString, socket
  <2>2. Peek(inputBuffer, len) \in Seq(Nat) /\ delivered \in Seq(Nat)
    BY RetrieveLeaves DEF Typed
  <2>3. ToSet(delivered) \subseteq ToSet(delivered')
    BY <2>1, <2>2, ConcatSet
  <2> QED  BY <1>1, <2>1, <2>3, OutputSame
<1>7. CASE \/ PeerSends \/ PeerReads \/ UserCalls \/ UserSetsDisconnecting \/ LoopShutdown
           \/ LoopSetsDisconnecting \/ HandleRead \/ HandleClose \/ CallbackReturns
           \/ UNCHANGED vars
  <2>1. /\ UNCHANGED <<functors, fin, wire, delivered, echoed, promised, userSent, unsent>>
        /\ down => down'
    BY <1>7 DEF PeerSends, PeerReads, UserCalls, UserSetsDisconnecting, LoopShutdown,
                LoopSetsDisconnecting, HandleRead, HandleClose, CallbackReturns, vars, socket,
                history
  <2> QED  BY <1>1, <2>1, OutputSame
<1> QED  BY <1>2, <1>3, <1>4, <1>5, <1>6, <1>7 DEF Next

\* What either thread passed to send() goes on the wire once and in order,
\* whatever the other side and shutdown() do; and until the other side closes,
\* what was passed before shutdown() is on the wire or will be before FIN, but
\* for the bytes that a write() had no room for.
THEOREM OutputReachesWire == Spec => []OutputIntact
<1>1. Typed /\ InputInv /\ OutputInv => OutputIntact
  <2>1. SUFFICES ASSUME Typed, InputInv, OutputInv PROVE OutputIntact
    OBVIOUS
  <2>2. ASSUME NEW i \in Pending, NEW j \in Pending
        PROVE  /\ InOrder(wire \o functors[i].bytes, UserBytes)
               /\ i < j => InOrder(functors[i].bytes \o functors[j].bytes, UserBytes)
    <3>1. i \in DOMAIN functors /\ j \in DOMAIN functors
      BY DEF Pending
    <3>2. functors \in Seq(Functors) /\ wire \in Seq(Nat)
      BY <2>1 DEF Typed
    <3>3. functors[i] \in Functors /\ functors[j] \in Functors
      BY <3>1, <3>2, LenProperties, ElementOfSeq
    <3>4. functors[i].bytes \in Seq(Nat) /\ functors[j].bytes \in Seq(Nat)
      BY <3>3 DEF Functors
    <3>5. /\ InOrder(wire, UserBytes) /\ Before(wire, functors[i].bytes, UserBytes)
          /\ InOrder(functors[i].bytes, UserBytes) /\ InOrder(functors[j].bytes, UserBytes)
          /\ i < j => Before(functors[i].bytes, functors[j].bytes, UserBytes)
      BY <2>1, <3>1 DEF OutputInv, BytesInv, QueueInv
    <3> QED  BY <3>2, <3>4, <3>5, ConcatOrder
  <2>3. PendingBytes \subseteq UserSent \ unsent
    BY <2>1 DEF OutputInv, BytesInv, QueueInv, PendingBytes, Pending
  <2> QED  BY <2>1, <2>2, <2>3
           DEF OutputIntact, OutputInv, BytesInv, EchoInv, QueueInv, PromiseInv, UserSent
<1>2. Spec => [](Typed /\ InputInv /\ OutputInv)
  <2>1. Init => Typed /\ InputInv /\ OutputInv
    BY InitTyped, InitInput, InitOutput
  <2>2. Typed /\ InputInv /\ OutputInv /\ [Next]_vars => (Typed /\ InputInv /\ OutputInv)'
    BY TypedStep, InputStep, OutputStep
  <2> QED  BY <2>1, <2>2, PTL DEF Spec
<1> QED  BY <1>1, <1>2, PTL

\* TcpConnection.h:120 says outputBuffer_ has what is to be sent, but nothing is
\* ever in it: every sendInLoop() calls write() at once, and append() loses what
\* that does not take.
THEOREM OutputBufferStaysEmpty == Spec => [](Content(outputBuffer) = <<>>)
<1> DEFINE Empty == Content(outputBuffer) = <<>>
<1>1. Init => Typed /\ Empty
  <2>1. Init => Empty
    BY NewIsEmpty, NoContent DEF Init
  <2> QED  BY <2>1, InitTyped
<1>2. Typed /\ Empty /\ [Next]_vars => (Typed /\ Empty)'
  <2>1. SUFFICES ASSUME Typed, Empty, [Next]_vars PROVE Empty'
    BY TypedStep
  <2>2. CASE SendBuffer
    <3>1. Content(inputBuffer) \in Seq(Nat)
      BY <2>1, ContentBytes DEF Typed
    <3> QED  BY <2>1, <2>2, <3>1, SendEffect DEF SendBuffer
  <2>3. CASE RunFunctor
    <3>1. functors \in Seq(Functors) /\ functors # <<>>
      BY <2>1, <2>3 DEF RunFunctor, Typed
    <3>2. Head(functors).bytes \in Seq(Nat)
      <4>1. Head(functors) \in Functors
        BY <3>1, HeadTailProperties
      <4> QED  BY <4>1 DEF Functors
    <3>3. CASE Head(functors).op = "send"
      BY <2>1, <2>3, <3>2, <3>3, SendEffect DEF RunFunctor
    <3>4. CASE Head(functors).op # "send"
      BY <2>1, <2>3, <3>4 DEF RunFunctor
    <3> QED  BY <3>3, <3>4
  <2>4. ASSUME UNCHANGED outputBuffer PROVE Empty'
    BY <2>1, <2>4
  <2> HIDE DEF Empty
  <2>5. ASSUME NEW len \in 1 .. ReadableBytes(inputBuffer), RetrieveAsString(len) PROVE Empty'
    BY <2>4, <2>5 DEF RetrieveAsString
  <2>6. CASE \/ PeerSends \/ PeerReads \/ UserCalls \/ UserQueues \/ UserSetsDisconnecting
             \/ UserQueuesShutdown \/ LoopShutdown \/ LoopSetsDisconnecting
             \/ LoopQueuesShutdown \/ HandleRead \/ HandleClose \/ CallbackReturns
             \/ UNCHANGED vars
    BY <2>4, <2>6 DEF PeerSends, PeerReads, UserCalls, UserQueues, UserSetsDisconnecting,
                      UserQueuesShutdown, LoopShutdown, LoopSetsDisconnecting,
                      LoopQueuesShutdown, HandleRead, HandleClose, CallbackReturns, vars
  <2> QED  BY <2>1, <2>2, <2>3, <2>5, <2>6 DEF Next
<1>3. Spec => [](Typed /\ Empty)
  <2> HIDE DEF Empty
  <2> QED  BY <1>1, <1>2, PTL DEF Spec
<1>4. Typed /\ Empty => Content(outputBuffer) = <<>>
  OBVIOUS
<1> QED  BY <1>3, <1>4, PTL
=============================================================================
