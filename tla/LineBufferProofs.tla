-------------------------- MODULE LineBufferProofs --------------------------
(***************************************************************************)
(* For every buffer size, every set of bytes and every interleaving of     *)
(* arrivals and calls: nothing is lost, the buffer is not overrun, and     *)
(* receive() takes whole lines off the peer's stream.                      *)
(***************************************************************************)
EXTENDS LineBuffer, SequenceTheorems, TLAPS

(* A buffer that respects its bounds.                                       *)
Bounded(d) ==
  /\ d \in Driver
  /\ Len(d.data) < Capacity
  /\ d.data # <<>> => d.pos < Len(d.data)
  /\ d.data = <<>> => d.pos = 0

(* The bytes that have arrived and have not been read.                      *)
Pending(d) == Unread(d) \o d.sock

(* The invariant: a bounded buffer, and NothingLost with what is pending in *)
(* one piece.                                                               *)
Inv ==
  /\ Bounded(b) /\ ret \in -1..(Capacity - 2)
  /\ sent \in Seq(Byte) /\ taken \in Seq(Byte)
  /\ taken \o Pending(b) = sent

-----------------------------------------------------------------------------
(* Concatenating bytes is associative.                                      *)
LEMMA BytesAssociate == \A s, t, u \in Seq(Byte) : (s \o t) \o u = s \o (t \o u)
  BY ConcatAssociative

(* A piece and what follows it are a piece.                                 *)
LEMMA BytesSplit ==
  ASSUME NEW s \in Seq(Byte), NEW m \in 1..(Len(s) + 1), NEW k \in (m - 1)..Len(s)
  PROVE  SubSeq(s, m, k) \o SubSeq(s, k + 1, Len(s)) = SubSeq(s, m, Len(s))
<1>1. Len(s) \in k..Len(s)
  BY LenProperties
<1> QED
  BY <1>1, ConcatAdjacentSubSeq

(* The elements of a piece ...                                              *)
LEMMA BytesPiece ==
  ASSUME NEW s \in Seq(Byte), NEW m \in 1..(Len(s) + 1), NEW k \in (m - 1)..Len(s)
  PROVE  /\ SubSeq(s, m, k) \in Seq(Byte)
         /\ Len(SubSeq(s, m, k)) = k - m + 1
         /\ \A i \in 1..(k - m + 1) : SubSeq(s, m, k)[i] = s[m + i - 1]
  OBVIOUS

(* ... and of a concatenation.                                              *)
LEMMA BytesConcat ==
  ASSUME NEW s \in Seq(Byte), NEW t \in Seq(Byte)
  PROVE  /\ s \o t \in Seq(Byte)
         /\ Len(s \o t) = Len(s) + Len(t)
         /\ \A i \in 1..(Len(s) + Len(t)) :
              (s \o t)[i] = IF i <= Len(s) THEN s[i] ELSE t[i - Len(s)]
  BY ConcatProperties

-----------------------------------------------------------------------------
(* The operators of TcpBuffer.                                              *)

(* A read position is never behind the end.                                 *)
LEMMA PosInData ==
  ASSUME NEW d, Bounded(d)
  PROVE  /\ d.data \in Seq(Byte) /\ d.sock \in Seq(Byte)
         /\ Len(d.data) \in Nat /\ Len(d.sock) \in Nat /\ d.pos \in Nat
         /\ d.pos <= Len(d.data)
<1>1. /\ d.data \in Seq(Byte) /\ d.sock \in Seq(Byte) /\ d.pos \in Nat
  BY DEF Bounded, Driver
<1>2. Len(d.data) \in Nat /\ Len(d.sock) \in Nat
  BY <1>1, LenProperties
<1>3. CASE d.data = <<>>
  BY <1>1, <1>2, <1>3 DEF Bounded
<1>4. CASE d.data # <<>>
  BY <1>1, <1>2, <1>4 DEF Bounded
<1> QED
  BY <1>1, <1>2, <1>3, <1>4

(* What recv() moves is a front part of what the kernel holds, and fits.    *)
LEMMA IncomingFits ==
  ASSUME NEW d, Bounded(d)
  PROVE  \E n \in 0..Len(d.sock) :
           /\ Incoming(d) = SubSeq(d.sock, 1, n)
           /\ Incoming(d) \in Seq(Byte) /\ Len(Incoming(d)) = n
           /\ Len(d.data) + n < Capacity
<1> DEFINE room == Capacity - Len(d.data) - 1
           n == IF room < Len(d.sock) THEN room ELSE Len(d.sock)
<1>1. /\ d.sock \in Seq(Byte) /\ Len(d.data) \in Nat /\ Len(d.sock) \in Nat
      /\ Len(d.data) < Capacity /\ Capacity \in Nat
  BY PosInData, BufferAssumption DEF Bounded
<1>2. n \in 0..Len(d.sock) /\ Len(d.data) + n < Capacity
  <2>1. CASE room < Len(d.sock)
    BY <1>1, <2>1
  <2>2. CASE ~(room < Len(d.sock))
    <3>1. ASSUME NEW c \in Nat, NEW x \in Nat, NEW y \in Nat, ~(c - x - 1 < y)
          PROVE  x + y < c
      BY <3>1
    <3>2. n = Len(d.sock) /\ ~(Capacity - Len(d.data) - 1 < Len(d.sock))
      BY <2>2
    <3> HIDE DEF n, room
    <3>3. Len(d.data) + Len(d.sock) < Capacity
      BY <1>1, <3>1, <3>2
    <3>4. Len(d.sock) \in 0..Len(d.sock)
      BY <1>1
    <3> QED
      BY <3>2, <3>3, <3>4, Zenon
  <2> QED
    BY <2>1, <2>2
<1>3. Incoming(d) = SubSeq(d.sock, 1, n)
  BY DEF Incoming
<1> HIDE DEF n
<1>4. \A i \in 1..n : d.sock[i] \in Byte
  BY <1>1, <1>2, ElementOfSeq
<1>5. SubSeq(d.sock, 1, n) \in Seq(Byte) /\ Len(SubSeq(d.sock, 1, n)) = n
  <2>1. n \in Int /\ n >= 0
    BY <1>1, <1>2
  <2>2. /\ SubSeq(d.sock, 1, n) \in Seq(Byte)
        /\ Len(SubSeq(d.sock, 1, n)) = IF 1 <= n THEN n - 1 + 1 ELSE 0
    BY <1>4, <2>1, SubSeqProperties
  <2> QED
    BY <2>1, <2>2
<1> QED
  BY <1>2, <1>3, <1>5

(* Receiving into the buffer moves bytes from one end to the other of what  *)
(* is pending, and leaves the read position alone.                          *)
LEMMA RecvKeepsPending ==
  ASSUME NEW d, Bounded(d), ~RecvFails(d)
  PROVE  /\ Bounded(RecvToBuffer(d))
         /\ RecvToBuffer(d).pos = d.pos
         /\ Pending(RecvToBuffer(d)) = Pending(d)
<1> DEFINE f == RecvToBuffer(d)
<1>1. CASE ~Readable(d)
  BY <1>1 DEF RecvToBuffer
<1>2. CASE Readable(d)
  <2>1. PICK n \in 0..Len(d.sock) :
          /\ Incoming(d) = SubSeq(d.sock, 1, n)
          /\ Incoming(d) \in Seq(Byte) /\ Len(Incoming(d)) = n
          /\ Len(d.data) + n < Capacity
    BY IncomingFits
  <2>2. /\ d.data \in Seq(Byte) /\ d.sock \in Seq(Byte)
        /\ Len(d.data) \in Nat /\ Len(d.sock) \in Nat /\ d.pos \in Nat
        /\ d.pos <= Len(d.data)
    BY PosInData
  <2> DEFINE in == Incoming(d)
             rest == SubSeq(d.sock, n + 1, Len(d.sock))
  <2>3. f = [d EXCEPT !.sock = rest, !.data = d.data \o in, !.ready = TRUE]
    BY <1>2, <2>1 DEF RecvToBuffer
  <2>4. n # 0
    BY <1>2, <2>1, <2>2, EmptySeq, SubSeqEmpty DEF RecvFails
  <2>5. rest \in Seq(Byte) /\ in \o rest = d.sock
    <3>1. \A i \in (n + 1)..Len(d.sock) : d.sock[i] \in Byte
      BY <2>2, ElementOfSeq
    <3>2. rest \in Seq(Byte)
      BY <2>1, <2>2, <3>1, SubSeqProperties
    <3>3. SubSeq(d.sock, 1, n) \o SubSeq(d.sock, n + 1, Len(d.sock)) = SubSeq(d.sock, 1, Len(d.sock))
      <4>1. 1 \in 1..(Len(d.sock) + 1) /\ n \in (1 - 1)..Len(d.sock)
        BY <2>2
      <4> QED
        BY <2>2, <4>1, BytesSplit
    <3> QED
      BY <2>1, <2>2, <3>2, <3>3, SubSeqFull
  <2> HIDE DEF in, rest
  <2>6. /\ d.data \o in \in Seq(Byte) /\ Len(d.data \o in) = Len(d.data) + n
        /\ \A i \in 1..(Len(d.data) + n) :
             (d.data \o in)[i] = IF i <= Len(d.data) THEN d.data[i] ELSE in[i - Len(d.data)]
    BY <2>1, <2>2, ConcatProperties DEF in
  <2>7. f \in Driver /\ f.data = d.data \o in /\ f.sock = rest /\ f.pos = d.pos
    BY <2>3, <2>5, <2>6 DEF Bounded, Driver
  <2>8. Bounded(f)
    <3>1. Len(f.data) = Len(d.data) + n /\ f.pos < Len(f.data)
      BY <2>2, <2>4, <2>6, <2>7
    <3>2. f.data # <<>>
      BY <2>2, <2>4, <3>1, EmptySeq
    <3> QED
      BY <2>1, <2>7, <3>1, <3>2 DEF Bounded
  <2>9. Unread(f) = Unread(d) \o in
    <3>1. d.pos + 1 \in 1..(Len(d.data) + 1) /\ Len(d.data) \in ((d.pos + 1) - 1)..Len(d.data)
      BY <2>2
    <3>2. /\ Unread(d) \in Seq(Byte)
          /\ Len(Unread(d)) = Len(d.data) - d.pos
          /\ \A i \in 1..(Len(d.data) - d.pos) : Unread(d)[i] = d.data[(d.pos + 1) + i - 1]
      <4>1. Len(d.data) - (d.pos + 1) + 1 = Len(d.data) - d.pos
        BY <2>2
      <4> QED
        BY <2>2, <3>1, <4>1, BytesPiece DEF Unread
    <3>3. /\ d.pos + 1 \in 1..(Len(d.data \o in) + 1)
          /\ Len(d.data \o in) \in ((d.pos + 1) - 1)..Len(d.data \o in)
          /\ Len(d.data \o in) - (d.pos + 1) + 1 = Len(d.data) + n - d.pos
      BY <2>2, <2>6, SMTT(30)
    <3>4. /\ Unread(f) \in Seq(Byte)
          /\ Len(Unread(f)) = Len(d.data) + n - d.pos
          /\ \A i \in 1..(Len(d.data) + n - d.pos) : Unread(f)[i] = (d.data \o in)[(d.pos + 1) + i - 1]
      <4>1. Unread(f) = SubSeq(d.data \o in, d.pos + 1, Len(d.data \o in))
        BY <2>7 DEF Unread
      <4>2. /\ Unread(f) \in Seq(Byte)
            /\ Len(Unread(f)) = Len(d.data \o in) - (d.pos + 1) + 1
            /\ \A i \in 1..(Len(d.data \o in) - (d.pos + 1) + 1) :
                 Unread(f)[i] = (d.data \o in)[(d.pos + 1) + i - 1]
        BY <2>6, <3>3, <4>1, BytesPiece
      <4> HIDE DEF f
      <4> QED
        BY <3>3, <4>2
    <3>5. /\ Unread(d) \o in \in Seq(Byte)
          /\ Len(Unread(d) \o in) = Len(d.data) - d.pos + n
          /\ \A i \in 1..(Len(d.data) - d.pos + n) :
               (Unread(d) \o in)[i] =
                 IF i <= Len(d.data) - d.pos THEN Unread(d)[i] ELSE in[i - (Len(d.data) - d.pos)]
      <4>1. in \in Seq(Byte) /\ Len(in) = n
        BY <2>1 DEF in
      <4>2. /\ Unread(d) \o in \in Seq(Byte)
            /\ Len(Unread(d) \o in) = Len(Unread(d)) + Len(in)
            /\ \A i \in 1..(Len(Unread(d)) + Len(in)) :
                 (Unread(d) \o in)[i] =
                   IF i <= Len(Unread(d)) THEN Unread(d)[i] ELSE in[i - Len(Unread(d))]
        BY <3>2, <4>1, BytesConcat
      <4> QED
        BY <3>2, <4>1, <4>2
    <3>6. ASSUME NEW i \in 1..Len(Unread(f))
          PROVE  Unread(f)[i] = (Unread(d) \o in)[i]
      <4>1. /\ i \in 1..(Len(d.data) + n - d.pos) /\ i \in 1..(Len(d.data) - d.pos + n)
            /\ d.pos + i \in 1..(Len(d.data) + n)
            /\ (d.pos + 1) + i - 1 = d.pos + i
        BY <2>2, <3>4, SMTT(30)
      <4>4. Unread(f)[i] = (d.data \o in)[d.pos + i]
        BY <3>4, <4>1
      <4>2. CASE d.pos + i <= Len(d.data)
        <5>1. i <= Len(d.data) - d.pos /\ i \in 1..(Len(d.data) - d.pos)
          BY <2>2, <4>1, <4>2
        <5>2. Unread(d)[i] = d.data[d.pos + i]
          BY <3>2, <4>1, <5>1
        <5> QED
          BY <2>6, <3>5, <4>1, <4>2, <4>4, <5>1, <5>2
      <4>3. CASE ~(d.pos + i <= Len(d.data))
        <5>1. (d.pos + i) - Len(d.data) = i - (Len(d.data) - d.pos) /\ ~(i <= Len(d.data) - d.pos)
          BY <2>1, <2>2, <4>1, <4>3
        <5> QED
          BY <2>6, <3>5, <4>1, <4>3, <4>4, <5>1
      <4> QED
        BY <4>2, <4>3
    <3>7. Len(Unread(f)) = Len(Unread(d) \o in)
      BY <2>2, <3>4, <3>5
    <3> HIDE DEF f
    <3> QED
      BY <3>4, <3>5, <3>6, <3>7, SeqEqual
  <2>10. Pending(f) = Pending(d)
    <3>1. Unread(d) \in Seq(Byte) /\ in \in Seq(Byte)
      <4>1. \A i \in (d.pos + 1)..Len(d.data) : d.data[i] \in Byte
        BY <2>2, ElementOfSeq
      <4> QED
        BY <2>1, <2>2, <4>1, SubSeqProperties DEF Unread, in
    <3>2. (Unread(d) \o in) \o rest = Unread(d) \o (in \o rest)
      BY <2>5, <3>1, BytesAssociate, Zenon
    <3> QED
      BY <2>5, <2>7, <2>9, <3>2 DEF Pending
  <2> QED
    BY <2>7, <2>8, <2>10
<1> QED
  BY <1>1, <1>2

(* Reading up to a place in the buffer takes the bytes before it off the    *)
(* front of what is pending.                                                *)
LEMMA ReadTakesFront ==
  ASSUME NEW d, Bounded(d), NEW i \in (d.pos + 1)..Len(d.data)
  PROVE  /\ Bounded(ReadPos(d, i))
         /\ SubSeq(d.data, d.pos + 1, i) \in Seq(Byte)
         /\ Len(SubSeq(d.data, d.pos + 1, i)) = i - d.pos
         /\ Pending(ReadPos(d, i)) \in Seq(Byte)
         /\ SubSeq(d.data, d.pos + 1, i) \o Pending(ReadPos(d, i)) = Pending(d)
<1> DEFINE r == ReadPos(d, i)
           line == SubSeq(d.data, d.pos + 1, i)
           rest == SubSeq(d.data, i + 1, Len(d.data))
<1>1. /\ d.data \in Seq(Byte) /\ d.sock \in Seq(Byte)
      /\ Len(d.data) \in Nat /\ Len(d.sock) \in Nat /\ d.pos \in Nat
      /\ d.pos <= Len(d.data) /\ i \in Nat /\ i >= 1
  BY PosInData
<1>2. \A j \in 1..Len(d.data) : d.data[j] \in Byte
  BY <1>1, ElementOfSeq
<1>3. line \in Seq(Byte) /\ Len(line) = i - d.pos
  BY <1>1, <1>2, SubSeqProperties
<1>4. rest \in Seq(Byte)
  BY <1>1, <1>2, SubSeqProperties
<1>5. line \o rest = Unread(d)
  <2>1. d.pos + 1 \in 1..(Len(d.data) + 1) /\ i \in ((d.pos + 1) - 1)..Len(d.data)
    BY <1>1
  <2> QED
    BY <1>1, <2>1, BytesSplit DEF Unread
<1>6. /\ Bounded(r) /\ r.sock = d.sock
      /\ Unread(r) = rest
  <2>1. CASE i >= Len(d.data)
    <3>1. r = [d EXCEPT !.ready = FALSE, !.pos = 0, !.data = <<>>]
      BY <2>1 DEF ReadPos
    <3>2. r \in Driver /\ r.data = <<>> /\ r.pos = 0 /\ r.sock = d.sock
      <4>1. <<>> \in Seq(Byte)
        OBVIOUS
      <4>2. r = [sock |-> d.sock, eof |-> d.eof, data |-> <<>>, pos |-> 0, ready |-> FALSE,
                 connected |-> d.connected]
        BY <3>1 DEF Bounded, Driver
      <4> HIDE DEF r
      <4> QED
        BY <4>1, <4>2 DEF Bounded, Driver
    <3>3. Bounded(r)
      BY <3>2, EmptySeq, BufferAssumption DEF Bounded
    <3>4. Unread(r) = <<>> /\ rest = <<>>
      BY <1>1, <2>1, <3>2, SubSeqEmpty, EmptySeq DEF Unread
    <3> QED
      BY <3>2, <3>3, <3>4
  <2>2. CASE ~(i >= Len(d.data))
    <3>1. r = [d EXCEPT !.ready = TRUE, !.pos = i]
      BY <2>2 DEF ReadPos
    <3>2. r \in Driver /\ r.data = d.data /\ r.pos = i /\ r.sock = d.sock
      BY <1>1, <3>1 DEF Bounded, Driver
    <3>3. Bounded(r)
      <4>1. i < Len(d.data) /\ d.data # <<>>
        BY <1>1, <2>2, EmptySeq
      <4> QED
        BY <3>2, <4>1 DEF Bounded
    <3> QED
      BY <3>2, <3>3 DEF Unread
  <2> QED
    BY <2>1, <2>2
<1> HIDE DEF r, line, rest
<1>7. Pending(r) = rest \o d.sock
  BY <1>6 DEF Pending
<1>8. (line \o rest) \o d.sock = line \o (rest \o d.sock)
  BY <1>1, <1>3, <1>4, BytesAssociate, Zenon
<1>9. Pending(r) \in Seq(Byte)
  BY <1>1, <1>4, <1>7, ConcatProperties
<1> QED
  BY <1>3, <1>5, <1>6, <1>7, <1>8, <1>9 DEF Pending, r, line

-----------------------------------------------------------------------------
(* The invariant.                                                           *)

(* What is pending are bytes.                                               *)
LEMMA PendingIsBytes ==
  ASSUME NEW d, Bounded(d)
  PROVE  Unread(d) \in Seq(Byte) /\ Pending(d) \in Seq(Byte)
<1>1. /\ d.data \in Seq(Byte) /\ d.sock \in Seq(Byte) /\ Len(d.data) \in Nat /\ d.pos \in Nat
  BY PosInData
<1>2. \A i \in (d.pos + 1)..Len(d.data) : d.data[i] \in Byte
  BY <1>1, ElementOfSeq
<1>3. Unread(d) \in Seq(Byte)
  BY <1>1, <1>2, SubSeqProperties DEF Unread
<1> QED
  BY <1>1, <1>3, ConcatProperties DEF Pending

(* It holds at first.                                                       *)
LEMMA InitInv == Init => Inv
<1> SUFFICES ASSUME Init
             PROVE  Inv
  OBVIOUS
<1>1. /\ b.data = <<>> /\ b.sock = <<>> /\ b.pos = 0 /\ b \in Driver
  BY EmptySeq DEF Init, FreshDriver, Driver
<1>2. Bounded(b) /\ ret \in -1..(Capacity - 2) /\ taken = <<>> /\ sent = <<>>
  BY <1>1, BufferAssumption DEF Bounded, Init
<1>3. Pending(b) = <<>>
  <2>1. Unread(b) = <<>>
    BY <1>1 DEF Unread
  <2> QED
    BY <1>1, <2>1 DEF Pending
<1> QED
  BY <1>2, <1>3, EmptySeq DEF Inv

(* A byte that arrives is the last one pending.                             *)
LEMMA SendInv ==
  ASSUME Inv, NEW byte \in Byte, Send(byte)
  PROVE  Inv'
<1>1. /\ Bounded(b) /\ ret \in -1..(Capacity - 2)
      /\ sent \in Seq(Byte) /\ taken \in Seq(Byte)
      /\ taken \o Pending(b) = sent
  BY DEF Inv
<1>2. /\ b.sock \in Seq(Byte) /\ Unread(b) \in Seq(Byte) /\ Pending(b) \in Seq(Byte)
      /\ <<byte>> \in Seq(Byte)
  BY <1>1, PosInData, PendingIsBytes
<1>3. /\ b' = [b EXCEPT !.sock = Append(b.sock, byte)]
      /\ sent' = Append(sent, byte) /\ taken' = taken /\ ret' = ret
  BY DEF Send
<1>4. /\ Append(b.sock, byte) \in Seq(Byte) /\ Append(b.sock, byte) = b.sock \o <<byte>>
      /\ sent' \in Seq(Byte) /\ sent' = sent \o <<byte>>
  BY <1>1, <1>2, <1>3, AppendProperties, AppendIsConcat
<1>5. /\ b' \in Driver /\ b'.data = b.data /\ b'.pos = b.pos
      /\ b'.sock = b.sock \o <<byte>>
  BY <1>1, <1>3, <1>4 DEF Bounded, Driver
<1>6. Bounded(b')
  BY <1>1, <1>5 DEF Bounded
<1>7. Pending(b') = Pending(b) \o <<byte>>
  <2>1. Pending(b') = Unread(b) \o (b.sock \o <<byte>>)
    BY <1>5 DEF Pending, Unread
  <2> QED
    BY <1>2, <2>1, BytesAssociate, Zenon DEF Pending
<1>8. taken \o (Pending(b) \o <<byte>>) = (taken \o Pending(b)) \o <<byte>>
  BY <1>1, <1>2, BytesAssociate, Zenon
<1>9. taken' \o Pending(b') = sent'
  BY <1>1, <1>3, <1>4, <1>7, <1>8
<1> QED
  BY <1>1, <1>3, <1>4, <1>6, <1>9 DEF Inv

(* A call of receive() that finds the connection closed changes no byte.    *)
LEMMA ReceiveClosedInv ==
  ASSUME Inv, ReceiveClosed
  PROVE  Inv'
<1>1. /\ b' = [b EXCEPT !.connected = FALSE] /\ ret' = -1 /\ UNCHANGED <<sent, taken>>
  BY DEF ReceiveClosed
<1>2. Bounded(b) /\ Capacity \in Nat \ {0, 1}
  BY BufferAssumption DEF Inv
<1>3. b' \in Driver /\ b'.data = b.data /\ b'.pos = b.pos /\ b'.sock = b.sock
  BY <1>1, <1>2 DEF Bounded, Driver
<1>4. Bounded(b') /\ Pending(b') = Pending(b)
  BY <1>2, <1>3 DEF Bounded, Pending, Unread
<1>5. -1 \in -1..(Capacity - 2)
  BY <1>2
<1>6. ret' \in -1..(Capacity - 2)
  BY <1>1, <1>5
<1> QED
  BY <1>1, <1>4, <1>6 DEF Inv

(* One that finds no line fills the buffer.                                 *)
LEMMA ReceiveNothingInv ==
  ASSUME Inv, ReceiveNothing
  PROVE  Inv'
<1>1. /\ ~RecvFails(b) /\ b' = RecvToBuffer(b) /\ ret' = 0 /\ UNCHANGED <<sent, taken>>
  BY DEF ReceiveNothing
<1>2. Bounded(b) /\ Capacity \in Nat \ {0, 1}
  BY BufferAssumption DEF Inv
<1>3. Bounded(b') /\ Pending(b') = Pending(b)
  BY <1>1, <1>2, RecvKeepsPending
<1> QED
  BY <1>1, <1>2, <1>3 DEF Inv

(* One that finds a line moves it from what is pending to what was taken.   *)
LEMMA ReceiveLineMoves ==
  ASSUME Inv, ReceiveLine
  PROVE  \E line \in Seq(Byte) :
           /\ taken' = taken \o line /\ sent' = sent
           /\ Bounded(b') /\ ret' \in -1..(Capacity - 2)
           /\ Pending(b') \in Seq(Byte) /\ line \o Pending(b') = Pending(b)
           /\ Len(line) \in Nat \ {0} /\ line[Len(line)] = Delim
           /\ \A k \in 1..(Len(line) - 1) : line[k] # Delim
<1> DEFINE f == RecvToBuffer(b)
<1>1. /\ ~RecvFails(b) /\ sent' = sent
      /\ \E i \in DOMAIN f.data :
           /\ DelimAt(f, i) /\ b' = ReadPos(f, i)
           /\ taken' = taken \o SubSeq(f.data, b.pos + 1, i)
           /\ ret' = i - b.pos - 1
  BY DEF ReceiveLine
<1>2. /\ Bounded(f) /\ f.pos = b.pos /\ Pending(f) = Pending(b)
      /\ Capacity \in Nat \ {0, 1}
  BY <1>1, RecvKeepsPending, BufferAssumption DEF Inv
<1> HIDE DEF f
<1>3. PICK i \in DOMAIN f.data :
        /\ DelimAt(f, i) /\ b' = ReadPos(f, i)
        /\ taken' = taken \o SubSeq(f.data, f.pos + 1, i)
        /\ ret' = i - f.pos - 1
  BY <1>1, <1>2
<1>4. /\ i \in (f.pos + 1)..Len(f.data) /\ f.data[i] = Delim
      /\ \A k \in (f.pos + 1)..(i - 1) : f.data[k] # Delim
  BY <1>3 DEF DelimAt
<1>5. /\ f.data \in Seq(Byte) /\ f.pos \in Nat /\ Len(f.data) \in Nat /\ i \in Nat
      /\ Len(f.data) < Capacity
  BY <1>2, <1>4, PosInData DEF Bounded
<1> DEFINE line == SubSeq(f.data, f.pos + 1, i)
<1>6. /\ line \in Seq(Byte) /\ Len(line) = i - f.pos
      /\ \A k \in 1..(i - f.pos) : line[k] = f.data[f.pos + k]
  <2>1. f.pos + 1 \in 1..(Len(f.data) + 1) /\ i \in ((f.pos + 1) - 1)..Len(f.data)
    BY <1>4, <1>5
  <2>2. /\ line \in Seq(Byte) /\ Len(line) = i - (f.pos + 1) + 1
        /\ \A k \in 1..(i - (f.pos + 1) + 1) : line[k] = f.data[(f.pos + 1) + k - 1]
    BY <1>5, <2>1, BytesPiece
  <2>3. i - (f.pos + 1) + 1 = i - f.pos
    BY <1>5
  <2>4. \A k \in 1..(i - f.pos) : (f.pos + 1) + k - 1 = f.pos + k
    BY <1>5
  <2> HIDE DEF line
  <2> QED
    BY <2>2, <2>3, <2>4
<1>7. /\ Bounded(b') /\ Pending(b') \in Seq(Byte)
      /\ line \o Pending(b') = Pending(f)
  BY <1>2, <1>3, <1>4, ReadTakesFront
<1> HIDE DEF line
<1>8. ret' \in -1..(Capacity - 2)
  <2>1. ASSUME NEW c \in Nat, NEW l \in Nat, NEW p \in Nat, NEW j \in Nat,
               l < c, j <= l, j >= p + 1
        PROVE  j - p - 1 \in -1..(c - 2)
    BY <2>1
  <2>2. i <= Len(f.data) /\ i >= f.pos + 1
    BY <1>4, <1>5
  <2>3. i - f.pos - 1 \in -1..(Capacity - 2)
    BY <1>2, <1>5, <2>1, <2>2
  <2> QED
    BY <1>3, <2>3
<1>9. Len(line) \in Nat \ {0} /\ line[Len(line)] = Delim
  <2>1. i - f.pos \in 1..(i - f.pos) /\ f.pos + (i - f.pos) = i
    BY <1>4, <1>5
  <2> QED
    BY <1>4, <1>5, <1>6, <2>1
<1>10. \A k \in 1..(Len(line) - 1) : line[k] # Delim
  <2> TAKE k \in 1..(Len(line) - 1)
  <2>1. k \in 1..(i - f.pos) /\ f.pos + k \in (f.pos + 1)..(i - 1)
    BY <1>4, <1>5, <1>6, SMTT(30)
  <2> QED
    BY <1>4, <1>6, <2>1
<1> QED
  BY <1>1, <1>2, <1>3, <1>6, <1>7, <1>8, <1>9, <1>10 DEF line

(* So nothing is lost by it.                                               *)
LEMMA ReceiveLineInv ==
  ASSUME Inv, ReceiveLine
  PROVE  Inv'
<1>1. PICK line \in Seq(Byte) :
        /\ taken' = taken \o line /\ sent' = sent
        /\ Bounded(b') /\ ret' \in -1..(Capacity - 2)
        /\ Pending(b') \in Seq(Byte) /\ line \o Pending(b') = Pending(b)
  BY ReceiveLineMoves
<1>2. sent \in Seq(Byte) /\ taken \in Seq(Byte) /\ taken \o Pending(b) = sent
  BY DEF Inv
<1>3. (taken \o line) \o Pending(b') = taken \o (line \o Pending(b'))
  BY <1>1, <1>2, BytesAssociate, Zenon
<1>4. taken' \in Seq(Byte)
  BY <1>1, <1>2, BytesConcat
<1> QED
  BY <1>1, <1>2, <1>3, <1>4 DEF Inv

(* Every step preserves the invariant.                                      *)
LEMMA NextInv == Inv /\ [Next]_vars => Inv'
<1> SUFFICES ASSUME Inv, [Next]_vars
             PROVE  Inv'
  OBVIOUS
<1>1. CASE \E byte \in Byte : Send(byte)
  BY <1>1, SendInv
<1>2. CASE PeerCloses
  <2>1. b' = [b EXCEPT !.eof = TRUE] /\ UNCHANGED <<sent, taken, ret>>
    BY <1>2 DEF PeerCloses
  <2>2. Bounded(b)
    BY DEF Inv
  <2>3. b' \in Driver /\ b'.data = b.data /\ b'.pos = b.pos /\ b'.sock = b.sock
    BY <2>1, <2>2 DEF Bounded, Driver
  <2>4. Bounded(b') /\ Pending(b') = Pending(b)
    BY <2>2, <2>3 DEF Bounded, Pending, Unread
  <2> QED
    BY <2>1, <2>4 DEF Inv
<1>3. CASE ReceiveClosed
  BY <1>3, ReceiveClosedInv
<1>4. CASE ReceiveLine
  BY <1>4, ReceiveLineInv
<1>5. CASE ReceiveNothing
  BY <1>5, ReceiveNothingInv
<1>6. CASE UNCHANGED vars
  BY <1>6 DEF vars, Inv
<1> QED
  BY <1>1, <1>2, <1>3, <1>4, <1>5, <1>6 DEF Next

(* The invariant holds in every reachable state.                           *)
LEMMA Invariant == Spec => []Inv
  BY InitInv, NextInv, PTL DEF Spec

-----------------------------------------------------------------------------

(* m_read_pos and m_read_length stay inside m_read_buffer with room for the *)
(* NUL, whatever arrives and whenever receive() is called.                  *)
THEOREM StaysInBuffer == Spec => []BufferBounds
<1>1. Inv => BufferBounds
  BY DEF Inv, BufferBounds, Bounded
<1> QED
  BY <1>1, Invariant, PTL

(* The bytes taken, then those buffered, then those in the kernel are what  *)
(* the peer sent: none is lost, repeated or moved.                          *)
THEOREM NothingIsLost == Spec => []NothingLost
<1>1. Inv => NothingLost
  <2> SUFFICES ASSUME Inv
               PROVE  NothingLost
    OBVIOUS
  <2>1. /\ taken \in Seq(Byte) /\ Unread(b) \in Seq(Byte) /\ b.sock \in Seq(Byte)
        /\ taken \o Pending(b) = sent
    BY PosInData, PendingIsBytes DEF Inv
  <2>2. (taken \o Unread(b)) \o b.sock = taken \o (Unread(b) \o b.sock)
    BY <2>1, BytesAssociate, Zenon
  <2> QED
    BY <2>1, <2>2 DEF NothingLost, Pending
<1> QED
  BY <1>1, Invariant, PTL

(* Every step of the driver and its peer is one of the abstract stream.     *)
LEMMA StepImplements ==
  ASSUME Inv, [Next]_vars
  PROVE  [Stream!Next]_<<sent, taken>>
<1>1. CASE \E byte \in Byte : Send(byte)
  BY <1>1 DEF Send, Stream!Next, Stream!Send
<1>2. CASE PeerCloses \/ ReceiveClosed \/ ReceiveNothing \/ UNCHANGED vars
  BY <1>2 DEF PeerCloses, ReceiveClosed, ReceiveNothing, vars
<1>3. CASE ReceiveLine
  <2>1. PICK line \in Seq(Byte) :
          /\ taken' = taken \o line /\ sent' = sent
          /\ Pending(b') \in Seq(Byte) /\ line \o Pending(b') = Pending(b)
          /\ Len(line) \in Nat \ {0} /\ line[Len(line)] = Delim
          /\ \A k \in 1..(Len(line) - 1) : line[k] # Delim
    BY <1>3, ReceiveLineMoves
  <2> DEFINE rest == Pending(b')
  <2>2. sent \in Seq(Byte) /\ taken \in Seq(Byte) /\ taken \o Pending(b) = sent
    BY DEF Inv
  <2>3. rest \in Seq(Byte) /\ sent = (taken \o line) \o rest
    <3>1. (taken \o line) \o rest = taken \o (line \o rest)
      BY <2>1, <2>2, BytesAssociate, ZenonT(30)
    <3> QED
      BY <2>1, <2>2, <3>1
  <2> HIDE DEF rest
  <2> DEFINE both == taken \o line
             n == Len(line)
  <2>4. /\ both \in Seq(Byte) /\ Len(both) = Len(taken) + n
        /\ \A i \in 1..(Len(taken) + n) :
             both[i] = IF i <= Len(taken) THEN taken[i] ELSE line[i - Len(taken)]
        /\ Len(taken) \in Nat
    BY <2>1, <2>2, BytesConcat, LenProperties
  <2>5. n \in Nat \ {0}
    BY <2>1
  <2> HIDE DEF both, n
  <2>6. /\ Len(sent) = Len(both) + Len(rest) /\ Len(rest) \in Nat
        /\ \A i \in 1..(Len(both) + Len(rest)) :
             sent[i] = IF i <= Len(both) THEN both[i] ELSE rest[i - Len(both)]
    BY <2>3, <2>4, BytesConcat, LenProperties DEF both
  <2>7. \A k \in 1..n : sent[Len(taken) + k] = line[k]
    <3> TAKE k \in 1..n
    <3>1. /\ Len(taken) + k \in 1..(Len(taken) + n) /\ Len(taken) + k \in 1..(Len(both) + Len(rest))
          /\ Len(taken) + k <= Len(both) /\ ~(Len(taken) + k <= Len(taken))
          /\ (Len(taken) + k) - Len(taken) = k
      BY <2>4, <2>5, <2>6
    <3> QED
      BY <2>4, <2>6, <3>1
  <2>8. Stream!LineEnds(n)
    <3>1. n \in 1..(Len(sent) - Len(taken))
      BY <2>4, <2>5, <2>6
    <3>2. sent[Len(taken) + n] = Delim
      BY <2>1, <2>5, <2>7 DEF n
    <3>3. \A k \in 1..(n - 1) : sent[Len(taken) + k] # Delim
      <4> TAKE k \in 1..(n - 1)
      <4>1. k \in 1..n
        BY <2>5
      <4>2. line[k] # Delim
        BY <2>1 DEF n
      <4> QED
        BY <2>7, <4>1, <4>2
    <3> QED
      BY <3>1, <3>2, <3>3 DEF Stream!LineEnds
  <2>9. taken' = SubSeq(sent, 1, Len(taken) + n)
    <3>1. 1 \in 1..(Len(sent) + 1) /\ Len(taken) + n \in (1 - 1)..Len(sent)
          /\ Len(taken) + n - 1 + 1 = Len(taken) + n
      BY <2>4, <2>5, <2>6
    <3>2. /\ SubSeq(sent, 1, Len(taken) + n) \in Seq(Byte)
          /\ Len(SubSeq(sent, 1, Len(taken) + n)) = Len(taken) + n - 1 + 1
          /\ \A i \in 1..(Len(taken) + n - 1 + 1) :
               SubSeq(sent, 1, Len(taken) + n)[i] = sent[1 + i - 1]
      BY <2>2, <3>1, BytesPiece
    <3>3. \A i \in 1..Len(both) : both[i] = SubSeq(sent, 1, Len(taken) + n)[i]
      <4> TAKE i \in 1..Len(both)
      <4>1. i \in 1..(Len(both) + Len(rest)) /\ i <= Len(both) /\ 1 + i - 1 = i
            /\ i \in 1..(Len(taken) + n - 1 + 1)
        BY <2>4, <2>5, <2>6
      <4> QED
        BY <2>6, <3>2, <4>1
    <3>4. both = SubSeq(sent, 1, Len(taken) + n)
      BY <2>4, <3>1, <3>2, <3>3, SeqEqual
    <3> QED
      BY <2>1, <3>4 DEF both
  <2>10. n \in 1..Len(sent)
    BY <2>4, <2>5, <2>6
  <2> QED
    BY <2>1, <2>8, <2>9, <2>10 DEF Stream!Next, Stream!TakeLine
<1> QED
  BY <1>1, <1>2, <1>3 DEF Next

(* receive() takes whole lines off the peer's stream, in order, each once.  *)
THEOREM BufferImplementsStream == Spec => ImplementsLineStream
<1>1. Init => Stream!Init
  BY DEF Init, Stream!Init
<1> QED
  BY <1>1, StepImplements, Invariant, PTL DEF Spec, ImplementsLineStream, Stream!Spec

=============================================================================
