---------------------------- MODULE ByteRelayProofs ----------------------------
(***************************************************************************)
(* Theorems about one direction of an open pair: however many bytes there  *)
(* are and however large the buffers, no assertion fails, the bytes arrive *)
(* in order and the sockets are watched, and the relay implements          *)
(* ByteChannel.                                                            *)
(***************************************************************************)
EXTENDS ByteRelay, SequenceTheorems, TLAPS

Fifos == Seq(Streams(Nat))

-----------------------------------------------------------------------------
(* Packets. *)

(* The positions and the numbers of a packet. *)
LEMMA PacketShape ==
    ASSUME NEW s \in Streams(Nat), Packet(s)
    PROVE  /\ s.data \in Seq(Nat) /\ s.getp \in Nat /\ s.size \in Nat
           /\ endp(s) \in Nat /\ endp(s) = Len(s.data) /\ endp(s) <= s.size
           /\ s.getp < endp(s)
           /\ First(s) \in Nat /\ Last(s) \in Nat
           /\ Last(s) = First(s) + (endp(s) - s.getp) - 1
<1>1. s.data \in Seq(Nat) /\ s.getp \in Nat /\ s.size \in Nat
  BY DEF Streams
<1>2. endp(s) \in Nat /\ endp(s) = Len(s.data)
  BY <1>1, LenProperties DEF endp
<1>3. s.getp < endp(s) /\ endp(s) <= s.size
  BY <1>1, <1>2 DEF Packet, STREAM_READABLE, Sane
<1>4. s.getp + 1 \in 1 .. Len(s.data) /\ endp(s) \in 1 .. Len(s.data)
  BY <1>1, <1>2, <1>3
<1>5. s.data[s.getp + 1] \in Nat /\ s.data[endp(s)] \in Nat
  BY <1>1, <1>4, ElementOfSeq
<1>6. endp(s) \in s.getp + 1 .. endp(s)
  BY <1>1, <1>2, <1>3
<1>7. s.data[endp(s)] = First(s) + (endp(s) - s.getp - 1)
  BY <1>6 DEF Packet
<1> QED
  BY <1>1, <1>2, <1>3, <1>5, <1>7 DEF First, Last

(* What a fifo holds, packet by packet. *)
LEMMA FifoEntries ==
    ASSUME NEW fifo \in Fifos, NEW given, NEW last, PacketsFollow(fifo, given, last)
    PROVE  /\ Len(fifo) \in Nat /\ DOMAIN fifo = 1 .. Len(fifo)
           /\ \A k \in 1 .. Len(fifo) : fifo[k] \in Streams(Nat) /\ Packet(fifo[k])
           /\ fifo # <<>> => Len(fifo) > 0
<1>1. Len(fifo) \in Nat /\ DOMAIN fifo = 1 .. Len(fifo)
  BY LenProperties DEF Fifos
<1>2. \A k \in 1 .. Len(fifo) : fifo[k] \in Streams(Nat)
  BY ElementOfSeq DEF Fifos
<1>3. fifo # <<>> => Len(fifo) > 0
  BY EmptySeq DEF Fifos
<1> QED
  BY <1>1, <1>2, <1>3 DEF PacketsFollow

(* A packet that begins where the last one ended may join the fifo. *)
LEMMA PushFollows ==
    ASSUME NEW fifo \in Fifos, NEW given \in Nat, NEW last \in Nat,
           PacketsFollow(fifo, given, last),
           NEW s \in Streams(Nat), Packet(s), First(s) = last + 1
    PROVE  /\ Append(fifo, s) \in Fifos
           /\ PacketsFollow(Append(fifo, s), given, Last(s))
<1> DEFINE q == Append(fifo, s)
           n == Len(fifo)
<1>1. /\ n \in Nat /\ DOMAIN fifo = 1 .. n
      /\ \A k \in 1 .. n : fifo[k] \in Streams(Nat) /\ Packet(fifo[k])
      /\ fifo # <<>> => n > 0
  BY FifoEntries
<1>2. /\ q \in Fifos /\ q # <<>> /\ Len(q) = n + 1
      /\ \A k \in 1 .. n : q[k] = fifo[k]
      /\ q[n + 1] = s
  BY AppendProperties DEF Fifos
<1>3. DOMAIN q = 1 .. n + 1
  BY <1>2, LenProperties DEF Fifos
<1>4. fifo = <<>> <=> n = 0
  BY <1>1, EmptySeq
<1>5. last = IF n = 0 THEN given ELSE Last(fifo[n])
  BY <1>4 DEF PacketsFollow
<1> HIDE DEF q, n
<1>6. ASSUME NEW k \in DOMAIN q
      PROVE  /\ Packet(q[k])
             /\ First(q[k]) = IF k = 1 THEN given + 1 ELSE Last(q[k - 1]) + 1
  <2>1. CASE k \in 1 .. n
    <3>1. First(fifo[k]) = IF k = 1 THEN given + 1 ELSE Last(fifo[k - 1]) + 1
      BY <1>1, <2>1 DEF PacketsFollow
    <3>2. k # 1 => k - 1 \in 1 .. n
      BY <1>1, <2>1
    <3> QED
      BY <1>1, <1>2, <2>1, <3>1, <3>2
  <2>2. CASE k = n + 1
    <3>1. n # 0 => n \in 1 .. n /\ k - 1 = n /\ k # 1
      BY <1>1, <2>2
    <3>2. n = 0 => k = 1
      BY <2>2
    <3> QED
      BY <1>2, <1>5, <2>2, <3>1, <3>2
  <2> QED
    BY <1>1, <1>3, <2>1, <2>2
<1>7. Last(s) = IF q = <<>> THEN given ELSE Last(q[Len(q)])
  BY <1>2
<1> QED
  BY <1>2, <1>6, <1>7 DEF PacketsFollow, q

(* A packet that was sent leaves the rest of the fifo in order. *)
LEMMA PopFollows ==
    ASSUME NEW fifo \in Fifos, NEW given \in Nat, NEW last,
           PacketsFollow(fifo, given, last), fifo # <<>>
    PROVE  /\ Tail(fifo) \in Fifos
           /\ PacketsFollow(Tail(fifo), Last(Head(fifo)), last)
           /\ Len(Tail(fifo)) = Len(fifo) - 1
           /\ \A k \in 1 .. Len(Tail(fifo)) : Tail(fifo)[k] = fifo[k + 1]
<1> DEFINE q == Tail(fifo)
           n == Len(fifo)
<1>1. /\ n \in Nat /\ n > 0 /\ DOMAIN fifo = 1 .. n
      /\ \A k \in 1 .. n : fifo[k] \in Streams(Nat) /\ Packet(fifo[k])
  BY FifoEntries
<1>2. /\ q \in Fifos /\ Len(q) = n - 1
      /\ \A k \in 1 .. Len(q) : q[k] = fifo[k + 1]
  BY HeadTailProperties DEF Fifos
<1>3. DOMAIN q = 1 .. n - 1
  BY <1>2, LenProperties DEF Fifos
<1>4. Head(fifo) = fifo[1]
  BY DEF Fifos
<1>5. q = <<>> <=> n = 1
  <2> HIDE DEF q, n
  <2>1. q = <<>> => Len(q) = 0
    BY EmptySeq
  <2>2. q # <<>> => Len(q) # 0
    BY <1>2, EmptySeq DEF Fifos
  <2> QED
    BY <1>1, <1>2, <2>1, <2>2
<1>6. last = Last(fifo[n])
  BY DEF PacketsFollow
<1> HIDE DEF q, n
<1>7. ASSUME NEW k \in DOMAIN q
      PROVE  /\ Packet(q[k])
             /\ First(q[k]) = IF k = 1 THEN Last(fifo[1]) + 1 ELSE Last(q[k - 1]) + 1
  <2>1. k \in 1 .. n - 1 /\ k + 1 \in 1 .. n /\ k + 1 # 1 /\ k + 1 - 1 = k
    BY <1>1, <1>3
  <2>2. Packet(fifo[k + 1]) /\ First(fifo[k + 1]) = Last(fifo[k]) + 1
    BY <1>1, <2>1 DEF PacketsFollow
  <2>3. k # 1 => k - 1 \in 1 .. n - 1 /\ (k - 1) + 1 = k
    BY <1>1, <2>1
  <2>4. q[k] = fifo[k + 1] /\ (k # 1 => q[k - 1] = fifo[k])
    BY <1>2, <2>1, <2>3
  <2> QED
    BY <2>2, <2>4
<1>8. last = IF q = <<>> THEN Last(fifo[1]) ELSE Last(q[Len(q)])
  <2>1. n # 1 => n - 1 \in 1 .. Len(q) /\ (n - 1) + 1 = n
    BY <1>1, <1>2
  <2> QED
    BY <1>2, <1>5, <1>6, <2>1
<1>9. PacketsFollow(q, Last(fifo[1]), last)
  BY <1>7, <1>8 DEF PacketsFollow
<1> QED
  BY <1>2, <1>4, <1>9 DEF q, n

(* A packet of which a part was sent goes on where it stopped. *)
LEMMA ForwardFollows ==
    ASSUME NEW fifo \in Fifos, NEW given \in Nat, NEW last,
           PacketsFollow(fifo, given, last), fifo # <<>>,
           NEW num \in Nat, num < STREAM_READABLE(Head(fifo))
    PROVE  LET q == [fifo EXCEPT ![1] = stream_forward_getp(@, num)]
           IN  /\ q \in Fifos /\ q # <<>> /\ Len(q) = Len(fifo)
               /\ PacketsFollow(q, given + num, last)
               /\ \A k \in 1 .. Len(fifo) : Last(q[k]) = Last(fifo[k])
               /\ stream_forward_getp_asserts(Head(fifo), num)
<1> DEFINE s == fifo[1]
           t == stream_forward_getp(s, num)
           q == [fifo EXCEPT ![1] = t]
           n == Len(fifo)
<1>1. /\ n \in Nat /\ n > 0 /\ DOMAIN fifo = 1 .. n
      /\ \A k \in 1 .. n : fifo[k] \in Streams(Nat) /\ Packet(fifo[k])
  BY FifoEntries
<1>2. Head(fifo) = s
  BY DEF Fifos
<1>3. s \in Streams(Nat) /\ Packet(s) /\ First(s) = given + 1
  BY <1>1 DEF PacketsFollow
<1>4. /\ s.data \in Seq(Nat) /\ s.getp \in Nat /\ s.size \in Nat
      /\ endp(s) \in Nat /\ endp(s) = Len(s.data) /\ endp(s) <= s.size
      /\ s.getp < endp(s) /\ Last(s) \in Nat
  BY <1>3, PacketShape
<1>5. num < endp(s) - s.getp
  BY <1>2 DEF STREAM_READABLE
<1>6. t = [size |-> s.size, getp |-> s.getp + num, data |-> s.data]
  BY <1>3 DEF stream_forward_getp, Streams
<1> HIDE DEF s, t
<1>7. t \in Streams(Nat)
  BY <1>4, <1>6 DEF Streams
<1>8. t.data = s.data /\ t.getp = s.getp + num /\ t.size = s.size /\ endp(t) = endp(s)
  BY <1>6 DEF endp
<1>9. Last(t) = Last(s)
  BY <1>8 DEF Last
<1>10. First(t) = given + num + 1
  <2> DEFINE a == s.getp + num + 1
  <2>1. a \in s.getp + 1 .. endp(s) /\ a - s.getp - 1 = num
    <3>1. s.getp \in Nat /\ endp(s) \in Nat /\ num \in Nat
      BY <1>4
    <3>2. a \in Nat /\ s.getp + 1 <= a
      BY ONLY <3>1
    <3>3. a <= endp(s)
      BY ONLY <3>1, <1>5
    <3>4. a - s.getp - 1 = num
      BY ONLY <3>1
    <3> QED
      BY ONLY <3>1, <3>2, <3>3, <3>4
  <2>2. First(t) = s.data[a]
    BY <1>8 DEF First
  <2> HIDE DEF a
  <2>3. s.data[a] = First(s) + (a - s.getp - 1)
    BY <1>3, <2>1 DEF Packet
  <2> QED
    BY <1>3, <2>1, <2>2, <2>3
<1>11. Packet(t)
  <2>1. Sane(t) /\ STREAM_READABLE(t) > 0
    BY <1>4, <1>5, <1>8 DEF Sane, GETP_VALID, STREAM_READABLE
  <2>2. ASSUME NEW a \in t.getp + 1 .. endp(t)
        PROVE  t.data[a] = First(t) + (a - t.getp - 1)
    <3>1. a \in s.getp + 1 .. endp(s)
      BY <1>4, <1>8
    <3>2. s.data[a] = First(s) + (a - s.getp - 1)
      BY <1>3, <3>1 DEF Packet
    <3>3. a \in Int /\ s.getp \in Nat
      BY <1>4, <3>1
    <3>4. given + 1 + (a - s.getp - 1) = given + a - s.getp
      BY <3>3
    <3>5. given + num + 1 + (a - (s.getp + num) - 1) = given + a - s.getp
      BY <3>3
    <3> QED
      BY <1>3, <1>8, <1>10, <3>2, <3>4, <3>5
  <2> QED
    BY <2>1, <2>2 DEF Packet
<1>12. stream_forward_getp_asserts(s, num)
  BY <1>3, <1>4, <1>5 DEF stream_forward_getp_asserts, Packet, GETP_VALID
<1>13. /\ q \in Fifos /\ Len(q) = n
       /\ \A k \in 1 .. n : q[k] = IF k = 1 THEN t ELSE fifo[k]
  BY <1>1, <1>7, ExceptSeq DEF Fifos
<1>14. q # <<>> /\ DOMAIN q = 1 .. n
  <2>1. DOMAIN q = 1 .. n
    BY <1>1
  <2>2. Len(<<>>) = 0
    BY EmptySeq
  <2> QED
    BY <1>1, <1>13, <2>1, <2>2
<1> HIDE DEF q, n
<1>15. \A k \in 1 .. n : Last(q[k]) = Last(fifo[k])
  BY <1>9, <1>13 DEF s
<1>16. ASSUME NEW k \in DOMAIN q
       PROVE  /\ Packet(q[k])
              /\ First(q[k]) = IF k = 1 THEN given + num + 1 ELSE Last(q[k - 1]) + 1
  <2>1. CASE k = 1
    BY <1>10, <1>11, <1>13, <1>14, <2>1
  <2>2. CASE k # 1
    <3>1. k \in 1 .. n /\ k - 1 \in 1 .. n
      BY <1>1, <1>14, <2>2
    <3>2. First(fifo[k]) = Last(fifo[k - 1]) + 1
      BY <1>1, <2>2, <3>1 DEF PacketsFollow
    <3> QED
      BY <1>1, <1>13, <1>15, <2>2, <3>1, <3>2
  <2> QED
    BY <2>1, <2>2
<1>17. last = Last(q[n])
  <2>1. last = Last(fifo[n])
    BY DEF PacketsFollow, n
  <2> QED
    BY <1>1, <1>15, <2>1
<1>18. PacketsFollow(q, given + num, last)
  BY <1>13, <1>14, <1>16, <1>17 DEF PacketsFollow
<1> QED
  BY <1>2, <1>12, <1>13, <1>14, <1>15, <1>18 DEF q, t, s, n

InOrder(bytes) == \A n \in DOMAIN bytes : bytes[n] = n

(* The first num bytes of a packet that begins where the output ends are    *)
(* the bytes the destination needs next.                                   *)
LEMMA OutputFollows ==
    ASSUME NEW bytes \in Seq(Nat), InOrder(bytes),
           NEW s \in Streams(Nat), Packet(s), First(s) = Len(bytes) + 1,
           NEW num \in Nat, num <= STREAM_READABLE(s)
    PROVE  LET next == SubSeq(Unread(s), 1, num)
           IN  /\ bytes \o next \in Seq(Nat)
               /\ Len(bytes \o next) = Len(bytes) + num
               /\ InOrder(bytes \o next)
               /\ next = [k \in 1 .. num |-> Len(bytes) + k]
<1> DEFINE unread == Unread(s)
           next == SubSeq(unread, 1, num)
           n == Len(bytes)
           r == endp(s) - s.getp
<1>1. /\ s.data \in Seq(Nat) /\ s.getp \in Nat
      /\ endp(s) \in Nat /\ endp(s) = Len(s.data) /\ s.getp < endp(s)
  BY PacketShape
<1>2. r \in Nat /\ num <= r /\ n \in Nat
  BY <1>1, LenProperties DEF STREAM_READABLE
<1>3. \A a \in s.getp + 1 .. endp(s) : s.data[a] \in Nat
  <2>1. \A a \in s.getp + 1 .. endp(s) : a \in 1 .. Len(s.data)
    BY <1>1
  <2> QED
    BY <1>1, <2>1, ElementOfSeq
<1>4. /\ unread \in Seq(Nat)
      /\ Len(unread) = r
      /\ \A k \in 1 .. r : unread[k] = s.data[s.getp + k]
  <2>1. s.getp + 1 \in Int /\ endp(s) \in Int
    BY <1>1
  <2>2. /\ SubSeq(s.data, s.getp + 1, endp(s)) \in Seq(Nat)
        /\ Len(SubSeq(s.data, s.getp + 1, endp(s))) =
             IF s.getp + 1 <= endp(s) THEN endp(s) - (s.getp + 1) + 1 ELSE 0
        /\ \A k \in 1 .. endp(s) - (s.getp + 1) + 1 :
             SubSeq(s.data, s.getp + 1, endp(s))[k] = s.data[s.getp + 1 + k - 1]
    BY <1>3, <2>1, SubSeqProperties
  <2>3. endp(s) - (s.getp + 1) + 1 = r /\ s.getp + 1 <= endp(s)
    BY <1>1
  <2>4. \A k \in 1 .. r : s.getp + 1 + k - 1 = s.getp + k
    BY <1>1, <1>2
  <2> QED
    BY ONLY <2>2, <2>3, <2>4 DEF Unread
<1>5. \A k \in 1 .. r : unread[k] = n + k
  <2> TAKE k \in 1 .. r
  <2> DEFINE a == s.getp + k
  <2>1. a \in s.getp + 1 .. endp(s)
    BY <1>1
  <2>2. n + 1 + (a - s.getp - 1) = n + k
    <3>1. s.getp \in Nat /\ k \in Nat
      BY <1>1, <1>2
    <3>2. a - s.getp - 1 = k - 1
      BY <3>1
    <3> QED
      BY <1>2, <3>1, <3>2
  <2>3. unread[k] = s.data[a]
    BY <1>4
  <2> HIDE DEF a, unread
  <2>4. s.data[a] = First(s) + (a - s.getp - 1)
    BY <2>1 DEF Packet
  <2> QED
    BY <2>2, <2>3, <2>4
<1> HIDE DEF unread, r
<1>6. /\ next \in Seq(Nat) /\ Len(next) = num
      /\ \A k \in 1 .. num : next[k] = n + k
  <2>1. \A k \in 1 .. num : unread[k] \in Nat
    BY <1>2, <1>5
  <2>2. /\ SubSeq(unread, 1, num) \in Seq(Nat)
        /\ Len(SubSeq(unread, 1, num)) = IF 1 <= num THEN num - 1 + 1 ELSE 0
        /\ \A k \in 1 .. num - 1 + 1 : SubSeq(unread, 1, num)[k] = unread[1 + k - 1]
    BY <2>1, SubSeqProperties
  <2>3. num - 1 + 1 = num /\ \A k \in 1 .. num : 1 + k - 1 = k /\ k \in 1 .. r
    BY <1>2
  <2> QED
    BY <1>5, <2>2, <2>3
<1> HIDE DEF next
<1>7. next = [k \in 1 .. num |-> n + k]
  <2>1. next \in [1 .. num -> Nat]
    BY <1>6, LenProperties
  <2> QED
    BY <1>6, <2>1
<1>8. /\ bytes \o next \in Seq(Nat)
      /\ Len(bytes \o next) = n + num
      /\ \A k \in 1 .. n + num : (bytes \o next)[k] = IF k <= n THEN bytes[k] ELSE next[k - n]
  BY <1>6, ConcatProperties
<1>9. InOrder(bytes \o next)
  <2>1. DOMAIN (bytes \o next) = 1 .. n + num /\ DOMAIN bytes = 1 .. n
    BY <1>8, LenProperties
  <2>2. ASSUME NEW k \in 1 .. n + num PROVE (bytes \o next)[k] = k
    <3>1. CASE k <= n
      <4>1. k \in DOMAIN bytes
        BY <1>2, <2>1, <3>1
      <4> QED
        BY <1>8, <3>1, <4>1 DEF InOrder
    <3>2. CASE ~(k <= n)
      <4>1. k - n \in 1 .. num /\ n + (k - n) = k
        BY <1>2, <3>2
      <4> QED
        BY <1>6, <1>8, <3>2, <4>1
    <3> QED
      BY <3>1, <3>2
  <2> QED
    BY <2>1, <2>2 DEF InOrder
<1> QED
  BY <1>7, <1>8, <1>9 DEF next, unread

(* A copy of bytes start + 1 to start + n is a packet of them. *)
LEMMA Numbered ==
    ASSUME NEW start \in Nat, NEW n \in Nat \ {0}
    PROVE  LET bytes == [k \in 1 .. n |-> start + k]
               p     == [size |-> n, getp |-> 0, data |-> bytes]
           IN  /\ bytes \in Seq(Nat) /\ Len(bytes) = n
               /\ p \in Streams(Nat) /\ Packet(p)
               /\ First(p) = start + 1 /\ Last(p) = start + n
<1> DEFINE bytes == [k \in 1 .. n |-> start + k]
           p     == [size |-> n, getp |-> 0, data |-> bytes]
<1>1. bytes \in [1 .. n -> Nat]
  OBVIOUS
<1>2. bytes \in Seq(Nat)
  BY <1>1, SeqDef
<1>3. Len(bytes) = n
  <2>1. DOMAIN bytes = 1 .. n /\ DOMAIN bytes = 1 .. Len(bytes) /\ Len(bytes) \in Nat
    BY <1>1, <1>2, LenProperties
  <2> HIDE DEF bytes
  <2> QED
    BY <2>1
<1>4. \A k \in 1 .. n : bytes[k] = start + k
  OBVIOUS
<1> HIDE DEF bytes
<1>5. p \in Streams(Nat)
  BY <1>2 DEF Streams
<1>6. p.size = n /\ p.getp = 0 /\ p.data = bytes /\ endp(p) = n
  BY <1>3 DEF endp
<1> HIDE DEF p
<1>7. First(p) = start + 1 /\ Last(p) = start + n
  BY <1>4, <1>6 DEF First, Last
<1>8. Packet(p)
  <2>1. Sane(p) /\ STREAM_READABLE(p) > 0
    BY <1>6 DEF Sane, GETP_VALID, STREAM_READABLE
  <2>2. ASSUME NEW a \in p.getp + 1 .. endp(p)
        PROVE  p.data[a] = First(p) + (a - p.getp - 1)
    <3>1. a \in 1 .. n
      BY <1>6
    <3>2. p.data[a] = start + a
      BY <1>4, <1>6, <3>1
    <3>3. start + 1 + (a - 0 - 1) = start + a
      BY <3>1
    <3> QED
      BY <1>6, <1>7, <3>2, <3>3
  <2> QED
    BY <2>1, <2>2 DEF Packet
<1> QED
  BY <1>2, <1>3, <1>5, <1>7, <1>8 DEF p, bytes

(* What read() finds passes the assertions of the buffer and of the copy,  *)
(* and the copy is a packet.                                               *)
LEMMA ReadIsPacket ==
    ASSUME NEW buffer \in Streams(Nat), buffer.size = BufferSize,
           NEW start \in Nat, NEW n \in 1 .. BufferSize
    PROVE  LET empty == stream_reset(buffer)
               full  == stream_read_unblock(empty, [k \in 1 .. n |-> start + k])
           IN  /\ stream_read_unblock_asserts(empty, BufferSize)
               /\ stream_dup_asserts(full)
               /\ full \in Streams(Nat) /\ full.size = BufferSize
               /\ stream_dup(full) \in Streams(Nat) /\ Packet(stream_dup(full))
               /\ First(stream_dup(full)) = start + 1 /\ Last(stream_dup(full)) = start + n
<1> DEFINE bytes == [k \in 1 .. n |-> start + k]
           empty == stream_reset(buffer)
           full  == stream_read_unblock(empty, bytes)
           copy  == [size |-> n, getp |-> 0, data |-> bytes]
<1>1. n \in Nat \ {0} /\ n <= BufferSize /\ BufferSize \in Nat
  BY ByteRelayAssumption
<1>2. /\ bytes \in Seq(Nat) /\ Len(bytes) = n
      /\ copy \in Streams(Nat) /\ Packet(copy)
      /\ First(copy) = start + 1 /\ Last(copy) = start + n
  BY <1>1, Numbered
<1> HIDE DEF bytes
<1>3. empty = [size |-> BufferSize, getp |-> 0, data |-> <<>>]
  <2>1. buffer = [size |-> BufferSize, getp |-> buffer.getp, data |-> buffer.data]
    BY DEF Streams
  <2>2. empty = [buffer EXCEPT !.getp = 0, !.data = <<>>]
    BY DEF stream_reset
  <2>3. empty = [[size |-> BufferSize, getp |-> buffer.getp, data |-> buffer.data]
                   EXCEPT !.getp = 0, !.data = <<>>]
    BY <2>1, <2>2
  <2> HIDE DEF empty
  <2> QED
    BY ONLY <2>3
<1>4. full = [size |-> BufferSize, getp |-> 0, data |-> bytes]
  <2>1. <<>> \o bytes = bytes
    BY <1>2, ConcatEmptySeq
  <2> QED
    BY <1>3, <2>1 DEF stream_read_unblock
<1> HIDE DEF empty, full
<1>5. endp(empty) = 0 /\ endp(full) = n
  BY <1>2, <1>3, <1>4, EmptySeq DEF endp
<1>6. stream_read_unblock_asserts(empty, BufferSize)
  BY <1>1, <1>3, <1>5 DEF stream_read_unblock_asserts, Sane, GETP_VALID, STREAM_WRITEABLE
<1>7. stream_dup_asserts(full)
  BY <1>1, <1>4, <1>5
     DEF stream_dup_asserts, stream_new_asserts, stream_copy_asserts, stream_new, Sane, GETP_VALID
<1>8. full \in Streams(Nat) /\ full.size = BufferSize
  BY <1>1, <1>2, <1>4 DEF Streams
<1>9. stream_dup(full) = copy
  <2>1. full.getp = 0 /\ full.data = bytes
    BY <1>4
  <2>2. stream_dup(full) = [[size |-> n, getp |-> 0, data |-> <<>>] EXCEPT !.getp = 0, !.data = bytes]
    BY <1>5, <2>1 DEF stream_dup, stream_copy, stream_new
  <2> QED
    BY ONLY <2>2
<1> QED
  BY <1>2, <1>6, <1>7, <1>8, <1>9 DEF full, empty, bytes

-----------------------------------------------------------------------------
(* The inductive invariant. *)

(* The buffer keeps its size: a read always finds room. *)
BufferWhole == recv_buffer.size = BufferSize

(* No packet is ahead of what was read. *)
FifoWasRead == \A k \in DOMAIN write_fifo : Last(write_fifo[k]) <= taken

(* Only a read callback takes the source's event away, and it sets it      *)
(* again, even if it called the write loop.                                *)
SourceArmed == open /\ pc # "read" /\ (pc = "write" => caller = "loop") => srcArmed

(* Outside the write loop the destination is watched if packets wait. *)
DestinationArmed == open /\ pc # "write" => (write_fifo # <<>> => dstEvents = "rw")

(* What the assertions and the watching of sockets rest on: the type says  *)
(* that positions are numbers, BytesInOrder that every packet has bytes.   *)
Inv ==
    /\ TypeOK /\ NeverAborts /\ BytesInOrder
    /\ BufferWhole /\ FifoWasRead /\ SourceArmed /\ DestinationArmed

(* The facts about data that a step without reading and writing keeps. *)
Data == NeverAborts /\ BytesInOrder /\ FifoWasRead

(* The same, and what a step may do to the rest of the state. *)
LEMMA DataKept ==
    ASSUME Inv, UNCHANGED <<output, taken, write_fifo, aborted>>
    PROVE  Data'
<1>1. NeverAborts'
  BY DEF Inv, NeverAborts
<1>2. BytesInOrder'
  BY DEF Inv, BytesInOrder, OutputInOrder
<1>3. FifoWasRead'
  BY DEF Inv, FifoWasRead
<1> QED
  BY <1>1, <1>2, <1>3 DEF Data

(* The initial states: an empty fifo, or the request in it. *)
LEMMA InitInv == Init => Inv
<1> SUFFICES ASSUME Init PROVE Inv
  OBVIOUS
<1>1. PICK n \in 0 .. Minimum(Bytes, BufferSize) : Started(n)
  BY DEF Init
<1>2. n \in Nat /\ n <= Bytes /\ Bytes \in Nat
  BY <1>1, ByteRelayAssumption DEF Minimum
<1>3. /\ recv_buffer = [size |-> BufferSize, getp |-> 0, data |-> <<>>]
      /\ recv_buffer \in Streams(Nat) /\ BufferSize \in Nat
  BY ByteRelayAssumption, EmptySeq DEF Init, stream_new, Streams
<1>4. /\ write_fifo \in Fifos /\ PacketsFollow(write_fifo, 0, n)
      /\ \A k \in DOMAIN write_fifo : Last(write_fifo[k]) <= n
  <2>1. <<>> \in Fifos /\ PacketsFollow(<<>>, 0, 0)
    BY EmptySeq DEF Fifos, PacketsFollow
  <2>2. CASE n = 0
    BY <1>1, <2>1, <2>2 DEF Started
  <2>3. CASE n # 0
    <3> DEFINE p == FirstPacket(n)
    <3>1. p = [size |-> n, getp |-> 0, data |-> [k \in 1 .. n |-> 0 + k]]
      BY <1>2 DEF FirstPacket
    <3>2. p \in Streams(Nat) /\ Packet(p) /\ First(p) = 0 + 1 /\ Last(p) = 0 + n
      BY <1>2, <2>3, <3>1, Numbered
    <3> HIDE DEF p
    <3>3. /\ Append(<<>>, p) \in Fifos
          /\ PacketsFollow(Append(<<>>, p), 0, Last(p))
      BY <2>1, <3>2, PushFollows
    <3>4. Append(<<>>, p) = <<p>> /\ DOMAIN <<p>> = {1} /\ <<p>>[1] = p
      OBVIOUS
    <3>5. write_fifo = <<p>>
      BY <1>1, <2>3 DEF Started, p
    <3> QED
      BY <1>2, <3>2, <3>3, <3>4, <3>5
  <2> QED
    BY <2>2, <2>3
<1>5. output = <<>> /\ Len(output) = 0 /\ output \in Seq(Nat) /\ DOMAIN output = {}
  BY EmptySeq DEF Init
<1>6. TypeOK
  <2>1. sent \in 0 .. Bytes /\ taken \in 0 .. sent /\ dstEvents \in {"read", "rw"}
    BY <1>1, <1>2 DEF Started
  <2>2. room \in 0 .. SendRoom /\ i \in 0 .. ReadTimes
    BY ByteRelayAssumption DEF Init
  <2>3. /\ eof \in BOOLEAN /\ srcArmed \in BOOLEAN /\ open \in BOOLEAN /\ aborted \in BOOLEAN
        /\ errno = "none" /\ pc = "loop" /\ caller = "loop"
    BY DEF Init
  <2>4. write_fifo \in Seq(Streams(Nat))
    BY <1>4 DEF Fifos
  <2> QED
    BY <1>3, <1>5, <2>1, <2>2, <2>3, <2>4 DEF TypeOK
<1>7. BytesInOrder
  BY <1>1, <1>4, <1>5 DEF BytesInOrder, OutputInOrder, Started
<1>8. FifoWasRead
  BY <1>1, <1>4 DEF FifoWasRead, Started
<1>9. BufferWhole /\ NeverAborts /\ SourceArmed /\ DestinationArmed
  BY <1>1, <1>3 DEF Init, Started, BufferWhole, NeverAborts, SourceArmed, DestinationArmed
<1> QED
  BY <1>6, <1>7, <1>8, <1>9 DEF Inv

(* The state while the program runs, as the steps below need it. *)
LEMMA InvFacts ==
    ASSUME Inv
    PROVE  /\ Bytes \in Nat /\ BufferSize \in Nat /\ BufferSize > 0
           /\ sent \in Nat /\ sent <= Bytes /\ taken \in Nat /\ taken <= sent
           /\ room \in Nat /\ room <= SendRoom /\ SendRoom \in Nat
           /\ recv_buffer \in Streams(Nat) /\ recv_buffer.size = BufferSize
           /\ write_fifo \in Fifos /\ output \in Seq(Nat) /\ Len(output) \in Nat
           /\ PacketsFollow(write_fifo, Len(output), taken)
           /\ InOrder(output)
<1>1. TypeOK /\ BytesInOrder /\ BufferWhole
  BY DEF Inv
<1>2. Len(output) \in Nat
  BY <1>1, LenProperties DEF TypeOK
<1> QED
  BY <1>1, <1>2, ByteRelayAssumption
     DEF TypeOK, BytesInOrder, OutputInOrder, InOrder, BufferWhole, Fifos

(* A reset of the receive buffer keeps its type and its size. *)
LEMMA ResetKeeps ==
    ASSUME NEW s \in Streams(Nat)
    PROVE  stream_reset(s) \in Streams(Nat) /\ stream_reset(s).size = s.size
<1>1. <<>> \in Seq(Nat)
  BY EmptySeq
<1> QED
  BY <1>1 DEF Streams, stream_reset

(* Bytes are read into a packet that follows those of the fifo. *)
LEMMA ReadBytesStep ==
    ASSUME Inv, ReadBytes
    PROVE  Inv' /\ C!Take
<1> DEFINE n     == Minimum(BufferSize, sent - taken)
           empty == stream_reset(recv_buffer)
           full  == stream_read_unblock(empty, [k \in 1 .. n |-> taken + k])
           p     == stream_dup(full)
<1>1. /\ InLoop /\ sent > taken
      /\ aborted' = ~(stream_read_unblock_asserts(empty, BufferSize) /\ stream_dup_asserts(full))
      /\ recv_buffer' = full
      /\ taken' = taken + n
      /\ write_fifo' = Append(write_fifo, p)
      /\ i' = i + 1 /\ pc' = "write" /\ caller' = "read"
      /\ UNCHANGED <<kernel, errno, events, open>>
  BY DEF ReadBytes
<1>2. /\ Bytes \in Nat /\ BufferSize \in Nat /\ BufferSize > 0
      /\ sent \in Nat /\ sent <= Bytes /\ taken \in Nat /\ taken <= sent
      /\ recv_buffer \in Streams(Nat) /\ recv_buffer.size = BufferSize
      /\ write_fifo \in Fifos /\ Len(output) \in Nat
      /\ PacketsFollow(write_fifo, Len(output), taken)
  BY InvFacts
<1>3. n \in 1 .. BufferSize /\ taken + n <= sent
  BY <1>1, <1>2 DEF Minimum
<1> HIDE DEF n
<1>4. /\ stream_read_unblock_asserts(empty, BufferSize) /\ stream_dup_asserts(full)
      /\ full \in Streams(Nat) /\ full.size = BufferSize
      /\ p \in Streams(Nat) /\ Packet(p)
      /\ First(p) = taken + 1 /\ Last(p) = taken + n
  BY <1>2, <1>3, ReadIsPacket
<1> HIDE DEF p, full, empty
<1>5. /\ Append(write_fifo, p) \in Fifos
      /\ PacketsFollow(Append(write_fifo, p), Len(output), Last(p))
  BY <1>2, <1>4, PushFollows
<1>6. output' = output /\ sent' = sent /\ eof' = eof /\ room' = room /\ errno' = errno
      /\ srcArmed' = srcArmed /\ dstEvents' = dstEvents /\ open' = open
  BY <1>1 DEF kernel, events
<1>7. TypeOK'
  <2>1. i' \in 0 .. ReadTimes
    BY <1>1, ByteRelayAssumption DEF InLoop, Inv, TypeOK
  <2>2. taken' \in 0 .. sent'
    BY <1>1, <1>2, <1>3, <1>6
  <2>3. write_fifo' \in Seq(Streams(Nat))
    BY <1>1, <1>5 DEF Fifos
  <2>4. aborted' \in BOOLEAN
    BY <1>1
  <2>5. recv_buffer' \in Streams(Nat) /\ pc' \in {"loop", "read", "write"} /\ caller' \in {"loop", "read"}
    BY <1>1, <1>4
  <2>6. TypeOK
    BY DEF Inv
  <2> QED
    BY <1>6, <2>1, <2>2, <2>3, <2>4, <2>5, <2>6 DEF TypeOK
<1>8. NeverAborts' /\ BufferWhole'
  BY <1>1, <1>4 DEF NeverAborts, BufferWhole
<1>9. BytesInOrder'
  <2>1. PacketsFollow(write_fifo', Len(output'), taken')
    BY <1>1, <1>4, <1>5, <1>6
  <2> QED
    BY <1>6, <2>1 DEF BytesInOrder, OutputInOrder, Inv
<1>10. FifoWasRead'
  <2>1. /\ DOMAIN write_fifo = 1 .. Len(write_fifo) /\ Len(write_fifo) \in Nat
        /\ \A k \in 1 .. Len(write_fifo) : write_fifo[k] \in Streams(Nat) /\ Packet(write_fifo[k])
    BY <1>2, FifoEntries
  <2>2. /\ Len(write_fifo') = Len(write_fifo) + 1
        /\ \A k \in 1 .. Len(write_fifo) : write_fifo'[k] = write_fifo[k]
        /\ write_fifo'[Len(write_fifo) + 1] = p
    BY <1>1, <1>2, <1>4, AppendProperties DEF Fifos
  <2>3. DOMAIN write_fifo' = 1 .. Len(write_fifo) + 1
    BY <1>1, <1>5, <2>2, LenProperties DEF Fifos
  <2>4. ASSUME NEW k \in 1 .. Len(write_fifo) PROVE Last(write_fifo'[k]) <= taken'
    <3>1. Last(write_fifo[k]) \in Nat
      BY <2>1, PacketShape
    <3>2. Last(write_fifo[k]) <= taken
      BY <2>1 DEF Inv, FifoWasRead
    <3> QED
      BY <1>1, <1>2, <1>3, <2>2, <3>1, <3>2
  <2>5. Last(write_fifo'[Len(write_fifo) + 1]) <= taken'
    BY <1>1, <1>2, <1>3, <1>4, <2>2
  <2> QED
    BY <2>1, <2>3, <2>4, <2>5 DEF FifoWasRead
<1>11. SourceArmed' /\ DestinationArmed'
  BY <1>1 DEF SourceArmed, DestinationArmed
<1>12. C!Take
  BY <1>1, <1>2, <1>3, <1>6 DEF C!Take, InLoop
<1> QED
  BY <1>7, <1>8, <1>9, <1>10, <1>11, <1>12 DEF Inv

(* What write() takes is what the destination needs next; the packet is    *)
(* gone, or it goes on where it stopped.                                   *)
LEMMA WriteBytesStep ==
    ASSUME Inv, WriteBytes
    PROVE  Inv' /\ C!Give
<1> DEFINE s    == Head(write_fifo)
           num  == Minimum(room, STREAM_READABLE(s))
           next == SubSeq(Unread(s), 1, num)
           n    == Len(output)
<1>1. /\ pc = "write" /\ open /\ write_fifo # <<>> /\ room > 0
      /\ output' = output \o next
      /\ room' = room - num
      /\ UNCHANGED <<sent, eof, errno, taken, recv_buffer, open>>
  BY DEF WriteBytes
<1>2. \/ /\ num = STREAM_READABLE(s)
         /\ write_fifo' = Tail(write_fifo)
         /\ UNCHANGED <<thread, events, aborted>>
      \/ /\ num # STREAM_READABLE(s)
         /\ aborted' = ~stream_forward_getp_asserts(s, num)
         /\ write_fifo' = [write_fifo EXCEPT ![1] = stream_forward_getp(@, num)]
         /\ WriteLoopEnds(write_fifo')
  BY DEF WriteBytes
<1>3. /\ Bytes \in Nat /\ taken \in Nat
      /\ room \in Nat /\ room <= SendRoom /\ SendRoom \in Nat
      /\ write_fifo \in Fifos /\ output \in Seq(Nat) /\ n \in Nat
      /\ PacketsFollow(write_fifo, n, taken) /\ InOrder(output)
  BY InvFacts
<1>4. /\ DOMAIN write_fifo = 1 .. Len(write_fifo) /\ Len(write_fifo) \in Nat
      /\ Len(write_fifo) > 0
      /\ \A k \in 1 .. Len(write_fifo) : write_fifo[k] \in Streams(Nat) /\ Packet(write_fifo[k])
  BY <1>1, <1>3, FifoEntries
<1>5. s = write_fifo[1]
  BY <1>3 DEF Fifos
<1>6. s \in Streams(Nat) /\ Packet(s) /\ First(s) = n + 1 /\ Last(s) <= taken
  <2>1. 1 \in DOMAIN write_fifo
    BY <1>4
  <2>2. FifoWasRead
    BY DEF Inv
  <2> QED
    BY <1>3, <1>4, <1>5, <2>1, <2>2 DEF PacketsFollow, FifoWasRead
<1> HIDE DEF s
<1>7. /\ endp(s) \in Nat /\ s.getp \in Nat /\ s.getp < endp(s) /\ Last(s) \in Nat
      /\ Last(s) = First(s) + (endp(s) - s.getp) - 1
  BY <1>6, PacketShape
<1>8. STREAM_READABLE(s) \in Nat /\ STREAM_READABLE(s) > 0 /\ Last(s) = n + STREAM_READABLE(s)
  <2>1. STREAM_READABLE(s) = endp(s) - s.getp
    BY DEF STREAM_READABLE
  <2>2. STREAM_READABLE(s) \in Nat /\ STREAM_READABLE(s) > 0
    BY ONLY <1>7, <2>1
  <2>3. Last(s) = (n + 1) + STREAM_READABLE(s) - 1
    BY <1>6, <1>7, <2>1
  <2>4. Last(s) = n + STREAM_READABLE(s)
    BY ONLY <1>3, <2>2, <2>3
  <2> QED
    BY <2>2, <2>4
<1>9. num \in Nat /\ num > 0 /\ num <= STREAM_READABLE(s) /\ num <= room
  BY <1>1, <1>3, <1>8 DEF Minimum
<1> HIDE DEF num
<1>10. /\ output \o next \in Seq(Nat)
       /\ Len(output \o next) = n + num
       /\ InOrder(output \o next)
       /\ next = [k \in 1 .. num |-> n + k]
  BY <1>3, <1>6, <1>9, OutputFollows
<1> HIDE DEF next
<1>11. TypeOK /\ NeverAborts /\ BufferWhole /\ FifoWasRead /\ SourceArmed
  BY DEF Inv
<1>12. C!Give
  <2>1. num \in 1 .. taken - n
    BY <1>3, <1>6, <1>8, <1>9
  <2>2. output' = output \o [k \in 1 .. num |-> n + k]
    BY <1>1, <1>10
  <2> QED
    BY <1>1, <2>1, <2>2 DEF C!Give
<1>13. InOrder(output') /\ Len(output') = n + num /\ output' \in Seq(Nat)
  BY <1>1, <1>10
<1>14. room' \in 0 .. SendRoom
  BY <1>1, <1>3, <1>9
<1>15. BufferWhole'
  BY <1>1, <1>11 DEF BufferWhole
(* The packet was sent. *)
<1>16. CASE /\ num = STREAM_READABLE(s)
            /\ write_fifo' = Tail(write_fifo)
            /\ UNCHANGED <<thread, events, aborted>>
  <2>1. /\ write_fifo' \in Fifos
        /\ PacketsFollow(write_fifo', Last(s), taken)
        /\ Len(write_fifo') = Len(write_fifo) - 1
        /\ \A k \in 1 .. Len(write_fifo') : write_fifo'[k] = write_fifo[k + 1]
    BY <1>1, <1>3, <1>16, PopFollows DEF s
  <2>2. TypeOK'
    BY <1>1, <1>11, <1>13, <1>14, <1>16, <2>1 DEF TypeOK, thread, events, Fifos
  <2>3. BytesInOrder'
    BY <1>1, <1>8, <1>13, <1>16, <2>1 DEF BytesInOrder, OutputInOrder, InOrder
  <2>4. FifoWasRead'
    <3>1. DOMAIN write_fifo' = 1 .. Len(write_fifo) - 1
      BY <2>1, LenProperties DEF Fifos
    <3>2. ASSUME NEW k \in 1 .. Len(write_fifo) - 1 PROVE Last(write_fifo'[k]) <= taken'
      <4>1. k + 1 \in DOMAIN write_fifo /\ k \in 1 .. Len(write_fifo')
        BY <1>4, <2>1
      <4> QED
        BY <1>1, <1>11, <2>1, <4>1 DEF FifoWasRead
    <3> QED
      BY <3>1, <3>2 DEF FifoWasRead
  <2>5. NeverAborts' /\ SourceArmed' /\ DestinationArmed'
    BY <1>1, <1>11, <1>16
       DEF NeverAborts, SourceArmed, DestinationArmed, thread, events
  <2> QED
    BY <1>12, <1>15, <2>2, <2>3, <2>4, <2>5 DEF Inv
(* The packet was sent in part. *)
<1>17. CASE /\ num # STREAM_READABLE(s)
            /\ aborted' = ~stream_forward_getp_asserts(s, num)
            /\ write_fifo' = [write_fifo EXCEPT ![1] = stream_forward_getp(@, num)]
            /\ WriteLoopEnds(write_fifo')
  <2>1. num < STREAM_READABLE(s)
    BY <1>8, <1>9, <1>17
  <2>2. /\ write_fifo' \in Fifos /\ write_fifo' # <<>> /\ Len(write_fifo') = Len(write_fifo)
        /\ PacketsFollow(write_fifo', n + num, taken)
        /\ \A k \in 1 .. Len(write_fifo) : Last(write_fifo'[k]) = Last(write_fifo[k])
        /\ stream_forward_getp_asserts(s, num)
    <3> DEFINE q == [write_fifo EXCEPT ![1] = stream_forward_getp(@, num)]
    <3>1. num < STREAM_READABLE(Head(write_fifo)) /\ num \in Nat
      BY <1>9, <2>1 DEF s
    <3>2. write_fifo # <<>> /\ n \in Nat
      BY <1>1, <1>3
    <3>3. PacketsFollow(write_fifo, n, taken) /\ write_fifo \in Fifos
      BY <1>3
    <3> HIDE DEF n
    <3>4. /\ q \in Fifos /\ q # <<>> /\ Len(q) = Len(write_fifo)
          /\ PacketsFollow(q, n + num, taken)
          /\ \A k \in 1 .. Len(write_fifo) : Last(q[k]) = Last(write_fifo[k])
          /\ stream_forward_getp_asserts(Head(write_fifo), num)
      BY ONLY <3>1, <3>2, <3>3, ForwardFollows
    <3>5. write_fifo' = q
      BY <1>17
    <3> HIDE DEF q
    <3> QED
      BY ONLY <3>4, <3>5 DEF s
  <2>3. /\ dstEvents' = "rw" /\ srcArmed' = srcArmed
        /\ pc' = caller /\ caller' = caller /\ i' = i
    BY <1>17, <2>2 DEF WriteLoopEnds, Return
  <2>4. aborted' = FALSE
    BY <1>17, <2>2
  <2>5. TypeOK'
    BY <1>1, <1>11, <1>13, <1>14, <2>2, <2>3, <2>4 DEF TypeOK, Fifos
  <2>6. BytesInOrder'
    BY <1>1, <1>13, <2>2 DEF BytesInOrder, OutputInOrder, InOrder
  <2>7. FifoWasRead'
    <3>1. DOMAIN write_fifo' = 1 .. Len(write_fifo)
      BY <2>2, LenProperties DEF Fifos
    <3> QED
      BY <1>1, <1>4, <1>11, <2>2, <3>1 DEF FifoWasRead
  <2>8. NeverAborts' /\ SourceArmed' /\ DestinationArmed'
    BY <1>1, <1>11, <2>3, <2>4 DEF NeverAborts, SourceArmed, DestinationArmed, TypeOK
  <2> QED
    BY <1>12, <1>15, <2>5, <2>6, <2>7, <2>8 DEF Inv
<1> QED
  BY <1>2, <1>12, <1>16, <1>17

(* What the environment, the loop and the other ways through the two       *)
(* callbacks do: they read and write nothing, keep the pair or break it.   *)
QuietStep ==
    \/ Send \/ SourceCloses \/ Drain \/ OtherCallback
    \/ SourceReadable \/ ReadLoopEnds \/ ReadNothing \/ ReadEnd \/ ReadError \/ ReadClosedPair
    \/ DestinationWritable \/ WriteEmpty \/ WriteWouldBlock \/ WriteError

(* A quiet step leaves the bytes alone. *)
LEMMA QuietKeepsData ==
    ASSUME Inv, QuietStep
    PROVE  UNCHANGED <<output, taken, write_fifo, aborted>> /\ Data'
<1>1. UNCHANGED <<output, taken, write_fifo, aborted>>
  BY DEF QuietStep, Send, SourceCloses, Drain, OtherCallback, SourceReadable, ReadLoopEnds,
         ReadNothing, ReadEnd, ReadError, ReadClosedPair, DestinationWritable, WriteEmpty,
         WriteWouldBlock, WriteError, kernel
<1> QED
  BY <1>1, DataKept

(* A quiet step keeps the receive buffer whole. *)
LEMMA QuietKeepsBuffer ==
    ASSUME Inv, QuietStep
    PROVE  recv_buffer' \in Streams(Nat) /\ recv_buffer'.size = BufferSize
<1>1. recv_buffer' \in {recv_buffer, stream_reset(recv_buffer)}
  BY DEF QuietStep, Send, SourceCloses, Drain, OtherCallback, SourceReadable, ReadLoopEnds,
         ReadNothing, ReadEnd, ReadError, ReadClosedPair, DestinationWritable, WriteEmpty,
         WriteWouldBlock, WriteError, Closed
<1>2. recv_buffer \in Streams(Nat) /\ recv_buffer.size = BufferSize
  BY InvFacts
<1> QED
  BY <1>1, <1>2, ResetKeeps

(* A quiet step keeps the type of what the kernel holds. *)
LEMMA QuietKeepsKernel ==
    ASSUME Inv, QuietStep
    PROVE  /\ sent' \in 0 .. Bytes /\ taken' \in 0 .. sent' /\ room' \in 0 .. SendRoom
           /\ eof' \in BOOLEAN /\ errno' \in {"none", "again", "fatal"}
<1>1. /\ Bytes \in Nat /\ sent \in Nat /\ sent <= Bytes /\ taken \in Nat /\ taken <= sent
      /\ room \in Nat /\ room <= SendRoom /\ SendRoom \in Nat
  BY InvFacts
<1>2. taken' = taken
  BY QuietKeepsData
<1>3. sent' = sent \/ sent' \in sent + 1 .. Bytes
  BY DEF QuietStep, Send, SourceCloses, Drain, OtherCallback, SourceReadable, ReadLoopEnds,
         ReadNothing, ReadEnd, ReadError, ReadClosedPair, DestinationWritable, WriteEmpty,
         WriteWouldBlock, WriteError, kernel
<1>4. room' = room \/ room' \in room + 1 .. SendRoom
  BY DEF QuietStep, Send, SourceCloses, Drain, OtherCallback, SourceReadable, ReadLoopEnds,
         ReadNothing, ReadEnd, ReadError, ReadClosedPair, DestinationWritable, WriteEmpty,
         WriteWouldBlock, WriteError, kernel
<1>5. eof' = eof \/ eof' = TRUE
  BY DEF QuietStep, Send, SourceCloses, Drain, OtherCallback, SourceReadable, ReadLoopEnds,
         ReadNothing, ReadEnd, ReadError, ReadClosedPair, DestinationWritable, WriteEmpty,
         WriteWouldBlock, WriteError, kernel
<1>6. errno' = errno \/ errno' \in {"none", "again", "fatal"}
  BY DEF QuietStep, Send, SourceCloses, Drain, OtherCallback, SourceReadable, ReadLoopEnds,
         ReadNothing, ReadEnd, ReadError, ReadClosedPair, DestinationWritable, WriteEmpty,
         WriteWouldBlock, WriteError, kernel
<1>7. eof \in BOOLEAN /\ errno \in {"none", "again", "fatal"}
  BY DEF Inv, TypeOK
<1>8. sent' \in 0 .. Bytes /\ taken' \in 0 .. sent'
  BY <1>1, <1>2, <1>3
<1>9. room' \in 0 .. SendRoom
  BY <1>1, <1>4
<1> QED
  BY <1>5, <1>6, <1>7, <1>8, <1>9

(* What a quiet step makes of the thread, the events and the pair. *)
Program ==
    /\ pc \in {"loop", "read", "write"} /\ caller \in {"loop", "read"} /\ i \in 0 .. ReadTimes
    /\ srcArmed \in BOOLEAN /\ dstEvents \in {"read", "rw"} /\ open \in BOOLEAN
    /\ SourceArmed /\ DestinationArmed

(* A quiet step keeps it, and does nothing to the pair but close it. *)
LEMMA QuietKeepsProgram ==
    ASSUME Inv, QuietStep
    PROVE  Program' /\ (open' = open \/ (open /\ ~open'))
<1> DEFINE Goal == Program' /\ (open' = open \/ (open /\ ~open'))
<1>1. Program
  BY DEF Inv, TypeOK, Program
<1>2. write_fifo' = write_fifo
  BY QuietKeepsData
<1>3. CASE Send \/ SourceCloses \/ Drain
  <2>1. UNCHANGED <<thread, events, open>>
    BY <1>3 DEF Send, SourceCloses, Drain
  <2> QED
    BY <1>1, <1>2, <2>1 DEF Program, SourceArmed, DestinationArmed, thread, events
<1>4. CASE OtherCallback
  <2>1. pc = "loop" /\ open' \in {open, FALSE} /\ UNCHANGED <<thread, events>>
    BY <1>4 DEF OtherCallback
  <2>2. CASE open' = open
    BY <1>1, <1>2, <2>1, <2>2 DEF Program, SourceArmed, DestinationArmed, thread, events
  <2>3. CASE open' = FALSE
    <3>1. open = TRUE \/ open = FALSE
      BY <1>1 DEF Program
    <3> QED
      BY <1>1, <2>1, <2>3, <3>1 DEF Program, SourceArmed, DestinationArmed, thread, events
  <2> QED
    BY <2>1, <2>2, <2>3
<1>5. CASE SourceReadable
  <2>1. /\ pc = "loop" /\ open /\ pc' = "read" /\ i' = 0 /\ srcArmed' = FALSE
        /\ UNCHANGED <<caller, dstEvents, open>>
    BY <1>5 DEF SourceReadable
  <2>2. 0 \in 0 .. ReadTimes
    BY ByteRelayAssumption
  <2> QED
    BY <1>1, <1>2, <2>1, <2>2 DEF Program, SourceArmed, DestinationArmed
<1>6. CASE ReadLoopEnds \/ ReadNothing
  <2>1. pc = "read" /\ open /\ Out /\ UNCHANGED open
    BY <1>6 DEF ReadLoopEnds, ReadNothing, InLoop
  <2> QED
    BY <1>1, <1>2, <2>1 DEF Program, SourceArmed, DestinationArmed, Out
<1>7. CASE ReadEnd \/ ReadError
  <2>1. pc = "read" /\ open /\ ((Out /\ UNCHANGED open) \/ Closed)
    BY <1>7 DEF ReadEnd, ReadError, InLoop
  <2>2. CASE Out /\ UNCHANGED open
    BY <1>1, <1>2, <2>1, <2>2 DEF Program, SourceArmed, DestinationArmed, Out
  <2>3. CASE Closed
    BY <1>1, <1>2, <2>1, <2>3 DEF Program, SourceArmed, DestinationArmed, Closed, events
  <2> QED
    BY <2>1, <2>2, <2>3
<1>8. CASE ReadClosedPair
  <2>1. ~open /\ pc' = "loop" /\ UNCHANGED <<caller, i, events, open>>
    BY <1>8 DEF ReadClosedPair
  <2> QED
    BY <1>1, <1>2, <2>1 DEF Program, SourceArmed, DestinationArmed, events
<1>9. CASE DestinationWritable
  <2>1. pc = "loop" /\ open /\ pc' = "write" /\ caller' = "loop" /\ UNCHANGED <<i, events, open>>
    BY <1>9 DEF DestinationWritable
  <2> QED
    BY <1>1, <1>2, <2>1 DEF Program, SourceArmed, DestinationArmed, events
<1>10. CASE WriteEmpty \/ WriteWouldBlock
  <2>1. pc = "write" /\ WriteLoopEnds(write_fifo) /\ UNCHANGED open
    BY <1>10 DEF WriteEmpty, WriteWouldBlock
  <2> QED
    BY <1>1, <1>2, <2>1 DEF Program, SourceArmed, DestinationArmed, WriteLoopEnds, Return
<1>11. CASE WriteError
  <2>1. open /\ open' = FALSE /\ Return /\ UNCHANGED events
    BY <1>11 DEF WriteError
  <2> QED
    BY <1>1, <1>2, <2>1 DEF Program, SourceArmed, DestinationArmed, Return, events
<1> QED
  BY <1>3, <1>4, <1>5, <1>6, <1>7, <1>8, <1>9, <1>10, <1>11 DEF QuietStep

(* A quiet step keeps the invariant and is a stutter of the channel, or    *)
(* its end.                                                                *)
LEMMA QuietStepKeeps ==
    ASSUME Inv, QuietStep
    PROVE  Inv' /\ (C!Break \/ UNCHANGED C!vars)
<1>1. UNCHANGED <<output, taken, write_fifo, aborted>> /\ Data'
  BY QuietKeepsData
<1>2. recv_buffer' \in Streams(Nat) /\ recv_buffer'.size = BufferSize
  BY QuietKeepsBuffer
<1>3. /\ sent' \in 0 .. Bytes /\ taken' \in 0 .. sent' /\ room' \in 0 .. SendRoom
      /\ eof' \in BOOLEAN /\ errno' \in {"none", "again", "fatal"}
  BY QuietKeepsKernel
<1>4. Program' /\ (open' = open \/ (open /\ ~open'))
  BY QuietKeepsProgram
<1>5. output' \in Seq(Nat) /\ write_fifo' \in Seq(Streams(Nat)) /\ aborted' \in BOOLEAN
  BY <1>1 DEF Inv, TypeOK
<1>6. TypeOK'
  BY <1>2, <1>3, <1>4, <1>5 DEF TypeOK, Program
<1>7. Inv'
  BY <1>1, <1>2, <1>4, <1>6 DEF Inv, Data, BufferWhole, Program
<1>8. CASE open' = open
  BY <1>1, <1>7, <1>8 DEF C!vars
<1>9. CASE open /\ ~open'
  <2>1. open' = FALSE
    BY <1>4, <1>9 DEF Program
  <2> QED
    BY <1>1, <1>7, <1>9, <2>1 DEF C!Break
<1> QED
  BY <1>4, <1>8, <1>9

(* Every step keeps the invariant and is a step of the channel. *)
LEMMA StepKeeps ==
    ASSUME Inv, [Next]_vars
    PROVE  Inv' /\ [C!Next]_(C!vars)
<1>1. CASE ReadBytes
  BY <1>1, ReadBytesStep DEF C!Next
<1>2. CASE WriteBytes
  BY <1>2, WriteBytesStep DEF C!Next
<1>3. CASE QuietStep
  BY <1>3, QuietStepKeeps DEF C!Next
<1>4. CASE UNCHANGED vars
  <2>1. /\ UNCHANGED <<sent, eof, room, output, errno, pc, caller, i, taken>>
        /\ UNCHANGED <<recv_buffer, write_fifo, srcArmed, dstEvents, open, aborted>>
    BY <1>4 DEF vars, kernel, thread, events
  <2>2. Data'
    BY <2>1, DataKept
  <2>3. TypeOK'
    BY <2>1 DEF Inv, TypeOK
  <2>4. BufferWhole' /\ SourceArmed' /\ DestinationArmed'
    BY <2>1 DEF Inv, BufferWhole, SourceArmed, DestinationArmed
  <2> QED
    BY <2>1, <2>2, <2>3, <2>4 DEF Inv, Data, C!vars
<1> QED
  BY <1>1, <1>2, <1>3, <1>4 DEF Next, Kernel, ReadStep, WriteStep, QuietStep

(* Every state of every behaviour satisfies the invariant. *)
THEOREM InvHolds == Spec => []Inv
<1>1. Inv /\ [Next]_vars => Inv'
  BY StepKeeps
<1> QED
  BY <1>1, InitInv, PTL DEF Spec

-----------------------------------------------------------------------------
(* The properties. *)

(* For any buffer size, any room in the socket and any number of reads per *)
(* callback, buffers and positions have their types.                       *)
THEOREM TypeCorrect == Spec => []TypeOK
<1>1. Inv => TypeOK
  BY DEF Inv
<1> QED
  BY <1>1, InvHolds, PTL

(* No assertion of pop_stream.c fails (pop_stream.h:11-31), and no read is  *)
(* refused (pop_stream.c:629).                                             *)
THEOREM AssertionsHold == Spec => []NeverAborts
<1>1. Inv => NeverAborts
  BY DEF Inv
<1> QED
  BY <1>1, InvHolds, PTL

(* Bytes are neither lost nor doubled nor reordered between read() and     *)
(* write(), wherever packets are cut (pop_network.c:232-238).               *)
THEOREM BytesStayInOrder == Spec => []BytesInOrder
<1>1. Inv => BytesInOrder
  BY DEF Inv
<1> QED
  BY <1>1, InvHolds, PTL

(* No way out of the callbacks leaves an open pair unwatched                *)
(* (pop_network.c:241-254, 310).                                           *)
THEOREM SocketsStayWatched == Spec => []SocketsWatched
<1>1. Inv => SocketsWatched
  BY DEF Inv, SocketsWatched, SourceArmed, DestinationArmed
<1> QED
  BY <1>1, InvHolds, PTL

(* One direction of a pair is a channel: every step of the two callbacks   *)
(* takes bytes, hands on the next ones, breaks the pair or does nothing    *)
(* that can be seen.                                                       *)
THEOREM RelayIsChannel == Spec => ImplementsChannel
<1>1. Init => C!Init
  <2>1. ASSUME Init PROVE C!Init
    <3>1. PICK n \in 0 .. Minimum(Bytes, BufferSize) : Started(n)
      BY <2>1 DEF Init
    <3>2. n \in 0 .. Bytes
      BY <3>1, ByteRelayAssumption DEF Minimum
    <3> QED
      BY <2>1, <3>1, <3>2 DEF Init, Started, C!Init
  <2> QED
    BY <2>1
<1>2. Inv /\ [Next]_vars => [C!Next]_(C!vars)
  BY StepKeeps
<1> QED
  BY <1>1, <1>2, InvHolds, PTL DEF Spec, ImplementsChannel, C!Spec

=============================================================================
