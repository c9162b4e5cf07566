------------------------------ MODULE SessionProofs ------------------------------
(***************************************************************************)
(* Theorems about texts and messages, whatever URIs and records there are  *)
(* and however many, and whatever names fit into their buffer: what the    *)
(* parsers return, and that a session reaches the server that was meant.   *)
(***************************************************************************)
EXTENDS Session, ByteRelayProofs, ListProofs

-----------------------------------------------------------------------------
(* The least of a set. *)
LEMMA MinIs ==
    ASSUME NEW T, T \subseteq Nat, T # {}
    PROVE  Min(T) \in T /\ \A y \in T : Min(T) <= y
BY Least DEF Min

-----------------------------------------------------------------------------
(* Names of the DNS. *)

(* From one count to the next there is none between. *)
LEMMA NextCountIs ==
    ASSUME NEW name, Len(name) \in Nat, NEW p \in 1 .. Len(name) + 1
    PROVE  LET q == NextCount(name, p) IN
           /\ q \in p + 1 .. Len(name) + 2
           /\ q = Len(name) + 2 \/ CountAt(name, q)
           /\ \A k \in p + 1 .. q - 1 : ~CountAt(name, k)
<1> DEFINE T == {q \in p + 1 .. Len(name) + 2 : q = Len(name) + 2 \/ CountAt(name, q)}
           q == NextCount(name, p)
<1>1. T \subseteq Nat /\ Len(name) + 2 \in T
  OBVIOUS
<1>2. q = Min(T)
  BY DEF NextCount
<1>3. q \in T /\ \A y \in T : q <= y
  BY <1>1, <1>2, MinIs
<1> HIDE DEF q
<1>4. ASSUME NEW k \in p + 1 .. q - 1 PROVE ~CountAt(name, k)
  <2>1. k \in p + 1 .. Len(name) + 2 /\ ~(q <= k)
    BY <1>3
  <2> QED
    BY <1>3, <2>1
<1> QED
  BY <1>3, <1>4 DEF q

(* A count that fits into a char is stored as it is. *)
LEMMA CountStored ==
    ASSUME NEW p \in Nat, NEW c \in Nat, p + 1 <= c, c - p - 1 <= 255
    PROVE  (c - p - 1) % Byte = c - p - 1
<1> DEFINE k == c - p - 1
<1>1. k \in 0 .. 255
  OBVIOUS
<1> HIDE DEF k
<1>2. k % Byte = k
  BY <1>1 DEF Byte
<1> QED
  BY <1>2 DEF k

(* The form a name has in a message, byte by byte. *)
LEMMA PacketNameIs ==
    ASSUME NEW name \in Seq(Nat)
    PROVE  LET b == PacketName(name)
               n == Len(name)
           IN  /\ b \in Seq(Nat) /\ Len(b) = n + 2 /\ DOMAIN b = 1 .. n + 2
               /\ b[n + 2] = 0
               /\ \A p \in 1 .. n + 1 :
                    b[p] = IF CountAt(name, p) THEN (NextCount(name, p) - p - 1) % Byte ELSE name[p - 1]
<1> DEFINE b == PacketName(name)
           n == Len(name)
           V(p) == IF p = n + 2 THEN 0
                   ELSE IF CountAt(name, p) THEN (NextCount(name, p) - p - 1) % Byte ELSE name[p - 1]
<1>1. n \in Nat /\ DOMAIN name = 1 .. n /\ \A k \in 1 .. n : name[k] \in Nat
  OBVIOUS
<1>2. b = [p \in 1 .. n + 2 |-> V(p)]
  BY DEF PacketName
<1> HIDE DEF n, b
<1>3. ASSUME NEW p \in 1 .. n + 2 PROVE V(p) \in Nat
  <2>1. CASE p = n + 2
    BY <2>1
  <2>2. CASE p # n + 2 /\ CountAt(name, p)
    <3>1. p \in 1 .. n + 1
      BY <1>1, <2>2
    <3>2. NextCount(name, p) \in p + 1 .. n + 2
      BY <1>1, <3>1, NextCountIs DEF n
    <3> HIDE DEF n
    <3>3. NextCount(name, p) - p - 1 \in Nat
      BY <1>1, <3>1, <3>2
    <3> QED
      BY <2>2, <3>3 DEF Byte
  <2>3. CASE p # n + 2 /\ ~CountAt(name, p)
    <3>1. p - 1 \in 1 .. n
      BY <1>1, <2>3 DEF CountAt
    <3> QED
      BY <1>1, <2>3, <3>1
  <2> QED
    BY <2>1, <2>2, <2>3
<1>4. b \in [1 .. n + 2 -> Nat]
  BY <1>2, <1>3
<1>5. n + 2 \in Nat
  BY <1>1
<1>6. b \in Seq(Nat) /\ Len(b) = n + 2
  BY <1>4, <1>5, SeqDef, LenProperties
<1>7. \A p \in 1 .. n + 2 : b[p] = V(p)
  BY <1>2
<1>8. \A p \in 1 .. n + 1 : p \in 1 .. n + 2 /\ p # n + 2
  BY <1>1
<1>9. n + 2 \in 1 .. n + 2
  BY <1>1
<1> QED
  BY <1>4, <1>6, <1>7, <1>8, <1>9 DEF n, b

(* The places of the counts, and the end: what the walk reaches. *)
Reached(s, f) ==
    f = [p \in 1 .. Len(s) + 1 |-> p = 1 \/ \E q \in 1 .. p - 1 : s[q] <= CharMax /\ q + s[q] + 1 = p /\ f[q]]

(* The walk has one result only. *)
LEMMA ReachedOnce ==
    ASSUME NEW s, Len(s) \in Nat, NEW f, NEW g, Reached(s, f), Reached(s, g)
    PROVE  f = g
<1> DEFINE N == Len(s) + 1
           T == {p \in 1 .. N : f[p] # g[p]}
<1>1. /\ f = [p \in 1 .. N |-> p = 1 \/ \E q \in 1 .. p - 1 : s[q] <= CharMax /\ q + s[q] + 1 = p /\ f[q]]
      /\ g = [p \in 1 .. N |-> p = 1 \/ \E q \in 1 .. p - 1 : s[q] <= CharMax /\ q + s[q] + 1 = p /\ g[q]]
  BY DEF Reached
<1>2. N \in Nat
  OBVIOUS
<1> HIDE DEF N
<1>3. T = {}
  <2>1. SUFFICES ASSUME T # {} PROVE FALSE
    OBVIOUS
  <2>2. T \subseteq Nat
    BY <1>2
  <2>3. PICK p \in T : \A y \in T : p <= y
    <3> HIDE DEF T
    <3> QED
      BY <2>1, <2>2, Least
  <2>4. p \in 1 .. N /\ f[p] # g[p]
    BY <2>3
  <2>5. ASSUME NEW q \in 1 .. p - 1 PROVE f[q] = g[q]
    <3>1. q \in 1 .. N /\ ~(p <= q)
      BY <1>2, <2>4
    <3> QED
      BY <2>3, <3>1
  <2>6. f[p] = (p = 1 \/ \E q \in 1 .. p - 1 : s[q] <= CharMax /\ q + s[q] + 1 = p /\ f[q])
    BY <1>1, <2>4
  <2>7. g[p] = (p = 1 \/ \E q \in 1 .. p - 1 : s[q] <= CharMax /\ q + s[q] + 1 = p /\ g[q])
    BY <1>1, <2>4
  <2>8. (\E q \in 1 .. p - 1 : s[q] <= CharMax /\ q + s[q] + 1 = p /\ f[q])
        <=> (\E q \in 1 .. p - 1 : s[q] <= CharMax /\ q + s[q] + 1 = p /\ g[q])
    BY <2>5
  <2> QED
    BY <2>4, <2>6, <2>7, <2>8
<1>4. \A p \in 1 .. N : f[p] = g[p]
  BY <1>3
<1>5. DOMAIN f = 1 .. N /\ DOMAIN g = 1 .. N
  BY <1>1
<1>6. f = [p \in 1 .. N |-> f[p]] /\ g = [p \in 1 .. N |-> g[p]]
  BY <1>1
<1> QED
  BY <1>4, <1>6

(* A count has the next one, or the end, where it says. *)
LEMMA CountsBefore ==
    ASSUME NEW name, Len(name) \in Nat, NEW p \in 2 .. Len(name) + 2,
           p = Len(name) + 2 \/ CountAt(name, p)
    PROVE  \E q \in 1 .. p - 1 : CountAt(name, q) /\ NextCount(name, q) = p
<1> DEFINE n == Len(name)
           D == {d \in 1 .. p - 1 : CountAt(name, p - d)}
<1>1. n \in Nat
  OBVIOUS
<1>2. p - 1 \in D
  BY DEF CountAt
<1>3. D \subseteq Nat
  OBVIOUS
<1>4. PICK d \in D : \A y \in D : d <= y
  <2> HIDE DEF D
  <2> QED
    BY <1>2, <1>3, Least
<1> DEFINE q == p - d
<1>5. q \in 1 .. p - 1 /\ q \in 1 .. n + 1 /\ CountAt(name, q) /\ q \in Nat /\ d = p - q
  BY <1>4
<1>6. ASSUME NEW k \in q + 1 .. p - 1 PROVE ~CountAt(name, k)
  <2>1. p - k \in 1 .. p - 1 /\ ~(d <= p - k) /\ p - (p - k) = k
    BY <1>5
  <2> QED
    BY <1>4, <2>1
<1> HIDE DEF q
<1> DEFINE r == NextCount(name, q)
<1>7. /\ r \in q + 1 .. n + 2 /\ (r = n + 2 \/ CountAt(name, r))
      /\ \A k \in q + 1 .. r - 1 : ~CountAt(name, k)
  BY <1>5, NextCountIs
<1> HIDE DEF r, n
<1>8. ~(r < p)
  <2>1. SUFFICES ASSUME r < p PROVE FALSE
    OBVIOUS
  <2>2. r \in q + 1 .. p - 1 /\ r # n + 2
    BY <1>1, <1>5, <1>7, <2>1 DEF n
  <2> QED
    BY <1>6, <1>7, <2>2
<1>9. ~(r > p)
  <2>1. SUFFICES ASSUME r > p PROVE FALSE
    OBVIOUS
  <2>2. p \in q + 1 .. r - 1 /\ p # n + 2
    BY <1>1, <1>5, <1>7, <2>1 DEF n
  <2> QED
    BY <1>7, <2>2 DEF n
<1>10. r = p
  BY <1>1, <1>5, <1>7, <1>8, <1>9
<1> QED
  BY <1>5, <1>10 DEF r

(* Counts of the string of a name: where CountAt says, up to a place e from *)
(* which the walk does not go on: the end, or a count that is negative.    *)
LEMMA CountsUpTo ==
    ASSUME NEW name \in Seq(Nat), NEW s, Len(s) = Len(name) + 1,
           \A p \in 1 .. Len(name) + 1 : s[p] = PacketName(name)[p],
           NEW e \in 1 .. Len(name) + 2, e = Len(name) + 2 \/ (CountAt(name, e) /\ ~(s[e] <= CharMax)),
           \A p \in 1 .. Len(name) + 1 : p < e /\ CountAt(name, p) => NextCount(name, p) - p - 1 <= CharMax
    PROVE  Counts(s) = {p \in 1 .. e : p = Len(name) + 2 \/ CountAt(name, p)}
<1> DEFINE n == Len(name)
           Marked == [p \in 1 .. Len(s) + 1 |-> p <= e /\ (p = n + 2 \/ CountAt(name, p))]
           R == [p \in 1 .. Len(s) + 1 |->
                   p = 1 \/ \E q \in 1 .. p - 1 : s[q] <= CharMax /\ q + s[q] + 1 = p /\ Marked[q]]
<1>1. n \in Nat /\ Len(s) + 1 = n + 2 /\ Len(s) \in Nat /\ e \in 1 .. n + 2
  OBVIOUS
<1>2. ASSUME NEW q \in 1 .. n + 1, q < e, CountAt(name, q)
      PROVE  s[q] <= CharMax /\ q + s[q] + 1 = NextCount(name, q)
  <2>1. s[q] = (NextCount(name, q) - q - 1) % Byte
    BY <1>2, PacketNameIs
  <2>2. NextCount(name, q) \in q + 1 .. n + 2
    BY <1>1, <1>2, NextCountIs
  <2>3. NextCount(name, q) - q - 1 <= 127
    BY <1>2 DEF CharMax
  <2> DEFINE c == NextCount(name, q)
  <2> HIDE DEF c, n
  <2>4. q \in Nat /\ c \in Nat /\ q + 1 <= c /\ c - q - 1 <= 127
    BY <1>1, <2>2, <2>3 DEF c
  <2>5. c - q - 1 <= 255 /\ s[q] = (c - q - 1) % Byte
    BY <2>1, <2>4 DEF c
  <2>6. s[q] = c - q - 1
    BY <2>4, <2>5, CountStored
  <2> QED
    BY <2>4, <2>6 DEF CharMax, c
<1>3. e = n + 2 \/ (CountAt(name, e) /\ ~(s[e] <= CharMax))
  OBVIOUS
<1> HIDE DEF n
<1>4. ASSUME NEW p \in 1 .. n + 2
      PROVE  Marked[p] <=> (p = 1 \/ \E q \in 1 .. p - 1 :
                                        s[q] <= CharMax /\ q + s[q] + 1 = p /\ Marked[q])
  <2>1. Marked[p] <=> p <= e /\ (p = n + 2 \/ CountAt(name, p))
    BY <1>1
  <2>2. \A q \in 1 .. p - 1 : q \in 1 .. n + 1 /\ q # n + 2 /\ q \in 1 .. n + 2
    BY <1>1
  <2>3. \A q \in 1 .. p - 1 : Marked[q] <=> q <= e /\ CountAt(name, q)
    BY <1>1, <2>2
  <2> HIDE DEF Marked
  <2>4. ASSUME p # 1, Marked[p]
        PROVE  \E q \in 1 .. p - 1 : s[q] <= CharMax /\ q + s[q] + 1 = p /\ Marked[q]
    <3>1. p \in 2 .. n + 2
      BY <1>1, <2>4
    <3>2. PICK q \in 1 .. p - 1 : CountAt(name, q) /\ NextCount(name, q) = p
      BY <1>1, <2>1, <2>4, <3>1, CountsBefore DEF n
    <3>3. q < e
      BY <1>1, <2>1, <2>4, <3>1
    <3>4. Marked[q]
      BY <2>3, <3>2, <3>3
    <3>5. s[q] <= CharMax /\ q + s[q] + 1 = p
      BY <1>2, <2>2, <3>2, <3>3
    <3> QED
      BY <3>4, <3>5
  <2>5. ASSUME NEW q \in 1 .. p - 1, s[q] <= CharMax, q + s[q] + 1 = p, Marked[q] PROVE Marked[p]
    <3>1. q <= e /\ CountAt(name, q) /\ q \in 1 .. n + 1
      BY <2>2, <2>3, <2>5
    <3>2. q # e
      BY <1>3, <2>2, <2>5
    <3>3. q < e
      BY <1>1, <3>1, <3>2
    <3>4. NextCount(name, q) = p
      BY <1>2, <2>5, <3>1, <3>3
    <3>5. /\ p = n + 2 \/ CountAt(name, p)
          /\ \A k \in q + 1 .. p - 1 : ~CountAt(name, k)
      BY <1>1, <3>1, <3>4, NextCountIs DEF n
    <3>6. p <= e
      <4>1. SUFFICES ASSUME ~(p <= e) PROVE FALSE
        OBVIOUS
      <4>2. e \in q + 1 .. p - 1 /\ e # n + 2
        BY <1>1, <3>1, <3>3, <4>1
      <4> QED
        BY <1>3, <3>5, <4>2
    <3> QED
      BY <2>1, <3>5, <3>6
  <2>6. p = 1 => Marked[p]
    BY <1>1, <2>1 DEF CountAt
  <2> QED
    BY <2>4, <2>5, <2>6
<1>5. Reached(s, Marked)
  <2>1. \A p \in 1 .. Len(s) + 1 : Marked[p] = R[p]
    BY <1>1, <1>4
  <2>2. Marked = [p \in 1 .. Len(s) + 1 |-> Marked[p]] /\ R = [p \in 1 .. Len(s) + 1 |-> R[p]]
    OBVIOUS
  <2>3. Marked = R
    <3> HIDE DEF Marked, R
    <3> QED
      BY <2>1, <2>2
  <2> HIDE DEF Marked
  <2> QED
    BY <2>3 DEF Reached
<1> DEFINE f == CHOOSE f : Reached(s, f)
<1>6. Counts(s) = {p \in 1 .. Len(s) + 1 : f[p]}
  BY DEF Counts, Reached
<1>7. f = Marked
  <2> HIDE DEF Marked
  <2>1. Reached(s, f)
    BY <1>5
  <2> HIDE DEF f
  <2> QED
    BY <1>1, <1>5, <2>1, ReachedOnce
<1> HIDE DEF f
<1>8. \A p \in 1 .. Len(s) + 1 : f[p] <=> p <= e /\ (p = n + 2 \/ CountAt(name, p))
  BY <1>7
<1>9. ASSUME NEW p PROVE p \in 1 .. n + 2 /\ p <= e <=> p \in 1 .. e
  BY <1>1, <1>9
<1> QED
  BY <1>1, <1>6, <1>8, <1>9 DEF n

(* What strlen() counts: the bytes before the first 0. *)
LEMMA StringIs ==
    ASSUME NEW b \in Seq(Nat), NEW e \in 1 .. Len(b), b[e] = 0
    PROVE  LET s == String(b) IN
           /\ Len(s) \in 0 .. e - 1
           /\ \A k \in 1 .. Len(s) : s[k] = b[k]
           /\ (\A k \in 1 .. e - 1 : b[k] # 0) => Len(s) = e - 1
<1> DEFINE T == {k \in DOMAIN b : b[k] = 0}
           m == Min(T)
           s == String(b)
<1>1. Len(b) \in Nat /\ DOMAIN b = 1 .. Len(b) /\ \A k \in 1 .. Len(b) : b[k] \in Nat
  OBVIOUS
<1>2. T \subseteq Nat /\ e \in T
  BY <1>1
<1>3. m \in T /\ \A y \in T : m <= y
  <2> HIDE DEF T
  <2> QED
    BY <1>2, MinIs
<1>4. m \in 1 .. e /\ b[m] = 0 /\ m - 1 \in 0 .. Len(b)
  BY <1>1, <1>2, <1>3
<1>5. s = SubSeq(b, 1, m - 1)
  BY DEF String
<1> HIDE DEF m, s
<1>6. Len(s) = m - 1 /\ \A k \in 1 .. m - 1 : s[k] = b[k]
  BY <1>1, <1>4, <1>5
<1>7. (\A k \in 1 .. e - 1 : b[k] # 0) => m = e
  BY <1>4
<1> QED
  BY <1>4, <1>6, <1>7 DEF s

(* A name with no label above 127 bytes whose packet is one string is read *)
(* back as it was: the walk over the counts ends at its end, and the counts *)
(* become dots again (pop_domain_parse.c, _trans_dns_name_into_pkt_format, *)
(* check_dns_name_pkt_format and _dns_pkt_name_parse).                     *)
THEOREM NameReadBack ==
    ASSUME NEW name \in Seq(Nat), LabelsFit(name),
           Len(String(PacketName(name))) + 1 = Len(PacketName(name))
    PROVE  WellFormed(name) /\ HostName(PacketName(name)) = name
<1> DEFINE n == Len(name)
           b == PacketName(name)
           s == String(b)
           h == HostName(b)
<1>1. n \in Nat /\ DOMAIN name = 1 .. n
  OBVIOUS
<1>2. /\ b \in Seq(Nat) /\ Len(b) = n + 2 /\ b[n + 2] = 0
      /\ \A p \in 1 .. n + 1 :
           b[p] = IF CountAt(name, p) THEN (NextCount(name, p) - p - 1) % Byte ELSE name[p - 1]
  BY PacketNameIs
<1>3. Len(s) + 1 = n + 2
  BY <1>2
<1> HIDE DEF b
<1>4. n + 2 \in 1 .. Len(b)
  BY <1>1, <1>2
<1>5. Len(s) \in 0 .. n + 2 - 1 /\ \A k \in 1 .. Len(s) : s[k] = b[k]
  <2> DEFINE e == n + 2
  <2>1. b \in Seq(Nat) /\ e \in 1 .. Len(b) /\ b[e] = 0
    BY <1>2, <1>4
  <2> HIDE DEF e
  <2>2. Len(s) \in 0 .. e - 1 /\ \A k \in 1 .. Len(s) : s[k] = b[k]
    BY <2>1, StringIs
  <2> QED
    BY <2>2 DEF e
<1> HIDE DEF s
<1>6. Len(s) = n + 1
  BY <1>1, <1>3, <1>5
<1>7. Counts(s) = {p \in 1 .. n + 2 : p = n + 2 \/ CountAt(name, p)}
  <2> DEFINE e == n + 2
  <2>1. e \in 1 .. n + 2 /\ e = n + 2
    BY <1>1
  <2>2. \A p \in 1 .. n + 1 : s[p] = PacketName(name)[p]
    BY <1>5, <1>6 DEF b
  <2>3. \A p \in 1 .. n + 1 : CountAt(name, p) => NextCount(name, p) - p - 1 <= CharMax
    BY DEF LabelsFit
  <2> HIDE DEF e
  <2>4. Counts(s) = {p \in 1 .. e : p = n + 2 \/ CountAt(name, p)}
    BY <1>6, <2>1, <2>2, <2>3, CountsUpTo
  <2> QED
    BY <2>1, <2>4
<1> HIDE DEF n
<1>8. check_dns_name_pkt_format(s)
  BY <1>1, <1>6, <1>7 DEF check_dns_name_pkt_format
<1>9. h = [k \in 1 .. n |-> IF k + 1 \in Counts(s) THEN Dot ELSE s[k + 1]]
  <2>1. Len(s) - 1 = n
    BY <1>1, <1>6
  <2> QED
    BY <2>1 DEF HostName, s
<1> HIDE DEF h
<1>10. ASSUME NEW k \in 1 .. n PROVE h[k] = name[k]
  <2>1. k + 1 \in 1 .. n + 1 /\ k + 1 \in 1 .. n + 2 /\ k + 1 # n + 2 /\ k + 1 \in 2 .. n + 1
        /\ k + 1 # 1 /\ (k + 1) - 1 = k
    BY <1>1
  <2>2. k + 1 \in Counts(s) <=> CountAt(name, k + 1)
    BY <1>7, <2>1
  <2>3. CountAt(name, k + 1) <=> name[k] = Dot
    BY <2>1 DEF CountAt, n
  <2>4. s[k + 1] = b[k + 1]
    BY <1>5, <1>6, <2>1
  <2>5. h[k] = IF k + 1 \in Counts(s) THEN Dot ELSE s[k + 1]
    BY <1>9
  <2> QED
    BY <1>2, <2>1, <2>2, <2>3, <2>4, <2>5
<1>11. h = name
  <2>1. h = [k \in 1 .. n |-> h[k]] /\ name = [k \in 1 .. n |-> name[k]]
    BY <1>1, <1>9
  <2> QED
    BY <1>10, <2>1
<1> QED
  BY <1>3, <1>6, <1>8, <1>11 DEF WellFormed, b, s, h

(* The check of the code accepts no longer label (pop_domain_parse.c:156): *)
(* the walk stops at the first.  So a name it accepts is read back as the  *)
(* name that was asked for.                                                *)
THEOREM AcceptedNameReadBack ==
    ASSUME NEW name \in Seq(Nat), Len(name) <= HostLength, WellFormed(name)
    PROVE  LabelsFit(name) /\ HostName(PacketName(name)) = name
<1> DEFINE n == Len(name)
           b == PacketName(name)
           s == String(b)
           Long == {p \in 1 .. n + 1 : CountAt(name, p) /\ ~(NextCount(name, p) - p - 1 <= CharMax)}
<1>1. n \in Nat /\ n <= 254
  BY DEF HostLength
<1>2. Len(s) + 1 = Len(b) /\ check_dns_name_pkt_format(s)
  BY DEF WellFormed
<1>3. /\ b \in Seq(Nat) /\ Len(b) = n + 2 /\ b[n + 2] = 0
      /\ \A p \in 1 .. n + 1 :
           b[p] = IF CountAt(name, p) THEN (NextCount(name, p) - p - 1) % Byte ELSE name[p - 1]
  BY PacketNameIs
<1>4. Len(s) = n + 1 /\ \A k \in 1 .. Len(s) : s[k] = b[k]
  <2> DEFINE e == n + 2
  <2>1. b \in Seq(Nat) /\ e \in 1 .. Len(b) /\ b[e] = 0
    BY <1>1, <1>3
  <2> HIDE DEF b, e
  <2>2. Len(s) \in 0 .. e - 1 /\ \A k \in 1 .. Len(s) : s[k] = b[k]
    BY <2>1, StringIs
  <2> HIDE DEF s
  <2> QED
    BY <1>1, <1>2, <1>3, <2>2
<1> HIDE DEF s
<1>5. Long = {}
  <2>1. SUFFICES ASSUME Long # {} PROVE FALSE
    OBVIOUS
  <2>2. PICK e \in Long : \A y \in Long : e <= y
    <3>1. Long \subseteq Nat
      OBVIOUS
    <3> HIDE DEF Long
    <3> QED
      BY <2>1, <3>1, Least
  <2>3. e \in 1 .. n + 1 /\ CountAt(name, e) /\ ~(NextCount(name, e) - e - 1 <= CharMax)
    BY <2>2
  <2>4. \A p \in 1 .. n + 1 : p < e /\ CountAt(name, p) => NextCount(name, p) - p - 1 <= CharMax
    <3>1. ASSUME NEW p \in 1 .. n + 1, p < e, CountAt(name, p) PROVE p \notin Long
      BY <1>1, <2>2, <2>3, <3>1
    <3> QED
      BY <3>1
  <2> HIDE DEF Long
  <2>5. ~(s[e] <= CharMax)
    <3>1. NextCount(name, e) \in e + 1 .. n + 2
      BY <1>1, <2>3, NextCountIs
    <3>2. s[e] = (NextCount(name, e) - e - 1) % Byte
      BY <1>1, <1>3, <1>4, <2>3
    <3> DEFINE c == NextCount(name, e)
    <3> HIDE DEF n, c
    <3>3. e \in Nat /\ c \in Nat /\ e + 1 <= c /\ c - e - 1 <= 254 /\ ~(c - e - 1 <= CharMax)
      BY <1>1, <2>3, <3>1 DEF c
    <3>4. c - e - 1 <= 255 /\ s[e] = (c - e - 1) % Byte
      BY <3>2, <3>3 DEF c
    <3>5. s[e] = c - e - 1
      BY <3>3, <3>4, CountStored
    <3> QED
      BY <3>3, <3>5
  <2>6. Counts(s) = {p \in 1 .. e : p = n + 2 \/ CountAt(name, p)}
    <3>1. \A p \in 1 .. n + 1 : s[p] = PacketName(name)[p]
      BY <1>4
    <3>2. e \in 1 .. n + 2
      BY <1>1, <2>3
    <3> QED
      BY <1>4, <2>3, <2>4, <2>5, <3>1, <3>2, CountsUpTo
  <2>7. n + 2 \notin 1 .. e /\ Len(s) + 1 = n + 2
    BY <1>1, <1>4, <2>3
  <2> QED
    BY <1>2, <2>6, <2>7 DEF check_dns_name_pkt_format
<1>6. LabelsFit(name)
  BY <1>5 DEF LabelsFit
<1> QED
  BY <1>2, <1>6, NameReadBack DEF s

(* A name without a dot at its ends and two in a row, and with no label     *)
(* above 127 bytes, can be asked for: no count is 0, so the packet is one  *)
(* string, and none is negative.                                           *)
THEOREM ProperNameWellFormed ==
    ASSUME NEW name \in Seq(Nat \ {0}), name # <<>>, ProperName(name)
    PROVE  WellFormed(name) /\ HostName(PacketName(name)) = name
<1> DEFINE n == Len(name)
           b == PacketName(name)
           s == String(b)
<1>1. n \in Nat /\ n # 0 /\ \A k \in 1 .. n : name[k] \in Nat /\ name[k] # 0
  OBVIOUS
<1>2. name \in Seq(Nat)
  <2>1. Nat \ {0} \subseteq Nat
    OBVIOUS
  <2> QED
    BY <2>1, SeqMonotonic
<1>3. /\ b \in Seq(Nat) /\ Len(b) = n + 2 /\ b[n + 2] = 0
      /\ \A p \in 1 .. n + 1 :
           b[p] = IF CountAt(name, p) THEN (NextCount(name, p) - p - 1) % Byte ELSE name[p - 1]
  BY <1>2, PacketNameIs
<1>4. /\ LabelsFit(name)
      /\ name[1] # Dot /\ name[n] # Dot /\ \A k \in 1 .. n - 1 : name[k] # Dot \/ name[k + 1] # Dot
  BY DEF ProperName
<1> HIDE DEF b, n
<1>5. ASSUME NEW p \in 1 .. n + 1, CountAt(name, p) PROVE NextCount(name, p) # p + 1
  <2>1. SUFFICES ASSUME NextCount(name, p) = p + 1 PROVE FALSE
    OBVIOUS
  <2>2. p + 1 = n + 2 \/ CountAt(name, p + 1)
    BY <1>1, <2>1, NextCountIs DEF n
  <2>3. p = 1 \/ (p \in 2 .. n + 1 /\ name[p - 1] = Dot)
    BY <1>5 DEF CountAt, n
  <2>4. CASE p + 1 = n + 2
    <3>1. p = n + 1 /\ p # 1 /\ p - 1 = n
      BY <1>1, <2>4
    <3> QED
      BY <1>4, <2>3, <3>1
  <2>5. CASE p + 1 # n + 2
    <3>1. name[p] = Dot
      <4>1. (p + 1) - 1 = p /\ p + 1 # 1
        OBVIOUS
      <4> QED
        BY <2>2, <2>5, <4>1 DEF CountAt
    <3>2. p # 1
      BY <1>4, <3>1
    <3>3. p - 1 \in 1 .. n - 1 /\ (p - 1) + 1 = p
      BY <1>1, <2>5, <3>2
    <3> QED
      BY <1>4, <2>3, <3>1, <3>2, <3>3
  <2> QED
    BY <2>4, <2>5
<1>6. ASSUME NEW p \in 1 .. n + 1 PROVE b[p] # 0
  <2>1. CASE CountAt(name, p)
    <3>1. NextCount(name, p) \in p + 1 .. n + 2
      BY <1>1, NextCountIs DEF n
    <3>2. NextCount(name, p) - p - 1 <= 127
      BY <1>4, <2>1 DEF LabelsFit, CharMax, n
    <3>3. b[p] = (NextCount(name, p) - p - 1) % Byte
      BY <1>3, <2>1
    <3> DEFINE c == NextCount(name, p)
    <3> HIDE DEF c
    <3>4. p \in Nat /\ c \in Nat /\ p + 1 <= c /\ c # p + 1 /\ c - p - 1 <= 127
      BY <1>1, <1>5, <2>1, <3>1, <3>2 DEF c
    <3>5. c - p - 1 <= 255 /\ b[p] = (c - p - 1) % Byte
      BY <3>3, <3>4 DEF c
    <3>6. b[p] = c - p - 1
      BY <3>4, <3>5, CountStored
    <3> QED
      BY <3>4, <3>6
  <2>2. CASE ~CountAt(name, p)
    <3>1. p # 1
      BY <2>2 DEF CountAt
    <3>2. p - 1 \in 1 .. n
      BY <1>1, <3>1
    <3> QED
      BY <1>1, <1>3, <2>2, <3>2
  <2> QED
    BY <2>1, <2>2
<1>7. Len(s) = n + 1
  <2>1. n + 2 \in 1 .. Len(b) /\ (n + 2) - 1 = n + 1
    BY <1>1, <1>3
  <2>2. \A k \in 1 .. (n + 2) - 1 : b[k] # 0
    BY <1>6, <2>1
  <2>3. Len(s) = (n + 2) - 1
    BY <1>3, <2>1, <2>2, StringIs
  <2> QED
    BY <2>1, <2>3
<1>8. Len(s) + 1 = Len(b)
  BY <1>1, <1>3, <1>7
<1> QED
  BY <1>2, <1>4, <1>8, NameReadBack DEF b, s

-----------------------------------------------------------------------------
(* Texts. *)

Words == {"SP", "CRLF", ":", "/", "HTTP/1.1", "text", "http", "https", "ftp", "80", "443", "8080"}

Tokens == STRING \cup Words \cup Hosts \cup Methods

Free(text, t) == \A k \in 1 .. Len(text) : text[k] # t

(* The first of the tokens looked for. *)
LEMMA FindIs ==
    ASSUME NEW text, Len(text) \in Nat, NEW t
    PROVE  LET f == Find(text, t) IN
           /\ f \in 1 .. Len(text) + 1
           /\ f # Len(text) + 1 => text[f] = t
           /\ \A k \in 1 .. f - 1 : text[k] # t
           /\ Free(text, t) => f = Len(text) + 1
<1> DEFINE n == Len(text)
           T == {k \in 1 .. n + 1 : k = n + 1 \/ text[k] = t}
           f == Find(text, t)
<1>1. T \subseteq Nat /\ n + 1 \in T /\ n \in Nat
  OBVIOUS
<1>2. f = Min(T)
  BY DEF Find
<1> HIDE DEF f
<1>3. f \in T /\ \A y \in T : f <= y
  <2> HIDE DEF T
  <2> QED
    BY <1>1, <1>2, MinIs
<1>4. ASSUME NEW k \in 1 .. f - 1 PROVE text[k] # t
  <2>1. k \in 1 .. n + 1 /\ ~(f <= k)
    BY <1>1, <1>3
  <2> QED
    BY <1>3, <2>1
<1>5. f # n + 1 => f \in 1 .. n
  BY <1>1, <1>3
<1> QED
  BY <1>3, <1>4, <1>5 DEF Free, f

(* A text is cut at the token looked for. *)
LEMMA CutAt ==
    ASSUME NEW a \in Seq(Tokens), NEW b \in Seq(Tokens), NEW t \in Tokens, Free(a, t)
    PROVE  LET text == a \o <<t>> \o b
           IN  Has(text, t) /\ Before(text, t) = a /\ After(text, t) = b
<1> DEFINE text == a \o <<t>> \o b
           m == Len(a)
           n == Len(b)
           f == Find(text, t)
<1>1. m \in Nat /\ n \in Nat
  OBVIOUS
<1>2. /\ text \in Seq(Tokens) /\ Len(text) = m + 1 + n
      /\ \A k \in 1 .. m : text[k] = a[k]
      /\ text[m + 1] = t
      /\ \A k \in 1 .. n : text[m + 1 + k] = b[k]
  OBVIOUS
<1>3. \A k \in 1 .. m : a[k] # t
  BY DEF Free
<1> HIDE DEF text, m, n
<1>4. /\ f \in 1 .. Len(text) + 1
      /\ f # Len(text) + 1 => text[f] = t
      /\ \A k \in 1 .. f - 1 : text[k] # t
  <2>1. Len(text) \in Nat
    BY <1>1, <1>2
  <2> QED
    BY <2>1, FindIs
<1> HIDE DEF f
<1>5. f = m + 1
  <2>1. ~(f < m + 1)
    <3>1. f < m + 1 => f \in 1 .. m /\ f # Len(text) + 1
      BY <1>1, <1>2, <1>4
    <3> QED
      BY <1>2, <1>3, <1>4, <3>1
  <2>2. ~(f > m + 1)
    <3>1. f > m + 1 => m + 1 \in 1 .. f - 1
      BY <1>1, <1>4
    <3> QED
      BY <1>2, <1>4, <3>1
  <2> QED
    BY <1>1, <1>2, <1>4, <2>1, <2>2
<1>6. Has(text, t)
  BY <1>1, <1>2, <1>5 DEF Has, f
<1>7. Before(text, t) = a
  <2>1. Before(text, t) = SubSeq(text, 1, m)
    <3>1. f - 1 = m
      BY <1>1, <1>5
    <3> QED
      BY <3>1 DEF Before, f
  <2>2. Len(SubSeq(text, 1, m)) = m /\ \A k \in 1 .. m : SubSeq(text, 1, m)[k] = a[k]
    BY <1>1, <1>2
  <2>3. SubSeq(text, 1, m) \in Seq(Tokens)
    BY <1>1, <1>2
  <2> QED
    BY <2>1, <2>2, <2>3, SeqEqual DEF m
<1>8. After(text, t) = b
  <2> DEFINE r == SubSeq(text, m + 2, Len(text))
  <2>1. After(text, t) = r
    <3>1. f + 1 = m + 2
      BY <1>1, <1>5
    <3> QED
      BY <3>1 DEF After, f
  <2>2. Len(r) = n /\ \A k \in 1 .. n : r[k] = text[m + 1 + k]
    BY <1>1, <1>2
  <2>3. r \in Seq(Tokens)
    BY <1>1, <1>2
  <2> HIDE DEF r
  <2> QED
    BY <1>2, <2>1, <2>2, <2>3, SeqEqual DEF n
<1> QED
  BY <1>6, <1>7, <1>8 DEF text

(* A text without the token looked for stays whole. *)
LEMMA NotFound ==
    ASSUME NEW a \in Seq(Tokens), NEW t, Free(a, t)
    PROVE  ~Has(a, t) /\ Before(a, t) = a
<1> DEFINE f == Find(a, t)
<1>1. Len(a) \in Nat
  OBVIOUS
<1>2. f = Len(a) + 1
  BY <1>1, FindIs
<1>3. f - 1 = Len(a)
  BY <1>1, <1>2
<1>4. SubSeq(a, 1, Len(a)) = a
  <2>1. /\ SubSeq(a, 1, Len(a)) \in Seq(Tokens) /\ Len(SubSeq(a, 1, Len(a))) = Len(a)
        /\ \A k \in 1 .. Len(a) : SubSeq(a, 1, Len(a))[k] = a[k]
    OBVIOUS
  <2> QED
    BY <2>1, SeqEqual
<1> QED
  BY <1>1, <1>2, <1>3, <1>4 DEF Has, Before

(* A joined text is free of a token if both parts are. *)
LEMMA FreeConcat ==
    ASSUME NEW a \in Seq(Tokens), NEW b \in Seq(Tokens), NEW t, Free(a, t), Free(b, t)
    PROVE  a \o b \in Seq(Tokens) /\ Free(a \o b, t)
<1>1. /\ a \o b \in Seq(Tokens) /\ Len(a) \in Nat /\ Len(b) \in Nat
      /\ Len(a \o b) = Len(a) + Len(b)
      /\ \A k \in 1 .. Len(a) + Len(b) :
           (a \o b)[k] = IF k <= Len(a) THEN a[k] ELSE b[k - Len(a)]
  OBVIOUS
<1>2. ASSUME NEW k \in 1 .. Len(a \o b) PROVE (a \o b)[k] # t
  <2>1. CASE k <= Len(a)
    BY <1>1, <2>1 DEF Free
  <2>2. CASE ~(k <= Len(a))
    <3>1. k - Len(a) \in 1 .. Len(b)
      BY <1>1, <2>2
    <3> QED
      BY <1>1, <2>2, <3>1 DEF Free
  <2> QED
    BY <2>1, <2>2
<1> QED
  BY <1>1, <1>2 DEF Free

-----------------------------------------------------------------------------
(* Requests. *)

(* The parts of a URI. *)
Scheme(u) == IF u.scheme = "none" THEN <<>> ELSE <<u.scheme, ":", "/", "/">>
Port(u) == IF u.port = "none" THEN <<>> ELSE <<":", u.port>>

(* What the assumptions say of one URI. *)
LEMMA UriParts ==
    ASSUME NEW u \in Uris(Hosts, Paths)
    PROVE  /\ u.scheme \in {"http", "https", "ftp", "none"}
           /\ u.host \in Hosts /\ u.host \notin {"SP", "CRLF", ":", "/", "none"}
           /\ u.port \in {"80", "443", "8080", "none"}
           /\ u.path \in Seq(Tokens) /\ Free(u.path, "SP") /\ Free(u.path, "CRLF")
           /\ u.path # <<>> => Head(u.path) = "/"
           /\ u.scheme = "none" => u.port # "none" /\ u.path = <<>>
<1>1. /\ u \in [scheme : {"http", "https", "ftp", "none"}, host : Hosts,
                port : Numbers \cup {"none"}, path : Paths]
      /\ u.scheme = "none" => u.port # "none" /\ u.path = <<>>
  BY DEF Uris
<1>2. u.path \in Seq(STRING \ Blanks) /\ (u.path # <<>> => Head(u.path) = "/")
  BY <1>1, TextAssumption
<1>3. u.path \in Seq(Tokens)
  <2>1. STRING \ Blanks \subseteq Tokens
    BY DEF Tokens
  <2> QED
    BY <1>2, <2>1, SeqMonotonic
<1>4. \A k \in 1 .. Len(u.path) : u.path[k] \in STRING \ Blanks
  BY <1>2
<1>5. Free(u.path, "SP") /\ Free(u.path, "CRLF")
  BY <1>4 DEF Free, Blanks
<1>6. u.host \notin {"SP", "CRLF", ":", "/", "none"}
  BY <1>1, TextAssumption DEF Blanks
<1> QED
  BY <1>1, <1>2, <1>3, <1>5, <1>6 DEF Numbers

(* The tokens the texts are made of. *)
LEMMA TokensAre ==
    /\ "SP" \in Tokens /\ "CRLF" \in Tokens /\ ":" \in Tokens /\ "/" \in Tokens
    /\ "HTTP/1.1" \in Tokens /\ "text" \in Tokens
    /\ "http" \in Tokens /\ "https" \in Tokens /\ "ftp" \in Tokens
    /\ "80" \in Tokens /\ "443" \in Tokens /\ "8080" \in Tokens
    /\ Hosts \subseteq Tokens /\ Methods \subseteq Tokens
BY DEF Tokens, Words

(* The parts of a URI, one by one: neither a blank nor an end of line. *)
LEMMA UriTexts ==
    ASSUME NEW u \in Uris(Hosts, Paths), NEW t \in {"SP", "CRLF"}
    PROVE  /\ Scheme(u) \in Seq(Tokens) /\ Free(Scheme(u), t)
           /\ <<u.host>> \in Seq(Tokens) /\ Free(<<u.host>>, t)
           /\ Port(u) \in Seq(Tokens) /\ Free(Port(u), t)
           /\ u.path \in Seq(Tokens) /\ Free(u.path, t)
<1>1. Scheme(u) \in Seq(Tokens) /\ Free(Scheme(u), t)
  BY UriParts, TokensAre DEF Scheme, Free
<1>2. <<u.host>> \in Seq(Tokens) /\ Free(<<u.host>>, t)
  BY UriParts, TokensAre DEF Free
<1>3. Port(u) \in Seq(Tokens) /\ Free(Port(u), t)
  BY UriParts, TokensAre DEF Port, Free
<1> QED
  BY <1>1, <1>2, <1>3, UriParts

(* So has the URI. *)
LEMMA UriFree ==
    ASSUME NEW u \in Uris(Hosts, Paths), NEW t \in {"SP", "CRLF"}
    PROVE  UriText(u) \in Seq(Tokens) /\ Free(UriText(u), t)
<1> DEFINE a == Scheme(u) \o <<u.host>>
           b == a \o Port(u)
<1>1. UriText(u) = b \o u.path
  BY DEF UriText, Scheme, Port
<1>2. a \in Seq(Tokens) /\ Free(a, t)
  BY UriTexts, FreeConcat
<1> HIDE DEF a
<1>3. b \in Seq(Tokens) /\ Free(b, t)
  BY <1>2, UriTexts, FreeConcat
<1> HIDE DEF b
<1> QED
  BY <1>1, <1>3, UriTexts, FreeConcat

(* The start line of a request is parsed into its method and its URI        *)
(* (HttpRequestStartLineParse).                                            *)
THEOREM StartLineParsed ==
    ASSUME NEW m \in Methods, NEW u \in Uris(Hosts, Paths)
    PROVE  HttpRequestStartLineParse(RequestText(m, u)) = [Method |-> <<m>>, URI |-> UriText(u)]
<1> DEFINE U == UriText(u)
           c == <<"SP", "HTTP/1.1">>
           a == <<m, "SP">> \o U
           text == a \o <<"SP", "HTTP/1.1", "CRLF", "text">>
           rest == U \o c
           line == a \o c
<1>1. U \in Seq(Tokens) /\ Free(U, "SP") /\ Free(U, "CRLF")
  BY UriFree
<1> HIDE DEF U
<1>2. /\ <<m, "SP">> \in Seq(Tokens) /\ c \in Seq(Tokens) /\ <<m>> \in Seq(Tokens)
      /\ <<"SP">> \in Seq(Tokens) /\ <<"HTTP/1.1">> \in Seq(Tokens)
      /\ <<"CRLF">> \in Seq(Tokens) /\ <<"text">> \in Seq(Tokens)
      /\ "SP" \in Tokens /\ "CRLF" \in Tokens
  BY TokensAre
<1>3. m \notin {"SP", "CRLF"}
  BY TextAssumption DEF Blanks
<1>4. Free(<<m, "SP">>, "CRLF") /\ Free(c, "CRLF") /\ Free(<<m>>, "SP")
  BY <1>3 DEF Free
<1>5. a \in Seq(Tokens) /\ Free(a, "CRLF")
  BY <1>1, <1>2, <1>4, FreeConcat
<1>6. line \in Seq(Tokens) /\ Free(line, "CRLF")
  <2> HIDE DEF a, c
  <2> QED
    BY <1>2, <1>4, <1>5, FreeConcat
<1>7. text = line \o <<"CRLF">> \o <<"text">>
  <2>1. <<"SP", "HTTP/1.1", "CRLF", "text">> = c \o (<<"CRLF">> \o <<"text">>)
    OBVIOUS
  <2>2. <<"CRLF">> \o <<"text">> \in Seq(Tokens)
    BY <1>2
  <2> DEFINE e == <<"CRLF">> \o <<"text">>
  <2>3. (a \o c) \o e = a \o (c \o e)
    <3> HIDE DEF a, c, e
    <3> QED
      BY <1>2, <1>5, <2>2, ConcatAssociative DEF e
  <2>4. (line \o <<"CRLF">>) \o <<"text">> = line \o e
    <3> HIDE DEF line
    <3> QED
      BY <1>2, <1>6, ConcatAssociative
  <2> QED
    BY <2>1, <2>3, <2>4
<1>8. line = <<m>> \o <<"SP">> \o rest
  <2>1. <<m, "SP">> = <<m>> \o <<"SP">>
    OBVIOUS
  <2> DEFINE e == <<m>> \o <<"SP">>
  <2>2. (e \o U) \o c = e \o (U \o c)
    <3>1. e \in Seq(Tokens)
      BY <1>2
    <3> HIDE DEF e, c
    <3> QED
      BY <1>1, <1>2, <3>1, ConcatAssociative
  <2> QED
    BY <2>1, <2>2
<1>9. rest \in Seq(Tokens) /\ rest = U \o <<"SP">> \o <<"HTTP/1.1">>
  <2>1. c = <<"SP">> \o <<"HTTP/1.1">>
    OBVIOUS
  <2>2. (U \o <<"SP">>) \o <<"HTTP/1.1">> = U \o (<<"SP">> \o <<"HTTP/1.1">>)
    BY <1>1, <1>2, ConcatAssociative
  <2>3. rest \in Seq(Tokens)
    BY <1>1, <1>2
  <2> QED
    BY <2>1, <2>2, <2>3
<1>10. RequestText(m, u) = text
  BY DEF RequestText, U
<1> HIDE DEF text, line, rest, c, a
<1>11. Has(text, "CRLF") /\ Before(text, "CRLF") = line
  BY <1>2, <1>6, <1>7, CutAt
<1>12. Has(line, "SP") /\ Before(line, "SP") = <<m>> /\ After(line, "SP") = rest
  BY <1>2, <1>4, <1>8, <1>9, CutAt
<1>13. Has(rest, "SP") /\ Before(rest, "SP") = U
  BY <1>1, <1>2, <1>9, CutAt
<1> QED
  BY <1>10, <1>11, <1>12, <1>13 DEF HttpRequestStartLineParse, U

(* A token that is not found is not there. *)
LEMMA HasNot ==
    ASSUME NEW a \in Seq(Tokens), NEW t
    PROVE  ~Has(a, t) <=> Free(a, t)
<1> DEFINE f == Find(a, t)
           n == Len(a)
<1>1. n \in Nat
  OBVIOUS
<1>2. /\ f \in 1 .. n + 1 /\ (f # n + 1 => a[f] = t)
      /\ \A k \in 1 .. f - 1 : a[k] # t
      /\ Free(a, t) => f = n + 1
  BY <1>1, FindIs
<1> HIDE DEF f, n
<1>3. ASSUME f = n + 1 PROVE Free(a, t)
  <2>1. \A k \in 1 .. n : k \in 1 .. f - 1
    BY <1>1, <1>3
  <2> QED
    BY <1>2, <2>1 DEF Free, n
<1>4. f = n + 1 <=> ~(f <= n)
  BY <1>1, <1>2
<1> QED
  BY <1>2, <1>3, <1>4 DEF Has, f, n

(* A path is empty, or its "/" and the rest. *)
LEMMA PathSplit ==
    ASSUME NEW path \in Seq(Tokens), path # <<>>, Head(path) = "/"
    PROVE  /\ Tail(path) \in Seq(Tokens) /\ path = <<"/">> \o Tail(path)
           /\ path[1] = "/" /\ Len(path) \in Nat \ {0}
<1>1. /\ Tail(path) \in Seq(Tokens) /\ Len(path) \in Nat /\ Len(path) # 0
      /\ Len(Tail(path)) = Len(path) - 1 /\ path[1] = "/"
      /\ \A k \in 1 .. Len(path) - 1 : Tail(path)[k] = path[k + 1]
  OBVIOUS
<1> DEFINE r == <<"/">> \o Tail(path)
<1>2. "/" \in Tokens
  BY TokensAre
<1>3. /\ r \in Seq(Tokens) /\ Len(r) = 1 + Len(Tail(path)) /\ r[1] = "/"
      /\ \A k \in 1 .. Len(Tail(path)) : r[k + 1] = Tail(path)[k]
  BY <1>1, <1>2
<1> HIDE DEF r
<1>4. ASSUME NEW k \in 1 .. Len(path) PROVE path[k] = r[k]
  <2>1. CASE k = 1
    BY <1>1, <1>3, <2>1
  <2>2. CASE k # 1
    <3>1. k - 1 \in 1 .. Len(path) - 1 /\ (k - 1) + 1 = k
      BY <1>1, <2>2
    <3> QED
      BY <1>1, <1>3, <3>1
  <2> QED
    BY <2>1, <2>2
<1>5. Len(path) = Len(r)
  BY <1>1, <1>3
<1>6. path = r
  BY <1>3, <1>4, <1>5, SeqEqual
<1> QED
  BY <1>1, <1>6 DEF r

(* A text starts with one token and goes on with a path or not at all: it   *)
(* is cut before the path.                                                 *)
LEMMA BeforePath ==
    ASSUME NEW x \in Tokens, x # "/", NEW path \in Seq(Tokens), path # <<>> => Head(path) = "/"
    PROVE  Before(<<x>> \o path, "/") = <<x>>
<1>1. <<x>> \in Seq(Tokens) /\ Free(<<x>>, "/") /\ "/" \in Tokens
  BY TokensAre DEF Free
<1>2. CASE path = <<>>
  <2>1. <<x>> \o path = <<x>>
    BY <1>1, <1>2
  <2> QED
    BY <1>1, <2>1, NotFound
<1>3. CASE path # <<>>
  <2>1. Tail(path) \in Seq(Tokens) /\ path = <<"/">> \o Tail(path)
    BY <1>3, PathSplit
  <2>2. <<"/">> \in Seq(Tokens)
    BY <1>1
  <2> DEFINE r == Tail(path)
  <2>3. <<x>> \o path = <<x>> \o <<"/">> \o r
    <3> HIDE DEF r
    <3> QED
      BY <1>1, <2>1, <2>2, ConcatAssociative DEF r
  <2> HIDE DEF r
  <2> QED
    BY <1>1, <2>1, <2>3, CutAt DEF r
<1> QED
  BY <1>2, <1>3

(* What follows the scheme.  Without a port a ":" in the path is taken for  *)
(* the port's, and then the host is no single token.                       *)
LEMMA AuthorityParsed ==
    ASSUME NEW u \in Uris(Hosts, Paths), NEW d
    PROVE  LET a == HostAndPort(<<u.host>> \o Port(u) \o u.path, d) IN
           /\ u.port # "none" => a = [host |-> <<u.host>>, port |-> u.port]
           /\ u.port = "none" /\ ~Has(u.path, ":") => a = [host |-> <<u.host>>, port |-> d]
           /\ u.port = "none" /\ Has(u.path, ":") => \A x : a.host # <<x>>
<1> DEFINE h == u.host
           path == u.path
           text == <<h>> \o Port(u) \o path
           a == HostAndPort(text, d)
<1>1. /\ h \in Tokens /\ h \notin {":", "/"} /\ path \in Seq(Tokens)
      /\ path # <<>> => Head(path) = "/"
      /\ u.port \in {"80", "443", "8080", "none"}
  BY UriParts, TokensAre
<1>2. <<h>> \in Seq(Tokens) /\ Free(<<h>>, ":") /\ ":" \in Tokens
  BY <1>1, TokensAre DEF Free
<1> HIDE DEF h, path
<1>3. ASSUME u.port # "none" PROVE a = [host |-> <<h>>, port |-> u.port]
  <2> DEFINE p == u.port
             r == <<p>> \o path
  <2>1. p \in Tokens /\ p # "/" /\ p \in Numbers
    BY <1>1, <1>3, TokensAre DEF Numbers
  <2>2. Port(u) = <<":">> \o <<p>>
    BY <1>3 DEF Port
  <2> HIDE DEF p
  <2>3. <<p>> \in Seq(Tokens) /\ <<":">> \in Seq(Tokens)
    BY <1>2, <2>1
  <2>4. r \in Seq(Tokens) /\ text = <<h>> \o <<":">> \o r
    <3>1. <<h>> \o (<<":">> \o <<p>>) = (<<h>> \o <<":">>) \o <<p>>
      BY <1>2, <2>3, ConcatAssociative
    <3>2. <<h>> \o <<":">> \in Seq(Tokens)
      BY <1>2, <2>3
    <3> DEFINE e == <<h>> \o <<":">>
    <3>3. (e \o <<p>>) \o path = e \o (<<p>> \o path)
      <4> HIDE DEF e
      <4> QED
        BY <1>1, <2>3, <3>2, ConcatAssociative DEF e
    <3>4. r \in Seq(Tokens)
      BY <1>1, <2>3
    <3> QED
      BY <2>2, <3>1, <3>3, <3>4
  <2>5. Before(r, "/") = <<p>>
    BY <1>1, <2>1, BeforePath
  <2> HIDE DEF r, text
  <2>6. Has(text, ":") /\ Before(text, ":") = <<h>> /\ After(text, ":") = r
    BY <1>2, <2>4, CutAt
  <2>7. atoi(<<p>>) = p
    BY <2>1 DEF atoi
  <2> QED
    BY <2>5, <2>6, <2>7 DEF HostAndPort, p
<1>4. u.port = "none" => text = <<h>> \o path /\ text \in Seq(Tokens)
  <2>1. u.port = "none" => Port(u) = <<>>
    BY DEF Port
  <2>2. <<h>> \o <<>> = <<h>>
    BY <1>2
  <2> QED
    BY <1>1, <1>2, <2>1, <2>2
<1>5. ASSUME u.port = "none", ~Has(path, ":") PROVE a = [host |-> <<h>>, port |-> d]
  <2>1. Free(path, ":")
    BY <1>1, <1>5, HasNot
  <2>2. Free(text, ":") /\ text \in Seq(Tokens)
    BY <1>1, <1>2, <1>4, <1>5, <2>1, FreeConcat
  <2>3. ~Has(text, ":")
    BY <2>2, NotFound
  <2>4. Before(text, "/") = <<h>>
    BY <1>1, <1>4, <1>5, BeforePath
  <2> HIDE DEF text
  <2> QED
    BY <2>3, <2>4 DEF HostAndPort
<1>6. ASSUME u.port = "none", Has(path, ":") PROVE \A x : a.host # <<x>>
  <2>1. ~Free(path, ":")
    BY <1>1, <1>6, HasNot
  <2>2. path # <<>>
    BY <2>1 DEF Free
  <2>3. path[1] = "/" /\ Len(path) \in Nat \ {0}
    BY <1>1, <2>2, PathSplit
  <2>4. /\ text[1] = h /\ Len(text) = 1 + Len(path)
        /\ \A k \in 1 .. Len(path) : text[1 + k] = path[k]
    BY <1>1, <1>2, <1>4, <1>6
  <2>5. text \in Seq(Tokens)
    BY <1>4, <1>6
  <2> HIDE DEF text
  <2>6. PICK k \in 1 .. Len(path) : path[k] = ":"
    BY <2>1 DEF Free
  <2>7. ~Free(text, ":")
    <3>1. 1 + k \in 1 .. Len(text) /\ text[1 + k] = ":"
      BY <2>3, <2>4, <2>6
    <3> QED
      BY <3>1 DEF Free
  <2>8. Has(text, ":")
    BY <2>5, <2>7, HasNot
  <2> DEFINE f == Find(text, ":")
  <2>9. f \in 1 .. Len(text) /\ text[f] = ":"
    <3>1. Len(text) \in Nat
      BY <2>5
    <3>2. f \in 1 .. Len(text) + 1 /\ (f # Len(text) + 1 => text[f] = ":")
      BY <3>1, FindIs
    <3>3. f <= Len(text)
      BY <2>8 DEF Has
    <3> HIDE DEF f
    <3> QED
      BY <3>1, <3>2, <3>3
  <2>10. Before(text, ":") = SubSeq(text, 1, f - 1)
    BY DEF Before
  <2> HIDE DEF f
  <2>11. f # 1 /\ f # 2
    <3>1. text[1] = h /\ text[1 + 1] = "/"
      BY <2>3, <2>4
    <3> QED
      BY <1>1, <2>9, <3>1
  <2>12. Len(SubSeq(text, 1, f - 1)) = f - 1 /\ f - 1 # 1
    BY <2>5, <2>9, <2>11
  <2>13. a.host = SubSeq(text, 1, f - 1)
    BY <2>8, <2>10 DEF HostAndPort
  <2>14. \A x : Len(<<x>>) = 1
    OBVIOUS
  <2> QED
    BY <2>12, <2>13, <2>14
<1> QED
  BY <1>3, <1>5, <1>6 DEF h, path

(* Where the "://" of a URI is, and what is around it. *)
LEMMA SchemeParsed ==
    ASSUME NEW s \in Tokens, s # ":", NEW rest \in Seq(Tokens)
    PROVE  LET U == <<s, ":", "/", "/">> \o rest IN
           /\ SchemeEnd(U) = 2 /\ Len(U) >= 4
           /\ SubSeq(U, 1, 1) = <<s>> /\ SubSeq(U, 5, Len(U)) = rest
<1> DEFINE U == <<s, ":", "/", "/">> \o rest
           n == Len(U)
           T == {k \in 1 .. n + 1 :
                   \/ k = n + 1
                   \/ k + 2 <= n /\ SubSeq(U, k, k + 2) = <<":", "/", "/">>}
<1>1. <<s, ":", "/", "/">> \in Seq(Tokens)
  BY TokensAre
<1>2. /\ U \in Seq(Tokens) /\ n \in Nat /\ n = 4 + Len(rest) /\ Len(rest) \in Nat
      /\ U[1] = s /\ U[2] = ":" /\ U[3] = "/" /\ U[4] = "/"
      /\ \A k \in 1 .. Len(rest) : U[4 + k] = rest[k]
  BY <1>1
<1> HIDE DEF U
<1>3. SubSeq(U, 2, 4) = <<":", "/", "/">>
  <2> DEFINE v == SubSeq(U, 2, 4)
             w == <<":", "/", "/">>
  <2>1. v \in Seq(Tokens) /\ Len(v) = 3 /\ v[1] = U[2] /\ v[2] = U[3] /\ v[3] = U[4]
    BY <1>2
  <2>2. w \in Seq(Tokens) /\ Len(w) = 3 /\ w[1] = ":" /\ w[2] = "/" /\ w[3] = "/"
    BY TokensAre
  <2> HIDE DEF v, w
  <2>3. \A k \in 1 .. Len(v) : v[k] = w[k]
    <3>1. \A k \in 1 .. 3 : k = 1 \/ k = 2 \/ k = 3
      OBVIOUS
    <3> QED
      BY <1>2, <2>1, <2>2, <3>1
  <2>4. v = w
    BY <2>1, <2>2, <2>3, SeqEqual
  <2> QED
    BY <2>4 DEF v, w
<1>4. SubSeq(U, 1, 3) # <<":", "/", "/">>
  <2>1. SubSeq(U, 1, 3)[1] = s
    BY <1>2
  <2>2. <<":", "/", "/">>[1] = ":"
    OBVIOUS
  <2> QED
    BY <2>1, <2>2
<1>5. SchemeEnd(U) = Min(T)
  BY DEF SchemeEnd
<1> HIDE DEF n
<1>6. T \subseteq Nat /\ 2 \in T /\ 1 \notin T
  <2>1. 2 + 2 = 4 /\ 1 + 2 = 3 /\ 2 \in 1 .. n + 1 /\ 4 <= n /\ 1 # n + 1
    BY <1>2
  <2> QED
    BY <1>2, <1>3, <1>4, <2>1
<1> HIDE DEF T
<1>7. Min(T) \in T /\ Min(T) <= 2 /\ Min(T) \in Nat /\ Min(T) # 1
  <2>1. Min(T) \in T /\ \A y \in T : Min(T) <= y
    BY <1>6, MinIs
  <2> QED
    BY <1>6, <2>1
<1>8. Min(T) # 0
  BY <1>7 DEF T
<1>9. SchemeEnd(U) = 2
  BY <1>5, <1>7, <1>8
<1>10. SubSeq(U, 1, 1) = <<s>>
  <2>1. /\ SubSeq(U, 1, 1) \in Seq(Tokens) /\ Len(SubSeq(U, 1, 1)) = 1
        /\ SubSeq(U, 1, 1)[1] = s
    BY <1>2 DEF n
  <2>2. <<s>> \in Seq(Tokens) /\ Len(<<s>>) = 1 /\ <<s>>[1] = s
    OBVIOUS
  <2>3. \A k \in 1 .. 1 : k = 1
    OBVIOUS
  <2> QED
    BY <2>1, <2>2, <2>3, SeqEqual
<1>11. SubSeq(U, 5, n) = rest
  <2> DEFINE v == SubSeq(U, 5, n)
  <2>1. /\ v \in Seq(Tokens) /\ Len(v) = Len(rest)
        /\ \A k \in 1 .. Len(rest) : v[k] = U[4 + k]
    BY <1>2 DEF n
  <2> HIDE DEF v
  <2>2. v = rest
    BY <1>2, <2>1, SeqEqual
  <2> QED
    BY <2>2 DEF v
<1>12. n >= 4
  BY <1>2
<1> QED
  BY <1>9, <1>10, <1>11, <1>12 DEF U, n

(* A URI without a scheme, as CONNECT has it. *)
LEMMA NoSchemeParsed ==
    ASSUME NEW h \in Tokens, h # ":", NEW p \in Tokens
    PROVE  LET U == <<h, ":", p>> IN SchemeEnd(U) > Len(U)
<1> DEFINE U == <<h, ":", p>>
           n == Len(U)
           T == {k \in 1 .. n + 1 :
                   \/ k = n + 1
                   \/ k + 2 <= n /\ SubSeq(U, k, k + 2) = <<":", "/", "/">>}
<1>1. n = 3 /\ U \in Seq(Tokens) /\ U[1] = h
  BY TokensAre
<1>2. SchemeEnd(U) = Min(T)
  BY DEF SchemeEnd
<1> HIDE DEF U
<1>3. SubSeq(U, 1, 3) # <<":", "/", "/">>
  <2>1. SubSeq(U, 1, 3)[1] = h
    BY <1>1
  <2>2. <<":", "/", "/">>[1] = ":"
    OBVIOUS
  <2> QED
    BY <2>1, <2>2
<1> HIDE DEF n
<1>4. ASSUME NEW k \in T PROVE k = n + 1
  <2>1. k \in 1 .. 4
    BY <1>1
  <2>2. k + 2 <= n => k = 1 /\ k + 2 = 3
    BY <1>1, <2>1
  <2> QED
    BY <1>3, <2>2
<1>5. T \subseteq Nat /\ n + 1 \in T
  BY <1>1
<1> HIDE DEF T
<1>6. Min(T) \in T
  BY <1>5, MinIs
<1>7. Min(T) = 4
  BY <1>1, <1>4, <1>6
<1> QED
  BY <1>1, <1>2, <1>7 DEF U, n

(* A host and a port make a text of three tokens. *)
LEMMA OneAndTwo ==
    ASSUME NEW h \in Tokens, NEW p \in Tokens
    PROVE  <<h>> \o <<":", p>> = <<h, ":", p>>
<1> DEFINE a == <<h>>
           b == <<":", p>>
           c == <<h, ":", p>>
           d == a \o b
<1>1. a \in Seq(Tokens) /\ b \in Seq(Tokens) /\ c \in Seq(Tokens)
  BY TokensAre
<1>2. /\ Len(a) = 1 /\ Len(b) = 2 /\ Len(c) = 3
      /\ a[1] = h /\ b[1] = ":" /\ b[2] = p /\ c[1] = h /\ c[2] = ":" /\ c[3] = p
  OBVIOUS
<1> HIDE DEF a, b, c
<1>3. /\ d \in Seq(Tokens) /\ Len(d) = 3
      /\ d[1] = a[1] /\ d[2] = b[1] /\ d[3] = b[2]
  <2>1. /\ d \in Seq(Tokens) /\ Len(d) = Len(a) + Len(b)
        /\ \A k \in 1 .. Len(a) : d[k] = a[k]
        /\ \A k \in 1 .. Len(b) : d[Len(a) + k] = b[k]
    BY <1>1
  <2>2. 1 \in 1 .. Len(a) /\ 1 \in 1 .. Len(b) /\ 2 \in 1 .. Len(b)
    BY <1>2
  <2>3. Len(a) + 1 = 2 /\ Len(a) + 2 = 3 /\ Len(a) + Len(b) = 3
    BY <1>2
  <2> HIDE DEF d
  <2>4. d[Len(a) + 1] = b[1] /\ d[Len(a) + 2] = b[2] /\ d[1] = a[1]
    BY <2>1, <2>2
  <2> QED
    BY <2>1, <2>3, <2>4
<1> HIDE DEF d
<1>4. \A k \in 1 .. Len(d) : d[k] = c[k]
  <2>1. \A k \in 1 .. Len(d) : k = 1 \/ k = 2 \/ k = 3
    BY <1>3
  <2> QED
    BY <1>2, <1>3, <2>1
<1>5. d = c
  BY <1>1, <1>2, <1>3, <1>4, SeqEqual
<1> QED
  BY <1>5 DEF a, b, c, d

(* What GetHostIpPostFromURI makes of a URI: the host and the port that are *)
(* meant, or no host that is a single token if the path was misread.       *)
THEOREM UriParsed ==
    ASSUME NEW u \in Uris(Hosts, Paths)
    PROVE  LET a == GetHostIpPostFromURI(UriText(u)) IN
           /\ u.scheme = "ftp" => a = BadUri
           /\ u.scheme # "ftp" /\ ~Misread(u) => a = Meant(u)
           /\ u.scheme # "ftp" /\ Misread(u) => \A x : a.host # <<x>>
<1> DEFINE U == UriText(u)
           a == GetHostIpPostFromURI(U)
           rest == <<u.host>> \o Port(u) \o u.path
<1>1. /\ u.scheme \in {"http", "https", "ftp", "none"}
      /\ u.port \in {"80", "443", "8080", "none"}
      /\ u.host \in Tokens /\ u.host \notin {":", "/"}
      /\ u.scheme = "none" => u.port # "none" /\ u.path = <<>>
  BY UriParts, TokensAre
<1>2. /\ <<u.host>> \in Seq(Tokens) /\ Port(u) \in Seq(Tokens) /\ u.path \in Seq(Tokens)
      /\ Scheme(u) \in Seq(Tokens)
  BY UriTexts
<1>3. rest \in Seq(Tokens)
  BY <1>2
<1>4. U = Scheme(u) \o rest
  <2> DEFINE x == Scheme(u)
             y == <<u.host>>
             z == Port(u)
             p == u.path
  <2>1. U = ((x \o y) \o z) \o u.path
    BY DEF UriText, Scheme, Port
  <2>2. (x \o y) \o z = x \o (y \o z)
    <3> HIDE DEF x, y, z
    <3> QED
      BY <1>2, ConcatAssociative DEF x, y, z
  <2> DEFINE w == y \o z
  <2>3. w \in Seq(Tokens) /\ x \in Seq(Tokens) /\ p \in Seq(Tokens)
    BY <1>2
  <2>4. (x \o w) \o p = x \o (w \o p)
    <3> HIDE DEF x, w, p
    <3> QED
      BY <2>3, ConcatAssociative
  <2> QED
    BY <2>1, <2>2, <2>4
<1>5. CASE u.scheme = "none"
  <2>1. u.port # "none" /\ u.path = <<>>
    BY <1>1, <1>5
  <2>2. u.port \in Tokens
    BY <1>1, <2>1, TokensAre
  <2>3. U = <<u.host, ":", u.port>> /\ U = rest
    <3>1. Scheme(u) = <<>> /\ Port(u) = <<":", u.port>>
      BY <1>5, <2>1 DEF Scheme, Port
    <3>2. <<>> \o rest = rest
      <4> HIDE DEF rest
      <4> QED
        BY <1>3, ConcatEmptySeq
    <3>3. rest = <<u.host, ":", u.port>>
      <4>1. <<u.host>> \o <<":", u.port>> = <<u.host, ":", u.port>>
        BY <1>1, <2>2, OneAndTwo
      <4>2. <<u.host, ":", u.port>> \in Seq(Tokens)
        BY <1>1, <2>2, TokensAre
      <4>3. <<u.host, ":", u.port>> \o <<>> = <<u.host, ":", u.port>>
        BY <4>2, ConcatEmptySeq
      <4> QED
        BY <2>1, <3>1, <4>1, <4>3 DEF rest
    <3> QED
      BY <1>4, <3>1, <3>2, <3>3
  <2> HIDE DEF U, rest
  <2>4. SchemeEnd(U) > Len(U)
    BY <1>1, <2>2, <2>3, NoSchemeParsed
  <2>5. a = HostAndPort(rest, "undefined")
    BY <2>3, <2>4 DEF GetHostIpPostFromURI
  <2>6. a = [host |-> <<u.host>>, port |-> u.port]
    BY <2>1, <2>5, AuthorityParsed DEF rest
  <2>7. ~Misread(u) /\ a = Meant(u)
    BY <2>1, <2>6 DEF Misread, Meant, None
  <2> QED
    BY <1>5, <2>7 DEF U
<1>6. CASE u.scheme # "none"
  <2> DEFINE s == u.scheme
  <2>1. s \in Tokens /\ s # ":"
    BY <1>1, <1>6, TokensAre
  <2>2. U = <<s, ":", "/", "/">> \o rest
    BY <1>4, <1>6 DEF Scheme
  <2> HIDE DEF U, rest
  <2>3. /\ SchemeEnd(U) = 2 /\ Len(U) >= 4
        /\ SubSeq(U, 1, 1) = <<s>> /\ SubSeq(U, 5, Len(U)) = rest
    <3> HIDE DEF s
    <3> QED
      BY <1>3, <2>1, <2>2, SchemeParsed
  <2>4. Len(U) \in Nat
    BY <1>2, <1>3, <1>4
  <2>5. ~(SchemeEnd(U) > Len(U)) /\ 2 - 1 = 1 /\ 2 + 3 = 5
    BY <2>3, <2>4
  <2>6. a = IF s \in {"http", "https"} THEN HostAndPort(rest, DefaultPort(<<s>>)) ELSE BadUri
    <3>1. <<s>> \in {<<"http">>, <<"https">>} <=> s \in {"http", "https"}
      <4>1. <<s>>[1] = s /\ <<"http">>[1] = "http" /\ <<"https">>[1] = "https"
        OBVIOUS
      <4> QED
        BY <4>1
    <3> QED
      BY <2>3, <2>5, <3>1 DEF GetHostIpPostFromURI
  <2>7. CASE s = "ftp"
    BY <2>6, <2>7 DEF U
  <2>8. CASE s # "ftp"
    <3>1. a = HostAndPort(rest, DefaultPort(<<s>>))
      BY <1>1, <1>6, <2>6, <2>8
    <3>2. ~Misread(u) => a = Meant(u)
      <4>1. CASE u.port # "none"
        BY <3>1, <4>1, AuthorityParsed DEF rest, Meant
      <4>2. CASE u.port = "none"
        <5>1. ~Misread(u) <=> ~Has(u.path, ":")
          BY <4>2 DEF Misread, None
        <5> QED
          BY <3>1, <4>2, <5>1, AuthorityParsed DEF rest, Meant
      <4> QED
        BY <4>1, <4>2
    <3>3. Misread(u) => \A x : a.host # <<x>>
      <4>1. Misread(u) => u.port = "none" /\ Has(u.path, ":")
        BY DEF Misread, None
      <4>2. u.port = "none" /\ Has(u.path, ":")
              => \A x : HostAndPort(rest, DefaultPort(<<s>>)).host # <<x>>
        <5> HIDE DEF s
        <5> QED
          BY AuthorityParsed DEF rest
      <4> QED
        BY <3>1, <4>1, <4>2
    <3> QED
      BY <2>8, <3>2, <3>3 DEF U
  <2> QED
    BY <2>7, <2>8
<1> QED
  BY <1>5, <1>6

-----------------------------------------------------------------------------
(* Responses. *)

(* The record with which the loop ends. *)
LEMMA LoopEndIs ==
    ASSUME NEW m, Len(m.answers) \in Nat
    PROVE  LET e == LoopEnd(m)
               n == Len(m.answers)
           IN  /\ e \in 1 .. n + 1
               /\ e # n + 1 => ~DomainNameAnswerParse(m.answers[e]) \/ m.answers[e].type = "A"
               /\ \A k \in 1 .. e - 1 :
                    DomainNameAnswerParse(m.answers[k]) /\ m.answers[k].type # "A"
<1> DEFINE n == Len(m.answers)
           T == {k \in 1 .. n + 1 : \/ k = n + 1
                                    \/ ~DomainNameAnswerParse(m.answers[k])
                                    \/ m.answers[k].type = "A"}
           e == LoopEnd(m)
<1>1. T \subseteq Nat /\ n + 1 \in T /\ n \in Nat
  OBVIOUS
<1>2. e = Min(T)
  BY DEF LoopEnd
<1> HIDE DEF e
<1>3. e \in T /\ \A y \in T : e <= y
  <2> HIDE DEF T
  <2> QED
    BY <1>1, <1>2, MinIs
<1>4. ASSUME NEW k \in 1 .. e - 1
      PROVE  DomainNameAnswerParse(m.answers[k]) /\ m.answers[k].type # "A"
  <2>1. k \in 1 .. n + 1 /\ ~(e <= k)
    BY <1>1, <1>3
  <2> QED
    BY <1>3, <2>1
<1> QED
  BY <1>3, <1>4 DEF e

(* What the DNS server may send: a record of type A has an address of the   *)
(* name, and there is one if the name has an address.                      *)
LEMMA ResponseIs ==
    ASSUME NEW name, NEW m \in ResponsesTo(name)
    PROVE  /\ Len(m.answers) \in Nat
           /\ \A k \in 1 .. Len(m.answers) :
                /\ m.answers[k].form \in NameForms
                /\ m.answers[k].type = "A" => m.answers[k].ADDR \in Meaning(name)
           /\ Meaning(name) # {} => \E k \in 1 .. Len(m.answers) : m.answers[k].type = "A"
<1> DEFINE A == Meaning(name)
           R == Records(A \cup {None}, {0})
<1>1. /\ m \in Responses(A \cup {None}, {0}, 0 .. AnswersMax)
      /\ \A k \in DOMAIN m.answers : m.answers[k].type = "A" <=> m.answers[k].ADDR # None
      /\ A # {} => \E k \in DOMAIN m.answers : m.answers[k].type = "A"
  BY DEF ResponsesTo
<1> HIDE DEF A
<1>2. PICK n \in 0 .. AnswersMax : m.answers \in [1 .. n -> R]
  <2> DEFINE M(n) == [recursion : BOOLEAN, questions : 0 .. 2, question : NameForms, qtype : Types,
                      answers : [1 .. n -> R]]
  <2>1. m \in UNION {M(n) : n \in 0 .. AnswersMax}
    BY <1>1 DEF Responses
  <2>2. PICK n \in 0 .. AnswersMax : m \in M(n)
    BY <2>1
  <2> QED
    BY <2>2
<1> HIDE DEF R
<1>3. n \in Nat
  BY <1>2, SessionAssumption
<1>4. Len(m.answers) = n /\ DOMAIN m.answers = 1 .. n
  BY <1>2, <1>3
<1>5. \A k \in 1 .. n : m.answers[k] \in R
  BY <1>2
<1>6. \A r \in R : r.form \in NameForms /\ r.ADDR \in A \cup {None}
  BY DEF R, Records
<1> QED
  BY <1>1, <1>3, <1>4, <1>5, <1>6 DEF A

(* What DomainNameIpv4Addr finds out: an address is one of the name; the    *)
(* look past the last record happens only if the name has none; and a      *)
(* result without an address has a reason.                                 *)
THEOREM ResponseParsed ==
    ASSUME NEW name, NEW m \in ResponsesTo(name)
    PROVE  /\ DomainNameIpv4Addr(m) = "address" => m.answers[LoopEnd(m)].ADDR \in Meaning(name)
           /\ DomainNameIpv4Addr(m) = "undefined" => Meaning(name) = {}
           /\ DomainNameIpv4Addr(m) = "none" =>
                \/ Meaning(name) = {}
                \/ m.answers # <<>> /\ m.answers[LoopEnd(m)].form = "mixed"
<1> DEFINE n == Len(m.answers)
           e == LoopEnd(m)
           d == DomainNameIpv4Addr(m)
<1>1. /\ n \in Nat
      /\ \A k \in 1 .. n : /\ m.answers[k].form \in NameForms
                           /\ m.answers[k].type = "A" => m.answers[k].ADDR \in Meaning(name)
      /\ Meaning(name) # {} => \E k \in 1 .. n : m.answers[k].type = "A"
  BY ResponseIs
<1>2. /\ e \in 1 .. n + 1
      /\ e # n + 1 => ~DomainNameAnswerParse(m.answers[e]) \/ m.answers[e].type = "A"
      /\ \A k \in 1 .. e - 1 : DomainNameAnswerParse(m.answers[k]) /\ m.answers[k].type # "A"
  BY <1>1, LoopEndIs
<1>3. m.answers = <<>> => n = 0
  BY EmptySeq
<1>4. e <= n <=> e # n + 1
  BY <1>1, <1>2
<1>5. d = IF ~HeaderAccepted(m) THEN "null"
          ELSE IF m.answers = <<>> THEN "none"
          ELSE IF e = n + 1 THEN "undefined"
          ELSE IF DomainNameAnswerParse(m.answers[e]) THEN "address" ELSE "none"
  <2> HIDE DEF e, n
  <2>1. CASE ~HeaderAccepted(m)
    BY <2>1 DEF DomainNameIpv4Addr
  <2>2. CASE HeaderAccepted(m) /\ m.answers = <<>>
    <3>1. e = n + 1
      BY <1>1, <1>2, <1>3, <2>2
    <3>2. ~(e <= n)
      BY <1>4, <3>1
    <3> QED
      BY <2>2, <3>1, <3>2 DEF DomainNameIpv4Addr, e, n
  <2>3. CASE HeaderAccepted(m) /\ m.answers # <<>> /\ e = n + 1
    <3>1. ~(e <= n)
      BY <1>4, <2>3
    <3> QED
      BY <2>3, <3>1 DEF DomainNameIpv4Addr, e, n
  <2>4. CASE HeaderAccepted(m) /\ m.answers # <<>> /\ e # n + 1
    <3>1. e <= n
      BY <1>4, <2>4
    <3> QED
      BY <2>4, <3>1 DEF DomainNameIpv4Addr, e, n
  <2> QED
    BY <2>1, <2>2, <2>3, <2>4
<1> HIDE DEF d, e, n
<1>6. e # n + 1 => e \in 1 .. n
  BY <1>1, <1>2
<1>7. ASSUME d = "address" PROVE m.answers[e].ADDR \in Meaning(name)
  <2>1. e # n + 1 /\ DomainNameAnswerParse(m.answers[e])
    BY <1>5, <1>7
  <2> QED
    BY <1>1, <1>2, <1>6, <2>1
<1>8. ASSUME d = "undefined" PROVE Meaning(name) = {}
  <2>1. e = n + 1
    BY <1>5, <1>8
  <2>2. \A k \in 1 .. n : k \in 1 .. e - 1
    BY <1>1, <2>1
  <2> QED
    BY <1>1, <1>2, <2>2
<1>9. ASSUME d = "none"
      PROVE  Meaning(name) = {} \/ (m.answers # <<>> /\ m.answers[e].form = "mixed")
  <2>1. CASE m.answers = <<>>
    <3>1. 1 .. n = {}
      BY <1>3, <2>1
    <3> QED
      BY <1>1, <3>1
  <2>2. CASE m.answers # <<>>
    <3>1. e # n + 1 /\ ~DomainNameAnswerParse(m.answers[e])
      BY <1>5, <1>9, <2>2
    <3> QED
      BY <2>2, <3>1 DEF DomainNameAnswerParse
  <2> QED
    BY <2>1, <2>2
<1> QED
  BY <1>7, <1>8, <1>9 DEF d, e

(* A query asks for the host whose name it holds and for no other: a packet *)
(* the check accepts is read back as the name it was made of, and different *)
(* hosts have different names.                                             *)
LEMMA MeaningIs ==
    ASSUME NEW h \in Hosts
    PROVE  LET name == HostBytes(<<h>>) IN
           /\ name = Spelling[h]
           /\ Meaning(name) \subseteq {h}
           /\ Meaning(name) # {} => HostName(PacketName(name)) = Spelling[h]
           /\ WellFormed(name) => HostName(PacketName(name)) = Spelling[h]
           /\ h \in Resolvable /\ ProperName(Spelling[h]) => h \in Meaning(name)
<1> DEFINE name == HostBytes(<<h>>)
<1>1. name = Spelling[h]
  <2>1. <<h>>[1] = h
    OBVIOUS
  <2> QED
    BY <2>1 DEF HostBytes
<1> HIDE DEF name
<1>2. name \in Seq(Nat \ {0}) /\ name # <<>> /\ name \in Seq(Nat) /\ Len(name) <= HostLength
  <2>1. name \in Seq(Nat \ {0}) /\ name # <<>> /\ Len(name) <= HostLength
    BY <1>1, TextAssumption
  <2>2. Nat \ {0} \subseteq Nat
    OBVIOUS
  <2> QED
    BY <2>1, <2>2, SeqMonotonic
<1>3. WellFormed(name) => HostName(PacketName(name)) = name
  BY <1>2, AcceptedNameReadBack
<1>4. ASSUME NEW g \in Meaning(name) PROVE g = h /\ HostName(PacketName(name)) = Spelling[h]
  <2>1. g \in Resolvable /\ WellFormed(name) /\ HostName(PacketName(name)) = Spelling[g]
    BY DEF Meaning
  <2>2. g \in Hosts
    BY <2>1, SessionAssumption
  <2> QED
    BY <1>1, <1>3, <2>1, <2>2, TextAssumption
<1>5. ASSUME h \in Resolvable, ProperName(Spelling[h]) PROVE h \in Meaning(name)
  <2>1. WellFormed(name) /\ HostName(PacketName(name)) = name
    BY <1>1, <1>2, <1>5, ProperNameWellFormed
  <2> QED
    BY <1>1, <1>5, <2>1 DEF Meaning
<1> QED
  BY <1>1, <1>3, <1>4, <1>5 DEF name

(* A name of several tokens means nobody. *)
LEMMA StrangeMeaning ==
    ASSUME NEW hostname, \A x : hostname # <<x>>
    PROVE  Meaning(HostBytes(hostname)) = {}
<1>1. HostBytes(hostname) = StrangeName
  BY DEF HostBytes
<1>2. StrangeName \in Seq(Nat) /\ Len(StrangeName) <= HostLength
  BY DEF StrangeName, HostLength
<1>3. ASSUME NEW g \in Meaning(StrangeName) PROVE FALSE
  <2>1. g \in Resolvable /\ WellFormed(StrangeName) /\ HostName(PacketName(StrangeName)) = Spelling[g]
    BY DEF Meaning
  <2>2. HostName(PacketName(StrangeName)) = StrangeName
    BY <1>2, <2>1, AcceptedNameReadBack
  <2>3. g \in Hosts
    BY <2>1, SessionAssumption
  <2> QED
    BY <2>1, <2>2, <2>3, TextAssumption
<1> QED
  BY <1>1, <1>3

-----------------------------------------------------------------------------
(* The session. *)

(* What the server peer is while its name is being looked up. *)
LookupAsked ==
    phase = "lookup" =>
        /\ request \in Requests
        /\ server = [hostname |-> server.hostname, port |-> server.port, hostip |-> None]
        /\ ~Misread(request.uri) => /\ server.hostname = Meant(request.uri).host
                                    /\ server.port = Meant(request.uri).port
        /\ Misread(request.uri) => \A x : server.hostname # <<x>>

(* Nothing is cached before the response. *)
NotCachedYet == phase \in {"idle", "lookup"} => cached = <<>>

TextInv ==
    /\ LookupAsked /\ NotCachedYet
    /\ ReachesMeantServer /\ StrandedOnlyWithReason /\ CrashOnlyWithoutAddress

(* A phase of which no part of the invariant speaks. *)
LEMMA OtherPhases ==
    ASSUME phase' \in {"closed", "relay"}
    PROVE  TextInv'
BY DEF TextInv, LookupAsked, NotCachedYet, ReachesMeantServer, StrandedOnlyWithReason,
       CrashOnlyWithoutAddress

(* The request is read: what is connected to or looked up is what its URI   *)
(* names, if that was not misread.                                         *)
LEMMA StepRequestRead ==
    ASSUME TextInv, NEW r \in Requests, RequestRead(r)
    PROVE  TextInv'
<1> DEFINE u == r.uri
           text == RequestText(r.method, r.uri)
           line == HttpRequestStartLineParse(text)
           a == GetHostIpPostFromURI(line.URI)
           p == [hostname |-> a.host, port |-> a.port, hostip |-> None]
<1>1. r.method \in Methods /\ u \in Uris(Hosts, Paths)
  BY DEF Requests
<1>2. a = GetHostIpPostFromURI(UriText(u))
  BY <1>1, StartLineParsed
<1>3. cached = <<>> /\ cached' = cached /\ request' = r
  BY DEF RequestRead, TextInv, NotCachedYet
<1>4. \/ phase' = "closed"
      \/ /\ a # BadUri /\ phase' = "connecting"
         /\ \E h \in Hosts : a.host = <<h>>
         /\ server' = [p EXCEPT !.hostip = a.host[1]]
      \/ a # BadUri /\ phase' = "lookup" /\ server' = p
  <2>1. \A h \in Literals \cup Resolvable : h \in Hosts
    BY SessionAssumption
  <2> QED
    BY <2>1 DEF RequestRead, Closing
<1> HIDE DEF a
<1>5. /\ u.scheme = "ftp" => a = BadUri
      /\ u.scheme # "ftp" /\ ~Misread(u) => a = Meant(u)
      /\ u.scheme # "ftp" /\ Misread(u) => \A x : a.host # <<x>>
  BY <1>1, <1>2, UriParsed
<1>6. CASE phase' = "closed"
  BY <1>6, OtherPhases
<1>7. CASE /\ a # BadUri /\ phase' = "connecting"
           /\ \E h \in Hosts : a.host = <<h>>
           /\ server' = [p EXCEPT !.hostip = a.host[1]]
  <2>1. a = Meant(u)
    BY <1>5, <1>7
  <2>2. a.host = <<u.host>> /\ a.host[1] = u.host
    BY <2>1 DEF Meant
  <2>3. server'.hostname = a.host /\ server'.port = a.port /\ server'.hostip = a.host[1]
    BY <1>7
  <2>4. ReachesMeantServer'
    BY <1>3, <2>1, <2>2, <2>3 DEF ReachesMeantServer
  <2> QED
    BY <1>7, <2>4 DEF TextInv, LookupAsked, NotCachedYet, StrandedOnlyWithReason,
                      CrashOnlyWithoutAddress
<1>8. CASE a # BadUri /\ phase' = "lookup" /\ server' = p
  <2>1. /\ ~Misread(u) => a = Meant(u)
        /\ Misread(u) => \A x : a.host # <<x>>
    BY <1>5, <1>8
  <2>2. server'.hostname = a.host /\ server'.port = a.port
    BY <1>8
  <2>3. LookupAsked'
    BY <1>3, <1>8, <2>1, <2>2 DEF LookupAsked
  <2> QED
    BY <1>3, <1>8, <2>3 DEF TextInv, NotCachedYet, ReachesMeantServer, StrandedOnlyWithReason,
                            CrashOnlyWithoutAddress
<1> QED
  BY <1>4, <1>6, <1>7, <1>8

(* A response is read: its address is the one that was asked for, and       *)
(* without one there is an excuse or a record that stopped the parser.     *)
LEMMA StepResponseRead ==
    ASSUME TextInv, phase = "lookup",
           NEW m \in ResponsesTo(HostBytes(server.hostname)), ResponseRead(m)
    PROVE  TextInv'
<1> DEFINE u == request.uri
           h == u.host
           name == HostBytes(server.hostname)
           d == DomainNameIpv4Addr(m)
<1>1. /\ request \in Requests /\ request' = request /\ response' = m
      /\ server = [hostname |-> server.hostname, port |-> server.port, hostip |-> None]
      /\ ~Misread(u) => server.hostname = Meant(u).host /\ server.port = Meant(u).port
      /\ Misread(u) => \A x : server.hostname # <<x>>
      /\ cached = <<>>
  BY DEF TextInv, LookupAsked, NotCachedYet, ResponseRead
<1>2. h \in Hosts
  BY <1>1 DEF Requests, Uris
<1>3. ~Misread(u) => server.hostname = <<h>>
  BY <1>1 DEF Meant
<1>4. Misread(u) => Meaning(name) = {}
  BY <1>1, StrangeMeaning
<1>5. ~Misread(u) => /\ Meaning(name) \subseteq {h}
                     /\ Meaning(name) # {} => HostName(PacketName(name)) = Spelling[h]
                     /\ h \in Resolvable /\ ProperName(Spelling[h]) => h \in Meaning(name)
  BY <1>2, <1>3, MeaningIs
<1>6. /\ d = "address" => m.answers[LoopEnd(m)].ADDR \in Meaning(name)
      /\ d = "undefined" => Meaning(name) = {}
      /\ d = "none" => \/ Meaning(name) = {}
                       \/ m.answers # <<>> /\ m.answers[LoopEnd(m)].form = "mixed"
  BY ResponseParsed
<1>7. \/ d = "none" /\ phase' = "stranded"
      \/ d = "undefined" /\ phase' = "crashed"
      \/ /\ d = "address" /\ phase' = "connecting"
         /\ server' = [server EXCEPT !.hostip = m.answers[LoopEnd(m)].ADDR]
         /\ cached' = HostName(PacketName(name))
  BY DEF ResponseRead
<1> HIDE DEF d, name
<1>8. Meaning(name) = {} => Excused'
  BY <1>1, <1>4, <1>5 DEF Excused
<1>9. CASE d = "none" /\ phase' = "stranded"
  BY <1>1, <1>6, <1>8, <1>9 DEF TextInv, LookupAsked, NotCachedYet, ReachesMeantServer,
     StrandedOnlyWithReason, CrashOnlyWithoutAddress
<1>10. CASE d = "undefined" /\ phase' = "crashed"
  BY <1>6, <1>8, <1>10 DEF TextInv, LookupAsked, NotCachedYet, ReachesMeantServer,
     StrandedOnlyWithReason, CrashOnlyWithoutAddress
<1>11. CASE /\ d = "address" /\ phase' = "connecting"
            /\ server' = [server EXCEPT !.hostip = m.answers[LoopEnd(m)].ADDR]
            /\ cached' = HostName(PacketName(name))
  <2> DEFINE x == m.answers[LoopEnd(m)].ADDR
  <2>1. x \in Meaning(name)
    BY <1>6, <1>11
  <2> HIDE DEF x
  <2>2. ~Misread(u) /\ x = h /\ HostName(PacketName(name)) = Spelling[h]
    BY <1>4, <1>5, <2>1
  <2>3. /\ server'.hostname = server.hostname /\ server'.port = server.port
        /\ server'.hostip = x
    <3>1. server' = [[hostname |-> server.hostname, port |-> server.port, hostip |-> None]
                       EXCEPT !.hostip = x]
      BY <1>1, <1>11 DEF x
    <3> QED
      BY <3>1
  <2>4. ReachesMeantServer'
    BY <1>1, <1>11, <2>2, <2>3 DEF ReachesMeantServer
  <2> QED
    BY <1>11, <2>4 DEF TextInv, LookupAsked, NotCachedYet, StrandedOnlyWithReason,
                       CrashOnlyWithoutAddress
<1> QED
  BY <1>7, <1>9, <1>10, <1>11

(* Nothing is asked and nothing connected at first. *)
LEMMA TextInvInit == SessionInit => TextInv
BY DEF SessionInit, TextInv, LookupAsked, NotCachedYet, ReachesMeantServer,
       StrandedOnlyWithReason, CrashOnlyWithoutAddress

(* Each step keeps the invariant of texts: one lemma for each that reads a  *)
(* text, the others leave for a phase of which it does not speak.          *)
LEMMA TextInvStep == TextInv /\ [SessionNext]_<<vars, session>> => TextInv'
<1> SUFFICES ASSUME TextInv, [SessionNext]_<<vars, session>> PROVE TextInv'
  OBVIOUS
<1>1. ASSUME NEW r \in Requests, RequestRead(r) PROVE TextInv'
  BY <1>1, StepRequestRead
<1>2. ASSUME phase = "lookup", NEW m \in ResponsesTo(HostBytes(server.hostname)), ResponseRead(m)
      PROVE  TextInv'
  BY <1>2, StepResponseRead
<1>3. ASSUME LookupTimeout PROVE TextInv'
  BY <1>3, OtherPhases DEF LookupTimeout, Closing
<1>4. ASSUME Connected PROVE TextInv'
  BY <1>4, OtherPhases DEF Connected, Closing
<1>5. ASSUME UNCHANGED session PROVE TextInv'
  BY <1>5 DEF session, TextInv, LookupAsked, NotCachedYet, ReachesMeantServer,
     StrandedOnlyWithReason, CrashOnlyWithoutAddress, Excused
<1> QED
  BY <1>1, <1>2, <1>3, <1>4, <1>5 DEF SessionNext, Relay

(* So it holds in every session. *)
LEMMA TextInvHolds == SessionSpec => []TextInv
BY TextInvInit, TextInvStep, PTL DEF SessionSpec

(* The server that is connected to is the one the URI names, whatever its   *)
(* form and whatever else is in the response, and a result is cached under *)
(* the name it is looked up with (pop_http_header.c, GetHostIpPostFromURI; *)
(* pop_domain_parse.c, DomainNameIpv4Addr).                                *)
THEOREM MeantServerReached == SessionSpec => []ReachesMeantServer
<1>1. TextInv => ReachesMeantServer
  BY DEF TextInv
<1> QED
  BY <1>1, TextInvHolds, PTL

(* A pair is left without an address and without a timer                    *)
(* (pop_domain_parse.c:560) only if the name has no address, cannot be     *)
(* asked for or was misread, or a record could not be parsed.              *)
THEOREM StrandedWithReason == SessionSpec => []StrandedOnlyWithReason
<1>1. TextInv => StrandedOnlyWithReason
  BY DEF TextInv
<1> QED
  BY <1>1, TextInvHolds, PTL

(* Memory beyond the last record is looked at (pop_domain_parse.c:488)     *)
(* only if the name has no address, cannot be asked for or was misread.    *)
THEOREM CrashWithoutAddress == SessionSpec => []CrashOnlyWithoutAddress
<1>1. TextInv => CrashOnlyWithoutAddress
  BY DEF TextInv
<1> QED
  BY <1>1, TextInvHolds, PTL

-----------------------------------------------------------------------------
(* The bytes of a session: those of ByteRelay, which starts when the        *)
(* server is connected.                                                    *)

NotRelayedYet == phase \notin {"relay", "closed"} => Init /\ Started(0)

SessionInv == Inv /\ NotRelayedYet

(* What a step of the session is for ByteRelay: its start, a step or none.  *)
LEMMA SessionStep ==
    ASSUME SessionInv, [SessionNext]_<<vars, session>>
    PROVE  /\ \/ Init' /\ Init /\ taken = 0 /\ taken' \in {0, 1} /\ phase' = "relay"
              \/ Next /\ phase' \in {"relay", "closed"}
              \/ UNCHANGED vars /\ (phase' = phase \/ phase \notin {"relay", "closed"})
           /\ Inv /\ ~aborted
<1>1. Inv /\ ~aborted
  BY DEF SessionInv, Inv, NeverAborts
<1>2. ASSUME Closing, phase \notin {"relay", "closed"}
      PROVE  Next /\ phase' \in {"relay", "closed"}
  <2>1. pc = "loop" /\ errno = "none" /\ open = TRUE
    BY <1>2 DEF SessionInv, NotRelayedYet, Init
  <2>2. OtherCallback
    BY <1>2, <2>1 DEF Closing, OtherCallback
  <2> QED
    BY <1>1, <1>2, <2>2 DEF Next, Closing
<1>3. ASSUME NEW r \in Requests, RequestRead(r)
      PROVE  \/ Next /\ phase' \in {"relay", "closed"}
             \/ UNCHANGED vars /\ phase \notin {"relay", "closed"}
  <2>1. phase = "idle" /\ (Closing \/ UNCHANGED vars)
    BY <1>3 DEF RequestRead
  <2> QED
    BY <1>2, <2>1
<1>4. ASSUME phase = "lookup", NEW m, ResponseRead(m)
      PROVE  UNCHANGED vars /\ phase \notin {"relay", "closed"}
  BY <1>4 DEF ResponseRead
<1>5. ASSUME LookupTimeout PROVE Next /\ phase' \in {"relay", "closed"}
  BY <1>2, <1>5 DEF LookupTimeout
<1>6. ASSUME Connected
      PROVE  \/ Init' /\ Init /\ taken = 0 /\ taken' \in {0, 1} /\ phase' = "relay"
             \/ Next /\ phase' \in {"relay", "closed"}
  <2>1. phase = "connecting"
    BY <1>6 DEF Connected
  <2>2. CASE Closing
    BY <1>2, <2>1, <2>2
  <2>3. CASE \E n \in {0, 1} : phase' = "relay" /\ Relaying(n)
    <3>1. PICK n \in {0, 1} : phase' = "relay" /\ Relaying(n)
      BY <2>3
    <3>2. Init /\ Started(0)
      BY <2>1 DEF SessionInv, NotRelayedYet
    <3>3. Started(n)' /\ taken = 0 /\ taken' \in {0, 1}
      BY <3>1, <3>2 DEF Relaying, Started
    <3>4. n \in 0 .. Minimum(Bytes, BufferSize)
      BY SessionAssumption, ByteRelayAssumption DEF Minimum
    <3>5. Init'
      BY <3>1, <3>2, <3>3, <3>4 DEF Relaying, Init, thread
    <3> QED
      BY <3>1, <3>2, <3>3, <3>5
  <2> QED
    BY <1>6, <2>2, <2>3 DEF Connected
<1>7. ASSUME Relay PROVE Next /\ phase' \in {"relay", "closed"}
  BY <1>7 DEF Relay, session
<1>8. ASSUME UNCHANGED <<vars, session>> PROVE UNCHANGED vars /\ phase' = phase
  BY <1>8 DEF session
<1> QED
  BY <1>1, <1>3, <1>4, <1>5, <1>6, <1>7, <1>8 DEF SessionNext

(* The invariant of ByteRelay is one of the session. *)
LEMMA SessionInvHolds == SessionSpec => []SessionInv
<1>1. SessionInit => SessionInv
  BY InitInv DEF SessionInit, SessionInv, NotRelayedYet
<1>2. Init' => Inv'
  BY InitInv, PTL
<1>3. SessionInv /\ [SessionNext]_<<vars, session>> => SessionInv'
  <2> SUFFICES ASSUME SessionInv, [SessionNext]_<<vars, session>> PROVE SessionInv'
    OBVIOUS
  <2>1. CASE Init' /\ phase' = "relay"
    BY <1>2, <2>1 DEF SessionInv, NotRelayedYet
  <2>2. CASE Next /\ phase' \in {"relay", "closed"}
    <3>1. Inv'
      BY <2>2, StepKeeps DEF SessionInv
    <3> QED
      BY <2>2, <3>1 DEF SessionInv, NotRelayedYet
  <2>3. CASE UNCHANGED vars /\ (phase' = phase \/ phase \notin {"relay", "closed"})
    <3>1. Inv'
      BY <2>3, StepKeeps DEF SessionInv
    <3>2. Init /\ Started(0) => Init' /\ Started(0)'
      BY <2>3 DEF vars, kernel, thread, events, Init, Started
    <3> QED
      BY <2>3, <3>1, <3>2 DEF SessionInv, NotRelayedYet
  <2> QED
    BY <2>1, <2>2, <2>3, SessionStep
<1> QED
  BY <1>1, <1>3, PTL DEF SessionSpec

(* From the text of a request on, no assertion fails, bytes stay in order   *)
(* and sockets stay watched, for the direction that a session follows.     *)
THEOREM SessionBytesRight ==
    SessionSpec => [](TypeOK /\ NeverAborts /\ BytesInOrder /\ SocketsWatched)
<1>1. SessionInv => TypeOK /\ NeverAborts /\ BytesInOrder /\ SocketsWatched
  BY DEF SessionInv, Inv, SocketsWatched, SourceArmed, DestinationArmed
<1> QED
  BY <1>1, SessionInvHolds, PTL

(* And what it does with them is a channel: the request is taken, and       *)
(* everything else is a step of the relay.                                 *)
THEOREM SessionIsChannel == SessionSpec => ImplementsChannel
<1>1. SessionInit => C!Init
  BY ByteRelayAssumption DEF SessionInit, Init, Started, C!Init
<1>2. SessionInv /\ [SessionNext]_<<vars, session>> => [C!Next]_(C!vars)
  <2> SUFFICES ASSUME SessionInv, [SessionNext]_<<vars, session>> PROVE [C!Next]_(C!vars)
    OBVIOUS
  <2>1. CASE Init' /\ Init /\ taken = 0 /\ taken' \in {0, 1}
    <3>1. output' = output /\ open /\ open' = open
      BY <2>1 DEF Init
    <3>2. 1 \in 0 + 1 .. Bytes
      BY ByteRelayAssumption, SessionAssumption
    <3>3. taken' = taken \/ C!Take
      BY <2>1, <3>1, <3>2 DEF C!Take
    <3> QED
      BY <3>1, <3>3 DEF C!Next, C!vars
  <2>2. CASE [Next]_vars
    BY <2>2, StepKeeps DEF SessionInv
  <2> QED
    BY <2>1, <2>2, SessionStep
<1> QED
  BY <1>1, <1>2, SessionInvHolds, PTL DEF SessionSpec, ImplementsChannel, C!Spec

=============================================================================
