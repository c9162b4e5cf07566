---------------------------- MODULE ProxyStatusProofs ----------------------------
(***************************************************************************)
(* Theorems about what a peer's status, its timers and events, its queue   *)
(* of infos and its fifo have to do with each other and with those of its  *)
(* partner.  As for the pairing, a client does not send a second request   *)
(* while its server is Idle (Pipelining is FALSE).                         *)
(***************************************************************************)
EXTENDS ProxyProofs, FiniteSetTheorems

-----------------------------------------------------------------------------
(* Queues and fifos: what is in them.                                      *)

InSeq(s, x) == \E i \in DOMAIN s : s[i] = x

Queued(r, info) == InSeq(r.info, info)
Holds(r, pkt) == InSeq(r.write_fifo, pkt)

(* Append adds one element. *)
LEMMA InAppend ==
    ASSUME NEW S, NEW s \in Seq(S), NEW x \in S, NEW y
    PROVE  InSeq(Append(s, x), y) <=> InSeq(s, y) \/ y = x
<1> DEFINE t == Append(s, x)
<1>1. /\ DOMAIN s = 1 .. Len(s) /\ Len(s) \in Nat
      /\ DOMAIN t = 1 .. Len(s) + 1
      /\ t[Len(s) + 1] = x
      /\ \A i \in 1 .. Len(s) : t[i] = s[i]
  OBVIOUS
<1> HIDE DEF t
<1>2. \A i \in DOMAIN t : i \in DOMAIN s \/ i = Len(s) + 1
  BY <1>1
<1>3. \A i \in DOMAIN s : i \in DOMAIN t
  BY <1>1
<1>4. Len(s) + 1 \in DOMAIN t
  BY <1>1
<1>5. ASSUME InSeq(t, y) PROVE InSeq(s, y) \/ y = x
  BY <1>1, <1>2, <1>5 DEF InSeq
<1>6. ASSUME InSeq(s, y) PROVE InSeq(t, y)
  BY <1>1, <1>3, <1>6 DEF InSeq
<1>7. ASSUME y = x PROVE InSeq(t, y)
  BY <1>1, <1>4, <1>7 DEF InSeq
<1> QED
  BY <1>5, <1>6, <1>7 DEF t

(* What is left of a sequence after its first n elements was in it, and    *)
(* every element was among the first n or is left.                         *)
LEMMA InRest ==
    ASSUME NEW S, NEW s \in Seq(S), NEW n \in 0 .. Len(s), NEW y
    PROVE  LET t == SubSeq(s, n + 1, Len(s))
           IN  /\ t \in Seq(S)
               /\ InSeq(t, y) => InSeq(s, y)
               /\ InSeq(s, y) => InSeq(t, y) \/ \E i \in 1 .. n : s[i] = y
<1> DEFINE t == SubSeq(s, n + 1, Len(s))
<1>1. /\ DOMAIN s = 1 .. Len(s) /\ Len(s) \in Nat /\ n \in Nat /\ n <= Len(s)
      /\ t \in Seq(S) /\ Len(t) = Len(s) - n
      /\ \A i \in 1 .. Len(s) - n : t[i] = s[n + i]
  OBVIOUS
<1>2. DOMAIN t = 1 .. Len(s) - n
  <2> HIDE DEF t
  <2>1. DOMAIN t = 1 .. Len(t)
    BY <1>1
  <2> QED
    BY ONLY <1>1, <2>1
<1> HIDE DEF t
<1>3. ASSUME NEW i \in DOMAIN t PROVE n + i \in DOMAIN s /\ t[i] = s[n + i]
  BY <1>1, <1>2
<1>4. ASSUME NEW i \in DOMAIN s, i > n PROVE i - n \in DOMAIN t /\ t[i - n] = s[i]
  <2>1. i \in Nat /\ i - n \in 1 .. Len(s) - n /\ n + (i - n) = i
    BY <1>1, <1>4
  <2> QED
    BY <1>1, <1>2, <2>1
<1>5. InSeq(t, y) => InSeq(s, y)
  BY <1>3 DEF InSeq
<1>6. ASSUME NEW i \in DOMAIN s, s[i] = y
      PROVE  InSeq(t, y) \/ \E k \in 1 .. n : s[k] = y
  <2>1. CASE i > n
    BY <1>4, <1>6, <2>1 DEF InSeq
  <2>2. CASE ~(i > n)
    BY <1>1, <1>6, <2>2
  <2> QED
    BY <2>1, <2>2
<1> QED
  BY <1>1, <1>5, <1>6 DEF t, InSeq

(* The queue that a close leaves behind. *)
LEMMA OnlyBreak == ~InSeq(<<"BREAK">>, "SUCCESS") /\ ~InSeq(<<"BREAK">>, "ERROR")
BY DEF InSeq

(* Nothing is in an empty queue or fifo. *)
LEMMA InNothing == \A x : ~InSeq(<<>>, x)
BY DEF InSeq

-----------------------------------------------------------------------------
(* The invariant of one record.  Its parts say more than the properties do: *)
(* why an info can be in a queue, and what was true when it was queued.     *)

(* Clients use the server's state machine only, servers the client's. *)
Kind(r) ==
    /\ r.type \in {"client", "server"}
    /\ r.type = "client" => r.client_status = "Idle" /\ ~r.if_tunnel /\ ~r.t_DnsWaitAck
    /\ r.type = "server" => r.server_status = "Idle" /\ ~Holds(r, "estab")

(* StatusHasHandles, for one record. *)
Watched(r) ==
    /\ (r.client_status = "Connect") <=> (r.t_event = "check")
    /\ (r.client_status = "Connect") <=> r.t_connecting
    /\ (r.t_event \in {"read", "rw"}) <=> \/ r.client_status = "Establish"
                                          \/ r.server_status = "Established"
    /\ r.sockfd <=> r.t_event # "off"

(* An info is in the queue only while what it tells of is still so: BREAK  *)
(* stays true, as a closed peer is never paired again; a peer with ERROR    *)
(* never gets as far as the list.                                          *)
InfosFit(r) ==
    /\ Queued(r, "SUCCESS") => r.client_status = "Establish"
    /\ Queued(r, "BREAK") => r.paired_peer = NoPeer /\ r.server_status = "Idle"
    /\ Queued(r, "ERROR") => r.client_status = "Idle" /\ ~r.listed /\ ~r.t_DnsWaitAck

(* A waiter has not been started yet, and a paired client is connected. *)
StatusFits(r) ==
    /\ r.client_status = "Establish" => r.listed
    /\ r.t_DnsWaitAck => r.client_status = "Idle" /\ ~r.listed
    /\ r.type = "client" /\ r.paired_peer # NoPeer => r.server_status = "Established"

(* Packets of an established connection are watched, or will be when        *)
(* SUCCESS is dealt with; a tunnel has none until it is up.                 *)
FifoFits(r) ==
    /\ r.client_status = "Establish" /\ r.write_fifo # <<>> =>
         \/ r.t_event = "rw"
         \/ r.t_info_deal /\ Queued(r, "SUCCESS") /\ ~r.if_tunnel
    /\ r.if_tunnel /\ (r.client_status = "Connect" \/ r.t_DnsWaitAck) => r.write_fifo = <<>>
    /\ r.server_status = "Established" /\ Holds(r, "server") => r.t_event = "rw"

Fits(r) == Kind(r) /\ Watched(r) /\ InfosFit(r) /\ StatusFits(r) /\ FifoFits(r)

(* A client's socket is watched for writing only after its server's         *)
(* connection is up, and then its packets are, from SUCCESS on.             *)
Lone(c) == c.t_event # "rw"

Together(c, s) ==
    /\ c.t_event = "rw" => s.client_status = "Establish"
    /\ s.client_status = "Establish" /\ s.if_tunnel /\ Holds(c, "estab") =>
         c.t_event = "rw" \/ (s.t_info_deal /\ Queued(s, "SUCCESS"))

Pairs(f) ==
    \A c \in Peers : f[c].alive /\ f[c].type = "client" =>
        IF f[c].paired_peer = NoPeer THEN Lone(f[c])
                                     ELSE Together(f[c], f[f[c].paired_peer])

Good(f) == Sound(f) /\ (\A r \in Peers : f[r].alive => Fits(f[r])) /\ Pairs(f)

-----------------------------------------------------------------------------
(* Steps on the records. *)

(* The partner of a client is a server, and the other way round. *)
LEMMA PartnerType ==
    ASSUME NEW f, Sound(f), NEW p \in Peers, f[p].paired_peer # NoPeer
    PROVE  /\ f[p].type \in {"client", "server"}
           /\ f[p].type = "client" <=> f[f[p].paired_peer].type = "server"
           /\ f[p].type = "server" <=> f[f[p].paired_peer].type = "client"
BY DEF Sound, Mutual

(* The record of p may change, but not whose half it is and of which pair. *)
Changed(f, p, g) ==
    /\ g \in PeerFun
    /\ g[p].alive = f[p].alive /\ g[p].type = f[p].type
    /\ g[p].paired_peer = f[p].paired_peer
    /\ \A r \in Peers \ {p} : g[r] = f[r]

(* A touch is such a change. *)
LEMMA TouchedChanged ==
    ASSUME NEW f, NEW p \in Peers, NEW g, Touched(f, p, g)
    PROVE  Changed(f, p, g)
BY DEF Touched, Alike, Changed

(* It keeps the pairing sound. *)
LEMMA ChangedSound ==
    ASSUME NEW f, Sound(f), NEW p \in Peers, f[p].alive, NEW g, Changed(f, p, g)
    PROVE  Sound(g) /\ g[p].alive
<1>1. \A r \in Peers : g[r].type = f[r].type /\ g[r].paired_peer = f[r].paired_peer
  BY DEF Changed
<1>2. \A r \in Peers : f[r].paired_peer # NoPeer => f[r].paired_peer \in Peers
  BY DEF Sound, PeerFun, PeerRec, PeerOrNull
<1>3. Mutual(g)
  BY <1>1, <1>2 DEF Sound, Mutual
<1>4. Freed(g) /\ g[p].alive /\ g \in PeerFun
  BY DEF Sound, Freed, Changed
<1> QED
  BY <1>3, <1>4 DEF Sound

(* One record may be replaced by another that fits, and fits its partner.  *)
LEMMA ChangedGood ==
    ASSUME NEW f, Good(f), NEW p \in Peers, f[p].alive, NEW g, Changed(f, p, g),
           Fits(g[p]),
           f[p].type = "client" /\ f[p].paired_peer = NoPeer => Lone(g[p]),
           f[p].type = "client" /\ f[p].paired_peer # NoPeer
             => Together(g[p], f[f[p].paired_peer]),
           f[p].type = "server" /\ f[p].paired_peer # NoPeer
             => Together(f[f[p].paired_peer], g[p])
    PROVE  Good(g)
<1>1. Sound(f) /\ Sound(g)
  BY ChangedSound DEF Good
<1>2. \A r \in Peers : /\ g[r].alive = f[r].alive /\ g[r].type = f[r].type
                       /\ g[r].paired_peer = f[r].paired_peer
  BY DEF Changed
<1>3. ASSUME NEW r \in Peers, g[r].alive PROVE Fits(g[r])
  BY <1>2, <1>3 DEF Good, Changed
<1>4. ASSUME NEW c \in Peers, g[c].alive, g[c].type = "client", g[c].paired_peer = NoPeer
      PROVE  Lone(g[c])
  <2>1. f[c].alive /\ f[c].type = "client" /\ f[c].paired_peer = NoPeer
    BY <1>2, <1>4
  <2>2. CASE c = p
    BY <2>1, <2>2
  <2>3. CASE c # p
    BY <2>1, <2>3 DEF Good, Pairs, Changed
  <2> QED
    BY <2>2, <2>3
<1>5. ASSUME NEW c \in Peers, g[c].alive, g[c].type = "client", g[c].paired_peer # NoPeer
      PROVE  Together(g[c], g[g[c].paired_peer])
  <2> DEFINE s == f[c].paired_peer
  <2>1. f[c].alive /\ f[c].type = "client" /\ s # NoPeer /\ g[c].paired_peer = s
    BY <1>2, <1>5
  <2>2. s \in Peers /\ s # c /\ f[s].paired_peer = c
    BY <1>1, <2>1, PartnerIs
  <2>3. f[s].type = "server"
    BY <1>1, <2>1, PartnerType
  <2>4. Together(f[c], f[s])
    BY <2>1 DEF Good, Pairs
  <2>5. c # NoPeer
    BY ProxyAssumption
  <2> HIDE DEF s
  <2>6. CASE c = p
    <3>1. g[s] = f[s]
      BY <2>2, <2>6 DEF Changed
    <3> QED
      BY <2>1, <2>6, <3>1 DEF s
  <2>7. CASE s = p
    <3>1. g[c] = f[c]
      BY <2>2, <2>7 DEF Changed
    <3> QED
      BY <2>1, <2>2, <2>3, <2>5, <2>7, <3>1
  <2>8. CASE c # p /\ s # p
    <3>1. g[c] = f[c] /\ g[s] = f[s]
      BY <2>2, <2>8 DEF Changed
    <3> QED
      BY <2>1, <2>4, <3>1
  <2> QED
    BY <2>6, <2>7, <2>8
<1> QED
  BY <1>1, <1>3, <1>4, <1>5 DEF Good, Pairs

(* The same for a touch. *)
LEMMA TouchedGood ==
    ASSUME NEW f, Good(f), NEW p \in Peers, f[p].alive, NEW g, Touched(f, p, g),
           Fits(g[p]),
           f[p].type = "client" /\ f[p].paired_peer = NoPeer => Lone(g[p]),
           f[p].type = "client" /\ f[p].paired_peer # NoPeer
             => Together(g[p], f[f[p].paired_peer]),
           f[p].type = "server" /\ f[p].paired_peer # NoPeer
             => Together(f[f[p].paired_peer], g[p])
    PROVE  Good(g)
<1>1. Changed(f, p, g)
  BY TouchedChanged
<1> QED
  BY <1>1, ChangedGood

-----------------------------------------------------------------------------
(* What the functions of the code make of one record.                      *)

(* Queueing an info adds it to the queue. *)
LEMMA AddedQueue ==
    ASSUME NEW r \in PeerRec, NEW info \in Infos
    PROVE  LET v == Added(r, info) IN
           /\ v = [r EXCEPT !.info = v.info, !.t_info_deal = TRUE]
           /\ \A x : Queued(v, x) <=> Queued(r, x) \/ x = info
<1> DEFINE v == Added(r, info)
<1>1. r.info \in Seq(Infos)
  BY DEF PeerRec
<1>2. v.info = Append(r.info, info) /\ v = [r EXCEPT !.info = v.info, !.t_info_deal = TRUE]
  BY DEF Added, PeerRec
<1>3. \A x : InSeq(Append(r.info, info), x) <=> InSeq(r.info, x) \/ x = info
  BY <1>1, InAppend
<1> HIDE DEF v
<1> QED
  BY <1>2, <1>3 DEF Queued, v

(* Queueing an info whose meaning is true of the record. *)
LEMMA AddedFits ==
    ASSUME NEW r \in PeerRec, Fits(r), NEW info \in Infos,
           info = "SUCCESS" => r.client_status = "Establish",
           info = "BREAK" => r.paired_peer = NoPeer /\ r.server_status = "Idle",
           info = "ERROR" => r.client_status = "Idle" /\ ~r.listed /\ ~r.t_DnsWaitAck
    PROVE  Fits(Added(r, info))
<1> DEFINE v == Added(r, info)
<1>1. /\ v = [r EXCEPT !.info = v.info, !.t_info_deal = TRUE]
      /\ \A x : Queued(v, x) <=> Queued(r, x) \/ x = info
  BY AddedQueue
<1> HIDE DEF v
<1>2. /\ v.t_info_deal /\ v.t_connecting = r.t_connecting /\ v.listed = r.listed
      /\ v.t_event = r.t_event /\ v.client_status = r.client_status
      /\ v.type = r.type /\ v.server_status = r.server_status /\ v.sockfd = r.sockfd
      /\ v.paired_peer = r.paired_peer /\ v.t_DnsWaitAck = r.t_DnsWaitAck
      /\ v.if_tunnel = r.if_tunnel /\ v.write_fifo = r.write_fifo
  BY <1>1 DEF PeerRec
<1>3. Kind(v) /\ Watched(v) /\ StatusFits(v)
  BY ONLY <1>2, Fits(r) DEF Fits, Kind, Watched, StatusFits, Holds
<1>4. InfosFit(v)
  BY <1>1, <1>2 DEF Fits, InfosFit
<1>5. FifoFits(v)
  BY ONLY <1>1, <1>2, Fits(r) DEF Fits, FifoFits, Holds
<1> QED
  BY <1>3, <1>4, <1>5 DEF Fits, v

(* A peer that may be started: Idle, and not waiting any more. *)
Startable(r) ==
    /\ Fits(r) /\ r.type = "server" /\ r.client_status = "Idle"
    /\ ~r.listed /\ ~r.t_DnsWaitAck /\ ~Queued(r, "ERROR")
    /\ r.if_tunnel => r.write_fifo = <<>>

(* connect() is in progress. *)
Started(r) ==
    [r EXCEPT !.sockfd = TRUE, !.t_event = "check", !.t_connecting = TRUE,
              !.client_status = "Connect"]

(* A peer that may be started fits when connect() is in progress. *)
LEMMA StartedFits ==
    ASSUME NEW r \in PeerRec, Startable(r)
    PROVE  Fits(Started(r)) /\ Started(r).client_status = "Connect"
<1> DEFINE v == Started(r)
<1>1. v = [r EXCEPT !.sockfd = TRUE, !.t_event = "check", !.t_connecting = TRUE,
                    !.client_status = "Connect"]
  BY DEF Started
<1> HIDE DEF v
<1>2. Kind(v) /\ Watched(v) /\ StatusFits(v)
  BY <1>1 DEF Startable, Fits, Kind, Watched, StatusFits, Holds, PeerRec
<1>3. InfosFit(v)
  BY <1>1 DEF Startable, Fits, InfosFit, Queued, PeerRec
<1>4. FifoFits(v)
  BY <1>1 DEF Startable, Fits, Kind, FifoFits, Holds, PeerRec
<1> QED
  BY <1>1, <1>2, <1>3, <1>4 DEF Fits, v, PeerRec

(* connect() failed at once: nothing but the ERROR in the queue. *)
LEMMA StartFailedFits ==
    ASSUME NEW r \in PeerRec, Startable(r)
    PROVE  /\ [r EXCEPT !.sockfd = FALSE] = r
           /\ Fits(Added(r, "ERROR"))
<1>1. ~r.sockfd
  BY DEF Startable, Fits, Kind, Watched, PeerRec, TEvents
<1>2. [r EXCEPT !.sockfd = FALSE] = r
  BY <1>1 DEF PeerRec
<1>3. "ERROR" \in Infos
  BY DEF Infos
<1> QED
  BY <1>2, <1>3, AddedFits DEF Startable

(* The connection is up. *)
Up(r) ==
    [r EXCEPT !.t_connecting = FALSE, !.listed = TRUE, !.t_event = "read",
              !.client_status = "Establish"]

(* A connecting peer fits when it is established and SUCCESS is queued. *)
LEMMA UpFits ==
    ASSUME NEW r \in PeerRec, Fits(r), r.client_status = "Connect"
    PROVE  /\ Fits(Added(Up(r), "SUCCESS"))
           /\ Added(Up(r), "SUCCESS").client_status = "Establish"
           /\ Added(Up(r), "SUCCESS").t_info_deal
           /\ Queued(Added(Up(r), "SUCCESS"), "SUCCESS")
<1> DEFINE u == Up(r)
           v == Added(u, "SUCCESS")
<1>1. u \in PeerRec
  BY DEF Up, PeerRec, TEvents, ClientStatus
<1>2. u = [r EXCEPT !.t_connecting = FALSE, !.listed = TRUE, !.t_event = "read",
                    !.client_status = "Establish"]
  BY DEF Up
<1> HIDE DEF u
<1>3. /\ v = [u EXCEPT !.info = v.info, !.t_info_deal = TRUE]
      /\ \A x : Queued(v, x) <=> Queued(u, x) \/ x = "SUCCESS"
  BY <1>1, AddedQueue DEF Infos
<1> HIDE DEF v
<1>4. /\ v.info = v.info /\ v.t_info_deal /\ ~v.t_connecting /\ v.listed
      /\ v.t_event = "read" /\ v.client_status = "Establish"
      /\ v.type = r.type /\ v.server_status = r.server_status /\ v.sockfd = r.sockfd
      /\ v.paired_peer = r.paired_peer /\ v.t_DnsWaitAck = r.t_DnsWaitAck
      /\ v.if_tunnel = r.if_tunnel /\ v.write_fifo = r.write_fifo
      /\ u.info = r.info
  <2>1. /\ u.info = r.info /\ ~u.t_connecting /\ u.listed
        /\ u.t_event = "read" /\ u.client_status = "Establish"
        /\ u.type = r.type /\ u.server_status = r.server_status /\ u.sockfd = r.sockfd
        /\ u.paired_peer = r.paired_peer /\ u.t_DnsWaitAck = r.t_DnsWaitAck
        /\ u.if_tunnel = r.if_tunnel /\ u.write_fifo = r.write_fifo
    BY <1>2 DEF PeerRec
  <2>2. /\ v.t_info_deal /\ v.t_connecting = u.t_connecting /\ v.listed = u.listed
        /\ v.t_event = u.t_event /\ v.client_status = u.client_status
        /\ v.type = u.type /\ v.server_status = u.server_status /\ v.sockfd = u.sockfd
        /\ v.paired_peer = u.paired_peer /\ v.t_DnsWaitAck = u.t_DnsWaitAck
        /\ v.if_tunnel = u.if_tunnel /\ v.write_fifo = u.write_fifo
    BY ONLY <1>1, <1>3 DEF PeerRec
  <2> QED
    BY ONLY <2>1, <2>2
<1>5. Kind(v) /\ Watched(v) /\ StatusFits(v)
  BY <1>4 DEF Fits, Kind, Watched, StatusFits, Holds
<1>6. InfosFit(v)
  BY <1>3, <1>4 DEF Fits, InfosFit, Queued
<1>7. FifoFits(v)
  BY <1>3, <1>4 DEF Fits, Kind, FifoFits, Holds
<1> QED
  BY <1>3, <1>4, <1>5, <1>6, <1>7 DEF Fits, v, u

(* What a record needs in order to fit when it is closed. *)
Closable(r) ==
    /\ Kind(r)
    /\ r.t_DnsWaitAck => ~r.listed
    /\ r.if_tunnel /\ r.t_DnsWaitAck => r.write_fifo = <<>>

(* A record that fits can be closed. *)
LEMMA FitsClosable == ASSUME NEW r, Fits(r) PROVE Closable(r)
BY DEF Fits, StatusFits, FifoFits, Closable

(* A closed record fits, and keeps nothing but its fifo. *)
LEMMA ClosedFits ==
    ASSUME NEW r \in PeerRec, Closable(r)
    PROVE  /\ Fits(ClosedByType(r)) /\ Lone(ClosedByType(r))
           /\ ~ClosedByType(r).sockfd
           /\ ClosedByType(r).write_fifo = r.write_fifo
<1> DEFINE v == ClosedByType(r)
<1>1. /\ v.type = r.type /\ v.paired_peer = NoPeer /\ ~v.t_connecting /\ v.t_event = "off"
      /\ ~v.sockfd /\ v.info = <<"BREAK">> /\ v.t_info_deal
      /\ v.listed = r.listed /\ v.if_tunnel = r.if_tunnel /\ v.write_fifo = r.write_fifo
      /\ v.client_status = IF r.type = "server" THEN "Idle" ELSE r.client_status
      /\ v.server_status = IF r.type = "server" THEN r.server_status ELSE "Idle"
      /\ v.t_DnsWaitAck => r.t_DnsWaitAck
  BY DEF ClosedByType, Stopped, ServerClosed, Closed, PeerRec
<1> HIDE DEF v
<1>2. Kind(v) /\ Watched(v) /\ StatusFits(v) /\ FifoFits(v)
  BY <1>1 DEF Closable, Kind, Watched, StatusFits, FifoFits, Holds
<1>3. InfosFit(v)
  BY <1>1, OnlyBreak DEF Closable, Kind, InfosFit, Queued
<1> QED
  BY <1>1, <1>2, <1>3 DEF Fits, Lone, v

(* Writing leaves s in the fifo, and asks for writability if that is       *)
(* anything.                                                               *)
Written(r, s) ==
    [r EXCEPT !.write_fifo = s, !.t_event = IF s = <<>> THEN "read" ELSE "rw"]

(* An established peer fits whatever is left in its fifo. *)
LEMMA WrittenFits ==
    ASSUME NEW r \in PeerRec, Fits(r), NEW s \in Seq(Packets),
           r.client_status = "Establish" \/ r.server_status = "Established",
           r.type = "server" => ~InSeq(s, "estab")
    PROVE  /\ Fits(Written(r, s)) /\ Written(r, s).write_fifo = s
           /\ Written(r, s).t_event = "rw" <=> s # <<>>
           /\ Written(r, s).sockfd = r.sockfd
           /\ Written(r, s).client_status = r.client_status
           /\ Written(r, s).if_tunnel = r.if_tunnel
           /\ Written(r, s).t_info_deal = r.t_info_deal
           /\ Written(r, s).info = r.info
<1> DEFINE v == Written(r, s)
<1>1. /\ v.t_event \in {"read", "rw"} /\ v.write_fifo = s
      /\ v.t_event = "rw" <=> s # <<>>
      /\ v.type = r.type /\ v.server_status = r.server_status /\ v.sockfd = r.sockfd
      /\ v.paired_peer = r.paired_peer /\ v.t_DnsWaitAck = r.t_DnsWaitAck
      /\ v.if_tunnel = r.if_tunnel /\ v.info = r.info /\ v.t_info_deal = r.t_info_deal
      /\ v.t_connecting = r.t_connecting /\ v.listed = r.listed
      /\ v.client_status = r.client_status
  BY DEF Written, PeerRec
<1> HIDE DEF v
<1>2. Kind(v)
  BY <1>1 DEF Fits, Kind, Holds
<1>3. Watched(v)
  BY <1>1 DEF Fits, Watched
<1>4. InfosFit(v) /\ StatusFits(v)
  BY <1>1 DEF Fits, InfosFit, StatusFits, Queued
<1>5. FifoFits(v)
  BY <1>1, InNothing DEF Fits, Kind, Watched, StatusFits, FifoFits, Holds
<1> QED
  BY <1>1, <1>2, <1>3, <1>4, <1>5 DEF Fits, v

(* Adding a packet to a fifo. *)
Pushed(r, pkt) == [r EXCEPT !.write_fifo = Append(@, pkt)]

(* What is in a fifo after a packet was added. *)
LEMMA PushedHolds ==
    ASSUME NEW r \in PeerRec, NEW pkt \in Packets
    PROVE  /\ Pushed(r, pkt) \in PeerRec
           /\ Pushed(r, pkt).write_fifo = Append(r.write_fifo, pkt)
           /\ \A x : Holds(Pushed(r, pkt), x) <=> Holds(r, x) \/ x = pkt
<1>1. r.write_fifo \in Seq(Packets)
  BY DEF PeerRec
<1>2. Append(r.write_fifo, pkt) \in Seq(Packets)
  BY <1>1
<1>3. Pushed(r, pkt) \in PeerRec /\ Pushed(r, pkt).write_fifo = Append(r.write_fifo, pkt)
  BY <1>2 DEF Pushed, PeerRec
<1>4. \A x : InSeq(Append(r.write_fifo, pkt), x) <=> InSeq(r.write_fifo, x) \/ x = pkt
  BY <1>1, InAppend
<1> QED
  BY <1>3, <1>4 DEF Holds

(* A packet may be kept by a client that gets no "server" packet with it,  *)
(* or by a server that is no tunnel and not yet established.               *)
LEMMA PushedFits ==
    ASSUME NEW r \in PeerRec, Fits(r), NEW pkt \in Packets, pkt # "server",
           r.type = "server" => pkt # "estab" /\ r.client_status # "Establish" /\ ~r.if_tunnel
    PROVE  Fits(Pushed(r, pkt))
<1> DEFINE v == Pushed(r, pkt)
<1>1. /\ v.write_fifo = Append(r.write_fifo, pkt)
      /\ \A x : Holds(v, x) <=> Holds(r, x) \/ x = pkt
  BY PushedHolds
<1>2. v = [r EXCEPT !.write_fifo = v.write_fifo]
  BY <1>1 DEF Pushed
<1> HIDE DEF v
<1>3. Kind(v) /\ Watched(v) /\ StatusFits(v)
  BY <1>1, <1>2 DEF Fits, Kind, Watched, StatusFits, PeerRec
<1>4. InfosFit(v)
  BY <1>2 DEF Fits, InfosFit, Queued, PeerRec
<1>5. FifoFits(v)
  BY <1>1, <1>2 DEF Fits, Kind, FifoFits, PeerRec
<1> QED
  BY <1>3, <1>4, <1>5 DEF Fits, v

(* Asking for writability. *)
Woken(r) == [r EXCEPT !.t_event = "rw"]

(* An established peer may ask for writability. *)
LEMMA WokenFits ==
    ASSUME NEW r \in PeerRec, Fits(r),
           r.client_status = "Establish" \/ r.server_status = "Established"
    PROVE  Fits(Woken(r))
<1> DEFINE v == Woken(r)
<1>1. /\ v.t_event = "rw" /\ v.write_fifo = r.write_fifo
      /\ v.type = r.type /\ v.server_status = r.server_status /\ v.sockfd = r.sockfd
      /\ v.paired_peer = r.paired_peer /\ v.t_DnsWaitAck = r.t_DnsWaitAck
      /\ v.if_tunnel = r.if_tunnel /\ v.info = r.info /\ v.t_info_deal = r.t_info_deal
      /\ v.t_connecting = r.t_connecting /\ v.listed = r.listed
      /\ v.client_status = r.client_status
  BY DEF Woken, PeerRec
<1> HIDE DEF v
<1>2. Kind(v) /\ Watched(v)
  BY <1>1 DEF Fits, Kind, Watched, Holds
<1>3. InfosFit(v) /\ StatusFits(v)
  BY <1>1 DEF Fits, InfosFit, StatusFits, Queued
<1>4. FifoFits(v)
  BY <1>1 DEF Fits, FifoFits, StatusFits
<1> QED
  BY <1>2, <1>3, <1>4 DEF Fits, v

(* The queue after some infos were dealt with, and the timer with it.      *)
Dealt(r, q, t) == [r EXCEPT !.info = q, !.t_info_deal = t]

(* Fewer infos, if SUCCESS is not lost before it was dealt with: either no *)
(* packet needs it, or it is still queued with the timer set.              *)
LEMMA DealtFits ==
    ASSUME NEW r \in PeerRec, Fits(r), NEW q \in Seq(Infos), NEW t \in BOOLEAN,
           \A x : InSeq(q, x) => Queued(r, x),
           \/ r.client_status # "Establish" \/ r.write_fifo = <<>>
           \/ r.t_event = "rw" \/ r.if_tunnel
           \/ Queued(r, "SUCCESS") => t /\ InSeq(q, "SUCCESS")
    PROVE  Fits(Dealt(r, q, t))
<1> DEFINE v == Dealt(r, q, t)
<1>1. /\ v.info = q /\ v.t_info_deal = t
      /\ v.t_event = r.t_event /\ v.write_fifo = r.write_fifo
      /\ v.type = r.type /\ v.server_status = r.server_status /\ v.sockfd = r.sockfd
      /\ v.paired_peer = r.paired_peer /\ v.t_DnsWaitAck = r.t_DnsWaitAck
      /\ v.if_tunnel = r.if_tunnel
      /\ v.t_connecting = r.t_connecting /\ v.listed = r.listed
      /\ v.client_status = r.client_status
  BY DEF Dealt, PeerRec
<1> HIDE DEF v
<1>2. Kind(v) /\ Watched(v) /\ StatusFits(v)
  BY <1>1 DEF Fits, Kind, Watched, StatusFits, Holds
<1>3. InfosFit(v)
  BY <1>1 DEF Fits, InfosFit, Queued
<1>4. FifoFits(v)
  BY <1>1 DEF Fits, FifoFits, Queued, Holds
<1> QED
  BY <1>2, <1>3, <1>4 DEF Fits, v

(* The wait is over, by an answer or the timeout. *)
LEMMA WaitOverFits ==
    ASSUME NEW r \in PeerRec, Fits(r), r.t_DnsWaitAck
    PROVE  LET v == [r EXCEPT !.t_DnsWaitAck = FALSE] IN
           /\ v \in PeerRec /\ Startable(v)
           /\ v.t_event = r.t_event /\ v.sockfd = r.sockfd /\ v.write_fifo = r.write_fifo
<1> DEFINE v == [r EXCEPT !.t_DnsWaitAck = FALSE]
<1>1. v \in PeerRec
  BY FieldTypes
<1>2. /\ ~v.t_DnsWaitAck /\ v.info = r.info /\ v.t_info_deal = r.t_info_deal
      /\ v.t_event = r.t_event /\ v.write_fifo = r.write_fifo
      /\ v.type = r.type /\ v.server_status = r.server_status /\ v.sockfd = r.sockfd
      /\ v.paired_peer = r.paired_peer
      /\ v.if_tunnel = r.if_tunnel
      /\ v.t_connecting = r.t_connecting /\ v.listed = r.listed
      /\ v.client_status = r.client_status
  BY DEF PeerRec
<1> HIDE DEF v
<1>3. Kind(v) /\ Watched(v) /\ StatusFits(v)
  BY <1>2 DEF Fits, Kind, Watched, StatusFits, Holds
<1>4. InfosFit(v)
  BY <1>2 DEF Fits, InfosFit, Queued
<1>5. FifoFits(v)
  BY <1>2 DEF Fits, FifoFits, Queued, Holds
<1>6. v.type = "server" /\ v.client_status = "Idle" /\ ~v.listed /\ ~Queued(v, "ERROR")
  BY <1>2 DEF Fits, Kind, StatusFits, InfosFit, Queued
<1>7. v.if_tunnel => v.write_fifo = <<>>
  BY <1>2 DEF Fits, FifoFits
<1> QED
  BY <1>1, <1>2, <1>3, <1>4, <1>5, <1>6, <1>7 DEF Fits, Startable, v

-----------------------------------------------------------------------------
(* What the callbacks are composed of keeps the peers good.                *)

(* The record of a live peer fits. *)
LEMMA GoodFits ==
    ASSUME NEW f, Good(f), NEW p \in Peers, f[p].alive
    PROVE  f \in PeerFun /\ f[p] \in PeerRec /\ Fits(f[p])
BY DEF Good, Sound, PeerFun

(* A client and its server are together. *)
LEMMA ServerPair ==
    ASSUME NEW f, Good(f), NEW s \in Peers, f[s].paired_peer # NoPeer, f[s].type = "server"
    PROVE  LET c == f[s].paired_peer
           IN  /\ c \in Peers /\ f[c].alive /\ f[c].type = "client"
               /\ f[c].paired_peer = s
               /\ Together(f[c], f[s])
<1> DEFINE c == f[s].paired_peer
<1>1. Sound(f)
  BY DEF Good
<1>2. c \in Peers /\ f[c].alive /\ f[c].paired_peer = s
  BY <1>1, PartnerIs
<1>3. f[c].type = "client"
  BY <1>1, PartnerType
<1>4. s # NoPeer
  BY ProxyAssumption
<1> HIDE DEF c
<1>5. Together(f[c], f[s])
  BY <1>2, <1>3, <1>4 DEF Good, Pairs
<1> QED
  BY <1>2, <1>3, <1>5 DEF c

(* The same, from the client. *)
LEMMA ClientPair ==
    ASSUME NEW f, Good(f), NEW c \in Peers, f[c].alive, f[c].type = "client"
    PROVE  /\ f[c].paired_peer = NoPeer => Lone(f[c])
           /\ f[c].paired_peer # NoPeer =>
                LET s == f[c].paired_peer
                IN  /\ s \in Peers /\ s # c /\ f[s].alive /\ f[s].type = "server"
                    /\ f[s].paired_peer = c
                    /\ Together(f[c], f[s])
<1> DEFINE s == f[c].paired_peer
<1>1. Sound(f)
  BY DEF Good
<1>2. CASE s = NoPeer
  BY <1>2 DEF Good, Pairs
<1>3. CASE s # NoPeer
  <2>1. s \in Peers /\ s # c /\ f[s].alive /\ f[s].paired_peer = c
    BY <1>1, <1>3, PartnerIs
  <2>2. f[s].type = "server"
    BY <1>1, <1>3, PartnerType
  <2>3. Together(f[c], f[s])
    BY <1>3 DEF Good, Pairs
  <2> QED
    BY <1>3, <2>1, <2>2, <2>3
<1> QED
  BY <1>2, <1>3

(* Nothing is closed, and nothing is taken from a fifo. *)
Longer(s, t) == \A i \in DOMAIN s : i \in DOMAIN t /\ t[i] = s[i]

Quiet(f, g) ==
    \A r \in Peers : /\ f[r].sockfd => g[r].sockfd
                     /\ Longer(f[r].write_fifo, g[r].write_fifo)

(* Steps that are quiet one after the other are quiet together. *)
LEMMA QuietTwice ==
    ASSUME NEW f, NEW g, NEW h, Quiet(f, g), Quiet(g, h)
    PROVE  Quiet(f, h)
BY DEF Quiet, Longer

(* A touch is quiet if it is on the record touched. *)
LEMMA TouchedQuiet ==
    ASSUME NEW f, NEW g, NEW p \in Peers, Touched(f, p, g),
           f[p].sockfd => g[p].sockfd, Longer(f[p].write_fifo, g[p].write_fifo)
    PROVE  Quiet(f, g)
BY DEF Touched, Quiet, Longer

(* A fifo is at least as long as itself, and shorter than with one more     *)
(* packet.                                                                 *)
LEMMA LongerSame == \A s : Longer(s, s)
BY DEF Longer

(* Append takes nothing away. *)
LEMMA LongerAppend == ASSUME NEW S, NEW s \in Seq(S), NEW x PROVE Longer(s, Append(s, x))
BY DEF Longer

(* The event "start" of a peer that may be started. *)
LEMMA StartGood ==
    ASSUME NEW f, Good(f), NEW p \in Peers, f[p].alive, Startable(f[p]),
           NEW connecting \in BOOLEAN
    PROVE  Good(start_event(f, p, connecting)) /\ Quiet(f, start_event(f, p, connecting))
<1> DEFINE r == f[p]
           g == start_event(f, p, connecting)
<1>1. f \in PeerFun /\ r \in PeerRec
  BY GoodFits
<1>2. Touched(f, p, g)
  BY <1>1, StartEventIs
<1>3. r.client_status = "Idle" /\ r.type = "server"
  BY DEF Startable
<1>4. g = pop_tcp_client_start(f, p, connecting)
  BY <1>3 DEF start_event
<1>5. CASE connecting
  <2>1. g[p] = Started(r)
    BY <1>1, <1>4, <1>5 DEF pop_tcp_client_start, Started, PeerFun
  <2>2. Fits(g[p]) /\ g[p].client_status = "Connect"
    BY <1>1, <2>1, StartedFits
  <2>3. g[p].sockfd /\ g[p].write_fifo = r.write_fifo
    BY <1>1, <2>1 DEF Started, PeerRec
  <2> HIDE DEF g
  <2>4. r.paired_peer # NoPeer => Together(f[r.paired_peer], g[p])
    BY <1>3, <2>2, ServerPair DEF Together
  <2>5. Good(g)
    BY <1>2, <1>3, <2>2, <2>4, TouchedGood
  <2> QED
    BY <1>2, <2>3, <2>5, TouchedQuiet, LongerSame DEF g
<1>6. CASE ~connecting
  <2>1. Fits(Added(r, "ERROR")) /\ [r EXCEPT !.sockfd = FALSE] = r
    BY <1>1, StartFailedFits
  <2>2. [f EXCEPT ![p].sockfd = FALSE] = f
    BY <1>1, <2>1 DEF PeerFun
  <2>3. g = event_add(f, p, "ERROR")
    BY <1>4, <1>6, <2>2 DEF pop_tcp_client_start
  <2>4. g[p] = Added(r, "ERROR")
    <3>1. "ERROR" \in Infos
      BY DEF Infos
    <3>2. Replaced(f, p, Added(r, "ERROR"), event_add(f, p, "ERROR"))
      BY <1>1, <3>1, EventAddIs
    <3> HIDE DEF g
    <3> QED
      BY <2>3, <3>2 DEF Replaced
  <2>5. Fits(g[p])
    BY <2>1, <2>4
  <2>6. /\ g[p].sockfd = r.sockfd /\ g[p].write_fifo = r.write_fifo
        /\ g[p].client_status = "Idle"
    BY <1>1, <1>3, <2>4 DEF Added, PeerRec
  <2> HIDE DEF g
  <2>7. r.paired_peer # NoPeer => Together(f[r.paired_peer], g[p])
    BY <1>3, <2>6, ServerPair DEF Together
  <2>8. Good(g)
    BY <1>2, <1>3, <2>5, <2>7, TouchedGood
  <2> QED
    BY <1>2, <2>6, <2>8, TouchedQuiet, LongerSame DEF g
<1> QED
  BY <1>5, <1>6

(* The event "success" of a connecting peer. *)
LEMMA UpGood ==
    ASSUME NEW f, Good(f), NEW p \in Peers, f[p].alive, f[p].client_status = "Connect"
    PROVE  Good(success_event(f, p)) /\ Quiet(f, success_event(f, p))
<1> DEFINE r == f[p]
           v == Up(r)
           g == success_event(f, p)
<1>1. f \in PeerFun /\ r \in PeerRec /\ Fits(r)
  BY GoodFits
<1>2. Touched(f, p, g)
  BY <1>1, SuccessEventIs
<1>3. v \in PeerRec
  BY <1>1 DEF Up, PeerRec, TEvents, ClientStatus
<1>4. g = event_add([f EXCEPT ![p] = v], p, "SUCCESS")
  BY <1>1 DEF success_event, pop_tcp_client_establish, PeerFun, Up
<1>5. v.sockfd = r.sockfd /\ v.write_fifo = r.write_fifo
  BY <1>1 DEF Up, PeerRec
<1> HIDE DEF v
<1>6. [f EXCEPT ![p] = v] \in PeerFun /\ [f EXCEPT ![p] = v][p] = v
  BY <1>1, <1>3 DEF PeerFun
<1>7. g[p] = Added(v, "SUCCESS")
  <2> DEFINE e == [f EXCEPT ![p] = v]
  <2>1. "SUCCESS" \in Infos
    BY DEF Infos
  <2>2. g = event_add(e, p, "SUCCESS") /\ e \in PeerFun /\ e[p] = v
    BY <1>4, <1>6
  <2> HIDE DEF e, g
  <2>3. Replaced(e, p, Added(e[p], "SUCCESS"), event_add(e, p, "SUCCESS"))
    BY <2>1, <2>2, EventAddIs
  <2> QED
    BY <2>2, <2>3 DEF Replaced
<1>8. /\ Fits(g[p]) /\ g[p].client_status = "Establish"
      /\ g[p].t_info_deal /\ Queued(g[p], "SUCCESS")
  BY <1>1, <1>7, UpFits DEF v
<1>9. g[p].sockfd = r.sockfd /\ g[p].write_fifo = r.write_fifo
  BY <1>3, <1>5, <1>7 DEF Added, PeerRec
<1>10. r.type = "server"
  BY <1>1 DEF Fits, Kind
<1> HIDE DEF g
<1>11. r.paired_peer # NoPeer => Together(f[r.paired_peer], g[p])
  BY <1>8 DEF Together
<1>12. Good(g)
  BY <1>2, <1>8, <1>10, <1>11, TouchedGood
<1> QED
  BY <1>2, <1>9, <1>12, TouchedQuiet, LongerSame DEF g

-----------------------------------------------------------------------------
(* What one callback may do, beside keeping the peers good.                *)

(* A socket is closed together with those of the peers paired with it. *)
ClosedTogether(f, h) ==
    \A p, q \in Peers :
        f[p].sockfd /\ ~h[p].sockfd /\ f[q].paired_peer = p => ~h[q].sockfd

(* Nothing leaves the fifo of a live peer that holds the answer to CONNECT, *)
(* unless its server's connection is established.                          *)
AnswersKept(f, h) ==
    \A c \in Peers : h[c].alive =>
        \/ Longer(f[c].write_fifo, h[c].write_fifo)
        \/ ~Holds(f[c], "estab")
        \/ f[c].paired_peer # NoPeer /\ f[f[c].paired_peer].client_status = "Establish"

Step(f, h) == Good(h) /\ ClosedTogether(f, h) /\ AnswersKept(f, h)

(* A quiet step closes nothing and keeps everything. *)
LEMMA QuietStep ==
    ASSUME NEW f, NEW h, Good(h), Quiet(f, h)
    PROVE  Step(f, h)
BY DEF Quiet, Step, ClosedTogether, AnswersKept

(* No fifo becomes shorter. *)
FifosKept(f, h) == \A r \in Peers : Longer(f[r].write_fifo, h[r].write_fifo)

(* Closing a pair, one half of which was only touched since the peers were *)
(* good.                                                                   *)
LEMMA CloseStep ==
    ASSUME NEW f, Good(f), NEW p \in Peers, f[p].alive,
           NEW g, Changed(f, p, g), Closable(g[p]),
           Longer(f[p].write_fifo, g[p].write_fifo)
    PROVE  /\ Step(f, pop_tcp_close_paired_peer(g, p))
           /\ FifosKept(f, pop_tcp_close_paired_peer(g, p))
<1> DEFINE q == f[p].paired_peer
           h == pop_tcp_close_paired_peer(g, p)
           Half(r) == r = p \/ r = q
<1>1. Sound(f) /\ Sound(g) /\ g[p].alive
  BY ChangedSound DEF Good
<1>2. /\ g[p].paired_peer = q /\ \A r \in Peers \ {p} : g[r] = f[r]
      /\ \A r \in Peers : g[r] \in PeerRec
  BY <1>1 DEF Changed, Sound, PeerFun
<1>3. PairClosed(g, p, h)
  BY <1>1, ClosePairIs
<1>4. Sound(h)
  BY <1>1, ClosePairSound
<1> HIDE DEF h
<1>5. \A r \in Peers : h[r] = IF Half(r) THEN ClosedByType(g[r]) ELSE f[r]
  BY <1>2, <1>3 DEF PairClosed
<1>6. q # NoPeer => q \in Peers /\ q # p /\ f[q].alive /\ f[q].paired_peer = p
  BY <1>1, PartnerIs
<1>7. ASSUME NEW r \in Peers, Half(r)
      PROVE  Closable(g[r])
  <2>1. CASE r = p
    BY <2>1
  <2>2. CASE r # p
    <3>1. g[r] = f[r] /\ f[r].alive
      BY <1>2, <1>6, <1>7, <2>2, ProxyAssumption
    <3> QED
      BY <3>1, GoodFits, FitsClosable
  <2> QED
    BY <2>1, <2>2
<1>8. ASSUME NEW r \in Peers, Half(r)
      PROVE  /\ Fits(h[r]) /\ Lone(h[r]) /\ ~h[r].sockfd /\ h[r].paired_peer = NoPeer
             /\ h[r].write_fifo = g[r].write_fifo
  <2> HIDE DEF q
  <2>1. h[r] = ClosedByType(g[r]) /\ g[r] \in PeerRec
    BY <1>2, <1>5, <1>8
  <2> QED
    BY <1>7, <1>8, <2>1, ClosedFits, ClosedByTypeKeeps
<1> HIDE DEF q
<1>9. \A r \in Peers : h[r].alive => Fits(h[r])
  BY <1>5, <1>8, GoodFits
<1>10. ASSUME NEW c \in Peers, h[c].alive, h[c].type = "client", h[c].paired_peer = NoPeer
       PROVE  Lone(h[c])
  <2>1. CASE Half(c)
    BY <1>8, <2>1
  <2>2. CASE ~Half(c)
    <3>1. h[c] = f[c]
      BY <1>5, <2>2
    <3> QED
      BY <1>10, <3>1, ClientPair
  <2> QED
    BY <2>1, <2>2
<1>11. ASSUME NEW c \in Peers, h[c].alive, h[c].type = "client", h[c].paired_peer # NoPeer
       PROVE  Together(h[c], h[h[c].paired_peer])
  <2> DEFINE s == f[c].paired_peer
  <2>1. ~Half(c)
    BY <1>8, <1>11
  <2>2. h[c] = f[c]
    BY <1>5, <2>1
  <2>3. s \in Peers /\ f[s].paired_peer = c /\ Together(f[c], f[s])
    BY <1>11, <2>2, ClientPair
  <2> HIDE DEF s
  <2>4. ~Half(s)
    BY <1>6, <2>1, <2>3, ProxyAssumption DEF q
  <2>5. h[s] = f[s]
    BY <1>5, <2>3, <2>4
  <2> QED
    BY <2>2, <2>3, <2>5 DEF s
<1>12. Good(h)
  BY <1>4, <1>9, <1>10, <1>11 DEF Good, Pairs
<1>13. ASSUME NEW a \in Peers, NEW b \in Peers,
              f[a].sockfd, ~h[a].sockfd, f[b].paired_peer = a
       PROVE  ~h[b].sockfd
  <2>1. Half(a)
    BY <1>5, <1>13
  <2>2. f[a].paired_peer = b
    BY <1>1, <1>13, PartnerIs, ProxyAssumption
  <2>3. Half(b)
    <3>1. CASE a = p
      BY <2>2, <3>1 DEF q
    <3>2. CASE a = q
      BY <1>6, <2>2, <3>2, ProxyAssumption
    <3> QED
      BY <2>1, <3>1, <3>2
  <2> QED
    BY <1>8, <2>3
<1>14. ASSUME NEW c \in Peers
       PROVE  Longer(f[c].write_fifo, h[c].write_fifo)
  <2>1. Longer(f[c].write_fifo, g[c].write_fifo)
    BY <1>2, LongerSame
  <2>2. h[c].write_fifo = g[c].write_fifo \/ h[c].write_fifo = f[c].write_fifo
    BY <1>5, <1>8
  <2> QED
    BY <2>1, <2>2, LongerSame
<1> QED
  BY <1>12, <1>13, <1>14 DEF Step, ClosedTogether, AnswersKept, FifosKept, h

(* Closing a pair that was not touched before. *)
LEMMA CloseGood ==
    ASSUME NEW f, Good(f), NEW p \in Peers, f[p].alive
    PROVE  /\ Step(f, pop_tcp_close_paired_peer(f, p))
           /\ FifosKept(f, pop_tcp_close_paired_peer(f, p))
<1>1. f \in PeerFun /\ Closable(f[p])
  BY GoodFits, FitsClosable
<1>2. Changed(f, p, f)
  BY <1>1, TouchedSelf, TouchedChanged
<1> QED
  BY <1>1, <1>2, LongerSame, CloseStep

(* Touching a peer twice is touching it. *)
LEMMA TouchedTwice ==
    ASSUME NEW f, NEW g, NEW h, NEW p \in Peers, Touched(f, p, g), Touched(g, p, h)
    PROVE  Touched(f, p, h)
BY DEF Touched, Alike

(* A touch that closes nothing and keeps the answer to CONNECT. *)
LEMMA TouchedStep ==
    ASSUME NEW f, NEW p \in Peers, NEW g, Touched(f, p, g), Good(g),
           f[p].sockfd => g[p].sockfd,
           \/ Longer(f[p].write_fifo, g[p].write_fifo)
           \/ ~Holds(f[p], "estab")
           \/ f[p].paired_peer # NoPeer /\ f[f[p].paired_peer].client_status = "Establish"
    PROVE  Step(f, g)
<1>1. \A r \in Peers : f[r].sockfd => g[r].sockfd
  BY DEF Touched
<1>2. ClosedTogether(f, g)
  BY <1>1 DEF ClosedTogether
<1>3. ASSUME NEW c \in Peers
      PROVE  \/ Longer(f[c].write_fifo, g[c].write_fifo)
             \/ ~Holds(f[c], "estab")
             \/ f[c].paired_peer # NoPeer /\ f[f[c].paired_peer].client_status = "Establish"
  <2>1. CASE c = p
    BY <2>1
  <2>2. CASE c # p
    BY <2>2, LongerSame DEF Touched
  <2> QED
    BY <2>1, <2>2
<1>4. AnswersKept(f, g)
  BY <1>3 DEF AnswersKept
<1> QED
  BY <1>2, <1>4 DEF Step

(* A peer whose packets may go out: its own connection is up, and if it is *)
(* a client, so is its server's.                                           *)
Flowing(f, p) ==
    /\ f[p].alive
    /\ f[p].client_status = "Establish" \/ f[p].server_status = "Established"
    /\ f[p].type = "client" => /\ f[p].paired_peer # NoPeer
                               /\ f[f[p].paired_peer].client_status = "Establish"

(* Some packets go out, whatever was put into the fifo before. *)
LEMMA WrittenStep ==
    ASSUME NEW f, Good(f), NEW p \in Peers, Flowing(f, p),
           NEW s \in Seq(Packets), f[p].type = "server" => ~InSeq(s, "estab"),
           NEW h, Touched(f, p, h), h[p] = Written(f[p], s)
    PROVE  Step(f, h)
<1> DEFINE r == f[p]
           v == Written(r, s)
           q == r.paired_peer
<1>1. r \in PeerRec /\ Fits(r) /\ r.type \in {"client", "server"}
  BY GoodFits DEF Flowing, Fits, Kind
<1>2. /\ Fits(v) /\ v.write_fifo = s
      /\ v.t_event = "rw" <=> s # <<>>
      /\ v.sockfd = r.sockfd /\ v.client_status = r.client_status
      /\ v.if_tunnel = r.if_tunnel /\ v.t_info_deal = r.t_info_deal /\ v.info = r.info
  BY <1>1, WrittenFits DEF Flowing
<1> HIDE DEF v
<1>3. h[p] = v
  BY DEF v
<1>4. ASSUME r.type = "client"
      PROVE  q # NoPeer /\ Together(v, f[q])
  <2>1. q # NoPeer /\ f[q].client_status = "Establish"
    BY <1>4 DEF Flowing
  <2>2. Holds(v, "estab") => v.t_event = "rw"
    BY <1>2, InNothing DEF Holds
  <2> QED
    BY <2>1, <2>2 DEF Together
<1>5. ASSUME r.type = "server", q # NoPeer
      PROVE  Together(f[q], v)
  <2>1. Together(f[q], r)
    BY <1>5, ServerPair
  <2> QED
    BY <1>2, <2>1 DEF Together, Queued
<1>6. Good(h)
  BY <1>2, <1>3, <1>4, <1>5, TouchedGood DEF Flowing
<1>7. \/ ~Holds(r, "estab")
      \/ q # NoPeer /\ f[q].client_status = "Establish"
  BY <1>1 DEF Flowing, Fits, Kind
<1> QED
  BY <1>2, <1>3, <1>6, <1>7, TouchedStep

(* Every outcome of writing, with a packet put into the fifo just before or *)
(* with none.                                                              *)
LEMMA WriteOutcomesStep ==
    ASSUME NEW f, Good(f), NEW p \in Peers, Flowing(f, p),
           NEW g, \/ g = f
                  \/ \E pkt \in {"client", "server"} : g = push(f, p, pkt),
           NEW h \in WriteOutcomes(g, p)
    PROVE  Step(f, h)
<1> DEFINE r == f[p]
<1>1. f \in PeerFun /\ r \in PeerRec /\ Fits(r) /\ r.alive
  BY GoodFits DEF Flowing
<1>2. r.write_fifo \in Seq(Packets)
  BY <1>1 DEF PeerRec
<1>3. /\ Touched(f, p, g) /\ Longer(r.write_fifo, g[p].write_fifo)
      /\ Closable(g[p])
      /\ \A s : Written(g[p], s) = Written(r, s)
      /\ r.type = "server" => ~Holds(g[p], "estab")
  <2>1. CASE g = f
    <3>1. Closable(r) /\ (r.type = "server" => ~Holds(r, "estab"))
      BY <1>1, FitsClosable DEF Closable, Kind
    <3> QED
      BY <1>1, <2>1, <3>1, TouchedSelf, LongerSame
  <2>2. ASSUME NEW pkt \in {"client", "server"}, g = push(f, p, pkt)
        PROVE  /\ Touched(f, p, g) /\ Longer(r.write_fifo, g[p].write_fifo)
               /\ Closable(g[p])
               /\ \A s : Written(g[p], s) = Written(r, s)
               /\ r.type = "server" => ~Holds(g[p], "estab")
    <3>1. pkt \in Packets
      BY DEF Packets
    <3>2. Touched(f, p, g)
      BY <1>1, <2>2, <3>1, PushIs
    <3>3. g[p] = Pushed(r, pkt)
      BY <1>1, <2>2 DEF push, Pushed, PeerFun
    <3>4. /\ g[p].write_fifo = Append(r.write_fifo, pkt)
          /\ \A x : Holds(g[p], x) <=> Holds(r, x) \/ x = pkt
      BY <1>1, <3>1, <3>3, PushedHolds
    <3>5. Longer(r.write_fifo, g[p].write_fifo)
      BY <1>2, <3>4, LongerAppend
    <3>6. r.type = "server" => ~Holds(g[p], "estab")
      BY <1>1, <3>4 DEF Fits, Kind
    <3>7. \A s : Written(g[p], s) = Written(r, s)
      BY <1>1, <3>3 DEF Written, Pushed, PeerRec
    <3>8. Closable(g[p])
      <4>1. /\ g[p].type = r.type /\ g[p].client_status = r.client_status
            /\ g[p].server_status = r.server_status /\ g[p].if_tunnel = r.if_tunnel
            /\ g[p].t_DnsWaitAck = r.t_DnsWaitAck /\ g[p].listed = r.listed
        BY <1>1, <3>3 DEF Pushed, PeerRec
      <4>2. ~r.t_DnsWaitAck
        BY <1>1 DEF Flowing, Fits, Kind, StatusFits
      <4> HIDE DEF r
      <4> QED
        BY <1>1, <3>6, <4>1, <4>2 DEF Closable, Fits, Kind
    <3> QED
      BY <3>2, <3>5, <3>6, <3>7, <3>8
  <2> QED
    BY <2>1, <2>2
<1>4. CASE h = pop_tcp_close_paired_peer(g, p)
  <2>1. Changed(f, p, g)
    BY <1>3, TouchedChanged
  <2> QED
    BY <1>1, <1>3, <1>4, <2>1, CloseStep
<1>5. ASSUME NEW n \in 0 .. Len(g[p].write_fifo), h = tcp_write(g, p, n)
      PROVE  Step(f, h)
  <2> DEFINE t == g[p].write_fifo
             s == SubSeq(t, n + 1, Len(t))
  <2>1. g \in PeerFun
    BY <1>3 DEF Touched
  <2>2. t \in Seq(Packets)
    BY <2>1 DEF PeerFun, PeerRec
  <2>3. Touched(g, p, h)
    BY <1>5, <2>1, WriteIs
  <2>4. Touched(f, p, h)
    BY <1>3, <2>3, TouchedTwice
  <2>5. h[p] = Written(g[p], s)
    BY <1>5, <2>1 DEF tcp_write, Written, PeerFun
  <2> HIDE DEF t
  <2>6. s \in Seq(Packets) /\ (InSeq(s, "estab") => InSeq(t, "estab"))
    BY <1>5, <2>2, InRest DEF t
  <2> HIDE DEF s
  <2>7. r.type = "server" => ~InSeq(s, "estab")
    BY <1>3, <2>6 DEF Holds, t
  <2>8. h[p] = Written(r, s)
    BY <1>3, <2>5
  <2> QED
    BY <2>4, <2>6, <2>7, <2>8, WrittenStep
<1> QED
  BY <1>4, <1>5 DEF WriteOutcomes

(* A new peer in a free slot. *)
LEMMA NewSlotGood ==
    ASSUME NEW f, Good(f), NEW p \in Peers, ~f[p].alive,
           NEW g \in PeerFun, g[p].alive, Fits(g[p]), Lone(g[p]), g[p].paired_peer = NoPeer,
           \A r \in Peers \ {p} : g[r] = f[r]
    PROVE  Good(g) /\ Quiet(f, g)
<1>1. Sound(f) /\ Sound(g) /\ f[p] = FreeSlot
  BY NewSlotSound DEF Good, Sound, Freed
<1>2. \A r \in Peers : g[r].alive => Fits(g[r])
  BY GoodFits
<1>3. ASSUME NEW c \in Peers, g[c].alive, g[c].type = "client", c # p
      PROVE  IF g[c].paired_peer = NoPeer THEN Lone(g[c])
                                          ELSE Together(g[c], g[g[c].paired_peer])
  <2> DEFINE s == f[c].paired_peer
  <2>1. g[c] = f[c]
    BY <1>3
  <2>2. CASE s = NoPeer
    BY <1>3, <2>1, <2>2, ClientPair
  <2>3. CASE s # NoPeer
    <3>1. s \in Peers /\ f[s].alive /\ Together(f[c], f[s])
      BY <1>3, <2>1, <2>3, ClientPair
    <3> HIDE DEF s
    <3>2. g[s] = f[s]
      BY <3>1
    <3> QED
      BY <2>1, <2>3, <3>1, <3>2 DEF s
  <2> QED
    BY <2>2, <2>3
<1>4. Pairs(g)
  BY <1>3 DEF Pairs
<1>5. ~FreeSlot.sockfd /\ DOMAIN FreeSlot.write_fifo = {}
  BY DEF FreeSlot, pop_peer_new
<1>6. Quiet(f, g)
  BY <1>1, <1>5, LongerSame DEF Quiet, Longer
<1> QED
  BY <1>1, <1>2, <1>4, <1>6 DEF Good

(* A client that may send a request has no server, and its connection is   *)
(* up.                                                                     *)
LEMMA RequesterIs ==
    ASSUME Good(peer), ~Pipelining, NEW c \in Peers, RequestPossible(c)
    PROVE  /\ peer[c].alive /\ peer[c].type = "client" /\ peer[c].paired_peer = NoPeer
           /\ peer[c].server_status = "Established" /\ Lone(peer[c])
<1>1. peer[c].alive /\ peer[c].type = "client" /\ peer[c].paired_peer = NoPeer
  BY DEF RequestPossible, Readable
<1>2. Fits(peer[c])
  BY <1>1, GoodFits
<1>3. peer[c].server_status = "Established"
  BY <1>1, <1>2 DEF RequestPossible, Readable, Fits, Kind, Watched
<1> QED
  BY <1>1, <1>3, ClientPair

(* The two records of a new pair. *)
LEMMA PairMadeRecords ==
    ASSUME peer \in PeerFun, NEW c \in Peers, NEW s \in Peers, c # s, NEW tunnel \in BOOLEAN
    PROVE  LET g == PairMade(c, s, tunnel)
               n == NewServer(c, tunnel)
               r == [peer[c] EXCEPT !.paired_peer = s]
           IN  /\ n \in PeerRec /\ r \in PeerRec
               /\ g[s] = IF tunnel THEN n ELSE Pushed(n, "client")
               /\ g[c] = IF tunnel THEN Pushed(r, "estab") ELSE r
<1> DEFINE n == NewServer(c, tunnel)
           m == [pop_peer_new EXCEPT !.type = "server", !.if_tunnel = tunnel]
           r == [peer[c] EXCEPT !.paired_peer = s]
           e == [peer EXCEPT ![s] = m]
           f == pop_peers_paired(e, s, c)
           g == PairMade(c, s, tunnel)
<1>1. m \in PeerRec /\ peer[c] \in PeerRec /\ s \in PeerOrNull /\ c \in PeerOrNull
  BY NewPeerType DEF PeerRec, PeerFun, PeerOrNull
<1>2. n = [m EXCEPT !.paired_peer = c]
  BY DEF NewServer, pop_peer_new
<1> HIDE DEF m
<1>3. e \in PeerFun /\ e[s] = m /\ e[c] = peer[c]
  BY <1>1 DEF PeerFun
<1>4. g = IF tunnel THEN push(f, c, "estab") ELSE push(f, s, "client")
  BY DEF PairMade, m
<1> HIDE DEF e
<1>5. f \in PeerFun /\ f[s] = [e[s] EXCEPT !.paired_peer = c] /\ f[c] = [e[c] EXCEPT !.paired_peer = s]
  BY <1>3, PeersPairedIs
<1>6. f[s] = n /\ f[c] = r
  BY <1>2, <1>3, <1>5
<1>7. n \in PeerRec /\ r \in PeerRec
  BY <1>1, <1>2, FieldTypes
<1> HIDE DEF f, g, n, r
<1>8. g[s] = IF tunnel THEN n ELSE Pushed(n, "client")
  BY <1>4, <1>5, <1>6 DEF push, Pushed, PeerFun
<1>9. g[c] = IF tunnel THEN Pushed(r, "estab") ELSE r
  BY <1>4, <1>5, <1>6 DEF push, Pushed, PeerFun
<1> QED
  BY <1>7, <1>8, <1>9 DEF g, n, r

(* A new pair is good, its server may be started, and nothing was closed.  *)
LEMMA PairMadeGood ==
    ASSUME Good(peer), ~Pipelining, NEW c \in Peers, NEW s \in Peers, NEW tunnel \in BOOLEAN,
           RequestPossible(c), Free(s)
    PROVE  LET g == PairMade(c, s, tunnel) IN
           /\ Good(g) /\ Quiet(peer, g)
           /\ g[c].alive /\ g[c].paired_peer = s
           /\ g[s].alive /\ Startable(g[s]) /\ g[s].paired_peer = c
<1> DEFINE g == PairMade(c, s, tunnel)
           n == NewServer(c, tunnel)
           r == [peer[c] EXCEPT !.paired_peer = s]
           q == peer[c]
<1>1. /\ Sound(peer) /\ peer \in PeerFun /\ ~peer[s].alive /\ peer[s] = FreeSlot
      /\ q \in PeerRec /\ Fits(q)
      /\ q.alive /\ q.type = "client" /\ q.paired_peer = NoPeer
      /\ q.server_status = "Established" /\ Lone(q)
  BY RequesterIs, GoodFits DEF Good, Sound, Freed, Free
<1>2. c # s /\ c # NoPeer /\ s # NoPeer
  BY <1>1, ProxyAssumption
<1>3. /\ g \in PeerFun /\ \A k \in Peers \ {c, s} : g[k] = peer[k]
      /\ Sound(g) /\ g[s].alive /\ g[c].alive
  <2>1. /\ g \in PeerFun
        /\ Alike(n, g[s]) /\ g[s].client_status = "Idle"
        /\ Alike(r, g[c]) /\ g[c].client_status = q.client_status
        /\ \A k \in Peers \ {c, s} : g[k] = peer[k]
    BY <1>1, <1>2, PairMadeIs
  <2>2. Sound(g) /\ g[s].alive /\ g[c].alive
    BY <1>1, PairMadeSound
  <2> QED
    BY <2>1, <2>2
<1>4. /\ n \in PeerRec /\ r \in PeerRec
      /\ g[s] = IF tunnel THEN n ELSE Pushed(n, "client")
      /\ g[c] = IF tunnel THEN Pushed(r, "estab") ELSE r
  BY <1>1, <1>2, PairMadeRecords
<1> HIDE DEF g
<1>5. /\ n.type = "server" /\ n.client_status = "Idle" /\ n.server_status = "Idle"
      /\ ~n.sockfd /\ n.t_event = "off" /\ ~n.t_connecting /\ ~n.t_DnsWaitAck /\ ~n.listed
      /\ n.info = <<>> /\ n.write_fifo = <<>> /\ n.if_tunnel = tunnel /\ n.paired_peer = c
  BY DEF NewServer, pop_peer_new
<1> HIDE DEF n
<1>6. Fits(n) /\ Startable(n)
  BY <1>5, InNothing DEF Fits, Kind, Watched, InfosFit, StatusFits, FifoFits, Startable,
                         Queued, Holds
<1>7. /\ r.type = "client" /\ r.client_status = q.client_status
      /\ r.server_status = "Established" /\ r.sockfd = q.sockfd /\ r.t_event = q.t_event
      /\ r.t_connecting = q.t_connecting /\ r.t_DnsWaitAck = q.t_DnsWaitAck
      /\ r.listed = q.listed /\ r.info = q.info /\ r.write_fifo = q.write_fifo
      /\ r.if_tunnel = q.if_tunnel /\ r.t_info_deal = q.t_info_deal /\ r.paired_peer = s
  BY <1>1 DEF PeerRec
<1> HIDE DEF r, q
<1>8. Fits(r)
  <2>1. Kind(r) /\ Watched(r)
    BY <1>1, <1>7 DEF Fits, Kind, Watched, Holds
  <2>2. InfosFit(r) /\ StatusFits(r)
    BY <1>1, <1>7 DEF Fits, Kind, InfosFit, StatusFits, Queued
  <2>3. FifoFits(r)
    BY <1>1, <1>7 DEF Fits, Kind, FifoFits, Holds
  <2> QED
    BY <2>1, <2>2, <2>3 DEF Fits
<1>9. "client" \in Packets /\ "estab" \in Packets
  BY DEF Packets
<1>10. Fits(g[s]) /\ Startable(g[s]) /\ g[s].paired_peer = c /\ g[s].client_status = "Idle"
  <2>1. CASE tunnel
    BY <1>4, <1>5, <1>6, <2>1
  <2>2. CASE ~tunnel
    <3> DEFINE v == Pushed(n, "client")
    <3>1. Fits(v)
      BY <1>4, <1>5, <1>6, <1>9, <2>2, PushedFits
    <3>2. /\ v.type = n.type /\ v.client_status = n.client_status /\ v.listed = n.listed
          /\ v.t_DnsWaitAck = n.t_DnsWaitAck /\ v.info = n.info /\ v.if_tunnel = n.if_tunnel
          /\ v.paired_peer = n.paired_peer
      BY <1>4 DEF Pushed, PeerRec
    <3> HIDE DEF v
    <3>3. Startable(v)
      BY <1>5, <1>6, <2>2, <3>1, <3>2 DEF Startable, Queued
    <3> QED
      BY <1>4, <1>5, <2>2, <3>1, <3>2, <3>3 DEF v
  <2> QED
    BY <2>1, <2>2
<1>11. /\ Fits(g[c]) /\ g[c].t_event = q.t_event /\ g[c].paired_peer = s
       /\ g[c].sockfd = q.sockfd /\ Longer(q.write_fifo, g[c].write_fifo)
  <2>1. CASE tunnel
    <3> DEFINE v == Pushed(r, "estab")
    <3>1. Fits(v)
      BY <1>4, <1>7, <1>8, <1>9, PushedFits
    <3>2. v.t_event = r.t_event /\ v.paired_peer = r.paired_peer /\ v.sockfd = r.sockfd
      BY <1>4 DEF Pushed, PeerRec
    <3>3. v.write_fifo = Append(r.write_fifo, "estab") /\ r.write_fifo \in Seq(Packets)
      BY <1>4 DEF Pushed, PeerRec
    <3>4. Longer(r.write_fifo, v.write_fifo)
      BY <3>3, LongerAppend
    <3> QED
      BY <1>4, <1>7, <2>1, <3>1, <3>2, <3>4
  <2>2. CASE ~tunnel
    BY <1>4, <1>7, <1>8, <2>2, LongerSame
  <2> QED
    BY <2>1, <2>2
<1>12. \A k \in Peers : g[k].alive => Fits(g[k])
  BY <1>3, <1>10, <1>11, GoodFits
<1>13. Together(g[c], g[s])
  BY <1>1, <1>10, <1>11 DEF Together, Lone
<1>14. ASSUME NEW k \in Peers, g[k].alive, g[k].type = "client"
       PROVE  IF g[k].paired_peer = NoPeer THEN Lone(g[k])
                                           ELSE Together(g[k], g[g[k].paired_peer])
  <2>1. CASE k = c
    BY <1>2, <1>11, <1>13, <2>1
  <2>2. CASE k = s
    BY <1>10, <1>14, <2>2 DEF Startable
  <2>3. CASE k # c /\ k # s
    <3> DEFINE j == peer[k].paired_peer
    <3>1. g[k] = peer[k]
      BY <1>3, <2>3
    <3>2. CASE j = NoPeer
      BY <1>14, <3>1, <3>2, ClientPair
    <3>3. CASE j # NoPeer
      <4>1. /\ j \in Peers /\ peer[j].alive /\ peer[j].paired_peer = k
            /\ Together(peer[k], peer[j])
        BY <1>14, <3>1, <3>3, ClientPair
      <4> HIDE DEF j
      <4>2. j # c /\ j # s
        BY <1>1, <4>1, ProxyAssumption DEF q
      <4>3. g[j] = peer[j]
        BY <1>3, <4>1, <4>2
      <4> QED
        BY <3>1, <3>3, <4>1, <4>3 DEF j
    <3> QED
      BY <3>2, <3>3
  <2> QED
    BY <2>1, <2>2, <2>3
<1>15. Good(g)
  BY <1>3, <1>12, <1>14 DEF Good, Pairs
<1>16. Quiet(peer, g)
  <2>1. ~FreeSlot.sockfd /\ DOMAIN FreeSlot.write_fifo = {}
    BY DEF FreeSlot, pop_peer_new
  <2>2. ~peer[s].sockfd /\ Longer(peer[s].write_fifo, g[s].write_fifo)
    BY <1>1, <2>1 DEF Longer
  <2>3. \A k \in Peers \ {c, s} : g[k] = peer[k]
    BY <1>3
  <2> QED
    BY <1>11, <2>2, <2>3, LongerSame DEF Quiet, q
<1> QED
  BY <1>3, <1>10, <1>11, <1>15, <1>16 DEF g

(* SUCCESS is dealt with: the packets that waited for the connection are   *)
(* watched.                                                                *)
LEMMA SuccessGood ==
    ASSUME NEW f, Good(f), NEW p \in Peers, f[p].alive, f[p].client_status = "Establish"
    PROVE  LET g == client_success(f, p)
               c == f[p].paired_peer IN
           /\ Good(g) /\ Quiet(f, g)
           /\ g[p].alive /\ g[p].info = f[p].info /\ g[p].client_status = "Establish"
           /\ g[p].if_tunnel = f[p].if_tunnel /\ g[p].paired_peer = c
           /\ ~f[p].if_tunnel => g[p].t_event = "rw" \/ g[p].write_fifo = <<>>
           /\ f[p].if_tunnel /\ c # NoPeer => g[c].t_event = "rw" \/ g[c].write_fifo = <<>>
<1> DEFINE r == f[p]
           c == r.paired_peer
           q == IF r.if_tunnel THEN c ELSE p
           g == client_success(f, p)
<1>1. f \in PeerFun /\ r \in PeerRec /\ Fits(r) /\ r.type = "server"
  BY GoodFits DEF Fits, Kind
<1>2. CASE ~(q # NoPeer /\ f[q].write_fifo # <<>>)
  <2>1. g = f
    BY <1>2 DEF client_success
  <2>2. ~r.if_tunnel => r.write_fifo = <<>>
    BY <1>2, ProxyAssumption
  <2>3. r.if_tunnel /\ c # NoPeer => f[c].write_fifo = <<>>
    BY <1>2
  <2>4. Quiet(f, f)
    BY LongerSame DEF Quiet
  <2> QED
    BY <2>1, <2>2, <2>3, <2>4
<1>3. CASE q # NoPeer /\ f[q].write_fifo # <<>>
  <2>1. /\ q \in Peers /\ f[q].alive /\ f[q] \in PeerRec /\ Fits(f[q])
        /\ f[q].client_status = "Establish" \/ f[q].server_status = "Established"
    <3>1. CASE r.if_tunnel
      <4>1. c \in Peers /\ f[c].alive /\ f[c].type = "client" /\ f[c].paired_peer = p
        BY <1>1, <1>3, <3>1, ServerPair
      <4>2. f[c] \in PeerRec /\ Fits(f[c])
        BY <4>1, GoodFits
      <4>3. f[c].server_status = "Established"
        BY <4>1, <4>2, ProxyAssumption DEF Fits, StatusFits
      <4> QED
        BY <3>1, <4>1, <4>2, <4>3
    <3>2. CASE ~r.if_tunnel
      BY <1>1, <3>2
    <3> QED
      BY <3>1, <3>2
  <2> DEFINE v == Woken(f[q])
  <2>2. g = [f EXCEPT ![q] = v]
    BY <1>1, <1>3, <2>1 DEF client_success, Woken, PeerFun
  <2>3. q = p \/ (r.if_tunnel /\ q = c /\ c # NoPeer)
    BY <1>3
  <2>4. ~r.if_tunnel => q = p
    OBVIOUS
  <2>5. r.if_tunnel => q = c
    OBVIOUS
  <2> HIDE DEF q, g
  <2>6. /\ v \in PeerRec /\ Fits(v) /\ v.t_event = "rw"
        /\ v.alive = f[q].alive /\ v.type = f[q].type /\ v.paired_peer = f[q].paired_peer
        /\ v.client_status = f[q].client_status /\ v.if_tunnel = f[q].if_tunnel
        /\ v.info = f[q].info /\ v.t_info_deal = f[q].t_info_deal
        /\ v.sockfd = f[q].sockfd /\ v.write_fifo = f[q].write_fifo
    <3>1. Fits(v)
      BY <2>1, WokenFits
    <3> QED
      BY <2>1, <3>1 DEF Woken, PeerRec, TEvents
  <2> HIDE DEF v
  <2>7. g \in PeerFun /\ g[q] = v /\ \A k \in Peers \ {q} : g[k] = f[k]
    BY <1>1, <2>1, <2>2, <2>6 DEF PeerFun
  <2>8. Changed(f, q, g)
    BY <2>6, <2>7 DEF Changed
  <2>9. f[q].type = "client" => /\ f[q].paired_peer = p
                                /\ Together(g[q], f[p])
    <3>1. ASSUME f[q].type = "client" PROVE q = c /\ c # NoPeer
      BY <1>1, <2>3, <3>1
    <3>2. ASSUME q = c, c # NoPeer PROVE f[q].paired_peer = p
      BY <1>1, <3>2, ServerPair
    <3>3. Together(g[q], f[p])
      BY <2>6, <2>7 DEF Together
    <3> QED
      BY <3>1, <3>2, <3>3
  <2>10. f[q].type = "server" /\ f[q].paired_peer # NoPeer => Together(f[f[q].paired_peer], g[q])
    <3>1. ASSUME f[q].type = "server", f[q].paired_peer # NoPeer
          PROVE  Together(f[f[q].paired_peer], f[q])
      BY <2>1, <3>1, ServerPair
    <3> QED
      BY <2>6, <2>7, <3>1 DEF Together, Queued
  <2>11. Good(g)
    BY <2>1, <2>6, <2>7, <2>8, <2>9, <2>10, ProxyAssumption, ChangedGood
  <2>12. Quiet(f, g)
    BY <2>6, <2>7, LongerSame DEF Quiet
  <2>13. /\ g[p].alive /\ g[p].info = r.info /\ g[p].client_status = "Establish"
         /\ g[p].if_tunnel = r.if_tunnel /\ g[p].paired_peer = c
    BY <2>6, <2>7
  <2>14. ~r.if_tunnel => g[p].t_event = "rw"
    BY <2>4, <2>6, <2>7
  <2>15. r.if_tunnel => g[c].t_event = "rw"
    BY <2>5, <2>6, <2>7
  <2> QED
    BY <2>11, <2>12, <2>13, <2>14, <2>15 DEF g
<1> QED
  BY <1>2, <1>3

(* The infos dealt with leave the queue.  A SUCCESS among them was dealt   *)
(* with as SuccessGood says; any other is still queued.                    *)
LEMMA DealtStep ==
    ASSUME NEW f, Good(f), NEW p \in Peers, f[p].alive,
           NEW q \in Seq(Infos), NEW t \in BOOLEAN,
           \A x : InSeq(q, x) => Queued(f[p], x),
           NEW g \in PeerFun, g[p] = Dealt(f[p], q, t), \A k \in Peers \ {p} : g[k] = f[k],
           \/ f[p].client_status # "Establish"
           \/ Queued(f[p], "SUCCESS") => t /\ InSeq(q, "SUCCESS")
           \/ /\ ~f[p].if_tunnel => f[p].t_event = "rw" \/ f[p].write_fifo = <<>>
              /\ LET c == f[p].paired_peer IN
                 f[p].if_tunnel /\ c # NoPeer => f[c].t_event = "rw" \/ f[c].write_fifo = <<>>
    PROVE  Good(g) /\ Quiet(f, g)
<1> DEFINE r == f[p]
           c == r.paired_peer
           v == Dealt(r, q, t)
<1>1. r \in PeerRec /\ Fits(r)
  BY GoodFits
<1>2. Fits(v)
  BY <1>1, DealtFits
<1>3. /\ v.alive = r.alive /\ v.type = r.type /\ v.paired_peer = c
      /\ v.client_status = r.client_status /\ v.if_tunnel = r.if_tunnel
      /\ v.t_event = r.t_event /\ v.write_fifo = r.write_fifo /\ v.sockfd = r.sockfd
      /\ v.info = q /\ v.t_info_deal = t
  BY <1>1 DEF Dealt, PeerRec
<1> HIDE DEF v
<1>4. g[p] = v
  BY DEF v
<1>5. Changed(f, p, g)
  BY <1>3, <1>4 DEF Changed
<1>6. r.type = "client" /\ c = NoPeer => Lone(v)
  BY <1>3, ClientPair DEF Lone
<1>7. r.type = "client" /\ c # NoPeer => Together(v, f[c])
  <2>1. ASSUME r.type = "client", c # NoPeer PROVE Together(r, f[c])
    BY <2>1, ClientPair
  <2> QED
    BY <1>3, <2>1 DEF Together, Holds
<1>8. r.type = "server" /\ c # NoPeer => Together(f[c], v)
  <2>1. ASSUME r.type = "server", c # NoPeer PROVE Together(f[c], r)
    BY <2>1, ServerPair
  <2> QED
    BY <1>3, <2>1, InNothing DEF Together, Holds, Queued
<1>9. Good(g)
  BY <1>2, <1>4, <1>5, <1>6, <1>7, <1>8, ChangedGood
<1>10. Quiet(f, g)
  BY <1>3, <1>4, LongerSame DEF Quiet
<1> QED
  BY <1>9, <1>10

(* An unpaired peer is freed. *)
LEMMA FreedStep ==
    ASSUME NEW f, Good(f), NEW p \in Peers, f[p].paired_peer = NoPeer,
           NEW g \in PeerFun, g[p] = FreeSlot, \A k \in Peers \ {p} : g[k] = f[k]
    PROVE  Step(f, g)
<1>1. /\ ~FreeSlot.alive /\ FreeSlot.paired_peer = NoPeer
      /\ Sound(f)
  BY DEF FreeSlot, pop_peer_new, Good
<1>2. ASSUME NEW k \in Peers, f[k].paired_peer # NoPeer
      PROVE  /\ k # p /\ f[k].paired_peer \in Peers \ {p}
             /\ g[k] = f[k] /\ g[f[k].paired_peer] = f[f[k].paired_peer]
  <2> DEFINE j == f[k].paired_peer
  <2>1. j \in Peers /\ f[j].paired_peer = k
    BY <1>1, <1>2, PartnerIs
  <2>2. j # p /\ k # p
    BY <1>2, <2>1, ProxyAssumption
  <2> QED
    BY <2>1, <2>2
<1>3. Mutual(g)
  BY <1>1, <1>2 DEF Sound, Mutual
<1>4. Sound(g)
  BY <1>1, <1>3 DEF Sound, Freed
<1>5. \A k \in Peers : g[k].alive => Fits(g[k])
  BY <1>1, GoodFits
<1>6. Pairs(g)
  BY <1>1, <1>2 DEF Good, Pairs
<1>7. ClosedTogether(f, g)
  <2>1. ASSUME NEW a \in Peers, NEW b \in Peers,
               f[a].sockfd, ~g[a].sockfd, f[b].paired_peer = a
        PROVE  FALSE
    BY <1>2, <2>1, ProxyAssumption
  <2> QED
    BY <2>1 DEF ClosedTogether
<1>8. AnswersKept(f, g)
  BY <1>1, LongerSame DEF AnswersKept
<1> QED
  BY <1>4, <1>5, <1>6, <1>7, <1>8 DEF Step, Good

-----------------------------------------------------------------------------
(* Every callback takes good peers to good peers, closes pairs together,    *)
(* and keeps the answers to CONNECT.                                       *)

StatusInv == WaitInv /\ Good(peer)

(* A new client listens, and waits for its request. *)
LEMMA StepAccept ==
    ASSUME StatusInv, NEW c \in Peers, Accept(c)
    PROVE  Step(peer, peer')
<1> DEFINE v == [pop_peer_new EXCEPT !.type = "client", !.sockfd = TRUE,
                                     !.server_status = "Established",
                                     !.t_event = "read", !.listed = TRUE]
           f == [peer EXCEPT ![c] = v]
           w == Added(v, "ACCEPT")
<1>1. Good(peer) /\ peer \in PeerFun /\ ~peer[c].alive
  BY DEF StatusInv, Good, Sound, Accept, Free
<1>2. peer' = event_add(f, c, "ACCEPT")
  BY DEF Accept
<1>3. v \in PeerRec
  BY ONLY NewPeerType DEF PeerRec, ServerStatus, TEvents
<1>4. /\ v.alive /\ v.type = "client" /\ v.paired_peer = NoPeer /\ v.sockfd
      /\ v.client_status = "Idle" /\ v.server_status = "Established" /\ v.t_event = "read"
      /\ v.listed /\ ~v.t_connecting /\ ~v.t_DnsWaitAck /\ ~v.if_tunnel
      /\ v.info = <<>> /\ v.write_fifo = <<>>
  BY ONLY TRUE DEF pop_peer_new
<1> HIDE DEF v
<1>5. Fits(v)
  BY <1>4, InNothing DEF Fits, Kind, Watched, InfosFit, StatusFits, FifoFits, Queued, Holds
<1>6. "ACCEPT" \in Infos
  BY DEF Infos
<1>7. Fits(w)
  BY <1>3, <1>5, <1>6, AddedFits
<1>8. w.alive /\ w.paired_peer = NoPeer /\ Lone(w)
  BY <1>3, <1>4 DEF Added, PeerRec, Lone
<1>9. f \in PeerFun /\ f[c] = v /\ \A r \in Peers \ {c} : f[r] = peer[r]
  BY <1>1, <1>3, ReplacedExcept DEF Replaced
<1> HIDE DEF f, w
<1>10. Replaced(f, c, w, peer')
  BY <1>2, <1>6, <1>9, EventAddIs DEF w
<1>11. peer' \in PeerFun /\ peer'[c] = w /\ \A r \in Peers \ {c} : peer'[r] = peer[r]
  BY <1>9, <1>10 DEF Replaced
<1> QED
  BY <1>1, <1>7, <1>8, <1>11, NewSlotGood, QuietStep

(* The end of a connection closes the pair. *)
LEMMA StepReadClosed ==
    ASSUME StatusInv, NEW p \in Peers, ReadClosed(p)
    PROVE  Step(peer, peer')
BY CloseGood DEF StatusInv, ReadClosed, Readable

(* A packet is relayed between halves whose connections are both up. *)
LEMMA StepReadForward ==
    ASSUME StatusInv, NEW p \in Peers, ReadForward(p)
    PROVE  Step(peer, peer')
<1> DEFINE q == peer[p].paired_peer
           g == push(peer, q, peer[p].type)
<1>1. Good(peer) /\ Sound(peer) /\ Readable(p) /\ q # NoPeer
  BY DEF StatusInv, Good, ReadForward, CanForward
<1>2. q \in Peers /\ peer[q].alive /\ peer[q].paired_peer = p
  BY <1>1, PartnerIs
<1>3. Fits(peer[p]) /\ p # NoPeer
  BY <1>1, GoodFits, ProxyAssumption DEF Readable
<1>4. peer[p].type \in {"client", "server"}
  BY DEF ReadForward, CanForward
<1>5. Flowing(peer, q)
  <2>1. CASE /\ peer[p].type = "client" /\ peer[q].type = "server"
             /\ peer[q].client_status = "Establish"
    BY <1>2, <2>1 DEF Flowing
  <2>2. CASE /\ peer[p].type = "server" /\ peer[q].type = "client"
             /\ peer[q].server_status = "Established"
    <3>1. peer[p].client_status = "Establish"
      BY <1>1, <1>3, <2>2 DEF Readable, Fits, Kind, Watched
    <3> QED
      BY <1>2, <1>3, <2>2, <3>1 DEF Flowing
  <2> QED
    BY <2>1, <2>2 DEF ReadForward, CanForward
<1>6. peer' \in WriteOutcomes(g, q)
  BY DEF ReadForward
<1>7. \E pkt \in {"client", "server"} : g = push(peer, q, pkt)
  BY <1>4
<1> HIDE DEF g, q
<1> QED
  BY <1>1, <1>2, <1>5, <1>6, <1>7, WriteOutcomesStep

(* A packet is kept for later. *)
LEMMA StepReadEarly ==
    ASSUME StatusInv, NEW c \in Peers, ReadEarly(c)
    PROVE  Step(peer, peer')
<1> DEFINE r == peer[c]
           v == Pushed(r, "client")
<1>1. Good(peer) /\ r.alive /\ r.type = "client"
  BY DEF StatusInv, ReadEarly, Readable
<1>2. peer \in PeerFun /\ r \in PeerRec /\ Fits(r) /\ "client" \in Packets
  BY <1>1, GoodFits DEF Packets
<1>3. Touched(peer, c, peer')
  BY <1>2, PushIs DEF ReadEarly
<1>4. peer'[c] = v
  BY <1>2 DEF ReadEarly, push, Pushed, PeerFun
<1>5. Fits(v)
  BY <1>1, <1>2, PushedFits
<1>6. v.t_event = r.t_event /\ v.sockfd = r.sockfd
  BY <1>2 DEF Pushed, PeerRec
<1>7. v.write_fifo = Append(r.write_fifo, "client") /\ \A x : Holds(v, x) <=> Holds(r, x) \/ x = "client"
  BY <1>2, PushedHolds
<1>8. Longer(r.write_fifo, v.write_fifo)
  <2>1. r.write_fifo \in Seq(Packets)
    BY <1>2 DEF PeerRec
  <2> QED
    BY <1>7, <2>1, LongerAppend
<1> HIDE DEF v
<1>9. r.paired_peer = NoPeer => Lone(v)
  BY <1>1, <1>6, ClientPair DEF Lone
<1>10. r.paired_peer # NoPeer => Together(v, peer[r.paired_peer])
  <2>1. ASSUME r.paired_peer # NoPeer PROVE Together(r, peer[r.paired_peer])
    BY <1>1, <2>1, ClientPair
  <2> QED
    BY <1>6, <1>7, <2>1 DEF Together
<1>11. Good(peer')
  BY <1>1, <1>3, <1>4, <1>5, <1>9, <1>10, TouchedGood
<1> QED
  BY <1>3, <1>4, <1>6, <1>8, <1>11, TouchedStep

(* A socket that may be written to belongs to a peer whose packets flow. *)
LEMMA StepWrite ==
    ASSUME StatusInv, NEW p \in Peers, Write(p)
    PROVE  Step(peer, peer')
<1> DEFINE r == peer[p]
<1>1. Good(peer) /\ r.alive /\ r.t_event = "rw" /\ peer' \in WriteOutcomes(peer, p)
  BY DEF StatusInv, Write
<1>2. Fits(r)
  BY <1>1, GoodFits
<1>3. r.client_status = "Establish" \/ r.server_status = "Established"
  BY <1>1, <1>2 DEF Fits, Watched
<1>4. r.type = "client" => /\ r.paired_peer # NoPeer
                           /\ peer[r.paired_peer].client_status = "Establish"
  BY <1>1, ClientPair DEF Lone, Together
<1>5. Flowing(peer, p)
  BY <1>1, <1>3, <1>4 DEF Flowing
<1> QED
  BY <1>1, <1>5, WriteOutcomesStep

(* connect() has ended: well, or with the closing of the pair. *)
LEMMA StepConnectCheck ==
    ASSUME StatusInv, NEW s \in Peers, ConnectCheck(s)
    PROVE  Step(peer, peer')
<1>1. Good(peer) /\ Sound(peer) /\ peer[s].t_event = "check"
  BY DEF StatusInv, Good, ConnectCheck
<1>2. peer[s].alive
  BY <1>1, PendingAlive
<1>3. peer[s].client_status = "Connect"
  BY <1>1, <1>2, GoodFits DEF Fits, Watched
<1>4. CASE peer' = success_event(peer, s)
  BY <1>1, <1>2, <1>3, <1>4, UpGood, QuietStep
<1>5. CASE peer' = pop_tcp_close_paired_peer(peer, s)
  BY <1>1, <1>2, <1>5, CloseGood
<1> QED
  BY <1>4, <1>5 DEF ConnectCheck

(* The 5 s timer closes the pair. *)
LEMMA StepConnectExpired ==
    ASSUME StatusInv, NEW s \in Peers, ConnectExpired(s)
    PROVE  Step(peer, peer')
<1> DEFINE r == peer[s]
           v == [r EXCEPT !.t_connecting = FALSE]
           g == [peer EXCEPT ![s] = v]
<1>1. Good(peer) /\ Sound(peer) /\ r.t_connecting
  BY DEF StatusInv, Good, ConnectExpired
<1>2. r.alive
  BY <1>1, PendingAlive
<1>3. peer \in PeerFun /\ r \in PeerRec /\ Closable(r)
  BY <1>1, <1>2, GoodFits, FitsClosable
<1>4. peer' = pop_tcp_close_paired_peer(g, s)
  BY <1>3 DEF ConnectExpired, PeerFun
<1>5. v \in PeerRec
  BY <1>3, FieldTypes
<1>6. /\ v.alive = r.alive /\ v.type = r.type /\ v.paired_peer = r.paired_peer
      /\ v.client_status = r.client_status /\ v.server_status = r.server_status
      /\ v.if_tunnel = r.if_tunnel /\ v.t_DnsWaitAck = r.t_DnsWaitAck
      /\ v.listed = r.listed /\ v.write_fifo = r.write_fifo
  BY <1>3 DEF PeerRec
<1> HIDE DEF v
<1>7. Closable(v)
  BY <1>3, <1>6 DEF Closable, Kind, Holds
<1>8. g \in PeerFun /\ g[s] = v /\ \A k \in Peers \ {s} : g[k] = peer[k]
  BY <1>3, <1>5 DEF PeerFun
<1> HIDE DEF g
<1>9. Changed(peer, s, g)
  BY <1>6, <1>8 DEF Changed
<1> QED
  BY <1>1, <1>2, <1>4, <1>6, <1>7, <1>8, <1>9, LongerSame, CloseStep

(* A client without a server gets a new one, which is started. *)
LEMMA StepRequestResolved ==
    ASSUME StatusInv, ~Pipelining, NEW c \in Peers, NEW s \in Peers, NEW tunnel \in BOOLEAN,
           RequestResolved(c, s, tunnel)
    PROVE  Step(peer, peer')
<1> DEFINE f == PairMade(c, s, tunnel)
<1>1. Good(f) /\ Quiet(peer, f) /\ f[s].alive /\ Startable(f[s])
  BY PairMadeGood DEF StatusInv, RequestResolved
<1>2. PICK connecting \in BOOLEAN : peer' = start_event(f, s, connecting)
  BY DEF RequestResolved
<1> HIDE DEF f
<1>3. Good(peer') /\ Quiet(f, peer')
  BY <1>1, <1>2, StartGood
<1>4. Quiet(peer, peer')
  BY <1>1, <1>3, QuietTwice
<1> QED
  BY <1>3, <1>4, QuietStep

(* The end of a wait: the waiter may be started. *)
LEMMA WaitOverGood ==
    ASSUME NEW f, Good(f), NEW s \in Peers, f[s].t_DnsWaitAck
    PROVE  LET g == [f EXCEPT ![s].t_DnsWaitAck = FALSE] IN
           /\ f[s].alive /\ Good(g) /\ Quiet(f, g) /\ Changed(f, s, g)
           /\ Startable(g[s]) /\ g[s].write_fifo = f[s].write_fifo
<1> DEFINE r == f[s]
           v == [r EXCEPT !.t_DnsWaitAck = FALSE]
           g == [f EXCEPT ![s].t_DnsWaitAck = FALSE]
<1>1. r.alive
  BY DEF Good, Sound, Freed, FreeSlot, pop_peer_new
<1>2. f \in PeerFun /\ r \in PeerRec /\ Fits(r)
  BY <1>1, GoodFits
<1>3. /\ v \in PeerRec /\ Startable(v)
      /\ v.t_event = r.t_event /\ v.sockfd = r.sockfd /\ v.write_fifo = r.write_fifo
  BY <1>2, WaitOverFits
<1>4. /\ v.alive = r.alive /\ v.type = r.type /\ v.paired_peer = r.paired_peer
      /\ v.client_status = r.client_status /\ v.if_tunnel = r.if_tunnel
      /\ v.info = r.info /\ v.t_info_deal = r.t_info_deal
  BY <1>2 DEF PeerRec
<1>5. g = [f EXCEPT ![s] = v]
  BY <1>2 DEF PeerFun
<1> HIDE DEF v, g
<1>6. g \in PeerFun /\ g[s] = v /\ \A k \in Peers \ {s} : g[k] = f[k]
  BY <1>2, <1>3, <1>5 DEF PeerFun
<1>7. Changed(f, s, g)
  BY <1>4, <1>6 DEF Changed
<1>8. r.type = "server"
  BY <1>3, <1>4 DEF Startable
<1>9. r.paired_peer # NoPeer => Together(f[r.paired_peer], v)
  <2>1. ASSUME r.paired_peer # NoPeer PROVE Together(f[r.paired_peer], r)
    BY <1>8, <2>1, ServerPair
  <2> QED
    BY <1>4, <2>1 DEF Together, Queued
<1>10. Good(g)
  BY <1>1, <1>3, <1>6, <1>7, <1>8, <1>9, ChangedGood DEF Startable
<1>11. Quiet(f, g)
  BY <1>3, <1>6, LongerSame DEF Quiet
<1> QED
  BY <1>1, <1>3, <1>6, <1>7, <1>10, <1>11 DEF g

(* The answer starts the waiter, or leaves it alone. *)
LEMMA StepDnsAck ==
    ASSUME StatusInv, NEW id \in Ids, DnsAck(id)
    PROVE  Step(peer, peer')
<1> DEFINE s == waitq[id]
           f == [peer EXCEPT ![s].t_DnsWaitAck = FALSE]
<1>1. Good(peer) /\ s \in Peers /\ s # NoPeer
  BY DEF DnsAck, StatusInv, WaitInv, TypeOK, PeerOrNull
<1>2. Waits(peer[s], id)
  BY <1>1, WaitersAre DEF StatusInv, WaitInv
<1>3. peer' = f \/ \E connecting \in BOOLEAN : peer' = start_event(f, s, connecting)
  BY DEF DnsAck
<1> HIDE DEF s
<1>4. peer[s].t_DnsWaitAck
  BY <1>2 DEF Waits
<1>5. peer[s].alive /\ Good(f) /\ Quiet(peer, f) /\ Changed(peer, s, f) /\ Startable(f[s])
  BY <1>1, <1>4, WaitOverGood
<1> HIDE DEF f
<1>6. f[s].alive
  BY <1>5 DEF Changed
<1>7. ASSUME NEW connecting \in BOOLEAN, peer' = start_event(f, s, connecting)
      PROVE  Step(peer, peer')
  <2>1. Good(peer') /\ Quiet(f, peer')
    BY <1>1, <1>5, <1>6, <1>7, StartGood
  <2>2. Quiet(peer, peer')
    BY <1>5, <2>1, QuietTwice
  <2> QED
    BY <2>1, <2>2, QuietStep
<1> QED
  BY <1>3, <1>5, <1>7, QuietStep

(* The timeout closes the pair of the waiter. *)
LEMMA StepDnsTimeout ==
    ASSUME StatusInv, NEW s \in Peers, DnsTimeout(s)
    PROVE  Step(peer, peer')
<1> DEFINE f == [peer EXCEPT ![s].t_DnsWaitAck = FALSE]
<1>1. Good(peer) /\ peer[s].t_DnsWaitAck /\ peer' = pop_tcp_close_paired_peer(f, s)
  BY DEF StatusInv, DnsTimeout
<1>2. /\ peer[s].alive /\ Changed(peer, s, f) /\ Startable(f[s])
      /\ f[s].write_fifo = peer[s].write_fifo
  BY <1>1, WaitOverGood
<1> HIDE DEF f
<1>3. Closable(f[s])
  BY <1>2, FitsClosable DEF Startable
<1> QED
  BY <1>1, <1>2, <1>3, LongerSame, CloseStep

(* A peer that may be started may wait for an answer instead. *)
LEMMA WaitBegins ==
    ASSUME NEW f, Good(f), NEW s \in Peers, f[s].alive, Startable(f[s]), NEW id \in Ids
    PROVE  LET g == [f EXCEPT ![s].DnsTransactionID = id, ![s].t_DnsWaitAck = TRUE]
           IN  Good(g) /\ Quiet(f, g)
<1> DEFINE r == f[s]
           v == [r EXCEPT !.DnsTransactionID = id, !.t_DnsWaitAck = TRUE]
           g == [f EXCEPT ![s].DnsTransactionID = id, ![s].t_DnsWaitAck = TRUE]
<1>1. f \in PeerFun /\ r \in PeerRec /\ Fits(r) /\ r.type = "server"
  BY GoodFits DEF Startable
<1>2. v \in PeerRec
  BY <1>1 DEF PeerRec
<1>3. g = [f EXCEPT ![s] = v]
  BY <1>1 DEF PeerFun
<1>4. /\ v.alive = r.alive /\ v.type = r.type /\ v.paired_peer = r.paired_peer
      /\ v.client_status = r.client_status /\ v.server_status = r.server_status
      /\ v.sockfd = r.sockfd /\ v.t_event = r.t_event /\ v.t_connecting = r.t_connecting
      /\ v.listed = r.listed /\ v.if_tunnel = r.if_tunnel /\ v.write_fifo = r.write_fifo
      /\ v.info = r.info /\ v.t_info_deal = r.t_info_deal /\ v.t_DnsWaitAck
  BY <1>1 DEF PeerRec
<1> HIDE DEF v, g
<1>5. g \in PeerFun /\ g[s] = v /\ \A k \in Peers \ {s} : g[k] = f[k]
  BY <1>1, <1>2, <1>3 DEF PeerFun
<1>6. Kind(v) /\ Watched(v)
  BY <1>1, <1>4 DEF Fits, Kind, Watched, Holds
<1>7. InfosFit(v) /\ StatusFits(v) /\ FifoFits(v)
  BY <1>1, <1>4 DEF Fits, InfosFit, StatusFits, FifoFits, Startable, Queued, Holds
<1>8. Changed(f, s, g)
  BY <1>4, <1>5 DEF Changed
<1>9. r.paired_peer # NoPeer => Together(f[r.paired_peer], v)
  <2>1. ASSUME r.paired_peer # NoPeer PROVE Together(f[r.paired_peer], r)
    BY <1>1, <2>1, ServerPair
  <2> QED
    BY <1>4, <2>1 DEF Together, Queued
<1>10. Good(g)
  BY <1>1, <1>5, <1>6, <1>7, <1>8, <1>9, ChangedGood DEF Fits
<1>11. Quiet(f, g)
  BY <1>4, <1>5, LongerSame DEF Quiet
<1> QED
  BY <1>10, <1>11 DEF g

(* A client without a server gets a new one that waits, or is closed with  *)
(* it when the query cannot be sent.                                       *)
LEMMA StepRequestQuery ==
    ASSUME StatusInv, ~Pipelining, NEW c \in Peers, NEW s \in Peers, NEW tunnel \in BOOLEAN,
           RequestQuery(c, s, tunnel)
    PROVE  Step(peer, peer')
<1> DEFINE f == PairMade(c, s, tunnel)
<1>1. /\ Good(peer) /\ RequestPossible(c) /\ Free(s) /\ transId \in Ids
      /\ Sound(peer)
  BY DEF StatusInv, WaitInv, TypeOK, RequestQuery, Good
<1>2. /\ Good(f) /\ Quiet(peer, f) /\ f[s].alive /\ Startable(f[s])
      /\ f[c].alive /\ f[c].paired_peer = s /\ f[s].paired_peer = c
  BY <1>1, PairMadeGood
<1>3. peer[c].alive /\ peer[c].paired_peer = NoPeer
  BY <1>1, RequesterIs
<1>4. ~peer[s].alive /\ peer[s] = FreeSlot /\ c # s
  BY <1>1, <1>3 DEF Free, Sound, Freed
<1>5. \A r \in Peers \ {c, s} : f[r] = peer[r]
  <2>1. /\ f \in PeerFun
        /\ Alike(NewServer(c, tunnel), f[s]) /\ f[s].client_status = "Idle"
        /\ Alike([peer[c] EXCEPT !.paired_peer = s], f[c])
        /\ f[c].client_status = peer[c].client_status
        /\ \A r \in Peers \ {c, s} : f[r] = peer[r]
    BY <1>1, <1>4, PairMadeIs DEF Sound
  <2> QED
    BY <2>1
<1>6. \/ peer' = [f EXCEPT ![s].DnsTransactionID = transId, ![s].t_DnsWaitAck = TRUE]
      \/ peer' = pop_tcp_close_paired_peer(f, c)
  BY DEF RequestQuery
<1> HIDE DEF f
<1>7. CASE peer' = [f EXCEPT ![s].DnsTransactionID = transId, ![s].t_DnsWaitAck = TRUE]
  <2>1. Good(peer') /\ Quiet(f, peer')
    BY <1>1, <1>2, <1>7, WaitBegins
  <2>2. Quiet(peer, peer')
    BY <1>2, <2>1, QuietTwice
  <2> QED
    BY <2>1, <2>2, QuietStep
<1>8. CASE peer' = pop_tcp_close_paired_peer(f, c)
  <2>1. Step(f, peer') /\ FifosKept(f, peer')
    BY <1>2, <1>8, CloseGood
  <2>2. \A r \in Peers : Longer(peer[r].write_fifo, peer'[r].write_fifo)
    BY <1>2, <2>1 DEF Quiet, FifosKept, Longer
  <2>3. AnswersKept(peer, peer')
    BY <2>2 DEF AnswersKept
  <2>4. ASSUME NEW a \in Peers, NEW b \in Peers,
               peer[a].sockfd, ~peer'[a].sockfd, peer[b].paired_peer = a
        PROVE  ~peer'[b].sockfd
    <3>1. FreeSlot.paired_peer = NoPeer /\ a # NoPeer
      BY ProxyAssumption DEF FreeSlot, pop_peer_new
    <3>2. b # c /\ b # s
      BY <1>3, <1>4, <2>4, <3>1
    <3>3. f[a].sockfd /\ f[b].paired_peer = a
      BY <1>2, <1>5, <2>4, <3>2 DEF Quiet
    <3> QED
      BY <2>1, <2>4, <3>3 DEF Step, ClosedTogether
  <2>5. ClosedTogether(peer, peer')
    BY <2>4 DEF ClosedTogether
  <2> QED
    BY <2>1, <2>3, <2>5 DEF Step
<1> QED
  BY <1>6, <1>7, <1>8

(* Which infos are dealt with: those before the end of the queue or of the *)
(* callback's share.                                                       *)
LEMMA FirstInfos ==
    ASSUME NEW q \in Seq(Infos)
    PROVE  LET n    == IF Len(q) < ExecuteCount THEN Len(q) ELSE ExecuteCount
               rest == SubSeq(q, n + 1, Len(q))
           IN  /\ 1 .. n \subseteq DOMAIN q
               /\ rest \in Seq(Infos)
               /\ \A x : InSeq(rest, x) => InSeq(q, x)
               /\ \A x : InSeq(q, x) => InSeq(rest, x) \/ \E i \in 1 .. n : q[i] = x
<1> DEFINE n    == IF Len(q) < ExecuteCount THEN Len(q) ELSE ExecuteCount
           rest == SubSeq(q, n + 1, Len(q))
<1>1. n \in 0 .. Len(q) /\ DOMAIN q = 1 .. Len(q)
  BY ProxyAssumption
<1> HIDE DEF n
<1>2. 1 .. n \subseteq DOMAIN q
  BY <1>1
<1>3. \A x : /\ rest \in Seq(Infos)
             /\ InSeq(rest, x) => InSeq(q, x)
             /\ InSeq(q, x) => InSeq(rest, x) \/ \E i \in 1 .. n : q[i] = x
  BY <1>1, InRest
<1> QED
  BY <1>2, <1>3 DEF n

(* The info queue: a peer is freed, or has its first infos behind it. *)
LEMMA StepInfoDeal ==
    ASSUME StatusInv, NEW p \in Peers, InfoDeal(p)
    PROVE  Step(peer, peer')
<1> DEFINE r == peer[p]
           v == [r EXCEPT !.t_info_deal = FALSE]
           f == [peer EXCEPT ![p].t_info_deal = FALSE]
           n == IF Len(r.info) < ExecuteCount THEN Len(r.info) ELSE ExecuteCount
           Fatal == {i \in 1 .. n : r.info[i] \in {"ERROR", "BREAK"}}
           Ok == {i \in 1 .. n : r.info[i] = "SUCCESS" /\ \A j \in Fatal : i < j}
           rest == SubSeq(r.info, n + 1, Len(r.info))
           b == (rest # <<>>)
           g == IF Ok = {} THEN f ELSE client_success(f, p)
           k == client_success(peer, p)
           done(h) == [h EXCEPT ![p].info = rest, ![p].t_info_deal = (rest # <<>>)]
<1>1. Good(peer) /\ Sound(peer) /\ r.t_info_deal
  BY DEF StatusInv, Good, InfoDeal
<1>2. r.alive
  BY <1>1, PendingAlive
<1>3. peer \in PeerFun /\ r \in PeerRec /\ Fits(r)
  BY <1>1, <1>2, GoodFits
<1>4. \/ ~r.listed /\ peer' = f
      \/ r.listed /\ Fatal # {} /\ peer' = PeerDeleted(g, p)
      \/ r.listed /\ Fatal = {} /\ peer' = done(g)
  BY DEF InfoDeal
<1>5. r.info \in Seq(Infos)
  BY <1>3 DEF PeerRec
<1>6. /\ 1 .. n \subseteq DOMAIN r.info /\ rest \in Seq(Infos)
      /\ \A x : InSeq(rest, x) => InSeq(r.info, x)
      /\ \A x : InSeq(r.info, x) => InSeq(rest, x) \/ \E i \in 1 .. n : r.info[i] = x
  BY <1>5, FirstInfos
<1>7. /\ f \in PeerFun /\ f[p] = v /\ v = Dealt(r, r.info, FALSE)
      /\ \A j \in Peers \ {p} : f[j] = peer[j]
  <2>1. v \in PeerRec
    BY <1>3, FieldTypes
  <2>2. f = [peer EXCEPT ![p] = v]
    BY <1>3 DEF PeerFun
  <2>3. v = Dealt(r, r.info, FALSE)
    BY <1>3 DEF PeerRec, Dealt
  <2> HIDE DEF v, f
  <2>4. f \in PeerFun /\ f[p] = v /\ \A j \in Peers \ {p} : f[j] = peer[j]
    BY <1>3, <2>1, <2>2 DEF PeerFun
  <2> QED
    BY <2>3, <2>4
<1> HIDE DEF n, rest, done
<1>8. CASE ~r.listed /\ peer' = f
  <2>1. r.client_status # "Establish"
    BY <1>3, <1>8 DEF Fits, StatusFits
  <2>2. Good(f) /\ Quiet(peer, f)
    <3>1. FALSE \in BOOLEAN /\ \A x : InSeq(r.info, x) => Queued(r, x)
      BY DEF Queued
    <3>2. f[p] = Dealt(r, r.info, FALSE)
      BY <1>7
    <3> HIDE DEF f, v
    <3> QED
      BY <1>1, <1>2, <1>5, <1>7, <2>1, <3>1, <3>2, DealtStep
  <2> QED
    BY <1>8, <2>2, QuietStep
<1>9. CASE r.listed /\ Fatal # {} /\ peer' = PeerDeleted(g, p)
  <2>1. PICK i \in 1 .. n : r.info[i] \in {"ERROR", "BREAK"}
    BY <1>9
  <2>2. i \in DOMAIN r.info
    BY <1>6
  <2>3. Queued(r, "ERROR") \/ Queued(r, "BREAK")
    BY <2>1, <2>2 DEF Queued, InSeq
  <2>4. r.paired_peer = NoPeer
    BY <1>3, <1>9, <2>3 DEF Fits, InfosFit
  <2>5. f[p].paired_peer = NoPeer /\ f[p].if_tunnel = r.if_tunnel
    BY <1>3, <1>7, <2>4 DEF PeerRec
  <2>6. /\ g \in PeerFun /\ g[p].paired_peer = NoPeer
        /\ \A j \in Peers \ {p} : g[j] = peer[j]
    <3>1. CASE g = f
      BY <1>7, <2>5, <3>1
    <3>2. CASE g = client_success(f, p)
      <4> HIDE DEF f
      <4>1. PICK q \in Peers : /\ q = p \/ q = f[p].paired_peer
                               /\ Touched(f, q, client_success(f, p))
        BY <1>7, ClientSuccessIs
      <4>2. q = p
        BY <2>5, <4>1, ProxyAssumption
      <4>3. /\ g \in PeerFun /\ g[p].paired_peer = f[p].paired_peer
            /\ \A j \in Peers \ {p} : g[j] = f[j]
        BY <3>2, <4>1, <4>2 DEF Touched, Alike
      <4> QED
        BY <1>7, <2>5, <4>3
    <3> QED
      BY <3>1, <3>2
  <2> HIDE DEF g
  <2>7. /\ peer' \in PeerFun /\ peer'[p] = FreeSlot
        /\ \A j \in Peers \ {p} :
             peer'[j] = IF j = g[p].paired_peer THEN Unpaired(g[j]) ELSE g[j]
    BY <1>9, <2>6, PeerDeletedIs
  <2>8. \A j \in Peers \ {p} : peer'[j] = peer[j]
    BY <2>6, <2>7, ProxyAssumption
  <2> QED
    BY <1>1, <2>4, <2>7, <2>8, FreedStep
<1>10. CASE r.listed /\ Fatal = {} /\ peer' = done(g) /\ Ok = {}
  <2>1. \A i \in 1 .. n : r.info[i] # "SUCCESS"
    BY <1>10
  <2>2. Queued(r, "SUCCESS") => InSeq(rest, "SUCCESS")
    BY <1>6, <2>1 DEF Queued
  <2>3. InSeq(rest, "SUCCESS") => b
    BY InNothing
  <2>4. peer' = [peer EXCEPT ![p] = Dealt(r, rest, b)]
    BY <1>3, <1>10 DEF done, Dealt, PeerFun, PeerRec
  <2>5. Dealt(r, rest, b) \in PeerRec
    BY <1>3, <1>6, FieldTypes DEF Dealt
  <2>6. /\ peer' \in PeerFun /\ peer'[p] = Dealt(r, rest, b)
        /\ \A j \in Peers \ {p} : peer'[j] = peer[j]
    BY <1>3, <2>4, <2>5 DEF PeerFun
  <2>7. Good(peer') /\ Quiet(peer, peer')
    <3>1. b \in BOOLEAN
      OBVIOUS
    <3>2. \A x : InSeq(rest, x) => Queued(r, x)
      BY <1>6 DEF Queued
    <3> HIDE DEF b
    <3> QED
      BY <1>1, <1>2, <1>6, <2>2, <2>3, <2>6, <3>1, <3>2, DealtStep
  <2> QED
    BY <2>7, QuietStep
<1>11. CASE r.listed /\ Fatal = {} /\ peer' = done(g) /\ Ok # {}
  <2>1. PICK i \in 1 .. n : r.info[i] = "SUCCESS"
    BY <1>11
  <2>2. Queued(r, "SUCCESS")
    BY <1>6, <2>1 DEF Queued, InSeq
  <2>3. r.client_status = "Establish"
    BY <1>3, <2>2 DEF Fits, InfosFit
  <2>4. /\ Good(k) /\ Quiet(peer, k)
        /\ k[p].alive /\ k[p].info = r.info /\ k[p].client_status = "Establish"
        /\ k[p].if_tunnel = r.if_tunnel /\ k[p].paired_peer = r.paired_peer
        /\ ~r.if_tunnel => k[p].t_event = "rw" \/ k[p].write_fifo = <<>>
        /\ r.if_tunnel /\ r.paired_peer # NoPeer
             => k[r.paired_peer].t_event = "rw" \/ k[r.paired_peer].write_fifo = <<>>
    BY <1>1, <1>2, <2>3, SuccessGood
  <2>5. k \in PeerFun /\ k[p] \in PeerRec
    BY <2>4, GoodFits
  <2>6. peer' = [k EXCEPT ![p] = Dealt(k[p], rest, b)]
    <3> DEFINE q == IF r.if_tunnel THEN r.paired_peer ELSE p
    <3>1. g = client_success(f, p)
      BY <1>11
    <3>2. f[p].if_tunnel = r.if_tunnel /\ f[p].paired_peer = r.paired_peer
      BY <1>3, <1>7 DEF PeerRec
    <3>3. \A j \in Peers : f[j].write_fifo = peer[j].write_fifo
      BY <1>3, <1>7 DEF PeerRec
    <3>4. q \in PeerOrNull
      BY <1>3 DEF PeerRec, PeerOrNull
    <3>5. CASE q # NoPeer /\ peer[q].write_fifo # <<>>
      <4>1. q \in Peers /\ f[q].write_fifo # <<>>
        BY <3>3, <3>4, <3>5 DEF PeerOrNull
      <4>2. g = [f EXCEPT ![q].t_event = "rw"]
        BY <3>1, <3>2, <3>5, <4>1 DEF client_success
      <4>3. k = [peer EXCEPT ![q].t_event = "rw"]
        BY <3>5 DEF client_success
      <4> HIDE DEF q, k, g, rest, b
      <4>4. peer' = [g EXCEPT ![p].info = rest, ![p].t_info_deal = b]
        BY <1>11 DEF done, b
      <4>5. DOMAIN peer = Peers /\ f = [peer EXCEPT ![p].t_info_deal = FALSE]
        BY <1>3 DEF PeerFun
      <4>6. peer[p] \in PeerRec /\ peer[q] \in PeerRec
        BY <1>3, <4>1 DEF PeerFun
      <4> HIDE DEF f
      <4>7. CASE q = p
        BY <4>2, <4>3, <4>4, <4>5, <4>6, <4>7 DEF Dealt, PeerRec
      <4>8. CASE q # p
        BY <4>1, <4>2, <4>3, <4>4, <4>5, <4>6, <4>8 DEF Dealt, PeerRec
      <4> QED
        BY <4>7, <4>8
    <3>6. CASE ~(q # NoPeer /\ peer[q].write_fifo # <<>>)
      <4>1. g = f
        BY <3>1, <3>2, <3>3, <3>4, <3>6 DEF client_success, PeerOrNull
      <4>2. k = peer
        BY <3>6 DEF client_success
      <4>3. DOMAIN peer = Peers /\ f = [peer EXCEPT ![p].t_info_deal = FALSE]
        BY <1>3 DEF PeerFun
      <4> HIDE DEF q, k, g, rest, b, f
      <4>4. peer' = [f EXCEPT ![p].info = rest, ![p].t_info_deal = b]
        BY <1>11, <4>1 DEF done, b
      <4>5. peer[p] \in PeerRec
        BY <1>3
      <4> QED
        BY <4>2, <4>3, <4>4, <4>5 DEF Dealt, PeerRec
    <3> QED
      BY <3>5, <3>6
  <2> HIDE DEF k
  <2>7. Dealt(k[p], rest, b) \in PeerRec
    BY <1>6, <2>5, FieldTypes DEF Dealt
  <2>8. /\ peer' \in PeerFun /\ peer'[p] = Dealt(k[p], rest, b)
        /\ \A j \in Peers \ {p} : peer'[j] = k[j]
    BY <2>5, <2>6, <2>7 DEF PeerFun
  <2>9. Good(peer') /\ Quiet(k, peer')
    <3>1. b \in BOOLEAN
      OBVIOUS
    <3>2. \A x : InSeq(rest, x) => Queued(k[p], x)
      BY <1>6, <2>4 DEF Queued
    <3> HIDE DEF b
    <3> QED
      BY <1>6, <2>4, <2>8, <3>1, <3>2, DealtStep
  <2>10. Quiet(peer, peer')
    BY <2>4, <2>9, QuietTwice
  <2> QED
    BY <2>9, <2>10, QuietStep
<1> QED
  BY <1>4, <1>8, <1>9, <1>10, <1>11

-----------------------------------------------------------------------------
(* The invariant and the step theorem. *)

(* It holds with no peer allocated. *)
THEOREM StatusInvInit == Init => StatusInv
<1> SUFFICES ASSUME Init PROVE StatusInv
  OBVIOUS
<1>1. WaitInv /\ Sound(peer)
  BY PairInvInit DEF PairInv
<1>2. \A p \in Peers : ~peer[p].alive
  BY DEF Init, FreeSlot, pop_peer_new
<1> QED
  BY <1>1, <1>2 DEF StatusInv, Good, Pairs

(* Every callback is such a step, if a client does not send a second        *)
(* request while its server is Idle.                                       *)
LEMMA EveryStep ==
    ASSUME ~Pipelining, StatusInv, Next
    PROVE  Step(peer, peer')
<1>1. ASSUME NEW p \in Peers,
             \/ Accept(p) \/ ReadClosed(p) \/ ReadForward(p)
             \/ ReadEarly(p) \/ Write(p) \/ ConnectCheck(p)
      PROVE  Step(peer, peer')
  BY <1>1, StepAccept, StepReadClosed, StepReadForward, StepReadEarly, StepWrite,
     StepConnectCheck
<1>2. ASSUME NEW c \in Peers, NEW s \in Peers, NEW tunnel \in BOOLEAN,
             RequestResolved(c, s, tunnel) \/ RequestQuery(c, s, tunnel)
      PROVE  Step(peer, peer')
  BY <1>2, StepRequestResolved, StepRequestQuery
<1>3. ASSUME NEW id \in Ids, DnsAck(id)
      PROVE  Step(peer, peer')
  BY <1>3, StepDnsAck
<1>4. ASSUME NEW p \in Peers, InfoDeal(p) \/ ConnectExpired(p) \/ DnsTimeout(p)
      PROVE  Step(peer, peer')
  BY <1>4, StepInfoDeal, StepConnectExpired, StepDnsTimeout
<1> QED
  BY <1>1, <1>2, <1>3, <1>4 DEF Next, NetworkStep, TimerStep

(* No callback breaks the invariant of the statuses. *)
THEOREM StatusInvStep == ~Pipelining /\ StatusInv /\ [Next]_vars => StatusInv'
<1> SUFFICES ASSUME ~Pipelining, StatusInv, [Next]_vars
             PROVE  StatusInv'
  OBVIOUS
<1>1. WaitInv'
  BY WaitInvStep DEF StatusInv
<1>2. CASE Next
  <2>1. Good(peer')
    BY <1>2, EveryStep DEF Step
  <2> QED
    BY <1>1, <2>1 DEF StatusInv, Good, Sound, Mutual, Freed, Pairs
<1>3. CASE UNCHANGED vars
  <2>1. Good(peer')
    BY <1>3 DEF vars, StatusInv
  <2> QED
    BY <1>1, <2>1 DEF StatusInv, Good, Sound, Mutual, Freed, Pairs
<1> QED
  BY <1>2, <1>3

(* The inductive invariant holds in every reachable state. *)
LEMMA StatusInvHolds == ~Pipelining /\ Spec => []StatusInv
<1>1. Init => StatusInv
  BY StatusInvInit
<1>2. CASE ~Pipelining
  <2>1. StatusInv /\ [Next]_vars => StatusInv'
    BY <1>2, StatusInvStep
  <2> QED
    BY <1>1, <2>1, PTL DEF Spec
<1> QED
  BY <1>2

(* A live peer's status and what the event loop holds for it go together:  *)
(* pop_tcp_client_start, _establish, _stop and the close functions set and *)
(* cancel the event, the connecting timer and the status as one.           *)
THEOREM StatusesHaveHandles == ~Pipelining /\ Spec => []StatusHasHandles
<1>1. ASSUME StatusInv, NEW p \in Peers, peer[p].alive
      PROVE  /\ (peer[p].client_status = "Connect") <=> (peer[p].t_event = "check")
             /\ (peer[p].client_status = "Connect") <=> peer[p].t_connecting
             /\ Readable(p) <=> \/ peer[p].client_status = "Establish"
                                \/ peer[p].server_status = "Established"
             /\ peer[p].sockfd <=> peer[p].t_event # "off"
  <2>1. Watched(peer[p])
    BY <1>1 DEF StatusInv, Good, Fits
  <2> QED
    BY <1>1, <2>1 DEF Watched, Readable
<1>2. StatusInv => StatusHasHandles
  BY <1>1 DEF StatusHasHandles
<1> QED
  BY <1>2, StatusInvHolds, PTL

(* No packet waits for nobody: those of an established server, the answer  *)
(* to CONNECT once the tunnel is up, and a server's packets for its client *)
(* are watched by EPOLLOUT, or will be when SUCCESS is dealt with.         *)
THEOREM PacketsNotStranded == ~Pipelining /\ Spec => []NoStrandedPackets
<1>1. ASSUME StatusInv, NEW p \in Peers
      PROVE  \/ Fits(peer[p])
             \/ /\ peer[p].client_status # "Establish"
                /\ peer[p].server_status # "Established"
  BY <1>1 DEF StatusInv, Good, Sound, Freed, FreeSlot, pop_peer_new
<1>2. StatusInv => ServerPacketsWatched
  BY <1>1 DEF Fits, Kind, FifoFits, Queued, InSeq, ServerPacketsWatched, SuccessPending,
              SuccessQueued
<1>3. StatusInv => ClientPacketsWatched
  BY <1>1 DEF Fits, Kind, FifoFits, Holds, InSeq, ClientPacketsWatched, Has
<1>4. StatusInv => TunnelAnswerWatched
  <2> SUFFICES ASSUME StatusInv, NEW c \in Peers, NEW s \in Peers,
                      peer[s].paired_peer = c, peer[s].client_status = "Establish",
                      peer[s].if_tunnel, Has(c, "estab")
               PROVE  peer[c].t_event = "rw" \/ SuccessPending(s)
    BY DEF TunnelAnswerWatched
  <2>1. Good(peer) /\ Sound(peer)
    BY DEF StatusInv, Good
  <2>2. peer[s].type = "server"
    BY <1>1 DEF Fits, Kind
  <2>3. c # NoPeer
    BY ProxyAssumption
  <2>4. Together(peer[c], peer[s])
    BY <2>1, <2>2, <2>3, ServerPair
  <2>5. Holds(peer[c], "estab")
    BY DEF Has, Holds, InSeq
  <2> QED
    BY <2>4, <2>5 DEF Together, Queued, InSeq, SuccessPending, SuccessQueued
<1>5. StatusInv => NoStrandedPackets
  BY <1>2, <1>3, <1>4 DEF NoStrandedPackets
<1> QED
  BY <1>5, StatusInvHolds, PTL

(* A socket is never closed without the socket of the peer it is paired    *)
(* with: pop_tcp_close_paired_peer, whichever callback calls it, closes    *)
(* both.                                                                   *)
THEOREM PairsCloseTogether == ~Pipelining /\ Spec => PairClosesTogether
<1> DEFINE A == \A p, q \in Peers :
                  peer[p].sockfd /\ ~peer'[p].sockfd /\ peer[q].paired_peer = p
                    => ~peer'[q].sockfd
<1>1. CASE ~Pipelining
  <2>1. StatusInv /\ [Next]_vars => [A]_vars
    <3>1. ASSUME StatusInv, Next PROVE A
      BY <1>1, <3>1, EveryStep DEF Step, ClosedTogether
    <3> QED
      BY <3>1
  <2>2. Spec => []StatusInv
    BY <1>1, StatusInvHolds
  <2> QED
    BY <2>1, <2>2, PTL DEF Spec, PairClosesTogether
<1> QED
  BY <1>1

(* A longer fifo has as many answers to CONNECT. *)
LEMMA LongerEstab ==
    ASSUME NEW f \in PeerFun, NEW h \in PeerFun, NEW c \in Peers,
           Longer(f[c].write_fifo, h[c].write_fifo)
    PROVE  ~(EstabPackets(h, c) < EstabPackets(f, c))
<1> DEFINE s == f[c].write_fifo
           t == h[c].write_fifo
           S == {i \in DOMAIN s : s[i] = "estab"}
           T == {i \in DOMAIN t : t[i] = "estab"}
<1>1. s \in Seq(Packets) /\ t \in Seq(Packets)
  BY DEF PeerFun, PeerRec
<1>2. S \subseteq T
  BY DEF Longer
<1>3. IsFiniteSet(T)
  <2>1. Len(t) \in Nat /\ T \subseteq 1 .. Len(t)
    BY <1>1
  <2>2. IsFiniteSet(1 .. Len(t))
    BY <2>1, FS_Interval
  <2> QED
    BY <2>1, <2>2, FS_Subset
<1> HIDE DEF S, T
<1>4. IsFiniteSet(S) /\ Cardinality(S) <= Cardinality(T)
  BY <1>2, <1>3, FS_Subset
<1>5. Cardinality(S) \in Nat /\ Cardinality(T) \in Nat
  BY <1>3, <1>4, FS_CardinalityType
<1>6. ~(Cardinality(T) < Cardinality(S))
  BY <1>4, <1>5
<1> QED
  BY <1>6 DEF EstabPackets, S, T

(* A fifo without answers to CONNECT loses none. *)
LEMMA NoEstab ==
    ASSUME NEW f \in PeerFun, NEW h \in PeerFun, NEW c \in Peers,
           ~Holds(f[c], "estab")
    PROVE  ~(EstabPackets(h, c) < EstabPackets(f, c))
<1> DEFINE s == f[c].write_fifo
           t == h[c].write_fifo
           S == {i \in DOMAIN s : s[i] = "estab"}
           T == {i \in DOMAIN t : t[i] = "estab"}
<1>1. t \in Seq(Packets)
  BY DEF PeerFun, PeerRec
<1>2. S = {}
  BY DEF Holds, InSeq
<1>3. IsFiniteSet(T)
  <2>1. Len(t) \in Nat /\ T \subseteq 1 .. Len(t)
    BY <1>1
  <2>2. IsFiniteSet(1 .. Len(t))
    BY <2>1, FS_Interval
  <2> QED
    BY <2>1, <2>2, FS_Subset
<1> HIDE DEF S, T
<1>4. Cardinality(S) = 0
  BY <1>2, FS_EmptySet
<1>5. Cardinality(T) \in Nat
  BY <1>3, FS_CardinalityType
<1>6. ~(Cardinality(T) < Cardinality(S))
  BY <1>4, <1>5
<1> QED
  BY <1>6 DEF EstabPackets, S, T

(* The proxy's answer to CONNECT leaves for the client only when the        *)
(* connection to the server is established: pop_http_proxy_request_connect *)
(* puts it into the fifo, and only client_success has it sent.             *)
THEOREM TunnelAnswersAfterConnect == ~Pipelining /\ Spec => TunnelAnswerAfterConnect
<1> DEFINE A == \A c \in Peers :
                  EstabPackets(peer', c) < EstabPackets(peer, c) /\ peer'[c].alive
                    => LET s == peer[c].paired_peer
                       IN s # NoPeer /\ peer[s].client_status = "Establish"
<1>1. CASE ~Pipelining
  <2>1. StatusInv /\ [Next]_vars => [A]_vars
    <3>1. ASSUME StatusInv, Next PROVE A
      <4>1. Step(peer, peer')
        BY <1>1, <3>1, EveryStep
      <4>2. peer \in PeerFun /\ peer' \in PeerFun
        BY <3>1, <4>1 DEF StatusInv, Step, Good, Sound
      <4>3. ASSUME NEW c \in Peers, EstabPackets(peer', c) < EstabPackets(peer, c),
                   peer'[c].alive
            PROVE  peer[c].paired_peer # NoPeer
                   /\ peer[peer[c].paired_peer].client_status = "Establish"
        <5>1. \/ Longer(peer[c].write_fifo, peer'[c].write_fifo)
              \/ ~Holds(peer[c], "estab")
              \/ peer[c].paired_peer # NoPeer
                 /\ peer[peer[c].paired_peer].client_status = "Establish"
          BY <4>1, <4>3 DEF Step, AnswersKept
        <5> QED
          BY <4>2, <4>3, <5>1, LongerEstab, NoEstab
      <4> QED
        BY <4>3
    <3> QED
      BY <3>1
  <2>2. Spec => []StatusInv
    BY <1>1, StatusInvHolds
  <2> QED
    BY <2>1, <2>2, PTL DEF Spec, TunnelAnswerAfterConnect
<1> QED
  BY <1>1

=============================================================================
