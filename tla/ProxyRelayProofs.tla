--------------------------- MODULE ProxyRelayProofs ---------------------------
(***************************************************************************)
(* The theorem that Proxy implements Relay, on the invariant of            *)
(* ProxyStatusProofs: every callback is one step of the relay or none.     *)
(***************************************************************************)
EXTENDS ProxyStatusProofs, ProxyRelay

-----------------------------------------------------------------------------
(* Steps of the relay, in terms of the records before and after them.      *)

(* Nothing of the relay changes for this peer. *)
Unseen(r, v) ==
    /\ v.type = r.type /\ StatusOf(v) = StatusOf(r)
    /\ v.paired_peer = r.paired_peer /\ v.write_fifo = r.write_fifo

(* Only the state of its connection does, or only its fifo. *)
Turned(r, v, status) ==
    /\ v.type = r.type /\ StatusOf(v) = status
    /\ v.paired_peer = r.paired_peer /\ v.write_fifo = r.write_fifo

(* The fifo becomes s, and nothing else changes. *)
Refilled(r, v, s) ==
    /\ v.type = r.type /\ StatusOf(v) = StatusOf(r)
    /\ v.paired_peer = r.paired_peer /\ v.write_fifo = s

(* Closed by the relay: neither up nor joined any more. *)
ShutDown(r, v) ==
    /\ v.type = r.type /\ StatusOf(v) = "idle"
    /\ v.paired_peer = NoPeer /\ v.write_fifo = r.write_fifo

(* A callback that only timers, infos and DNS queries notice. *)
LEMMA NoneOfRelay ==
    ASSUME \A p \in Peers : Unseen(peer[p], peer'[p])
    PROVE  UNCHANGED R!vars
BY DEF Unseen, R!vars

(* Open, as the records show it. *)
LEMMA OpenOfRelay ==
    ASSUME NEW c \in Peers, StatusOf(peer[c]) = "none",
           peer'[c].type = "client", StatusOf(peer'[c]) = "up",
           peer'[c].paired_peer = peer[c].paired_peer,
           peer'[c].write_fifo = peer[c].write_fifo,
           \A r \in Peers \ {c} : Unseen(peer[r], peer'[r])
    PROVE  R!Open(c)
BY DEF Unseen, R!Open

(* Connect, as the records show it. *)
LEMMA ConnectOfRelay ==
    ASSUME NEW s \in Peers, peer[s].type = "server", StatusOf(peer[s]) = "idle",
           Turned(peer[s], peer'[s], "up"),
           \A r \in Peers \ {s} : Unseen(peer[r], peer'[r])
    PROVE  R!Connect(s)
BY DEF Unseen, Turned, R!Connect

(* Close, as the records show it. *)
LEMMA CloseOfRelay ==
    ASSUME NEW p \in Peers, StatusOf(peer[p]) # "none",
           \A r \in Peers : IF r = p \/ r = peer[p].paired_peer
                              THEN ShutDown(peer[r], peer'[r]) ELSE Unseen(peer[r], peer'[r])
    PROVE  R!Close(p)
BY DEF Unseen, ShutDown, R!Close, R!Closed

(* Deliver, as the records show it. *)
LEMMA DeliverOfRelay ==
    ASSUME NEW p \in Peers, StatusOf(peer[p]) = "up",
           NEW k \in 1 .. Len(peer[p].write_fifo),
           \A i \in 1 .. k : peer[p].write_fifo[i] = "estab" =>
               /\ peer[p].paired_peer \in Peers /\ peer[p].paired_peer # NoPeer
               /\ StatusOf(peer[peer[p].paired_peer]) = "up",
           Refilled(peer[p], peer'[p],
                    SubSeq(peer[p].write_fifo, k + 1, Len(peer[p].write_fifo))),
           \A r \in Peers \ {p} : Unseen(peer[r], peer'[r])
    PROVE  R!Deliver(p)
BY DEF Unseen, Refilled, R!Deliver, R!MayLeave, R!Left, R!Up, R!Joined

(* Early, as the records show it. *)
LEMMA EarlyOfRelay ==
    ASSUME NEW c \in Peers, EarlyData, peer[c].type = "client", StatusOf(peer[c]) = "up",
           peer[c].paired_peer # NoPeer =>
               /\ peer[c].paired_peer \in Peers
               /\ StatusOf(peer[peer[c].paired_peer]) # "up",
           Refilled(peer[c], peer'[c], Append(peer[c].write_fifo, "client")),
           \A r \in Peers \ {c} : Unseen(peer[r], peer'[r])
    PROVE  R!Early(c)
BY DEF Unseen, Refilled, R!Early, R!Up, R!Joined

(* Release, as the records show it. *)
LEMMA ReleaseOfRelay ==
    ASSUME NEW p \in Peers, peer[p].paired_peer = NoPeer,
           \/ StatusOf(peer[p]) = "idle"
           \/ peer[p].type = "server" /\ StatusOf(peer[p]) = "up",
           peer'[p] = FreeSlot,
           \A r \in Peers \ {p} : Unseen(peer[r], peer'[r])
    PROVE  R!Release(p)
<1>1. /\ FreeSlot.type = "unknown" /\ StatusOf(FreeSlot) = "none"
      /\ FreeSlot.paired_peer = NoPeer /\ FreeSlot.write_fifo = <<>>
  BY DEF FreeSlot, pop_peer_new, StatusOf
<1> QED
  BY <1>1 DEF Unseen, R!Release, R!Up, R!Joined

(* Forward to a partner that takes some of its packets at once. *)
LEMMA ForwardOfRelay ==
    ASSUME NEW p \in Peers, NEW q \in Peers, peer[p].paired_peer = q, q # NoPeer,
           StatusOf(peer[p]) = "up", StatusOf(peer[q]) = "up",
           NEW s, s = Append(peer[q].write_fifo, peer[p].type),
           NEW k \in 0 .. Len(s), Refilled(peer[q], peer'[q], SubSeq(s, k + 1, Len(s))),
           \A r \in Peers \ {q} : Unseen(peer[r], peer'[r])
    PROVE  R!Forward(p)
<1>1. [r \in Peers |-> peer'[r].write_fifo]
        = [[r \in Peers |-> peer[r].write_fifo] EXCEPT ![q] = SubSeq(s, k + 1, Len(s))]
  BY DEF Unseen, Refilled
<1>2. /\ [r \in Peers |-> peer'[r].type] = [r \in Peers |-> peer[r].type]
      /\ [r \in Peers |-> StatusOf(peer'[r])] = [r \in Peers |-> StatusOf(peer[r])]
      /\ [r \in Peers |-> peer'[r].paired_peer] = [r \in Peers |-> peer[r].paired_peer]
  BY DEF Unseen, Refilled
<1> QED
  BY <1>1, <1>2 DEF R!Forward, R!Left, R!Up, R!Joined

(* Forward to a partner that turns out to be broken. *)
LEMMA BrokenOfRelay ==
    ASSUME NEW p \in Peers, NEW q \in Peers, p # q, peer[p].paired_peer = q, q # NoPeer,
           StatusOf(peer[p]) = "up", StatusOf(peer[q]) = "up",
           NEW f \in PeerFun, Refilled(peer[q], f[q], Append(peer[q].write_fifo, peer[p].type)),
           ShutDown(f[q], peer'[q]), ShutDown(peer[p], peer'[p]),
           \A r \in Peers \ {p, q} : Unseen(peer[r], peer'[r])
    PROVE  R!Forward(p)
<1>1. /\ peer'[q].write_fifo = Append(peer[q].write_fifo, peer[p].type)
      /\ peer'[q].type = peer[q].type /\ StatusOf(peer'[q]) = "idle"
      /\ peer'[q].paired_peer = NoPeer
  BY DEF Refilled, ShutDown
<1>2. /\ peer'[p].write_fifo = peer[p].write_fifo
      /\ peer'[p].type = peer[p].type /\ StatusOf(peer'[p]) = "idle"
      /\ peer'[p].paired_peer = NoPeer
  BY DEF ShutDown
<1>3. \A r \in Peers \ {p, q} :
         /\ peer'[r].write_fifo = peer[r].write_fifo
         /\ peer'[r].type = peer[r].type /\ StatusOf(peer'[r]) = StatusOf(peer[r])
         /\ peer'[r].paired_peer = peer[r].paired_peer
  BY DEF Unseen
<1>4. [r \in Peers |-> peer'[r].write_fifo]
        = [[r \in Peers |-> peer[r].write_fifo] EXCEPT
              ![q] = Append(peer[q].write_fifo, peer[p].type)]
  <2>1. \A r \in Peers : peer'[r].write_fifo =
           IF r = q THEN Append(peer[q].write_fifo, peer[p].type) ELSE peer[r].write_fifo
    BY ONLY <1>1, <1>2, <1>3
  <2> QED
    BY ONLY <2>1, q \in Peers
<1>5. [r \in Peers |-> peer'[r].type] = [r \in Peers |-> peer[r].type]
  BY ONLY <1>1, <1>2, <1>3
<1>6. [r \in Peers |-> StatusOf(peer'[r])]
        = [r \in Peers |-> IF r = p \/ r = q THEN "idle" ELSE StatusOf(peer[r])]
  BY ONLY <1>1, <1>2, <1>3
<1>7. [r \in Peers |-> peer'[r].paired_peer]
        = [r \in Peers |-> IF r = p \/ r = q THEN NoPeer ELSE peer[r].paired_peer]
  BY ONLY <1>1, <1>2, <1>3
<1>8. R!Closed(p)
  BY ONLY <1>5, <1>6, <1>7, p \in Peers, peer[p].paired_peer = q DEF R!Closed
<1>9. R!Joined(p) /\ R!Up(p) /\ R!Up(q)
  BY DEF R!Joined, R!Up
<1> QED
  BY ONLY <1>4, <1>8, <1>9, p \in Peers, q \in Peers, peer[p].paired_peer = q DEF R!Forward

(* Request, as the records show it: a server is made for the client. *)
LEMMA RequestOfRelay ==
    ASSUME NEW c \in Peers, NEW s \in Peers, c # s, NEW tunnel \in BOOLEAN,
           peer[c].type = "client", StatusOf(peer[c]) = "up", peer[c].paired_peer = NoPeer,
           peer[s] = FreeSlot,
           NEW f, f[c].type = "client", f[s].type = "server",
           f[c].write_fifo = IF tunnel THEN Append(peer[c].write_fifo, "estab")
                                       ELSE peer[c].write_fifo,
           f[s].write_fifo = IF tunnel THEN <<>> ELSE Append(<<>>, "client"),
           f[c].paired_peer = s, f[s].paired_peer = c,
           StatusOf(f[c]) = "up", StatusOf(f[s]) = "idle",
           \/ Unseen(f[c], peer'[c]) /\ Unseen(f[s], peer'[s])
           \/ ShutDown(f[c], peer'[c]) /\ ShutDown(f[s], peer'[s]),
           \A r \in Peers \ {c, s} : Unseen(peer[r], peer'[r])
    PROVE  R!Request(c, s, tunnel)
<1>1. /\ StatusOf(peer[s]) = "none" /\ peer[s].paired_peer = NoPeer
      /\ peer[s].write_fifo = <<>>
  BY DEF FreeSlot, pop_peer_new, StatusOf
<1>2. \A r \in Peers : /\ peer'[r].type = IF r = s THEN "server" ELSE peer[r].type
                       /\ peer'[r].write_fifo =
                             IF r = c THEN f[c].write_fifo
                             ELSE IF r = s THEN f[s].write_fifo ELSE peer[r].write_fifo
  <2>1. /\ peer'[c].type = "client" /\ peer'[c].write_fifo = f[c].write_fifo
        /\ peer'[s].type = "server" /\ peer'[s].write_fifo = f[s].write_fifo
    BY DEF Unseen, ShutDown
  <2>2. \A r \in Peers \ {c, s} : peer'[r].type = peer[r].type
                                  /\ peer'[r].write_fifo = peer[r].write_fifo
    BY DEF Unseen
  <2>3. c # s /\ peer[c].type = "client"
    OBVIOUS
  <2> QED
    BY ONLY <2>1, <2>2, <2>3
<1>3. R!Waiting(c, s, tunnel) = [r \in Peers |-> peer'[r].write_fifo]
  <2>1. CASE tunnel
    <3>1. f[c].write_fifo = Append(peer[c].write_fifo, "estab")
          /\ f[s].write_fifo = peer[s].write_fifo
      BY <1>1, <2>1
    <3>2. \A r \in Peers : peer'[r].write_fifo =
             IF r = c THEN Append(peer[c].write_fifo, "estab") ELSE peer[r].write_fifo
      BY ONLY <1>2, <3>1
    <3> QED
      BY ONLY <2>1, <3>2, c \in Peers DEF R!Waiting
  <2>2. CASE ~tunnel
    <3>1. f[c].write_fifo = peer[c].write_fifo
          /\ f[s].write_fifo = Append(peer[s].write_fifo, "client")
      BY <1>1, <2>2
    <3>2. \A r \in Peers : peer'[r].write_fifo =
             IF r = s THEN Append(peer[s].write_fifo, "client") ELSE peer[r].write_fifo
      BY ONLY <1>2, <3>1
    <3> QED
      BY ONLY <2>2, <3>2, s \in Peers DEF R!Waiting
  <2> QED
    BY <2>1, <2>2
<1>4. [r \in Peers |-> peer'[r].type] = [[r \in Peers |-> peer[r].type] EXCEPT ![s] = "server"]
  BY ONLY <1>2, s \in Peers
<1>5. CASE Unseen(f[c], peer'[c]) /\ Unseen(f[s], peer'[s])
  <2>1. [r \in Peers |-> StatusOf(peer'[r])]
          = [[r \in Peers |-> StatusOf(peer[r])] EXCEPT ![s] = "idle"]
    <3>1. /\ StatusOf(peer'[c]) = StatusOf(peer[c]) /\ StatusOf(peer'[s]) = "idle"
          /\ \A r \in Peers \ {c, s} : StatusOf(peer'[r]) = StatusOf(peer[r])
      BY <1>5 DEF Unseen
    <3> QED
      BY ONLY <3>1, c # s, s \in Peers
  <2>2. [r \in Peers |-> peer'[r].paired_peer]
          = [[r \in Peers |-> peer[r].paired_peer] EXCEPT ![c] = s, ![s] = c]
    BY <1>5 DEF Unseen
  <2> QED
    BY <1>1, <1>3, <1>4, <2>1, <2>2 DEF R!Request, R!Up, R!Joined
<1>6. CASE ShutDown(f[c], peer'[c]) /\ ShutDown(f[s], peer'[s])
  <2>1. [r \in Peers |-> StatusOf(peer'[r])]
          = [[r \in Peers |-> StatusOf(peer[r])] EXCEPT ![s] = "idle", ![c] = "idle"]
    BY <1>6 DEF Unseen, ShutDown
  <2>2. [r \in Peers |-> peer'[r].paired_peer] = [r \in Peers |-> peer[r].paired_peer]
    BY <1>1, <1>6 DEF Unseen, ShutDown
  <2> QED
    BY <1>1, <1>3, <1>4, <2>1, <2>2 DEF R!Request, R!Up, R!Joined
<1> QED
  BY <1>5, <1>6

-----------------------------------------------------------------------------
(* What a good peer's record says about its half. *)

(* A live peer's connection is up when its socket is listened to. *)
LEMMA LiveStatus ==
    ASSUME NEW r \in PeerRec, r.alive, Fits(r)
    PROVE  /\ StatusOf(r) \in {"idle", "up"}
           /\ (StatusOf(r) = "up") <=> (r.t_event \in {"read", "rw"})
           /\ r.type = "server" => (StatusOf(r) = "up" <=> r.client_status = "Establish")
           /\ r.type = "client" => (StatusOf(r) = "up" <=> r.server_status = "Established")
BY DEF StatusOf, Fits, Kind, Watched

(* A closed peer is shut down. *)
LEMMA ClosedShutDown ==
    ASSUME NEW r \in PeerRec, r.alive, Kind(r)
    PROVE  ShutDown(r, ClosedByType(r))
<1> DEFINE v == ClosedByType(r)
<1>1. /\ v.type = r.type /\ v.paired_peer = NoPeer /\ v.alive
      /\ v.write_fifo = r.write_fifo
      /\ v.client_status = IF r.type = "server" THEN "Idle" ELSE r.client_status
      /\ v.server_status = IF r.type = "server" THEN r.server_status ELSE "Idle"
  BY DEF ClosedByType, Stopped, ServerClosed, Closed, PeerRec
<1> HIDE DEF v
<1>2. v.client_status = "Idle" /\ v.server_status = "Idle"
  BY <1>1 DEF Kind
<1> QED
  BY <1>1, <1>2 DEF ShutDown, StatusOf, v

(* Closing a pair, one half of which may have a packet more or a timer less *)
(* than when the peers were good: both halves are shut down.               *)
LEMMA PairShutDown ==
    ASSUME NEW f, Good(f), NEW p \in Peers, f[p].alive,
           NEW g, Changed(f, p, g), Kind(g[p])
    PROVE  LET h == pop_tcp_close_paired_peer(g, p) IN
           \A r \in Peers : IF r = p \/ r = f[p].paired_peer
                              THEN ShutDown(g[r], h[r]) ELSE h[r] = f[r]
<1> DEFINE q == f[p].paired_peer
           h == pop_tcp_close_paired_peer(g, p)
<1>1. Sound(f) /\ Sound(g) /\ g[p].alive
  BY ChangedSound DEF Good
<1>2. /\ g[p].paired_peer = q /\ \A r \in Peers \ {p} : g[r] = f[r]
      /\ \A r \in Peers : g[r] \in PeerRec
  BY <1>1 DEF Changed, Sound, PeerFun
<1>3. PairClosed(g, p, h)
  BY <1>1, ClosePairIs
<1> HIDE DEF h
<1>4. \A r \in Peers : h[r] = IF r = p \/ r = q THEN ClosedByType(g[r]) ELSE f[r]
  BY <1>2, <1>3 DEF PairClosed
<1>5. q # NoPeer => q \in Peers /\ q # p /\ f[q].alive
  BY <1>1, PartnerIs
<1> HIDE DEF q
<1>6. ASSUME NEW r \in Peers, r = p \/ r = q
      PROVE  ShutDown(g[r], h[r])
  <2>1. CASE r = p
    <3>1. ShutDown(g[p], ClosedByType(g[p]))
      BY <1>1, <1>2, ClosedShutDown
    <3> QED
      BY <1>4, <2>1, <3>1
  <2>2. CASE r # p
    <3>1. r = q /\ g[r] = f[r] /\ f[r].alive
      BY <1>2, <1>5, <1>6, <2>2, ProxyAssumption
    <3>2. Kind(f[r]) /\ f[r] \in PeerRec
      BY <3>1, GoodFits DEF Fits
    <3>3. ShutDown(f[r], ClosedByType(f[r]))
      BY <3>1, <3>2, ClosedShutDown
    <3> QED
      BY <1>4, <3>1, <3>3
  <2> QED
    BY <2>1, <2>2
<1> QED
  BY <1>4, <1>6 DEF h, q

(* A callback that closes a pair is Close. *)
LEMMA ClosingIsClose ==
    ASSUME Good(peer), NEW p \in Peers, peer[p].alive,
           NEW g, Changed(peer, p, g), Kind(g[p]),
           g[p].write_fifo = peer[p].write_fifo,
           peer' = pop_tcp_close_paired_peer(g, p)
    PROVE  R!Close(p)
<1>1. \A r \in Peers : IF r = p \/ r = peer[p].paired_peer
                         THEN ShutDown(g[r], peer'[r]) ELSE peer'[r] = peer[r]
  BY PairShutDown
<1>2. StatusOf(peer[p]) # "none"
  BY DEF StatusOf
<1>3. ASSUME NEW r \in Peers
      PROVE  IF r = p \/ r = peer[p].paired_peer
               THEN ShutDown(peer[r], peer'[r]) ELSE Unseen(peer[r], peer'[r])
  <2>1. g[r].type = peer[r].type /\ g[r].write_fifo = peer[r].write_fifo
    BY DEF Changed
  <2> QED
    BY <1>1, <2>1 DEF ShutDown, Unseen
<1> QED
  BY <1>2, <1>3, CloseOfRelay

(* The same if nothing was changed before. *)
LEMMA JustClosingIsClose ==
    ASSUME Good(peer), NEW p \in Peers, peer[p].alive,
           peer' = pop_tcp_close_paired_peer(peer, p)
    PROVE  R!Close(p)
<1>1. Changed(peer, p, peer) /\ Kind(peer[p])
  BY GoodFits, TouchedSelf, TouchedChanged DEF Fits
<1> QED
  BY <1>1, ClosingIsClose

-----------------------------------------------------------------------------
(* Every callback. *)

(* accept() is Open. *)
LEMMA RelayAccept ==
    ASSUME StatusInv, NEW c \in Peers, Accept(c)
    PROVE  R!Open(c)
<1> DEFINE v == [pop_peer_new EXCEPT !.type = "client", !.sockfd = TRUE,
                                     !.server_status = "Established",
                                     !.t_event = "read", !.listed = TRUE]
           f == [peer EXCEPT ![c] = v]
           w == Added(v, "ACCEPT")
<1>1. peer \in PeerFun /\ peer[c] = FreeSlot
  BY DEF StatusInv, Good, Sound, Freed, Accept, Free
<1>2. peer' = event_add(f, c, "ACCEPT") /\ "ACCEPT" \in Infos
  BY DEF Accept, Infos
<1>3. v \in PeerRec
  BY ONLY NewPeerType DEF PeerRec, ServerStatus, TEvents
<1>4. /\ v.alive /\ v.type = "client" /\ v.paired_peer = NoPeer
      /\ v.server_status = "Established" /\ v.write_fifo = <<>>
  BY ONLY TRUE DEF pop_peer_new
<1>5. ~FreeSlot.alive /\ FreeSlot.paired_peer = NoPeer /\ FreeSlot.write_fifo = <<>>
  BY DEF FreeSlot, pop_peer_new
<1> HIDE DEF v
<1>6. /\ w.alive /\ w.type = "client" /\ w.paired_peer = NoPeer
      /\ w.server_status = "Established" /\ w.write_fifo = <<>>
  BY <1>3, <1>4 DEF Added, PeerRec
<1>7. f \in PeerFun /\ f[c] = v /\ \A r \in Peers \ {c} : f[r] = peer[r]
  BY <1>1, <1>3, ReplacedExcept DEF Replaced
<1> HIDE DEF f, w
<1>8. Replaced(f, c, w, peer')
  BY <1>2, <1>7, EventAddIs DEF w
<1>9. peer'[c] = w /\ \A r \in Peers \ {c} : peer'[r] = peer[r]
  BY <1>7, <1>8 DEF Replaced
<1>10. StatusOf(peer[c]) = "none" /\ StatusOf(peer'[c]) = "up"
  BY <1>1, <1>5, <1>6, <1>9 DEF StatusOf
<1>11. \A r \in Peers \ {c} : Unseen(peer[r], peer'[r])
  BY <1>9 DEF Unseen
<1> QED
  BY <1>1, <1>5, <1>6, <1>9, <1>10, <1>11, OpenOfRelay

(* The end of a connection is Close. *)
LEMMA RelayReadClosed ==
    ASSUME StatusInv, NEW p \in Peers, ReadClosed(p)
    PROVE  R!Close(p)
BY JustClosingIsClose DEF StatusInv, ReadClosed, Readable

(* Bytes that come too early are Early. *)
LEMMA RelayReadEarly ==
    ASSUME StatusInv, NEW c \in Peers, ReadEarly(c)
    PROVE  R!Early(c)
<1> DEFINE r == peer[c]
           v == Pushed(r, "client")
           s == r.paired_peer
<1>1. /\ Good(peer) /\ Sound(peer) /\ r.alive /\ r.type = "client" /\ EarlyData
      /\ Readable(c) /\ ~CanForward(c)
  BY DEF StatusInv, Good, ReadEarly, Readable
<1>2. peer \in PeerFun /\ r \in PeerRec /\ Fits(r) /\ "client" \in Packets
  BY <1>1, GoodFits DEF Packets
<1>3. Touched(peer, c, peer') /\ peer'[c] = v
  BY <1>2, PushIs DEF ReadEarly, push, Pushed, PeerFun
<1>4. /\ v.write_fifo = Append(r.write_fifo, "client") /\ v.type = r.type
      /\ v.alive = r.alive /\ v.client_status = r.client_status
      /\ v.server_status = r.server_status /\ v.paired_peer = r.paired_peer
  BY <1>2 DEF Pushed, PeerRec
<1> HIDE DEF v
<1>5. Refilled(r, peer'[c], Append(r.write_fifo, "client"))
  BY <1>3, <1>4 DEF Refilled, StatusOf
<1>6. StatusOf(r) = "up"
  BY <1>1, <1>2, LiveStatus DEF Readable
<1>7. ASSUME s # NoPeer PROVE s \in Peers /\ StatusOf(peer[s]) # "up"
  <2>1. s \in Peers /\ peer[s].alive /\ peer[s].type = "server"
    BY <1>1, <1>7, PartnerIs, PartnerType
  <2>2. peer[s].client_status # "Establish"
    BY <1>1, <1>7, <2>1 DEF CanForward
  <2> QED
    BY <1>1, <2>1, <2>2, GoodFits, LiveStatus
<1>8. \A k \in Peers \ {c} : Unseen(peer[k], peer'[k])
  BY <1>3 DEF Touched, Unseen
<1> QED
  BY <1>1, <1>5, <1>6, <1>7, <1>8, EarlyOfRelay

(* Writing n packets leaves the others. *)
LEMMA WriteRefills ==
    ASSUME NEW f \in PeerFun, NEW p \in Peers, f[p].alive,
           StatusOf(f[p]) = "up", NEW n \in 0 .. Len(f[p].write_fifo)
    PROVE  LET h == tcp_write(f, p, n)
               t == f[p].write_fifo IN
           /\ Refilled(f[p], h[p], SubSeq(t, n + 1, Len(t)))
           /\ \A r \in Peers \ {p} : h[r] = f[r]
<1> DEFINE r == f[p]
           h == tcp_write(f, p, n)
           s == SubSeq(r.write_fifo, n + 1, Len(r.write_fifo))
           v == Written(r, s)
<1>1. r \in PeerRec
  BY DEF PeerFun
<1>2. h = [f EXCEPT ![p] = v]
  BY DEF tcp_write, Written, PeerFun
<1> HIDE DEF s
<1>3. /\ v.write_fifo = s /\ v.type = r.type /\ v.alive = r.alive
      /\ v.client_status = r.client_status /\ v.server_status = r.server_status
      /\ v.paired_peer = r.paired_peer
  BY <1>1 DEF Written, PeerRec
<1> HIDE DEF v, h
<1>4. h[p] = v /\ \A k \in Peers \ {p} : h[k] = f[k]
  BY <1>2 DEF PeerFun
<1>5. Refilled(r, h[p], s)
  BY <1>3, <1>4 DEF Refilled, StatusOf
<1> QED
  BY <1>4, <1>5 DEF h, s

(* A packet that is relayed is Forward. *)
LEMMA RelayReadForward ==
    ASSUME StatusInv, NEW p \in Peers, ReadForward(p)
    PROVE  R!Forward(p)
<1> DEFINE q == peer[p].paired_peer
           pkt == peer[p].type
           g == push(peer, q, pkt)
           r == peer[q]
           s == Append(r.write_fifo, pkt)
<1>1. Good(peer) /\ Sound(peer) /\ Readable(p) /\ q # NoPeer
  BY DEF StatusInv, Good, ReadForward, CanForward
<1>2. q \in Peers /\ q # p /\ peer[p].alive /\ r.alive /\ r.paired_peer = p
  BY <1>1, PartnerIs
<1>3. /\ peer \in PeerFun /\ peer[p] \in PeerRec /\ Fits(peer[p])
      /\ r \in PeerRec /\ Fits(r)
  BY <1>1, <1>2, GoodFits
<1>4. StatusOf(peer[p]) = "up"
  BY <1>1, <1>2, <1>3, LiveStatus DEF Readable
<1>5. StatusOf(r) = "up"
  BY <1>2 DEF ReadForward, CanForward, StatusOf
<1>6. pkt \in Packets
  BY DEF ReadForward, CanForward, Packets
<1>7. Touched(peer, q, g) /\ g[q] = Pushed(r, pkt)
  BY <1>2, <1>3, <1>6, PushIs DEF push, Pushed, PeerFun
<1>8. /\ g[q].write_fifo = s /\ g[q].alive /\ StatusOf(g[q]) = "up"
      /\ Refilled(r, g[q], s) /\ g \in PeerFun
  <2>1. /\ g[q].write_fifo = s /\ g[q].type = r.type /\ g[q].alive = r.alive
        /\ g[q].client_status = r.client_status /\ g[q].server_status = r.server_status
        /\ g[q].paired_peer = r.paired_peer
    BY <1>3, <1>7 DEF Pushed, PeerRec
  <2>2. g \in PeerFun
    BY <1>7 DEF Touched
  <2> HIDE DEF g, r, s
  <2>3. StatusOf(g[q]) = StatusOf(r)
    BY <2>1 DEF StatusOf
  <2> QED
    BY <1>2, <1>5, <2>1, <2>2, <2>3 DEF Refilled
<1>9. \A k \in Peers \ {q} : g[k] = peer[k]
  BY <1>7 DEF Touched
<1>10. peer' \in WriteOutcomes(g, q)
  BY DEF ReadForward
<1>11. Kind(g[q])
  <2>1. Kind(r)
    BY <1>3 DEF Fits
  <2>2. /\ g[q].type = r.type /\ g[q].client_status = r.client_status
        /\ g[q].server_status = r.server_status /\ g[q].if_tunnel = r.if_tunnel
        /\ g[q].t_DnsWaitAck = r.t_DnsWaitAck
    BY <1>3, <1>7 DEF Pushed, PeerRec
  <2>3. \A x : Holds(g[q], x) <=> Holds(r, x) \/ x = pkt
    BY <1>3, <1>6, <1>7, PushedHolds
  <2>4. pkt # "estab"
    BY DEF ReadForward, CanForward
  <2> HIDE DEF g, r, pkt
  <2> QED
    BY <2>1, <2>2, <2>3, <2>4 DEF Kind
<1> HIDE DEF g, s
<1>12. ASSUME NEW n \in 0 .. Len(s), peer' = tcp_write(g, q, n)
       PROVE  R!Forward(p)
  <2>1. /\ Refilled(g[q], peer'[q], SubSeq(s, n + 1, Len(s)))
        /\ \A k \in Peers \ {q} : peer'[k] = g[k]
    BY <1>2, <1>8, <1>12, WriteRefills
  <2>2. Refilled(r, peer'[q], SubSeq(s, n + 1, Len(s)))
    BY <1>5, <1>8, <2>1 DEF Refilled
  <2>3. \A k \in Peers \ {q} : Unseen(peer[k], peer'[k])
    BY <1>9, <2>1 DEF Unseen
  <2> HIDE DEF q, r
  <2> QED
    BY <1>1, <1>2, <1>4, <1>5, <2>2, <2>3, ForwardOfRelay DEF q, r, s
<1>13. ASSUME peer' = pop_tcp_close_paired_peer(g, q)
       PROVE  R!Forward(p)
  <2>1. Changed(peer, q, g)
    BY <1>2, <1>7, TouchedChanged
  <2>2. \A k \in Peers : IF k = q \/ k = peer[q].paired_peer
                           THEN ShutDown(g[k], peer'[k]) ELSE peer'[k] = peer[k]
    BY <1>1, <1>2, <1>11, <1>13, <2>1, PairShutDown
  <2>3. ShutDown(g[q], peer'[q]) /\ ShutDown(peer[p], peer'[p])
    BY <1>2, <1>9, <2>2
  <2>4. \A k \in Peers \ {p, q} : Unseen(peer[k], peer'[k])
    BY <1>2, <2>2 DEF Unseen
  <2>5. Refilled(peer[q], g[q], Append(peer[q].write_fifo, peer[p].type))
    BY <1>8 DEF s
  <2> HIDE DEF q, r, pkt
  <2> QED
    BY <1>1, <1>2, <1>4, <1>5, <1>8, <2>3, <2>4, <2>5, BrokenOfRelay DEF q, r
<1> QED
  BY <1>8, <1>10, <1>12, <1>13 DEF WriteOutcomes

(* A write is Deliver, Close, or, if the socket takes nothing, no step. *)
LEMMA RelayWrite ==
    ASSUME StatusInv, NEW p \in Peers, Write(p)
    PROVE  R!Deliver(p) \/ R!Close(p) \/ UNCHANGED R!vars
<1> DEFINE r == peer[p]
           t == r.write_fifo
           c == r.paired_peer
<1>1. Good(peer) /\ Sound(peer) /\ r.alive /\ r.t_event = "rw" /\ peer' \in WriteOutcomes(peer, p)
  BY DEF StatusInv, Good, Write
<1>2. peer \in PeerFun /\ r \in PeerRec /\ Fits(r)
  BY <1>1, GoodFits
<1>3. StatusOf(r) = "up" /\ t \in Seq(Packets)
  BY <1>1, <1>2, LiveStatus DEF PeerRec
<1>4. ASSUME peer' = pop_tcp_close_paired_peer(peer, p)
      PROVE  R!Close(p)
  BY <1>1, <1>4, JustClosingIsClose
<1>5. ASSUME NEW n \in 0 .. Len(t), peer' = tcp_write(peer, p, n)
      PROVE  R!Deliver(p) \/ UNCHANGED R!vars
  <2>1. /\ Refilled(r, peer'[p], SubSeq(t, n + 1, Len(t)))
        /\ \A k \in Peers \ {p} : peer'[k] = peer[k]
    BY <1>1, <1>2, <1>3, <1>5, WriteRefills
  <2>2. \A k \in Peers \ {p} : Unseen(peer[k], peer'[k])
    BY <2>1 DEF Unseen
  <2>3. CASE n = 0
    <3>1. SubSeq(t, 1, Len(t)) = t
      BY <1>3
    <3>2. Unseen(r, peer'[p])
      BY <2>1, <2>3, <3>1 DEF Refilled, Unseen
    <3> QED
      BY <2>2, <3>2, NoneOfRelay
  <2>4. CASE n # 0
    <3>1. n \in 1 .. Len(t) /\ 1 .. n \subseteq DOMAIN t
      BY <1>3, <2>4
    <3>2. ASSUME NEW i \in 1 .. n, t[i] = "estab"
          PROVE  c \in Peers /\ c # NoPeer /\ StatusOf(peer[c]) = "up"
      <4>1. Holds(r, "estab")
        BY <3>1, <3>2 DEF Holds, InSeq
      <4>2. r.type = "client"
        BY <1>2, <4>1 DEF Fits, Kind
      <4>3. c # NoPeer
        BY <1>1, <4>2, ClientPair DEF Lone
      <4>4. c \in Peers /\ peer[c].alive /\ Together(r, peer[c])
        BY <1>1, <4>2, <4>3, ClientPair
      <4> QED
        BY <1>1, <4>3, <4>4 DEF Together, StatusOf
    <3> HIDE DEF t, c
    <3> QED
      BY <1>3, <2>1, <2>2, <3>1, <3>2, DeliverOfRelay DEF t, c
  <2> QED
    BY <2>3, <2>4
<1> QED
  BY <1>1, <1>4, <1>5 DEF WriteOutcomes

(* The event "start" changes nothing that the relay shows. *)
LEMMA StartUnseen ==
    ASSUME NEW f \in PeerFun, NEW p \in Peers, f[p].alive, f[p].client_status = "Idle",
           NEW connecting \in BOOLEAN
    PROVE  \A r \in Peers : Unseen(f[r], start_event(f, p, connecting)[r])
<1> DEFINE r == f[p]
           g == start_event(f, p, connecting)
<1>1. r \in PeerRec
  BY DEF PeerFun
<1>2. Touched(f, p, g)
  BY StartEventIs
<1>3. /\ g[p].write_fifo = r.write_fifo /\ g[p].server_status = r.server_status
      /\ g[p].client_status # "Establish"
  <2>1. CASE connecting
    <3>1. g[p] = Started(r)
      BY <1>1, <2>1 DEF start_event, pop_tcp_client_start, Started, PeerFun
    <3> HIDE DEF g, r
    <3> QED
      BY <1>1, <3>1 DEF Started, PeerRec
  <2>2. CASE ~connecting
    <3> DEFINE v == [r EXCEPT !.sockfd = FALSE]
               e == [f EXCEPT ![p] = v]
    <3>1. g = event_add(e, p, "ERROR") /\ "ERROR" \in Infos
      BY <1>1, <2>2 DEF start_event, pop_tcp_client_start, Infos, PeerFun
    <3>2. /\ v \in PeerRec /\ v.write_fifo = r.write_fifo
          /\ v.server_status = r.server_status /\ v.client_status = "Idle"
      BY <1>1 DEF PeerRec
    <3> HIDE DEF g, v
    <3>3. e \in PeerFun /\ e[p] = v
      BY <3>2 DEF PeerFun
    <3> HIDE DEF e
    <3>4. g[p] = Added(v, "ERROR")
      BY <3>1, <3>3, EventAddIs DEF Replaced
    <3> HIDE DEF r
    <3> QED
      BY <3>2, <3>4 DEF Added, PeerRec
  <2> QED
    BY <2>1, <2>2
<1> HIDE DEF g
<1>4. Unseen(r, g[p])
  BY <1>2, <1>3 DEF Touched, Alike, Unseen, StatusOf
<1>5. \A k \in Peers \ {p} : Unseen(f[k], g[k])
  BY <1>2 DEF Touched, Unseen
<1> QED
  BY <1>4, <1>5 DEF g

(* The event "success" of a connecting peer is Connect. *)
LEMMA SuccessIsConnect ==
    ASSUME Good(peer), NEW s \in Peers, peer[s].alive, peer[s].client_status = "Connect",
           peer' = success_event(peer, s)
    PROVE  R!Connect(s)
<1> DEFINE r == peer[s]
           v == Up(r)
           e == [peer EXCEPT ![s] = v]
<1>1. peer \in PeerFun /\ r \in PeerRec /\ Fits(r)
  BY GoodFits
<1>2. r.type = "server" /\ r.server_status = "Idle"
  BY <1>1 DEF Fits, Kind
<1>3. Touched(peer, s, peer')
  BY <1>1, SuccessEventIs
<1>4. v \in PeerRec
  BY <1>1 DEF Up, PeerRec, TEvents, ClientStatus
<1>5. peer' = event_add(e, s, "SUCCESS") /\ "SUCCESS" \in Infos
  BY <1>1 DEF success_event, pop_tcp_client_establish, PeerFun, Up, Infos
<1>6. /\ v.write_fifo = r.write_fifo /\ v.client_status = "Establish" /\ v.alive
      /\ v.type = r.type /\ v.paired_peer = r.paired_peer
  BY <1>1 DEF Up, PeerRec
<1> HIDE DEF v
<1>7. e \in PeerFun /\ e[s] = v
  BY <1>1, <1>4 DEF PeerFun
<1> HIDE DEF e
<1>8. peer'[s] = Added(v, "SUCCESS")
  BY <1>5, <1>7, EventAddIs DEF Replaced
<1>9. /\ peer'[s].write_fifo = r.write_fifo /\ peer'[s].client_status = "Establish"
      /\ peer'[s].alive /\ peer'[s].type = r.type /\ peer'[s].paired_peer = r.paired_peer
  BY <1>4, <1>6, <1>8 DEF Added, PeerRec
<1>10. StatusOf(r) = "idle" /\ Turned(r, peer'[s], "up")
  BY <1>2, <1>9 DEF StatusOf, Turned
<1>11. \A k \in Peers \ {s} : Unseen(peer[k], peer'[k])
  BY <1>3 DEF Touched, Unseen
<1> QED
  BY <1>2, <1>10, <1>11, ConnectOfRelay

(* The end of connect() is Connect or Close. *)
LEMMA RelayConnectCheck ==
    ASSUME StatusInv, NEW s \in Peers, ConnectCheck(s)
    PROVE  R!Connect(s) \/ R!Close(s)
<1>1. Good(peer) /\ Sound(peer) /\ peer[s].t_event = "check"
  BY DEF StatusInv, Good, ConnectCheck
<1>2. peer[s].alive
  BY <1>1, PendingAlive
<1>3. peer[s].client_status = "Connect"
  BY <1>1, <1>2, GoodFits DEF Fits, Watched
<1> QED
  BY <1>1, <1>2, <1>3, SuccessIsConnect, JustClosingIsClose DEF ConnectCheck

(* The 5 s timer is Close. *)
LEMMA RelayConnectExpired ==
    ASSUME StatusInv, NEW s \in Peers, ConnectExpired(s)
    PROVE  R!Close(s)
<1> DEFINE r == peer[s]
           v == [r EXCEPT !.t_connecting = FALSE]
           g == [peer EXCEPT ![s] = v]
<1>1. Good(peer) /\ Sound(peer) /\ r.t_connecting
  BY DEF StatusInv, Good, ConnectExpired
<1>2. r.alive
  BY <1>1, PendingAlive
<1>3. peer \in PeerFun /\ r \in PeerRec /\ Kind(r)
  BY <1>1, <1>2, GoodFits DEF Fits
<1>4. peer' = pop_tcp_close_paired_peer(g, s)
  BY <1>3 DEF ConnectExpired, PeerFun
<1>5. v \in PeerRec
  BY <1>3, FieldTypes
<1>6. /\ v.alive = r.alive /\ v.type = r.type /\ v.paired_peer = r.paired_peer
      /\ v.client_status = r.client_status /\ v.server_status = r.server_status
      /\ v.if_tunnel = r.if_tunnel /\ v.t_DnsWaitAck = r.t_DnsWaitAck
      /\ v.write_fifo = r.write_fifo
  BY <1>3 DEF PeerRec
<1> HIDE DEF v
<1>7. Kind(v)
  BY <1>3, <1>6 DEF Kind, Holds
<1>8. g \in PeerFun /\ g[s] = v /\ \A k \in Peers \ {s} : g[k] = peer[k]
  BY <1>3, <1>5 DEF PeerFun
<1> HIDE DEF g
<1>9. Changed(peer, s, g)
  BY <1>6, <1>8 DEF Changed
<1> QED
  BY <1>1, <1>2, <1>4, <1>6, <1>7, <1>8, <1>9, ClosingIsClose

(* The end of a wait for the DNS server changes nothing that the relay     *)
(* shows.                                                                  *)
LEMMA WaitOverUnseen ==
    ASSUME NEW f, Good(f), NEW s \in Peers, f[s].t_DnsWaitAck
    PROVE  LET g == [f EXCEPT ![s].t_DnsWaitAck = FALSE] IN
           \A r \in Peers : Unseen(f[r], g[r])
<1> DEFINE r == f[s]
           v == [r EXCEPT !.t_DnsWaitAck = FALSE]
           g == [f EXCEPT ![s].t_DnsWaitAck = FALSE]
<1>1. r.alive
  BY DEF Good, Sound, Freed, FreeSlot, pop_peer_new
<1>2. f \in PeerFun /\ r \in PeerRec
  BY <1>1, GoodFits
<1>3. g = [f EXCEPT ![s] = v]
  BY <1>2 DEF PeerFun
<1>4. Unseen(r, v)
  BY <1>2 DEF PeerRec, Unseen, StatusOf
<1> HIDE DEF v, g
<1>5. g[s] = v /\ \A k \in Peers \ {s} : g[k] = f[k]
  BY <1>2, <1>3 DEF PeerFun
<1>6. \A k \in Peers \ {s} : Unseen(f[k], g[k])
  BY <1>5 DEF Unseen
<1> QED
  BY <1>4, <1>5, <1>6 DEF g

(* The answer of the DNS server is no step of the relay. *)
LEMMA RelayDnsAck ==
    ASSUME StatusInv, NEW id \in Ids, DnsAck(id)
    PROVE  UNCHANGED R!vars
<1> DEFINE s == waitq[id]
           f == [peer EXCEPT ![s].t_DnsWaitAck = FALSE]
<1>1. Good(peer) /\ s \in Peers /\ s # NoPeer
  BY DEF DnsAck, StatusInv, WaitInv, TypeOK, PeerOrNull
<1>2. Waits(peer[s], id)
  BY <1>1, WaitersAre DEF StatusInv, WaitInv
<1>3. peer' = f \/ \E connecting \in BOOLEAN : peer' = start_event(f, s, connecting)
  BY DEF DnsAck
<1> HIDE DEF s
<1>4. peer[s].t_DnsWaitAck /\ peer[s].alive
  BY <1>2 DEF Waits
<1>5. /\ Changed(peer, s, f) /\ Startable(f[s])
      /\ \A r \in Peers : Unseen(peer[r], f[r])
  BY <1>1, <1>4, WaitOverGood, WaitOverUnseen
<1> HIDE DEF f
<1>6. f[s].alive /\ f \in PeerFun /\ f[s].client_status = "Idle"
  BY <1>4, <1>5 DEF Changed, Startable
<1>7. ASSUME NEW connecting \in BOOLEAN, peer' = start_event(f, s, connecting)
      PROVE  \A r \in Peers : Unseen(peer[r], peer'[r])
  <2>1. \A r \in Peers : Unseen(f[r], peer'[r])
    BY <1>1, <1>6, <1>7, StartUnseen
  <2> QED
    BY <1>5, <2>1 DEF Unseen
<1>8. \A r \in Peers : Unseen(peer[r], peer'[r])
  BY <1>3, <1>5, <1>7
<1> QED
  BY <1>8, NoneOfRelay

(* The timeout of the query is Close. *)
LEMMA RelayDnsTimeout ==
    ASSUME StatusInv, NEW s \in Peers, DnsTimeout(s)
    PROVE  R!Close(s)
<1> DEFINE f == [peer EXCEPT ![s].t_DnsWaitAck = FALSE]
<1>1. Good(peer) /\ peer[s].t_DnsWaitAck /\ peer' = pop_tcp_close_paired_peer(f, s)
  BY DEF StatusInv, DnsTimeout
<1>2. /\ peer[s].alive /\ Changed(peer, s, f) /\ Startable(f[s])
      /\ f[s].write_fifo = peer[s].write_fifo
  BY <1>1, WaitOverGood
<1> HIDE DEF f
<1>3. Kind(f[s])
  BY <1>2 DEF Startable, Fits
<1> QED
  BY <1>1, <1>2, <1>3, ClosingIsClose

(* The new pair, as the relay shows it. *)
LEMMA PairMadeSeen ==
    ASSUME Good(peer), ~Pipelining, NEW c \in Peers, NEW s \in Peers, NEW tunnel \in BOOLEAN,
           RequestPossible(c), Free(s)
    PROVE  LET g == PairMade(c, s, tunnel) IN
           /\ c # s /\ peer[c].type = "client" /\ StatusOf(peer[c]) = "up"
           /\ peer[c].paired_peer = NoPeer /\ peer[s] = FreeSlot
           /\ g[c].type = "client" /\ g[s].type = "server"
           /\ g[c].write_fifo = IF tunnel THEN Append(peer[c].write_fifo, "estab")
                                          ELSE peer[c].write_fifo
           /\ g[s].write_fifo = IF tunnel THEN <<>> ELSE Append(<<>>, "client")
           /\ g[c].paired_peer = s /\ g[s].paired_peer = c
           /\ StatusOf(g[c]) = "up" /\ StatusOf(g[s]) = "idle"
           /\ \A r \in Peers \ {c, s} : g[r] = peer[r]
<1> DEFINE g == PairMade(c, s, tunnel)
           n == NewServer(c, tunnel)
           r == [peer[c] EXCEPT !.paired_peer = s]
           q == peer[c]
<1>1. /\ peer \in PeerFun /\ ~peer[s].alive /\ peer[s] = FreeSlot
      /\ q \in PeerRec /\ q.alive /\ q.type = "client" /\ q.paired_peer = NoPeer
      /\ q.server_status = "Established"
  BY RequesterIs, GoodFits DEF Good, Sound, Freed, Free
<1>2. c # s
  BY <1>1
<1>3. /\ g \in PeerFun /\ \A k \in Peers \ {c, s} : g[k] = peer[k]
  <2>1. /\ g \in PeerFun
        /\ Alike(n, g[s]) /\ g[s].client_status = "Idle"
        /\ Alike(r, g[c]) /\ g[c].client_status = q.client_status
        /\ \A k \in Peers \ {c, s} : g[k] = peer[k]
    BY <1>1, <1>2, PairMadeIs
  <2> QED
    BY <2>1
<1>4. /\ n \in PeerRec /\ r \in PeerRec
      /\ g[s] = IF tunnel THEN n ELSE Pushed(n, "client")
      /\ g[c] = IF tunnel THEN Pushed(r, "estab") ELSE r
  BY <1>1, <1>2, PairMadeRecords
<1> HIDE DEF g
<1>5. /\ n.type = "server" /\ n.client_status = "Idle" /\ n.server_status = "Idle"
      /\ n.alive /\ n.write_fifo = <<>> /\ n.paired_peer = c
  BY DEF NewServer, pop_peer_new
<1> HIDE DEF n
<1>6. /\ r.type = "client" /\ r.server_status = "Established" /\ r.alive
      /\ r.write_fifo = q.write_fifo /\ r.paired_peer = s
  BY <1>1 DEF PeerRec
<1> HIDE DEF r
<1>7. /\ g[s].type = "server" /\ g[s].client_status = "Idle" /\ g[s].server_status = "Idle"
      /\ g[s].alive /\ g[s].paired_peer = c
      /\ g[s].write_fifo = IF tunnel THEN <<>> ELSE Append(<<>>, "client")
  <2>1. CASE tunnel
    BY <1>4, <1>5, <2>1
  <2>2. CASE ~tunnel
    BY <1>4, <1>5, <2>2 DEF Pushed, PeerRec
  <2> QED
    BY <2>1, <2>2
<1>8. /\ g[c].type = "client" /\ g[c].server_status = "Established"
      /\ g[c].alive /\ g[c].paired_peer = s
      /\ g[c].write_fifo = IF tunnel THEN Append(q.write_fifo, "estab") ELSE q.write_fifo
  <2>1. CASE tunnel
    <3> HIDE DEF q
    <3> QED
      BY <1>4, <1>6, <2>1 DEF Pushed, PeerRec
  <2>2. CASE ~tunnel
    BY <1>4, <1>6, <2>2
  <2> QED
    BY <2>1, <2>2
<1>9. StatusOf(q) = "up" /\ StatusOf(g[c]) = "up" /\ StatusOf(g[s]) = "idle"
  BY <1>1, <1>7, <1>8 DEF StatusOf
<1> QED
  BY <1>1, <1>2, <1>3, <1>7, <1>8, <1>9 DEF g

(* A request with an address at hand is Request. *)
LEMMA RelayRequestResolved ==
    ASSUME StatusInv, ~Pipelining, NEW c \in Peers, NEW s \in Peers, NEW tunnel \in BOOLEAN,
           RequestResolved(c, s, tunnel)
    PROVE  R!Request(c, s, tunnel)
<1> DEFINE f == PairMade(c, s, tunnel)
<1>1. Good(peer) /\ RequestPossible(c) /\ Free(s)
  BY DEF StatusInv, RequestResolved
<1>2. Good(f) /\ f[s].alive /\ Startable(f[s])
  BY <1>1, PairMadeGood
<1>3. PICK connecting \in BOOLEAN : peer' = start_event(f, s, connecting)
  BY DEF RequestResolved
<1>4. /\ c # s /\ peer[c].type = "client" /\ StatusOf(peer[c]) = "up"
      /\ peer[c].paired_peer = NoPeer /\ peer[s] = FreeSlot
      /\ f[c].type = "client" /\ f[s].type = "server"
      /\ f[c].write_fifo = IF tunnel THEN Append(peer[c].write_fifo, "estab")
                                     ELSE peer[c].write_fifo
      /\ f[s].write_fifo = IF tunnel THEN <<>> ELSE Append(<<>>, "client")
      /\ f[c].paired_peer = s /\ f[s].paired_peer = c
      /\ StatusOf(f[c]) = "up" /\ StatusOf(f[s]) = "idle"
      /\ \A r \in Peers \ {c, s} : f[r] = peer[r]
  BY <1>1, PairMadeSeen
<1> HIDE DEF f
<1>5. f \in PeerFun /\ f[s].client_status = "Idle"
  BY <1>2 DEF Good, Sound, Startable
<1>6. \A r \in Peers : Unseen(f[r], peer'[r])
  BY <1>2, <1>3, <1>5, StartUnseen
<1>7. \A r \in Peers \ {c, s} : Unseen(peer[r], peer'[r])
  BY <1>4, <1>6
<1> QED
  BY <1>4, <1>6, <1>7, RequestOfRelay

(* So is a request whose host has to be looked up, or cannot be. *)
LEMMA RelayRequestQuery ==
    ASSUME StatusInv, ~Pipelining, NEW c \in Peers, NEW s \in Peers, NEW tunnel \in BOOLEAN,
           RequestQuery(c, s, tunnel)
    PROVE  R!Request(c, s, tunnel)
<1> DEFINE f == PairMade(c, s, tunnel)
<1>1. Good(peer) /\ RequestPossible(c) /\ Free(s)
  BY DEF StatusInv, RequestQuery
<1>2. Good(f) /\ f[s].alive /\ f[c].alive /\ f[s].paired_peer = c /\ f[c].paired_peer = s
  BY <1>1, PairMadeGood
<1>3. \/ peer' = [f EXCEPT ![s].DnsTransactionID = transId, ![s].t_DnsWaitAck = TRUE]
      \/ peer' = pop_tcp_close_paired_peer(f, c)
  BY DEF RequestQuery
<1>4. /\ c # s /\ peer[c].type = "client" /\ StatusOf(peer[c]) = "up"
      /\ peer[c].paired_peer = NoPeer /\ peer[s] = FreeSlot
      /\ f[c].type = "client" /\ f[s].type = "server"
      /\ f[c].write_fifo = IF tunnel THEN Append(peer[c].write_fifo, "estab")
                                     ELSE peer[c].write_fifo
      /\ f[s].write_fifo = IF tunnel THEN <<>> ELSE Append(<<>>, "client")
      /\ f[c].paired_peer = s /\ f[s].paired_peer = c
      /\ StatusOf(f[c]) = "up" /\ StatusOf(f[s]) = "idle"
      /\ \A r \in Peers \ {c, s} : f[r] = peer[r]
  BY <1>1, PairMadeSeen
<1> HIDE DEF f
<1>5. f \in PeerFun /\ f[s] \in PeerRec
  BY <1>2 DEF Good, Sound, PeerFun
<1>6. CASE peer' = [f EXCEPT ![s].DnsTransactionID = transId, ![s].t_DnsWaitAck = TRUE]
  <2> DEFINE v == [f[s] EXCEPT !.DnsTransactionID = transId, !.t_DnsWaitAck = TRUE]
  <2>1. peer' = [f EXCEPT ![s] = v]
    BY <1>5, <1>6 DEF PeerFun
  <2>2. Unseen(f[s], v)
    BY <1>5 DEF PeerRec, Unseen, StatusOf
  <2> HIDE DEF v
  <2>3. peer'[s] = v /\ \A r \in Peers \ {s} : peer'[r] = f[r]
    BY <1>5, <2>1 DEF PeerFun
  <2>4. \A r \in Peers : Unseen(f[r], peer'[r])
    BY <2>2, <2>3 DEF Unseen
  <2>5. \A r \in Peers \ {c, s} : Unseen(peer[r], peer'[r])
    BY <1>4, <2>4
  <2> QED
    BY <1>4, <2>4, <2>5, RequestOfRelay
<1>7. CASE peer' = pop_tcp_close_paired_peer(f, c)
  <2>1. Changed(f, c, f) /\ Kind(f[c])
    BY <1>2, <1>5, GoodFits, TouchedSelf, TouchedChanged DEF Fits
  <2>2. \A r \in Peers : IF r = c \/ r = f[c].paired_peer
                           THEN ShutDown(f[r], peer'[r]) ELSE peer'[r] = f[r]
    BY <1>2, <1>7, <2>1, PairShutDown
  <2>3. ShutDown(f[c], peer'[c]) /\ ShutDown(f[s], peer'[s])
    BY <1>2, <2>2
  <2>4. \A r \in Peers \ {c, s} : Unseen(peer[r], peer'[r])
    BY <1>2, <1>4, <2>2 DEF Unseen
  <2> QED
    BY <1>4, <2>3, <2>4, RequestOfRelay
<1> QED
  BY <1>3, <1>6, <1>7

(* SUCCESS changes nothing that the relay shows, as it only asks for        *)
(* writability.                                                            *)
LEMMA SuccessUnseen ==
    ASSUME NEW f \in PeerFun, NEW p \in Peers
    PROVE  LET g == client_success(f, p) IN
           g \in PeerFun /\ \A r \in Peers : Unseen(f[r], g[r])
<1> DEFINE q == IF f[p].if_tunnel THEN f[p].paired_peer ELSE p
           v == [f[q] EXCEPT !.t_event = "rw"]
           g == client_success(f, p)
<1>1. CASE ~(q # NoPeer /\ f[q].write_fifo # <<>>)
  BY <1>1 DEF client_success, Unseen
<1>2. CASE q # NoPeer /\ f[q].write_fifo # <<>>
  <2>1. q \in Peers /\ f[q] \in PeerRec
    BY <1>2 DEF PeerFun, PeerRec, PeerOrNull
  <2>2. g = [f EXCEPT ![q] = v]
    BY <1>2, <2>1 DEF client_success, PeerFun
  <2>3. v \in PeerRec /\ Unseen(f[q], v)
    BY <2>1 DEF PeerRec, TEvents, Unseen, StatusOf
  <2> HIDE DEF g, v, q
  <2>4. g \in PeerFun /\ g[q] = v /\ \A k \in Peers \ {q} : g[k] = f[k]
    BY <2>1, <2>2, <2>3 DEF PeerFun
  <2> QED
    BY <2>3, <2>4 DEF g, Unseen
<1> QED
  BY <1>1, <1>2

(* Infos are no step of the relay, unless one of them frees the peer, which *)
(* is Release.                                                             *)
LEMMA RelayInfoDeal ==
    ASSUME StatusInv, NEW p \in Peers, InfoDeal(p)
    PROVE  R!Release(p) \/ UNCHANGED R!vars
<1> DEFINE r == peer[p]
           v == [r EXCEPT !.t_info_deal = FALSE]
           f == [peer EXCEPT ![p].t_info_deal = FALSE]
           n == IF Len(r.info) < ExecuteCount THEN Len(r.info) ELSE ExecuteCount
           Fatal == {i \in 1 .. n : r.info[i] \in {"ERROR", "BREAK"}}
           Ok == {i \in 1 .. n : r.info[i] = "SUCCESS" /\ \A j \in Fatal : i < j}
           rest == SubSeq(r.info, n + 1, Len(r.info))
           g == IF Ok = {} THEN f ELSE client_success(f, p)
           done(h) == [h EXCEPT ![p].info = rest, ![p].t_info_deal = (rest # <<>>)]
<1>1. Good(peer) /\ Sound(peer) /\ r.t_info_deal
  BY DEF StatusInv, Good, InfoDeal
<1>2. r.alive
  BY <1>1, PendingAlive
<1>3. peer \in PeerFun /\ r \in PeerRec /\ Fits(r)
  BY <1>1, <1>2, GoodFits
<1>4. \/ ~r.listed /\ peer' = f
      \/ r.listed /\ Fatal # {} /\ peer' = PeerDeleted(g, p)
      \/ peer' = done(g)
  BY DEF InfoDeal
<1>5. r.info \in Seq(Infos)
  BY <1>3 DEF PeerRec
<1>6. 1 .. n \subseteq DOMAIN r.info /\ rest \in Seq(Infos)
  BY <1>5, FirstInfos
<1>7. f \in PeerFun /\ \A k \in Peers : Unseen(peer[k], f[k])
  <2>1. v \in PeerRec /\ Unseen(r, v)
    <3>1. v \in PeerRec
      BY <1>3, FieldTypes
    <3>2. Unseen(r, v)
      BY <1>3 DEF PeerRec, Unseen, StatusOf
    <3> QED
      BY <3>1, <3>2
  <2>2. f = [peer EXCEPT ![p] = v]
    BY <1>3 DEF PeerFun
  <2> HIDE DEF v, f
  <2>3. f \in PeerFun /\ f[p] = v /\ \A j \in Peers \ {p} : f[j] = peer[j]
    BY <1>3, <2>1, <2>2 DEF PeerFun
  <2> QED
    BY <2>1, <2>3 DEF Unseen
<1> HIDE DEF n, rest, done, f
<1>8. g \in PeerFun /\ \A k \in Peers : Unseen(peer[k], g[k])
  <2>1. CASE g = f
    BY <1>7, <2>1
  <2>2. CASE g = client_success(f, p)
    <3> HIDE DEF g
    <3>1. g \in PeerFun /\ \A k \in Peers : Unseen(f[k], g[k])
      BY <1>7, <2>2, SuccessUnseen
    <3> QED
      BY <1>7, <3>1 DEF Unseen
  <2> QED
    BY <2>1, <2>2
<1>9. CASE peer' = f
  BY <1>7, <1>9, NoneOfRelay
<1>10. CASE r.listed /\ Fatal # {} /\ peer' = PeerDeleted(g, p)
  <2>1. PICK i \in 1 .. n : r.info[i] \in {"ERROR", "BREAK"}
    BY <1>10
  <2>2. i \in DOMAIN r.info
    BY <1>6
  <2>3. Queued(r, "ERROR") \/ Queued(r, "BREAK")
    BY <2>1, <2>2 DEF Queued, InSeq
  <2>4. r.paired_peer = NoPeer /\ r.server_status = "Idle"
    BY <1>3, <1>10, <2>3 DEF Fits, InfosFit
  <2> HIDE DEF g
  <2>5. /\ peer'[p] = FreeSlot
        /\ \A j \in Peers \ {p} :
             peer'[j] = IF j = g[p].paired_peer THEN Unpaired(g[j]) ELSE g[j]
    BY <1>8, <1>10, PeerDeletedIs
  <2>6. g[p].paired_peer = NoPeer
    BY <1>8, <2>4 DEF Unseen
  <2>7. \A j \in Peers \ {p} : Unseen(peer[j], peer'[j])
    BY <1>8, <2>5, <2>6, ProxyAssumption
  <2>8. \/ StatusOf(r) = "idle"
        \/ r.type = "server" /\ StatusOf(r) = "up"
    BY <1>2, <1>3, <2>4 DEF StatusOf, Fits, Kind
  <2> QED
    BY <2>4, <2>5, <2>7, <2>8, ReleaseOfRelay
<1>11. CASE peer' = done(g)
  <2> HIDE DEF g
  <2>1. ASSUME NEW k \in Peers PROVE Unseen(g[k], peer'[k])
    <3>1. g[p] \in PeerRec /\ DOMAIN g = Peers
      BY <1>8 DEF PeerFun
    <3> DEFINE w == [g[p] EXCEPT !.info = rest, !.t_info_deal = (rest # <<>>)]
    <3>2. peer' = [g EXCEPT ![p] = w]
      BY <1>11, <3>1 DEF done
    <3>3. Unseen(g[p], w)
      BY <3>1 DEF PeerRec, Unseen, StatusOf
    <3> HIDE DEF w
    <3>4. peer'[p] = w /\ \A j \in Peers \ {p} : peer'[j] = g[j]
      BY <3>1, <3>2
    <3> QED
      BY <3>3, <3>4 DEF Unseen
  <2>2. \A k \in Peers : Unseen(peer[k], peer'[k])
    BY <1>8, <2>1 DEF Unseen
  <2> QED
    BY <2>2, NoneOfRelay
<1> QED
  BY <1>4, <1>9, <1>10, <1>11

-----------------------------------------------------------------------------
(* The refinement. *)

(* With no peer allocated there is no half. *)
LEMMA RelayInit == Init => R!Init
BY DEF Init, R!Init, FreeSlot, pop_peer_new, StatusOf

(* Every callback is a step of the relay or none. *)
LEMMA RelayStep == ~Pipelining /\ StatusInv /\ [Next]_vars => [R!Next]_(R!vars)
<1> SUFFICES ASSUME ~Pipelining, StatusInv, [Next]_vars
             PROVE  [R!Next]_(R!vars)
  OBVIOUS
<1>1. ASSUME NEW p \in Peers,
             \/ Accept(p) \/ ReadClosed(p) \/ ReadForward(p)
             \/ ReadEarly(p) \/ Write(p) \/ ConnectCheck(p)
      PROVE  [R!Next]_(R!vars)
  <2>1. \/ R!Open(p) \/ R!Connect(p) \/ R!Deliver(p) \/ R!Close(p)
        \/ R!Forward(p) \/ R!Early(p) \/ UNCHANGED R!vars
    BY <1>1, RelayAccept, RelayReadClosed, RelayReadForward, RelayReadEarly, RelayWrite,
       RelayConnectCheck
  <2> QED
    BY <2>1 DEF R!Next
<1>2. ASSUME NEW c \in Peers, NEW s \in Peers, NEW tunnel \in BOOLEAN,
             RequestResolved(c, s, tunnel) \/ RequestQuery(c, s, tunnel)
      PROVE  [R!Next]_(R!vars)
  <2>1. R!Request(c, s, tunnel)
    BY <1>2, RelayRequestResolved, RelayRequestQuery
  <2> QED
    BY <2>1 DEF R!Next
<1>3. ASSUME NEW id \in Ids, DnsAck(id)
      PROVE  [R!Next]_(R!vars)
  BY <1>3, RelayDnsAck
<1>4. ASSUME NEW p \in Peers, InfoDeal(p) \/ ConnectExpired(p) \/ DnsTimeout(p)
      PROVE  [R!Next]_(R!vars)
  <2>1. R!Release(p) \/ R!Close(p) \/ UNCHANGED R!vars
    BY <1>4, RelayInfoDeal, RelayConnectExpired, RelayDnsTimeout
  <2> QED
    BY <2>1 DEF R!Next
<1>5. CASE UNCHANGED vars
  BY <1>5 DEF vars, R!vars
<1> QED
  BY <1>1, <1>2, <1>3, <1>4, <1>5 DEF Next, NetworkStep, TimerStep

(* The proxy is a relay: whatever the DNS server, the timers and the info  *)
(* queues do, packets are not lost, doubled or reordered while their pair  *)
(* is open, they leave through connections that are up, both halves of a   *)
(* pair are closed in one step, and a peer is freed only when it is closed *)
(* and alone.                                                              *)
THEOREM ProxyIsRelay == ~Pipelining /\ Spec => ImplementsRelay
<1>1. Init => R!Init
  BY RelayInit
<1>2. CASE ~Pipelining
  <2>1. StatusInv /\ [Next]_vars => [R!Next]_(R!vars)
    BY <1>2, RelayStep
  <2>2. Spec => []StatusInv
    BY <1>2, StatusInvHolds
  <2> QED
    BY <1>1, <2>1, <2>2, PTL DEF Spec, ImplementsRelay, R!Spec
<1> QED
  BY <1>2

=============================================================================
