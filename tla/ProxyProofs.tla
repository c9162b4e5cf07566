------------------------------- MODULE ProxyProofs -------------------------------
(***************************************************************************)
(* Theorems about Proxy, for any number of slots, transaction ids and      *)
(* fifo lengths: types, the peers that wait for the DNS server, and which  *)
(* peers are paired.                                                       *)
(***************************************************************************)
EXTENDS Proxy, TLAPS

PeerFun == [Peers -> PeerRec]

-----------------------------------------------------------------------------
(* What the functions of the code make of the peers.                       *)

(* The empty queue and the empty fifo. *)
LEMMA NilType == <<>> \in Seq(Infos) /\ <<>> \in Seq(Packets)
OBVIOUS

(* Replacing one record by another keeps the type of the peers. *)
LEMMA UpdateType ==
    ASSUME NEW f \in PeerFun, NEW p \in Peers, NEW r \in PeerRec
    PROVE  [f EXCEPT ![p] = r] \in PeerFun
BY DEF PeerFun

(* A new peer and a freed one are peer records. *)
LEMMA NewPeerType == pop_peer_new \in PeerRec /\ FreeSlot \in PeerRec
<1>1. 0 \in Ids
  BY ProxyAssumption DEF Ids
<1>2. pop_peer_new \in PeerRec
  BY <1>1, NilType DEF pop_peer_new, PeerRec, PeerOrNull, TEvents, ClientStatus, ServerStatus
<1> QED
  BY <1>2 DEF FreeSlot, PeerRec

(* g is f with the record v at p. *)
Replaced(f, p, v, g) ==
    /\ g \in PeerFun
    /\ g[p] = v
    /\ \A r \in Peers \ {p} : g[r] = f[r]

(* EXCEPT at one slot replaces that record and no other. *)
LEMMA ReplacedExcept ==
    ASSUME NEW f \in PeerFun, NEW p \in Peers, NEW v \in PeerRec
    PROVE  Replaced(f, p, v, [f EXCEPT ![p] = v])
BY DEF Replaced, PeerFun

(* event_add changes one peer: one more info, and the timer is set. *)
Added(r, info) == [r EXCEPT !.info = Append(@, info), !.t_info_deal = TRUE]

(* event_add queues one info for one peer and sets its timer. *)
LEMMA EventAddIs ==
    ASSUME NEW f \in PeerFun, NEW p \in Peers, NEW info \in Infos
    PROVE  Replaced(f, p, Added(f[p], info), event_add(f, p, info))
<1>1. f[p] \in PeerRec
  BY DEF PeerFun
<1>2. Append(f[p].info, info) \in Seq(Infos)
  BY <1>1 DEF PeerRec
<1>3. Added(f[p], info) \in PeerRec
  BY <1>1, <1>2 DEF PeerRec, Added
<1>4. event_add(f, p, info) = [f EXCEPT ![p] = Added(f[p], info)]
  BY DEF event_add, PeerFun, Added
<1> QED
  BY <1>3, <1>4, ReplacedExcept

(* Cancelling a pairing clears the pointers of the peer and its partner. *)
Unpaired(r) == [r EXCEPT !.paired_peer = NoPeer]

(* g is f with the record v at p, and without the pointer of p's partner.  *)
ReplacedAndUnpaired(f, p, v, g) ==
    /\ g \in PeerFun
    /\ g[p] = v
    /\ \A r \in Peers \ {p} : g[r] = IF r = f[p].paired_peer THEN Unpaired(f[r]) ELSE f[r]

(* A record without its partner is a record. *)
LEMMA UnpairedType == \A r \in PeerRec : Unpaired(r) \in PeerRec
BY DEF Unpaired, PeerRec, PeerOrNull

(* pop_tcp_cancle_paired clears two pointers and nothing else. *)
LEMMA CancelPairedIs ==
    ASSUME NEW f \in PeerFun, NEW p \in Peers
    PROVE  ReplacedAndUnpaired(f, p, Unpaired(f[p]), pop_tcp_cancle_paired(f, p))
BY UnpairedType DEF pop_tcp_cancle_paired, PeerFun, Unpaired, ReplacedAndUnpaired

(* Storing a value of a field's type in that field leaves a record: the     *)
(* four fields that callbacks store into on their own.                     *)
LEMMA FieldTypes ==
    ASSUME NEW r \in PeerRec
    PROVE  /\ \A q \in PeerOrNull : [r EXCEPT !.paired_peer = q] \in PeerRec
           /\ \A e \in TEvents : [r EXCEPT !.t_event = e] \in PeerRec
           /\ [r EXCEPT !.t_connecting = FALSE] \in PeerRec
           /\ [r EXCEPT !.t_info_deal = FALSE] \in PeerRec
           /\ [r EXCEPT !.t_DnsWaitAck = FALSE] \in PeerRec
           /\ \A i \in Seq(Infos), b \in BOOLEAN :
                [r EXCEPT !.info = i, !.t_info_deal = b] \in PeerRec
<1>1. \A q \in PeerOrNull : [r EXCEPT !.paired_peer = q] \in PeerRec
  BY DEF PeerRec
<1>2. \A e \in TEvents : [r EXCEPT !.t_event = e] \in PeerRec
  BY DEF PeerRec
<1>3. [r EXCEPT !.t_connecting = FALSE] \in PeerRec
  BY DEF PeerRec
<1>4. [r EXCEPT !.t_info_deal = FALSE] \in PeerRec
  BY DEF PeerRec
<1>5. ASSUME NEW i \in Seq(Infos), NEW b \in BOOLEAN
      PROVE  [r EXCEPT !.info = i, !.t_info_deal = b] \in PeerRec
  BY DEF PeerRec
<1>6. [r EXCEPT !.t_DnsWaitAck = FALSE] \in PeerRec
  BY DEF PeerRec
<1> QED
  BY <1>1, <1>2, <1>3, <1>4, <1>5, <1>6

(* pop_peers_paired sets two pointers and nothing else. *)
LEMMA PeersPairedIs ==
    ASSUME NEW f \in PeerFun, NEW p \in Peers, NEW q \in Peers, p # q
    PROVE  LET g == pop_peers_paired(f, p, q)
           IN  /\ g \in PeerFun
               /\ g[p] = [f[p] EXCEPT !.paired_peer = q]
               /\ g[q] = [f[q] EXCEPT !.paired_peer = p]
               /\ \A r \in Peers \ {p, q} : g[r] = f[r]
<1> DEFINE a == [f[p] EXCEPT !.paired_peer = q]
           b == [f[q] EXCEPT !.paired_peer = p]
<1>1. a \in PeerRec /\ b \in PeerRec
  <2>1. f[p] \in PeerRec /\ f[q] \in PeerRec
    BY DEF PeerFun
  <2>2. p \in PeerOrNull /\ q \in PeerOrNull
    BY DEF PeerOrNull
  <2> QED
    BY ONLY <2>1, <2>2, FieldTypes
<1>2. pop_peers_paired(f, p, q) = [[f EXCEPT ![p] = a] EXCEPT ![q] = b]
  BY DEF pop_peers_paired, PeerFun
<1> QED
  BY <1>1, <1>2, UpdateType DEF PeerFun

(* What closing a peer, in either way, does to its record.                 *)
Closed(r) ==
    [r EXCEPT !.paired_peer = NoPeer, !.t_connecting = FALSE, !.t_event = "off",
              !.sockfd = FALSE, !.info = <<"BREAK">>, !.t_info_deal = TRUE]

Stopped(r) == [Closed(r) EXCEPT !.client_status = "Idle"]

ServerClosed(r) == [Closed(r) EXCEPT !.server_status = "Idle", !.t_DnsWaitAck = FALSE]

(* pop_tcp_client_stop replaces its peer and unpairs the partner. *)
LEMMA StopIs ==
    ASSUME NEW f \in PeerFun, NEW p \in Peers
    PROVE  ReplacedAndUnpaired(f, p, Stopped(f[p]), pop_tcp_client_stop(f, p))
<1> DEFINE g == pop_tcp_cancle_paired(f, p)
           s == [g[p] EXCEPT !.t_connecting = FALSE, !.t_event = "off",
                             !.sockfd = FALSE, !.info = <<>>, !.client_status = "Idle"]
           h == [g EXCEPT ![p].t_connecting = FALSE, ![p].t_event = "off",
                          ![p].sockfd = FALSE, ![p].info = <<>>,
                          ![p].client_status = "Idle"]
           k == event_add(h, p, "BREAK")
<1>1. ReplacedAndUnpaired(f, p, Unpaired(f[p]), g)
  BY CancelPairedIs
<1>2. pop_tcp_client_stop(f, p) = k
  BY DEF pop_tcp_client_stop
<1> HIDE DEF g
<1>3. f[p] \in PeerRec /\ g \in PeerFun /\ g[p] \in PeerRec
  BY <1>1 DEF PeerFun, ReplacedAndUnpaired
<1>4. s \in PeerRec /\ s.info = <<>>
  BY <1>3, NilType DEF PeerRec, TEvents, ClientStatus
<1>5. h = [g EXCEPT ![p] = s]
  BY <1>3 DEF PeerFun
<1> HIDE DEF s, h
<1>6. Replaced(g, p, s, h)
  BY <1>3, <1>4, <1>5, ReplacedExcept
<1>7. h \in PeerFun /\ h[p] = s
  BY <1>6 DEF Replaced
<1>8. "BREAK" \in Infos
  BY DEF Infos
<1>9. Replaced(h, p, Added(h[p], "BREAK"), k)
  BY <1>7, <1>8, EventAddIs
<1>10. Append(<<>>, "BREAK") = <<"BREAK">>
  OBVIOUS
<1> HIDE DEF k
<1>11. k[p] = Added(s, "BREAK")
  BY <1>7, <1>9 DEF Replaced
<1>12. Added(s, "BREAK") = Stopped(f[p])
  BY <1>1, <1>3, <1>4, <1>10
  DEF PeerRec, s, Added, Closed, Stopped, Unpaired, ReplacedAndUnpaired
<1> QED
  BY <1>1, <1>2, <1>6, <1>9, <1>11, <1>12 DEF Replaced, ReplacedAndUnpaired

(* _pop_tcp_server_close does the same with its own record. *)
LEMMA ServerCloseIs ==
    ASSUME NEW f \in PeerFun, NEW p \in Peers
    PROVE  ReplacedAndUnpaired(f, p, ServerClosed(f[p]), pop_tcp_server_close(f, p))
<1> DEFINE g == pop_tcp_cancle_paired(f, p)
           s == [g[p] EXCEPT !.t_event = "off", !.t_connecting = FALSE,
                             !.t_DnsWaitAck = FALSE, !.t_info_deal = FALSE,
                             !.server_status = "Idle", !.sockfd = FALSE, !.info = <<>>]
           h == [g EXCEPT ![p].t_event = "off", ![p].t_connecting = FALSE,
                          ![p].t_DnsWaitAck = FALSE, ![p].t_info_deal = FALSE,
                          ![p].server_status = "Idle", ![p].sockfd = FALSE,
                          ![p].info = <<>>]
           k == event_add(h, p, "BREAK")
<1>1. ReplacedAndUnpaired(f, p, Unpaired(f[p]), g)
  BY CancelPairedIs
<1>2. pop_tcp_server_close(f, p) = k
  BY DEF pop_tcp_server_close
<1> HIDE DEF g
<1>3. f[p] \in PeerRec /\ g \in PeerFun /\ g[p] \in PeerRec
  BY <1>1 DEF PeerFun, ReplacedAndUnpaired
<1>4. s \in PeerRec /\ s.info = <<>>
  BY <1>3, NilType DEF PeerRec, TEvents, ServerStatus
<1>5. h = [g EXCEPT ![p] = s]
  BY <1>3 DEF PeerFun
<1> HIDE DEF s, h
<1>6. Replaced(g, p, s, h)
  BY <1>3, <1>4, <1>5, ReplacedExcept
<1>7. h \in PeerFun /\ h[p] = s
  BY <1>6 DEF Replaced
<1>8. "BREAK" \in Infos
  BY DEF Infos
<1>9. Replaced(h, p, Added(h[p], "BREAK"), k)
  BY <1>7, <1>8, EventAddIs
<1>10. Append(<<>>, "BREAK") = <<"BREAK">>
  OBVIOUS
<1> HIDE DEF k
<1>11. k[p] = Added(s, "BREAK")
  BY <1>7, <1>9 DEF Replaced
<1>12. Added(s, "BREAK") = ServerClosed(f[p])
  BY <1>1, <1>3, <1>4, <1>10
  DEF PeerRec, s, Added, Closed, ServerClosed, Unpaired, ReplacedAndUnpaired
<1> QED
  BY <1>1, <1>2, <1>6, <1>9, <1>11, <1>12 DEF Replaced, ReplacedAndUnpaired

ClosedByType(r) == IF r.type = "server" THEN Stopped(r) ELSE ServerClosed(r)

(* So does either of them, chosen by tcp_peer_type. *)
LEMMA CloseByTypeIs ==
    ASSUME NEW f \in PeerFun, NEW p \in Peers
    PROVE  ReplacedAndUnpaired(f, p, ClosedByType(f[p]), close_by_type(f, p))
BY StopIs, ServerCloseIs DEF close_by_type, ClosedByType

-----------------------------------------------------------------------------
(* The functions that leave a peer what it is: its record is only touched. *)

Alike(r, v) ==
    /\ v.alive = r.alive /\ v.type = r.type /\ v.paired_peer = r.paired_peer
    /\ v.DnsTransactionID = r.DnsTransactionID /\ v.t_DnsWaitAck = r.t_DnsWaitAck

Touched(f, p, g) ==
    /\ g \in PeerFun
    /\ Alike(f[p], g[p])
    /\ \A r \in Peers \ {p} : g[r] = f[r]

(* A new record that agrees in the identifying fields is a touch. *)
LEMMA TouchedExcept ==
    ASSUME NEW f \in PeerFun, NEW p \in Peers, NEW v \in PeerRec, Alike(f[p], v)
    PROVE  Touched(f, p, [f EXCEPT ![p] = v]) /\ [f EXCEPT ![p] = v][p] = v
BY DEF Touched, PeerFun

(* Queueing an info leaves the identifying fields alone. *)
LEMMA AddedAlike == \A r \in PeerRec, info \in Infos : Alike(r, Added(r, info))
BY DEF Alike, Added, PeerRec

(* pop_tcp_client_start touches one peer only. *)
LEMMA StartIs ==
    ASSUME NEW f \in PeerFun, NEW p \in Peers, NEW connecting \in BOOLEAN
    PROVE  Touched(f, p, pop_tcp_client_start(f, p, connecting))
<1>1. f[p] \in PeerRec
  BY DEF PeerFun
<1>2. CASE connecting
  <2> DEFINE v == [f[p] EXCEPT !.sockfd = TRUE, !.t_event = "check", !.t_connecting = TRUE,
                               !.client_status = "Connect"]
  <2>1. v \in PeerRec /\ Alike(f[p], v)
    BY <1>1 DEF PeerRec, TEvents, ClientStatus, Alike
  <2>2. pop_tcp_client_start(f, p, connecting) = [f EXCEPT ![p] = v]
    BY <1>2 DEF pop_tcp_client_start, PeerFun
  <2> DEFINE g == [f EXCEPT ![p] = v]
  <2> HIDE DEF v
  <2>3. Touched(f, p, g) /\ g[p] = v
    BY <2>1, TouchedExcept
  <2> QED
    BY <2>2, <2>3
<1>3. CASE ~connecting
  <2> DEFINE v == [f[p] EXCEPT !.sockfd = FALSE]
             g == [f EXCEPT ![p] = v]
  <2>1. v \in PeerRec /\ Alike(f[p], v)
    BY <1>1 DEF PeerRec, Alike
  <2>2. g = [f EXCEPT ![p].sockfd = FALSE]
    BY DEF PeerFun
  <2> HIDE DEF v
  <2>3. Touched(f, p, g) /\ g[p] = v
    BY <2>1, TouchedExcept
  <2>4. pop_tcp_client_start(f, p, connecting) = event_add(g, p, "ERROR")
    BY <1>3, <2>2 DEF pop_tcp_client_start
  <2> HIDE DEF g
  <2>5. g \in PeerFun /\ "ERROR" \in Infos
    BY <2>3 DEF Touched, Infos
  <2>6. Replaced(g, p, Added(v, "ERROR"), event_add(g, p, "ERROR"))
    BY <2>3, <2>5, EventAddIs
  <2>7. Alike(v, Added(v, "ERROR"))
    BY <2>1, <2>5, AddedAlike
  <2> QED
    BY <2>1, <2>3, <2>4, <2>6, <2>7 DEF Touched, Replaced, Alike
<1> QED
  BY <1>2, <1>3

(* pop_tcp_client_establish touches one peer only. *)
LEMMA EstablishIs ==
    ASSUME NEW f \in PeerFun, NEW p \in Peers
    PROVE  Touched(f, p, pop_tcp_client_establish(f, p))
<1> DEFINE v == [f[p] EXCEPT !.t_connecting = FALSE, !.listed = TRUE, !.t_event = "read",
                             !.client_status = "Establish"]
           g == [f EXCEPT ![p] = v]
<1>1. f[p] \in PeerRec
  BY DEF PeerFun
<1>2. v \in PeerRec /\ Alike(f[p], v)
  BY <1>1 DEF PeerRec, TEvents, ClientStatus, Alike
<1>4. pop_tcp_client_establish(f, p) = event_add(g, p, "SUCCESS")
  BY DEF pop_tcp_client_establish, PeerFun
<1> HIDE DEF v
<1>3. Touched(f, p, g) /\ g[p] = v
  BY <1>2, TouchedExcept
<1> HIDE DEF g
<1>5. g \in PeerFun /\ "SUCCESS" \in Infos
  BY <1>3 DEF Touched, Infos
<1>6. Replaced(g, p, Added(v, "SUCCESS"), event_add(g, p, "SUCCESS"))
  BY <1>3, <1>5, EventAddIs
<1>7. Alike(v, Added(v, "SUCCESS"))
  BY <1>2, <1>5, AddedAlike
<1> QED
  BY <1>2, <1>3, <1>4, <1>6, <1>7 DEF Touched, Replaced, Alike

(* Leaving the peers as they are is a touch, too. *)
LEMMA TouchedSelf == ASSUME NEW f \in PeerFun, NEW p \in Peers PROVE Touched(f, p, f)
BY DEF Touched, Alike

(* The events of the client's state machine; a peer that is Idle ignores   *)
(* "success".                                                              *)
LEMMA StartEventIs ==
    ASSUME NEW f \in PeerFun, NEW p \in Peers, NEW connecting \in BOOLEAN
    PROVE  Touched(f, p, start_event(f, p, connecting))
BY StartIs, TouchedSelf DEF start_event

(* "success" is ignored by all but a connecting peer. *)
LEMMA SuccessEventIs ==
    ASSUME NEW f \in PeerFun, NEW p \in Peers
    PROVE  /\ Touched(f, p, success_event(f, p))
           /\ f[p].client_status = "Idle" => success_event(f, p) = f
BY EstablishIs, TouchedSelf DEF success_event

(* Writing and queueing packets keep the status, too. *)
LEMMA PushIs ==
    ASSUME NEW f \in PeerFun, NEW p \in Peers, NEW pkt \in Packets
    PROVE  /\ Touched(f, p, push(f, p, pkt))
           /\ push(f, p, pkt)[p].client_status = f[p].client_status
<1> DEFINE v == [f[p] EXCEPT !.write_fifo = Append(@, pkt)]
<1>1. f[p] \in PeerRec
  BY DEF PeerFun
<1>2. Append(f[p].write_fifo, pkt) \in Seq(Packets)
  BY <1>1 DEF PeerRec
<1>3. v \in PeerRec /\ Alike(f[p], v) /\ v.client_status = f[p].client_status
  BY <1>1, <1>2 DEF PeerRec, Alike
<1>4. push(f, p, pkt) = [f EXCEPT ![p] = v]
  BY DEF push, PeerFun
<1> DEFINE g == [f EXCEPT ![p] = v]
<1> HIDE DEF v
<1>5. Touched(f, p, g) /\ g[p] = v
  BY <1>3, TouchedExcept
<1> QED
  BY <1>3, <1>4, <1>5

(* _pop_http_proxy_tcp_write touches one peer and keeps its status. *)
LEMMA WriteIs ==
    ASSUME NEW f \in PeerFun, NEW p \in Peers, NEW n \in 0 .. Len(f[p].write_fifo)
    PROVE  /\ Touched(f, p, tcp_write(f, p, n))
           /\ tcp_write(f, p, n)[p].client_status = f[p].client_status
<1> DEFINE rest == SubSeq(f[p].write_fifo, n + 1, Len(f[p].write_fifo))
           v == [f[p] EXCEPT !.write_fifo = rest,
                             !.t_event = IF rest = <<>> THEN "read" ELSE "rw"]
<1>1. f[p] \in PeerRec
  BY DEF PeerFun
<1>2. rest \in Seq(Packets)
  <2>1. f[p].write_fifo \in Seq(Packets)
    BY <1>1 DEF PeerRec
  <2> QED
    BY <2>1
<1>3. tcp_write(f, p, n) = [f EXCEPT ![p] = v]
  BY DEF tcp_write, PeerFun
<1> HIDE DEF rest
<1>4. v \in PeerRec /\ Alike(f[p], v) /\ v.client_status = f[p].client_status
  BY <1>1, <1>2 DEF PeerRec, Alike, TEvents
<1> DEFINE g == [f EXCEPT ![p] = v]
<1> HIDE DEF v
<1>5. Touched(f, p, g) /\ g[p] = v
  BY <1>4, TouchedExcept
<1> QED
  BY <1>3, <1>4, <1>5

(* The SUCCESS callback changes t_event of the peer or its partner. *)
LEMMA ClientSuccessIs ==
    ASSUME NEW f \in PeerFun, NEW p \in Peers
    PROVE  \E q \in Peers : /\ q = p \/ q = f[p].paired_peer
                            /\ Touched(f, q, client_success(f, p))
                            /\ client_success(f, p)[q].client_status = f[q].client_status
<1> DEFINE q == IF f[p].if_tunnel THEN f[p].paired_peer ELSE p
           v == [f[q] EXCEPT !.t_event = "rw"]
           g == [f EXCEPT ![q] = v]
<1>1. CASE q # NoPeer /\ f[q].write_fifo # <<>>
  <2>1. q \in Peers
    BY <1>1 DEF PeerFun, PeerRec, PeerOrNull
  <2>2. client_success(f, p) = g
    BY <1>1, <2>1 DEF client_success, PeerFun
  <2> HIDE DEF q
  <2>3. v \in PeerRec /\ Alike(f[q], v) /\ v.client_status = f[q].client_status
    <3>1. f[q] \in PeerRec
      BY <2>1 DEF PeerFun
    <3>2. v \in PeerRec
      BY ONLY <3>1, FieldTypes DEF TEvents
    <3> QED
      BY ONLY <3>1, <3>2 DEF PeerRec, Alike
  <2> HIDE DEF v
  <2>4. Touched(f, q, g) /\ g[q] = v
    BY <2>1, <2>3, TouchedExcept
  <2>5. q = p \/ q = f[p].paired_peer
    BY DEF q
  <2> QED
    BY <2>1, <2>2, <2>3, <2>4, <2>5
<1>2. CASE ~(q # NoPeer /\ f[q].write_fifo # <<>>)
  BY <1>2, TouchedSelf DEF client_success
<1> QED
  BY <1>1, <1>2

(* A peer waits for the answer to query id.  Most functions do not         *)
(* disturb that: g still has the waiters of f.                             *)
Waits(r, id) ==
    /\ r.alive /\ r.type = "server"
    /\ r.DnsTransactionID = id
    /\ r.t_DnsWaitAck
    /\ r.client_status = "Idle"

StillWait(f, g) == \A r \in Peers, id \in Ids : Waits(f[r], id) => Waits(g[r], id)

(* A touch that keeps the status keeps every waiter. *)
LEMMA TouchedStillWait ==
    ASSUME NEW f, NEW g, NEW p \in Peers, Touched(f, p, g),
           g[p].client_status = f[p].client_status
    PROVE  StillWait(f, g)
BY DEF Touched, Alike, StillWait, Waits

(* Closing a peer keeps every waiter but the peer itself. *)
LEMMA CloseStillWait ==
    ASSUME NEW f \in PeerFun, NEW p \in Peers
    PROVE  close_by_type(f, p) \in PeerFun /\ StillWait(f, close_by_type(f, p))
<1> DEFINE g == close_by_type(f, p)
<1>1. ReplacedAndUnpaired(f, p, ClosedByType(f[p]), g)
  BY CloseByTypeIs
<1> HIDE DEF g
<1>2. ASSUME NEW id \in Ids, Waits(f[p], id)
      PROVE  Waits(g[p], id)
  <2>1. f[p].type = "server" /\ f[p] \in PeerRec
    BY <1>2 DEF Waits, PeerFun
  <2>2. g[p] = Stopped(f[p])
    BY <1>1, <2>1 DEF ReplacedAndUnpaired, ClosedByType
  <2> QED
    BY <1>2, <2>1, <2>2 DEF Stopped, Closed, Waits, PeerRec
<1>3. ASSUME NEW r \in Peers \ {p}, NEW id \in Ids, Waits(f[r], id)
      PROVE  Waits(g[r], id)
  <2>1. g[r] = Unpaired(f[r]) \/ g[r] = f[r]
    BY <1>1 DEF ReplacedAndUnpaired
  <2>2. f[r] \in PeerRec
    BY DEF PeerFun
  <2> QED
    BY <1>3, <2>1, <2>2 DEF Unpaired, Waits, PeerRec
<1>4. g \in PeerFun
  BY <1>1 DEF ReplacedAndUnpaired
<1> QED
  BY <1>2, <1>3, <1>4 DEF StillWait, g

(* Nor does closing both halves of a pair disturb another waiter. *)
LEMMA ClosePairStillWait ==
    ASSUME NEW f \in PeerFun, NEW p \in Peers
    PROVE  /\ pop_tcp_close_paired_peer(f, p) \in PeerFun
           /\ StillWait(f, pop_tcp_close_paired_peer(f, p))
<1> DEFINE q == f[p].paired_peer
<1>1. CASE q = NoPeer
  BY <1>1, CloseStillWait DEF pop_tcp_close_paired_peer
<1>2. CASE q # NoPeer
  <2> DEFINE g == close_by_type(f, q)
  <2>1. q \in Peers
    BY <1>2 DEF PeerFun, PeerRec, PeerOrNull
  <2>2. pop_tcp_close_paired_peer(f, p) = close_by_type(g, p)
    BY <1>2 DEF pop_tcp_close_paired_peer
  <2> HIDE DEF q
  <2>3. g \in PeerFun /\ StillWait(f, g)
    BY <2>1, CloseStillWait
  <2> HIDE DEF g
  <2>4. close_by_type(g, p) \in PeerFun /\ StillWait(g, close_by_type(g, p))
    BY <2>3, CloseStillWait
  <2> QED
    BY <2>2, <2>3, <2>4 DEF StillWait
<1> QED
  BY <1>1, <1>2

(* Nor does any outcome of writing. *)
LEMMA WriteOutcomesStillWait ==
    ASSUME NEW f \in PeerFun, NEW p \in Peers, NEW g \in WriteOutcomes(f, p)
    PROVE  g \in PeerFun /\ StillWait(f, g)
<1>1. CASE g = pop_tcp_close_paired_peer(f, p)
  BY <1>1, ClosePairStillWait
<1>2. ASSUME NEW n \in 0 .. Len(f[p].write_fifo), g = tcp_write(f, p, n)
      PROVE  g \in PeerFun /\ StillWait(f, g)
  <2>1. Touched(f, p, g) /\ g[p].client_status = f[p].client_status
    BY <1>2, WriteIs
  <2> QED
    BY <2>1, TouchedStillWait DEF Touched
<1> QED
  BY <1>1, <1>2 DEF WriteOutcomes

-----------------------------------------------------------------------------
(* A request makes a server in a free slot, and pairs it with its client.  *)

NewServer(c, tunnel) ==
    [pop_peer_new EXCEPT !.type = "server", !.if_tunnel = tunnel, !.paired_peer = c]

(* PairMade allocates the server and pairs it with the client. *)
LEMMA PairMadeIs ==
    ASSUME NEW c \in Peers, NEW s \in Peers, c # s, NEW tunnel \in BOOLEAN,
           peer \in PeerFun
    PROVE  LET g == PairMade(c, s, tunnel)
           IN  /\ g \in PeerFun
               /\ Alike(NewServer(c, tunnel), g[s]) /\ g[s].client_status = "Idle"
               /\ Alike([peer[c] EXCEPT !.paired_peer = s], g[c])
               /\ g[c].client_status = peer[c].client_status
               /\ \A r \in Peers \ {c, s} : g[r] = peer[r]
<1> DEFINE n == [pop_peer_new EXCEPT !.type = "server", !.if_tunnel = tunnel]
           e == [peer EXCEPT ![s] = n]
           f == pop_peers_paired(e, s, c)
           g == PairMade(c, s, tunnel)
<1>1. n \in PeerRec /\ pop_peer_new \in PeerRec /\ peer[c] \in PeerRec
  BY NewPeerType DEF PeerRec, PeerFun
<1>2. n.client_status = "Idle" /\ [n EXCEPT !.paired_peer = c] = NewServer(c, tunnel)
  BY DEF pop_peer_new, NewServer
<1>3. g = IF tunnel THEN push(f, c, "estab") ELSE push(f, s, "client")
  BY DEF PairMade
<1> HIDE DEF n
<1>4. e \in PeerFun /\ e[s] = n /\ \A r \in Peers \ {s} : e[r] = peer[r]
  BY <1>1, ReplacedExcept DEF Replaced
<1> HIDE DEF e
<1>5. /\ f \in PeerFun
      /\ f[s] = [e[s] EXCEPT !.paired_peer = c]
      /\ f[c] = [e[c] EXCEPT !.paired_peer = s]
      /\ \A r \in Peers \ {s, c} : f[r] = e[r]
  BY <1>4, PeersPairedIs
<1> HIDE DEF f, g
<1>6. "estab" \in Packets /\ "client" \in Packets
  BY DEF Packets
<1>7. \/ Touched(f, c, g) /\ g[c].client_status = f[c].client_status
      \/ Touched(f, s, g) /\ g[s].client_status = f[s].client_status
  <2>1. CASE tunnel
    <3>1. g = push(f, c, "estab")
      BY <1>3, <2>1
    <3>2. f \in PeerFun
      BY <1>5
    <3>3. /\ Touched(f, c, push(f, c, "estab"))
          /\ push(f, c, "estab")[c].client_status = f[c].client_status
      BY ONLY <1>6, <3>2, PushIs, c \in Peers, s \in Peers
    <3> QED
      BY <3>1, <3>3
  <2>2. CASE ~tunnel
    <3>1. g = push(f, s, "client")
      BY <1>3, <2>2
    <3>2. f \in PeerFun
      BY <1>5
    <3>3. /\ Touched(f, s, push(f, s, "client"))
          /\ push(f, s, "client")[s].client_status = f[s].client_status
      BY ONLY <1>6, <3>2, PushIs, c \in Peers, s \in Peers
    <3> QED
      BY <3>1, <3>3
  <2> QED
    BY <2>1, <2>2
<1>8. g \in PeerFun
  BY <1>7 DEF Touched
<1>9. /\ Alike(f[s], g[s]) /\ g[s].client_status = f[s].client_status
      /\ Alike(f[c], g[c]) /\ g[c].client_status = f[c].client_status
      /\ \A r \in Peers \ {c, s} : g[r] = f[r]
  BY <1>7 DEF Touched, Alike
<1>10. f[s] = NewServer(c, tunnel) /\ f[s].client_status = "Idle"
  BY <1>1, <1>2, <1>4, <1>5 DEF PeerRec
<1>11. f[c] = [peer[c] EXCEPT !.paired_peer = s] /\ f[c].client_status = peer[c].client_status
  <2>1. e[c] = peer[c] /\ f[c] = [e[c] EXCEPT !.paired_peer = s]
    BY <1>4, <1>5
  <2> QED
    BY <1>1, <2>1 DEF PeerRec
<1>12. \A r \in Peers \ {c, s} : g[r] = peer[r]
  BY <1>4, <1>5, <1>9
<1> QED
  BY <1>8, <1>9, <1>10, <1>11, <1>12 DEF g

(* Making a pair leaves the other waiters alone. *)
LEMMA PairMadeWaiters ==
    ASSUME NEW c \in Peers, NEW s \in Peers, c # s, NEW tunnel \in BOOLEAN,
           peer \in PeerFun
    PROVE  \A r \in Peers \ {s}, id \in Ids :
             Waits(peer[r], id) => Waits(PairMade(c, s, tunnel)[r], id)
<1> DEFINE g == PairMade(c, s, tunnel)
<1>1. /\ Alike([peer[c] EXCEPT !.paired_peer = s], g[c])
      /\ g[c].client_status = peer[c].client_status
      /\ \A r \in Peers \ {c, s} : g[r] = peer[r]
  BY PairMadeIs
<1> HIDE DEF g
<1>2. peer[c] \in PeerRec
  BY DEF PeerFun
<1>3. \A id \in Ids : Waits(peer[c], id) => Waits(g[c], id)
  BY <1>1, <1>2 DEF Alike, Waits, PeerRec
<1> QED
  BY <1>1, <1>3 DEF g

(* Freeing a peer leaves the other waiters alone. *)
LEMMA PeerDeletedIs ==
    ASSUME NEW f \in PeerFun, NEW p \in Peers
    PROVE  LET g == PeerDeleted(f, p)
           IN  /\ g \in PeerFun
               /\ g[p] = FreeSlot
               /\ \A r \in Peers \ {p} :
                    g[r] = IF r = f[p].paired_peer THEN Unpaired(f[r]) ELSE f[r]
<1> DEFINE h == pop_tcp_cancle_paired(f, p)
           g == [h EXCEPT ![p] = FreeSlot]
<1>1. ReplacedAndUnpaired(f, p, Unpaired(f[p]), h)
  BY CancelPairedIs
<1>2. PeerDeleted(f, p) = g
  BY DEF PeerDeleted
<1> HIDE DEF h
<1>3. h \in PeerFun
  BY <1>1 DEF ReplacedAndUnpaired
<1>4. Replaced(h, p, FreeSlot, g)
  BY <1>3, NewPeerType, ReplacedExcept
<1> QED
  BY <1>1, <1>2, <1>4 DEF Replaced, ReplacedAndUnpaired

(* A waiter other than the freed peer goes on waiting. *)
LEMMA PeerDeletedWaiters ==
    ASSUME NEW f \in PeerFun, NEW p \in Peers
    PROVE  \A r \in Peers \ {p}, id \in Ids :
             Waits(f[r], id) => Waits(PeerDeleted(f, p)[r], id)
<1>1. \A r \in PeerRec, id \in Ids : Waits(r, id) => Waits(Unpaired(r), id)
  BY DEF Waits, Unpaired, PeerRec
<1>2. \A r \in Peers \ {p} :
         PeerDeleted(f, p)[r] = IF r = f[p].paired_peer THEN Unpaired(f[r]) ELSE f[r]
  BY PeerDeletedIs
<1>3. \A r \in Peers : f[r] \in PeerRec
  BY DEF PeerFun
<1> QED
  BY <1>1, <1>2, <1>3

-----------------------------------------------------------------------------
(* Types and the DNS wait queue: an invariant for all constants.           *)

WaitInv == TypeOK /\ WaitersConsistent

(* WaitersConsistent, said entry by entry. *)
LEMMA WaitersAre ==
    WaitersConsistent <=> \A id \in Ids : waitq[id] # NoPeer => Waits(peer[waitq[id]], id)
BY DEF WaitersConsistent, Waits

(* Steps that leave the queue alone and disturb at most a peer s that is   *)
(* not in it.                                                              *)
LEMMA QueueKept ==
    ASSUME WaitInv, NEW s \in Peers, \A id \in Ids : waitq[id] # s,
           peer' \in PeerFun, waitq' = waitq, transId' \in Ids,
           \A r \in Peers \ {s}, id \in Ids : Waits(peer[r], id) => Waits(peer'[r], id)
    PROVE  WaitInv'
<1>1. TypeOK'
  BY DEF TypeOK, WaitInv, PeerFun
<1>2. ASSUME NEW id \in Ids, waitq'[id] # NoPeer
      PROVE  Waits(peer'[waitq'[id]], id)
  <2>1. waitq[id] \in Peers \ {s} /\ Waits(peer[waitq[id]], id)
    BY <1>2, WaitersAre DEF WaitInv, TypeOK, PeerOrNull
  <2> QED
    BY <2>1
<1> QED
  BY <1>1, <1>2 DEF WaitInv, WaitersConsistent, Waits

(* A step that keeps the waiters and the queue keeps the invariant. *)
LEMMA AllStillWait ==
    ASSUME WaitInv, StillWait(peer, peer'),
           peer' \in PeerFun, waitq' = waitq, transId' = transId
    PROVE  WaitInv'
<1>1. TypeOK'
  BY DEF TypeOK, WaitInv, PeerFun
<1>2. ASSUME NEW id \in Ids, waitq'[id] # NoPeer
      PROVE  Waits(peer'[waitq'[id]], id)
  <2>1. waitq[id] \in Peers /\ Waits(peer[waitq[id]], id)
    BY <1>2, WaitersAre DEF WaitInv, TypeOK, PeerOrNull
  <2> QED
    BY <2>1 DEF StillWait
<1> QED
  BY <1>1, <1>2 DEF WaitInv, WaitersConsistent, Waits

(* A slot that is free is not in the queue. *)
LEMMA FreeNotQueued ==
    ASSUME WaitInv, NEW s \in Peers, Free(s)
    PROVE  \A id \in Ids : waitq[id] # s
BY WaitersAre, ProxyAssumption DEF WaitInv, Waits, Free

(* A new client takes a free slot, which nobody waits in. *)
LEMMA WaitInvAccept ==
    ASSUME WaitInv, NEW c \in Peers, Accept(c)
    PROVE  WaitInv'
<1> DEFINE v == [pop_peer_new EXCEPT !.type = "client", !.sockfd = TRUE,
                                     !.server_status = "Established",
                                     !.t_event = "read", !.listed = TRUE]
           f == [peer EXCEPT ![c] = v]
<1>1. peer \in PeerFun /\ v \in PeerRec
  BY NewPeerType DEF WaitInv, TypeOK, PeerFun, PeerRec, ServerStatus, TEvents
<1>2. peer' = event_add(f, c, "ACCEPT") /\ UNCHANGED <<waitq, transId>> /\ Free(c)
  BY DEF Accept
<1> HIDE DEF v
<1>3. Replaced(peer, c, v, f)
  BY <1>1, ReplacedExcept
<1> HIDE DEF f
<1>4. f \in PeerFun /\ "ACCEPT" \in Infos
  BY <1>3 DEF Replaced, Infos
<1>5. Replaced(f, c, Added(f[c], "ACCEPT"), event_add(f, c, "ACCEPT"))
  BY <1>4, EventAddIs
<1>6. peer' \in PeerFun /\ \A r \in Peers \ {c} : peer'[r] = peer[r]
  BY <1>2, <1>3, <1>5 DEF Replaced
<1>7. transId' \in Ids
  BY <1>2 DEF WaitInv, TypeOK
<1> QED
  BY <1>2, <1>6, <1>7, QueueKept, FreeNotQueued

(* The new server takes a free slot and does not wait. *)
LEMMA WaitInvRequestResolved ==
    ASSUME WaitInv, NEW c \in Peers, NEW s \in Peers, NEW tunnel \in BOOLEAN,
           RequestResolved(c, s, tunnel)
    PROVE  WaitInv'
<1> DEFINE f == PairMade(c, s, tunnel)
<1>1. /\ peer \in PeerFun
      /\ Free(s) /\ c # s
      /\ UNCHANGED <<waitq, transId>>
  BY DEF RequestResolved, RequestPossible, Readable, Free, WaitInv, TypeOK, PeerFun
<1>2. f \in PeerFun /\ \A r \in Peers \ {s}, id \in Ids : Waits(peer[r], id) => Waits(f[r], id)
  BY <1>1, PairMadeIs, PairMadeWaiters
<1>3. PICK connecting \in BOOLEAN : peer' = start_event(f, s, connecting)
  BY DEF RequestResolved
<1> HIDE DEF f
<1>4. Touched(f, s, peer')
  BY <1>2, <1>3, StartEventIs
<1>5. transId' \in Ids
  BY <1>1 DEF WaitInv, TypeOK
<1> QED
  BY <1>1, <1>2, <1>4, <1>5, QueueKept, FreeNotQueued DEF Touched

(* The new server waits under the id of its own query. *)
LEMMA WaitInvRequestQuery ==
    ASSUME WaitInv, NEW c \in Peers, NEW s \in Peers, NEW tunnel \in BOOLEAN,
           RequestQuery(c, s, tunnel)
    PROVE  WaitInv'
<1> DEFINE f == PairMade(c, s, tunnel)
           v == [f[s] EXCEPT !.DnsTransactionID = transId, !.t_DnsWaitAck = TRUE]
<1>1. /\ peer \in PeerFun
      /\ Free(s) /\ c # s
      /\ transId \in Ids /\ waitq \in [Ids -> PeerOrNull]
  BY DEF RequestQuery, RequestPossible, Readable, Free, WaitInv, TypeOK, PeerFun
<1>2. /\ f \in PeerFun
      /\ Alike(NewServer(c, tunnel), f[s]) /\ f[s].client_status = "Idle"
      /\ \A r \in Peers \ {s}, id \in Ids : Waits(peer[r], id) => Waits(f[r], id)
  BY <1>1, PairMadeIs, PairMadeWaiters
<1>3. f[s] \in PeerRec /\ f[s].alive /\ f[s].type = "server"
  BY <1>2 DEF Alike, NewServer, pop_peer_new, PeerFun
<1>4. transId' \in Ids
  BY <1>1, ProxyAssumption DEF RequestQuery, NextId, Ids
<1>5. CASE /\ peer' = [f EXCEPT ![s].DnsTransactionID = transId, ![s].t_DnsWaitAck = TRUE]
           /\ waitq' = DnsWaitAckQueueAdd(waitq, transId, s)
  <2> HIDE DEF f
  <2>1. peer' = [f EXCEPT ![s] = v]
    BY <1>2, <1>5 DEF PeerFun
  <2>2. v \in PeerRec /\ Waits(v, transId)
    BY <1>1, <1>2, <1>3 DEF PeerRec, Waits
  <2> HIDE DEF v
  <2>3. peer' \in PeerFun /\ peer'[s] = v /\ \A r \in Peers \ {s} : peer'[r] = f[r]
    BY <1>2, <2>1, <2>2 DEF PeerFun
  <2>4. waitq' \in [Ids -> PeerOrNull]
    BY <1>1, <1>5 DEF DnsWaitAckQueueAdd, PeerOrNull
  <2>5. ASSUME NEW id \in Ids, waitq'[id] # NoPeer
        PROVE  Waits(peer'[waitq'[id]], id)
    <3>1. CASE waitq[id] # NoPeer
      <4>1. waitq'[id] = waitq[id]
        BY <1>1, <1>5, <3>1 DEF DnsWaitAckQueueAdd
      <4>2. waitq[id] \in Peers \ {s}
        BY <1>1, <3>1, FreeNotQueued DEF PeerOrNull
      <4>3. Waits(peer[waitq[id]], id)
        BY <3>1, WaitersAre DEF WaitInv
      <4> QED
        BY <1>2, <2>3, <4>1, <4>2, <4>3
    <3>2. CASE waitq[id] = NoPeer
      <4>1. id = transId /\ waitq'[id] = s
        BY <1>1, <1>5, <2>5, <3>2 DEF DnsWaitAckQueueAdd
      <4> QED
        BY <2>2, <2>3, <4>1
    <3> QED
      BY <3>1, <3>2
  <2>6. TypeOK'
    BY <1>4, <2>3, <2>4 DEF TypeOK, PeerFun
  <2> QED
    BY <2>5, <2>6 DEF WaitInv, WaitersConsistent, Waits
<1>6. CASE peer' = pop_tcp_close_paired_peer(f, c) /\ UNCHANGED waitq
  <2> HIDE DEF f
  <2>1. peer' \in PeerFun /\ StillWait(f, peer')
    BY <1>2, <1>6, ClosePairStillWait
  <2>2. \A r \in Peers \ {s}, id \in Ids : Waits(peer[r], id) => Waits(peer'[r], id)
    BY <1>2, <2>1 DEF StillWait
  <2> QED
    BY <1>1, <1>4, <1>6, <2>1, <2>2, QueueKept, FreeNotQueued
<1> QED
  BY <1>5, <1>6 DEF RequestQuery

(* Reading, writing and the end of connect(): no waiter is disturbed. *)
LEMMA WaitInvReadClosed ==
    ASSUME WaitInv, NEW p \in Peers, ReadClosed(p)
    PROVE  WaitInv'
BY ClosePairStillWait, AllStillWait DEF ReadClosed, WaitInv, TypeOK, PeerFun

(* Relaying a packet disturbs no waiter. *)
LEMMA WaitInvReadForward ==
    ASSUME WaitInv, NEW p \in Peers, ReadForward(p)
    PROVE  WaitInv'
<1> DEFINE q == peer[p].paired_peer
           f == push(peer, q, peer[p].type)
<1>1. /\ peer \in PeerFun /\ q \in Peers /\ peer[p].type \in Packets
      /\ UNCHANGED <<waitq, transId>>
  BY DEF ReadForward, CanForward, WaitInv, TypeOK, PeerFun, PeerRec, PeerOrNull, Packets
<1>2. peer' \in WriteOutcomes(f, q)
  BY DEF ReadForward
<1> HIDE DEF q
<1>3. Touched(peer, q, f) /\ f[q].client_status = peer[q].client_status
  BY <1>1, PushIs
<1> HIDE DEF f
<1>4. f \in PeerFun /\ StillWait(peer, f)
  BY <1>1, <1>3, TouchedStillWait DEF Touched
<1>5. peer' \in PeerFun /\ StillWait(f, peer')
  BY <1>1, <1>2, <1>4, WriteOutcomesStillWait
<1>6. StillWait(peer, peer')
  BY <1>4, <1>5 DEF StillWait
<1> QED
  BY <1>1, <1>5, <1>6, AllStillWait

(* Nor does keeping a packet for later. *)
LEMMA WaitInvReadEarly ==
    ASSUME WaitInv, NEW c \in Peers, ReadEarly(c)
    PROVE  WaitInv'
<1>1. peer \in PeerFun /\ "client" \in Packets
  BY DEF WaitInv, TypeOK, PeerFun, Packets
<1>2. peer' = push(peer, c, "client") /\ UNCHANGED <<waitq, transId>>
  BY DEF ReadEarly
<1>3. Touched(peer, c, peer') /\ peer'[c].client_status = peer[c].client_status
  BY <1>1, <1>2, PushIs
<1> QED
  BY <1>2, <1>3, TouchedStillWait, AllStillWait DEF Touched

(* Nor does writing. *)
LEMMA WaitInvWrite ==
    ASSUME WaitInv, NEW p \in Peers, Write(p)
    PROVE  WaitInv'
BY WriteOutcomesStillWait, AllStillWait DEF Write, WaitInv, TypeOK, PeerFun

(* A waiter is Idle: it ignores "success". *)
LEMMA WaitInvConnectCheck ==
    ASSUME WaitInv, NEW s \in Peers, ConnectCheck(s)
    PROVE  WaitInv'
<1>1. peer \in PeerFun /\ UNCHANGED <<waitq, transId>>
  BY DEF ConnectCheck, WaitInv, TypeOK, PeerFun
<1>2. CASE peer' = success_event(peer, s)
  <2>1. Touched(peer, s, peer')
    BY <1>1, <1>2, SuccessEventIs
  <2>2. CASE peer[s].client_status = "Idle"
    <3>1. peer' = peer
      BY <1>1, <1>2, <2>2, SuccessEventIs
    <3> QED
      BY <1>1, <3>1, AllStillWait DEF StillWait
  <2>3. CASE peer[s].client_status # "Idle"
    <3>1. StillWait(peer, peer')
      BY <2>1, <2>3 DEF StillWait, Waits, Touched
    <3> QED
      BY <1>1, <2>1, <3>1, AllStillWait DEF Touched
  <2> QED
    BY <2>2, <2>3
<1>3. CASE peer' = pop_tcp_close_paired_peer(peer, s)
  BY <1>1, <1>3, ClosePairStillWait, AllStillWait
<1> QED
  BY <1>2, <1>3 DEF ConnectCheck

(* Nor does the end of a connection attempt. *)
LEMMA WaitInvConnectExpired ==
    ASSUME WaitInv, NEW s \in Peers, ConnectExpired(s)
    PROVE  WaitInv'
<1> DEFINE v == [peer[s] EXCEPT !.t_connecting = FALSE]
           f == [peer EXCEPT ![s] = v]
<1>1. peer \in PeerFun /\ UNCHANGED <<waitq, transId>>
  BY DEF ConnectExpired, WaitInv, TypeOK, PeerFun
<1>2. peer' = pop_tcp_close_paired_peer(f, s)
  BY <1>1 DEF ConnectExpired, PeerFun
<1>3. v \in PeerRec /\ Alike(peer[s], v) /\ v.client_status = peer[s].client_status
  <2>1. peer[s] \in PeerRec
    BY <1>1 DEF PeerFun
  <2>2. v \in PeerRec
    BY ONLY <2>1, FieldTypes
  <2> QED
    BY ONLY <2>1, <2>2 DEF PeerRec, Alike
<1> HIDE DEF v
<1>4. Touched(peer, s, f) /\ f[s] = v
  BY <1>1, <1>3, TouchedExcept
<1> HIDE DEF f
<1>5. f \in PeerFun /\ StillWait(peer, f)
  BY <1>3, <1>4, TouchedStillWait DEF Touched
<1>6. peer' \in PeerFun /\ StillWait(f, peer')
  BY <1>2, <1>5, ClosePairStillWait
<1>7. StillWait(peer, peer')
  BY <1>5, <1>6 DEF StillWait
<1> QED
  BY <1>1, <1>6, <1>7, AllStillWait

(* The end of a wait.  A peer is in the queue under its own id only, so    *)
(* nothing of it is left there.                                            *)
LEMMA QueueDeleted ==
    ASSUME WaitInv, NEW s \in Peers, transId' \in Ids,
           waitq' = DnsWaitAckQueueDel(waitq, peer[s].DnsTransactionID),
           peer' \in PeerFun,
           \A r \in Peers \ {s}, id \in Ids : Waits(peer[r], id) => Waits(peer'[r], id)
    PROVE  WaitInv'
<1>1. peer[s].DnsTransactionID \in Ids /\ waitq \in [Ids -> PeerOrNull]
  BY DEF WaitInv, TypeOK, PeerRec
<1>2. waitq' \in [Ids -> PeerOrNull]
  BY <1>1 DEF DnsWaitAckQueueDel, PeerOrNull
<1>3. TypeOK'
  BY <1>2 DEF TypeOK, PeerFun
<1>4. ASSUME NEW id \in Ids, waitq'[id] # NoPeer
      PROVE  Waits(peer'[waitq'[id]], id)
  <2>1. id # peer[s].DnsTransactionID /\ waitq'[id] = waitq[id]
    BY <1>1, <1>4 DEF DnsWaitAckQueueDel
  <2>2. Waits(peer[waitq[id]], id) /\ waitq[id] \in Peers
    BY <1>1, <1>4, <2>1, WaitersAre DEF WaitInv, PeerOrNull
  <2>3. waitq[id] # s
    BY <2>1, <2>2 DEF Waits
  <2> QED
    BY <2>1, <2>2, <2>3
<1> QED
  BY <1>3, <1>4 DEF WaitInv, WaitersConsistent, Waits

(* Cancelling the timer of the wait. *)
LEMMA WaitOver ==
    ASSUME NEW f \in PeerFun, NEW s \in Peers
    PROVE  /\ [f EXCEPT ![s].t_DnsWaitAck = FALSE] \in PeerFun
           /\ \A r \in Peers \ {s} : [f EXCEPT ![s].t_DnsWaitAck = FALSE][r] = f[r]
<1> DEFINE v == [f[s] EXCEPT !.t_DnsWaitAck = FALSE]
<1>1. [f EXCEPT ![s].t_DnsWaitAck = FALSE] = [f EXCEPT ![s] = v]
  BY DEF PeerFun
<1>2. v \in PeerRec
  <2>1. f[s] \in PeerRec
    BY DEF PeerFun
  <2> QED
    BY ONLY <2>1, FieldTypes
<1> QED
  BY <1>1, <1>2 DEF PeerFun

(* An answer takes its waiter out of the queue before it starts it. *)
LEMMA WaitInvDnsAck ==
    ASSUME WaitInv, NEW id \in Ids, DnsAck(id)
    PROVE  WaitInv'
<1> DEFINE s == waitq[id]
           f == [peer EXCEPT ![s].t_DnsWaitAck = FALSE]
<1>1. peer \in PeerFun /\ s \in Peers /\ transId' \in Ids
  BY DEF DnsAck, WaitInv, TypeOK, PeerFun, PeerOrNull
<1>2. waitq' = DnsWaitAckQueueDel(waitq, peer[s].DnsTransactionID)
  BY DEF DnsAck
<1>3. peer' = f \/ \E connecting \in BOOLEAN : peer' = start_event(f, s, connecting)
  BY DEF DnsAck
<1> HIDE DEF s
<1>4. f \in PeerFun /\ \A r \in Peers \ {s} : f[r] = peer[r]
  BY <1>1, WaitOver
<1> HIDE DEF f
<1>5. peer' \in PeerFun /\ \A r \in Peers \ {s} : peer'[r] = f[r]
  BY <1>1, <1>3, <1>4, StartEventIs DEF Touched
<1> QED
  BY <1>1, <1>2, <1>4, <1>5, QueueDeleted

(* The timeout takes its waiter out of the queue and closes it. *)
LEMMA WaitInvDnsTimeout ==
    ASSUME WaitInv, NEW s \in Peers, DnsTimeout(s)
    PROVE  WaitInv'
<1> DEFINE f == [peer EXCEPT ![s].t_DnsWaitAck = FALSE]
<1>1. peer \in PeerFun /\ transId' \in Ids
  BY DEF DnsTimeout, WaitInv, TypeOK, PeerFun
<1>2. /\ waitq' = DnsWaitAckQueueDel(waitq, peer[s].DnsTransactionID)
      /\ peer' = pop_tcp_close_paired_peer(f, s)
  BY DEF DnsTimeout
<1>3. f \in PeerFun /\ \A r \in Peers \ {s} : f[r] = peer[r]
  BY <1>1, WaitOver
<1> HIDE DEF f
<1>4. peer' \in PeerFun /\ StillWait(f, peer')
  BY <1>2, <1>3, ClosePairStillWait
<1>5. \A r \in Peers \ {s}, id \in Ids : Waits(peer[r], id) => Waits(peer'[r], id)
  BY <1>3, <1>4 DEF StillWait
<1> QED
  BY <1>1, <1>2, <1>4, <1>5, QueueDeleted

(* Freeing a peer takes it out of the queue. *)
LEMMA WaitInvInfoDeal ==
    ASSUME WaitInv, NEW p \in Peers, InfoDeal(p)
    PROVE  WaitInv'
<1> DEFINE v == [peer[p] EXCEPT !.t_info_deal = FALSE]
           f == [peer EXCEPT ![p] = v]
           n == IF Len(peer[p].info) < ExecuteCount THEN Len(peer[p].info) ELSE ExecuteCount
           rest == SubSeq(peer[p].info, n + 1, Len(peer[p].info))
           done(g) == [g EXCEPT ![p].info = rest, ![p].t_info_deal = (rest # <<>>)]
<1>1. peer \in PeerFun /\ peer[p] \in PeerRec /\ transId' = transId /\ transId \in Ids
  BY DEF InfoDeal, WaitInv, TypeOK, PeerFun
<1>2. f = [peer EXCEPT ![p].t_info_deal = FALSE]
  BY ONLY <1>1, p \in Peers DEF PeerFun
<1>3. \E g \in {f, client_success(f, p)} :
        \/ peer' = f /\ waitq' = waitq
        \/ /\ peer' = PeerDeleted(g, p)
           /\ waitq' = DnsWaitAckQueueDel(waitq, peer[p].DnsTransactionID)
        \/ peer' = done(g) /\ waitq' = waitq
  BY <1>2 DEF InfoDeal
<1>4. rest \in Seq(Infos)
  <2>1. /\ peer[p].info \in Seq(Infos)
        /\ n \in Nat
    BY <1>1, ProxyAssumption DEF PeerRec
  <2> QED
    BY <2>1
<1> HIDE DEF rest
<1>5. v \in PeerRec /\ Alike(peer[p], v) /\ v.client_status = peer[p].client_status
  BY <1>1 DEF PeerRec, Alike
<1> HIDE DEF v
<1>6. Touched(peer, p, f) /\ f[p] = v
  BY <1>1, <1>5, TouchedExcept
<1> HIDE DEF f
<1>7. f \in PeerFun /\ StillWait(peer, f)
  BY <1>5, <1>6, TouchedStillWait DEF Touched
<1>8. client_success(f, p) \in PeerFun /\ StillWait(f, client_success(f, p))
  <2>1. PICK q \in Peers : /\ Touched(f, q, client_success(f, p))
                           /\ client_success(f, p)[q].client_status = f[q].client_status
    BY <1>7, ClientSuccessIs
  <2> QED
    BY <2>1, TouchedStillWait DEF Touched
<1>9. PICK g \in {f, client_success(f, p)} :
        \/ peer' = f /\ waitq' = waitq
        \/ /\ peer' = PeerDeleted(g, p)
           /\ waitq' = DnsWaitAckQueueDel(waitq, peer[p].DnsTransactionID)
        \/ peer' = done(g) /\ waitq' = waitq
  BY <1>3
<1>10. g \in PeerFun /\ StillWait(peer, g)
  BY <1>7, <1>8 DEF StillWait
<1>11. CASE peer' = f /\ waitq' = waitq
  BY <1>1, <1>7, <1>11, AllStillWait
<1>12. CASE /\ peer' = PeerDeleted(g, p)
            /\ waitq' = DnsWaitAckQueueDel(waitq, peer[p].DnsTransactionID)
  <2>1. peer' \in PeerFun
    BY <1>10, <1>12, PeerDeletedIs
  <2>2. \A r \in Peers \ {p}, id \in Ids : Waits(peer[r], id) => Waits(peer'[r], id)
    BY <1>10, <1>12, PeerDeletedWaiters DEF StillWait
  <2> QED
    BY <1>1, <1>12, <2>1, <2>2, QueueDeleted
<1>13. CASE peer' = done(g) /\ waitq' = waitq
  <2> DEFINE w == [g[p] EXCEPT !.info = rest, !.t_info_deal = (rest # <<>>)]
             h == [g EXCEPT ![p] = w]
  <2>1. peer' = h
    BY <1>10, <1>13 DEF PeerFun
  <2>2. w \in PeerRec /\ Alike(g[p], w) /\ w.client_status = g[p].client_status
    <3>1. g[p] \in PeerRec
      BY <1>10 DEF PeerFun
    <3>2. (rest # <<>>) \in BOOLEAN
      OBVIOUS
    <3>3. w \in PeerRec
      BY ONLY <1>4, <3>1, <3>2, FieldTypes
    <3> QED
      BY ONLY <3>1, <3>3 DEF PeerRec, Alike
  <2> HIDE DEF w
  <2>3. Touched(g, p, h) /\ h[p] = w
    BY <1>10, <2>2, TouchedExcept
  <2> HIDE DEF h
  <2>4. h \in PeerFun /\ StillWait(g, h)
    <3>1. h[p].client_status = g[p].client_status
      BY <2>2, <2>3
    <3>2. StillWait(g, h)
      BY <2>3, <3>1, TouchedStillWait
    <3> QED
      BY <2>3, <3>2 DEF Touched
  <2>5. StillWait(peer, h)
    BY <1>10, <2>4 DEF StillWait
  <2> QED
    BY <1>1, <1>13, <2>1, <2>4, <2>5, AllStillWait
<1> QED
  BY <1>9, <1>11, <1>12, <1>13

-----------------------------------------------------------------------------

(* The inductive invariant holds when the program has started and no       *)
(* client has connected yet.                                               *)
THEOREM WaitInvInit == Init => WaitInv
BY NewPeerType, ProxyAssumption DEF Init, WaitInv, TypeOK, WaitersConsistent, PeerOrNull, Ids

(* No callback breaks the inductive invariant, which strengthens           *)
(* WaitersConsistent by the type invariant only.                           *)
THEOREM WaitInvStep == WaitInv /\ [Next]_vars => WaitInv'
<1> SUFFICES ASSUME WaitInv, [Next]_vars
             PROVE  WaitInv'
  OBVIOUS
<1>1. ASSUME NEW p \in Peers,
             \/ Accept(p) \/ ReadClosed(p) \/ ReadForward(p)
             \/ ReadEarly(p) \/ Write(p) \/ ConnectCheck(p)
      PROVE  WaitInv'
  BY <1>1, WaitInvAccept, WaitInvReadClosed, WaitInvReadForward, WaitInvReadEarly,
     WaitInvWrite, WaitInvConnectCheck
<1>2. ASSUME NEW c \in Peers, NEW s \in Peers, NEW tunnel \in BOOLEAN,
             RequestResolved(c, s, tunnel) \/ RequestQuery(c, s, tunnel)
      PROVE  WaitInv'
  BY <1>2, WaitInvRequestResolved, WaitInvRequestQuery
<1>3. ASSUME NEW id \in Ids, DnsAck(id)
      PROVE  WaitInv'
  BY <1>3, WaitInvDnsAck
<1>4. ASSUME NEW p \in Peers, InfoDeal(p) \/ ConnectExpired(p) \/ DnsTimeout(p)
      PROVE  WaitInv'
  BY <1>4, WaitInvInfoDeal, WaitInvConnectExpired, WaitInvDnsTimeout
<1>5. CASE UNCHANGED vars
  BY <1>5 DEF vars, WaitInv, TypeOK, WaitersConsistent
<1> QED
  BY <1>1, <1>2, <1>3, <1>4, <1>5 DEF Next, NetworkStep, TimerStep

(* The inductive invariant holds in every reachable state. *)
LEMMA WaitInvHolds == Spec => []WaitInv
BY WaitInvInit, WaitInvStep, PTL DEF Spec

(* Every peer, the queue and the id counter keep their types: no callback   *)
(* leaves a peer in a status its state machine does not have.               *)
THEOREM TypeCorrect == Spec => []TypeOK
<1>1. WaitInv => TypeOK
  BY DEF WaitInv
<1> QED
  BY <1>1, WaitInvHolds, PTL

(* The DNS wait queue holds only live, idle servers, each under the id of   *)
(* its query and with its timer set, whatever is closed or freed while the  *)
(* answer is under way and however soon the ids wrap around.                *)
THEOREM DnsWaitersConsistent == Spec => []WaitersConsistent
<1>1. WaitInv => WaitersConsistent
  BY DEF WaitInv
<1> QED
  BY <1>1, WaitInvHolds, PTL

-----------------------------------------------------------------------------
(* The pairing of peers and the freeing of them, for a client that sends    *)
(* its next request when its server is gone (Pipelining is FALSE; without  *)
(* that assumption the run proxy_repair shows that they fail).             *)

Mutual(f) ==
    \A p \in Peers : f[p].paired_peer # NoPeer =>
        /\ f[f[p].paired_peer].paired_peer = p
        /\ {f[p].type, f[f[p].paired_peer].type} = {"client", "server"}

Freed(f) == \A p \in Peers : ~f[p].alive => f[p] = FreeSlot

(* Nothing but the pairing and the freed slots has to be remembered: a     *)
(* freed slot is paired with nobody, so nobody is paired with it.          *)
Sound(f) == f \in PeerFun /\ Mutual(f) /\ Freed(f)

(* Both halves of a pair are allocated and point to each other. *)
LEMMA PartnerIs ==
    ASSUME NEW f, Sound(f), NEW p \in Peers, f[p].paired_peer # NoPeer
    PROVE  LET q == f[p].paired_peer
           IN  /\ q \in Peers /\ q # p
               /\ f[p].alive /\ f[q].alive
               /\ f[q].paired_peer = p
<1> DEFINE q == f[p].paired_peer
<1>1. q \in Peers
  BY DEF Sound, PeerFun, PeerRec, PeerOrNull
<1>2. f[q].paired_peer = p /\ {f[p].type, f[q].type} = {"client", "server"}
  BY DEF Sound, Mutual
<1>3. q # p
  BY <1>2
<1>4. FreeSlot.paired_peer = NoPeer /\ p # NoPeer
  BY ProxyAssumption DEF FreeSlot, pop_peer_new
<1>5. f[p].alive /\ f[q].alive
  BY <1>1, <1>2, <1>4 DEF Sound, Freed
<1> QED
  BY <1>1, <1>2, <1>3, <1>5

(* Touching an allocated peer keeps the pairing sound. *)
LEMMA TouchedSound ==
    ASSUME NEW f, Sound(f), NEW p \in Peers, f[p].alive, NEW g, Touched(f, p, g)
    PROVE  Sound(g) /\ g[p].alive
<1>1. g \in PeerFun
  BY DEF Touched
<1>2. \A r \in Peers : Alike(f[r], g[r])
  BY DEF Touched, Alike
<1>3. ASSUME NEW r \in Peers, g[r].paired_peer # NoPeer
      PROVE  /\ g[g[r].paired_peer].paired_peer = r
             /\ {g[r].type, g[g[r].paired_peer].type} = {"client", "server"}
  <2>1. g[r].paired_peer = f[r].paired_peer /\ g[r].type = f[r].type
    BY <1>2 DEF Alike
  <2> DEFINE q == f[r].paired_peer
  <2>2. q \in Peers /\ f[q].paired_peer = r /\ {f[r].type, f[q].type} = {"client", "server"}
    BY <1>3, <2>1 DEF Sound, Mutual, PeerFun, PeerRec, PeerOrNull
  <2> HIDE DEF q
  <2>3. g[q].paired_peer = f[q].paired_peer /\ g[q].type = f[q].type
    BY <1>2, <2>2 DEF Alike
  <2> QED
    BY <2>1, <2>2, <2>3 DEF q
<1>4. Freed(g) /\ g[p].alive
  BY DEF Sound, Freed, Touched, Alike
<1> QED
  BY <1>1, <1>3, <1>4 DEF Sound, Mutual

(* Closing a pair: both halves are closed, and nobody else is changed.     *)
PairClosed(f, p, h) ==
    /\ h \in PeerFun
    /\ \A r \in Peers : h[r] = IF r = p \/ r = f[p].paired_peer THEN ClosedByType(f[r]) ELSE f[r]

(* Closing a peer neither frees it nor changes its type. *)
LEMMA ClosedByTypeKeeps ==
    ASSUME NEW r \in PeerRec
    PROVE  /\ ClosedByType(r).alive = r.alive
           /\ ClosedByType(r).type = r.type
           /\ ClosedByType(r).paired_peer = NoPeer
           /\ ClosedByType(Unpaired(r)) = ClosedByType(r)
           /\ Unpaired(r).paired_peer = NoPeer
BY DEF ClosedByType, Stopped, ServerClosed, Closed, Unpaired, PeerRec

(* pop_tcp_close_paired_peer closes exactly the two halves. *)
LEMMA ClosePairIs ==
    ASSUME NEW f, Sound(f), NEW p \in Peers
    PROVE  PairClosed(f, p, pop_tcp_close_paired_peer(f, p))
<1> DEFINE q == f[p].paired_peer
           h == pop_tcp_close_paired_peer(f, p)
<1>1. f \in PeerFun /\ \A r \in Peers : f[r] \in PeerRec
  BY DEF Sound, PeerFun
<1>2. CASE q = NoPeer
  <2>1. h = close_by_type(f, p)
    BY <1>2 DEF pop_tcp_close_paired_peer
  <2> HIDE DEF h
  <2>2. ReplacedAndUnpaired(f, p, ClosedByType(f[p]), h)
    BY <1>1, <2>1, CloseByTypeIs
  <2>3. \A r \in Peers : r # q
    BY <1>2, ProxyAssumption
  <2> QED
    BY <2>2, <2>3 DEF ReplacedAndUnpaired, PairClosed, h
<1>3. CASE q # NoPeer
  <2> DEFINE g == close_by_type(f, q)
  <2>1. h = close_by_type(g, p)
    BY <1>3 DEF pop_tcp_close_paired_peer
  <2>2. q \in Peers /\ q # p /\ f[q].paired_peer = p
    BY <1>3, PartnerIs
  <2> HIDE DEF q, h
  <2>3. ReplacedAndUnpaired(f, q, ClosedByType(f[q]), g)
    BY <1>1, <2>2, CloseByTypeIs
  <2> HIDE DEF g
  <2>4. g \in PeerFun
    BY <2>3 DEF ReplacedAndUnpaired
  <2>5. ReplacedAndUnpaired(g, p, ClosedByType(g[p]), h)
    BY <2>1, <2>4, CloseByTypeIs
  <2>6. g[q] = ClosedByType(f[q]) /\ g[p] = Unpaired(f[p])
    BY <2>2, <2>3 DEF ReplacedAndUnpaired
  <2>7. \A r \in Peers \ {p, q} : g[r] = f[r]
    BY <2>2, <2>3 DEF ReplacedAndUnpaired
  <2>8. g[p].paired_peer = NoPeer /\ ClosedByType(g[p]) = ClosedByType(f[p])
    BY <1>1, <2>6, ClosedByTypeKeeps
  <2>9. h[p] = ClosedByType(f[p]) /\ \A r \in Peers \ {p} : h[r] = g[r]
    BY <2>5, <2>8, ProxyAssumption DEF ReplacedAndUnpaired
  <2>10. h \in PeerFun
    BY <2>5 DEF ReplacedAndUnpaired
  <2> QED
    BY <2>2, <2>6, <2>7, <2>9, <2>10 DEF PairClosed, q, h
<1> QED
  BY <1>2, <1>3

(* Closing a pair keeps the pairing sound. *)
LEMMA ClosePairSound ==
    ASSUME NEW f, Sound(f), NEW p \in Peers, f[p].alive
    PROVE  Sound(pop_tcp_close_paired_peer(f, p))
<1> DEFINE q == f[p].paired_peer
           h == pop_tcp_close_paired_peer(f, p)
<1>1. f \in PeerFun /\ \A r \in Peers : f[r] \in PeerRec
  BY DEF Sound, PeerFun
<1>2. PairClosed(f, p, h)
  BY ClosePairIs
<1> HIDE DEF h
<1>3. ASSUME NEW r \in Peers, h[r].paired_peer # NoPeer
      PROVE  /\ h[h[r].paired_peer].paired_peer = r
             /\ {h[r].type, h[h[r].paired_peer].type} = {"client", "server"}
  <2>1. r # p /\ r # q /\ h[r] = f[r]
    BY <1>1, <1>2, <1>3, ClosedByTypeKeeps DEF PairClosed
  <2> DEFINE k == f[r].paired_peer
  <2>2. k \in Peers /\ f[k].paired_peer = r
    BY <1>3, <2>1, PartnerIs
  <2>3. k # p
    BY <2>1, <2>2
  <2>4. q # NoPeer => q \in Peers /\ f[q].paired_peer = p
    BY PartnerIs
  <2>5. k # q
    BY <2>1, <2>2, <2>4, ProxyAssumption
  <2>6. h[k] = f[k]
    BY <1>2, <2>2, <2>3, <2>5 DEF PairClosed
  <2>7. {f[r].type, f[k].type} = {"client", "server"}
    BY <1>3, <2>1 DEF Sound, Mutual
  <2> QED
    BY <2>1, <2>2, <2>6, <2>7
<1>4. ASSUME NEW r \in Peers, ~h[r].alive
      PROVE  h[r] = FreeSlot
  <2>1. ~f[r].alive
    BY <1>1, <1>2, <1>4, ClosedByTypeKeeps DEF PairClosed
  <2>2. r # q
    BY <2>1, PartnerIs, ProxyAssumption
  <2>3. h[r] = f[r]
    BY <1>2, <2>1, <2>2 DEF PairClosed
  <2> QED
    BY <2>1, <2>3 DEF Sound, Freed
<1> QED
  BY <1>2, <1>3, <1>4 DEF Sound, Mutual, Freed, PairClosed, h

(* So does any outcome of writing. *)
LEMMA WriteOutcomesSound ==
    ASSUME NEW f, Sound(f), NEW p \in Peers, f[p].alive, NEW g \in WriteOutcomes(f, p)
    PROVE  Sound(g)
<1>1. CASE g = pop_tcp_close_paired_peer(f, p)
  BY <1>1, ClosePairSound
<1>2. ASSUME NEW n \in 0 .. Len(f[p].write_fifo), g = tcp_write(f, p, n)
      PROVE  Sound(g)
  <2>1. Touched(f, p, g)
    BY <1>2, WriteIs DEF Sound
  <2> QED
    BY <2>1, TouchedSound
<1> QED
  BY <1>1, <1>2 DEF WriteOutcomes

(* A new peer in a free slot. *)
LEMMA NewSlotSound ==
    ASSUME NEW f, Sound(f), NEW p \in Peers, ~f[p].alive,
           NEW g \in PeerFun, g[p].alive, g[p].paired_peer = NoPeer,
           \A r \in Peers \ {p} : g[r] = f[r]
    PROVE  Sound(g)
<1>1. ASSUME NEW r \in Peers, g[r].paired_peer # NoPeer
      PROVE  /\ g[g[r].paired_peer].paired_peer = r
             /\ {g[r].type, g[g[r].paired_peer].type} = {"client", "server"}
  <2>1. r # p /\ g[r] = f[r]
    BY <1>1
  <2> DEFINE q == f[r].paired_peer
  <2>2. q \in Peers /\ f[q].alive /\ f[q].paired_peer = r
    BY <1>1, <2>1, PartnerIs
  <2>3. g[q] = f[q]
    BY <2>2
  <2> QED
    BY <1>1, <2>1, <2>2, <2>3 DEF Sound, Mutual
<1>2. Freed(g)
  BY DEF Sound, Freed
<1> QED
  BY <1>1, <1>2 DEF Sound, Mutual

(* So does making a pair of an unpaired client and a free slot. *)
LEMMA PairMadeSound ==
    ASSUME Sound(peer), NEW c \in Peers, NEW s \in Peers, NEW tunnel \in BOOLEAN,
           peer[c].alive, peer[c].type = "client", peer[c].paired_peer = NoPeer,
           ~peer[s].alive
    PROVE  /\ Sound(PairMade(c, s, tunnel))
           /\ PairMade(c, s, tunnel)[s].alive /\ PairMade(c, s, tunnel)[c].alive
<1> DEFINE g == PairMade(c, s, tunnel)
<1>1. c # s /\ peer \in PeerFun /\ peer[c] \in PeerRec
  BY DEF Sound, PeerFun
<1>2. /\ g \in PeerFun
      /\ Alike(NewServer(c, tunnel), g[s])
      /\ Alike([peer[c] EXCEPT !.paired_peer = s], g[c])
      /\ \A r \in Peers \ {c, s} : g[r] = peer[r]
  BY <1>1, PairMadeIs
<1> HIDE DEF g
<1>3. g[s].alive /\ g[s].type = "server" /\ g[s].paired_peer = c
  BY <1>2 DEF Alike, NewServer, pop_peer_new
<1>4. g[c].alive /\ g[c].type = "client" /\ g[c].paired_peer = s
  BY <1>1, <1>2 DEF Alike, PeerRec
<1>5. ASSUME NEW r \in Peers, g[r].paired_peer # NoPeer
      PROVE  /\ g[g[r].paired_peer].paired_peer = r
             /\ {g[r].type, g[g[r].paired_peer].type} = {"client", "server"}
  <2>1. CASE r = c \/ r = s
    BY <1>3, <1>4, <2>1
  <2>2. CASE r # c /\ r # s
    <3>1. g[r] = peer[r]
      BY <1>2, <2>2
    <3> DEFINE q == peer[r].paired_peer
    <3>2. q \in Peers /\ peer[q].alive /\ peer[q].paired_peer = r
      BY <1>5, <3>1, PartnerIs
    <3>3. q # s /\ q # c
      BY <3>2, ProxyAssumption
    <3>4. g[q] = peer[q]
      BY <1>2, <3>2, <3>3
    <3>5. {peer[r].type, peer[q].type} = {"client", "server"}
      BY <1>5, <3>1 DEF Sound, Mutual
    <3> QED
      BY <3>1, <3>2, <3>4, <3>5
  <2> QED
    BY <2>1, <2>2
<1>6. Freed(g)
  BY <1>2, <1>3, <1>4 DEF Sound, Freed
<1> QED
  BY <1>2, <1>3, <1>4, <1>5, <1>6 DEF Sound, Mutual, g

(* So does freeing a peer. *)
LEMMA PeerDeletedSound ==
    ASSUME NEW f, Sound(f), NEW p \in Peers
    PROVE  Sound(PeerDeleted(f, p))
<1> DEFINE g == PeerDeleted(f, p)
           q == f[p].paired_peer
<1>1. f \in PeerFun /\ \A r \in Peers : f[r] \in PeerRec
  BY DEF Sound, PeerFun
<1>2. /\ g \in PeerFun /\ g[p] = FreeSlot
      /\ \A r \in Peers \ {p} : g[r] = IF r = q THEN Unpaired(f[r]) ELSE f[r]
  BY <1>1, PeerDeletedIs
<1> HIDE DEF g
<1>3. \A r \in PeerRec : Unpaired(r).alive = r.alive /\ Unpaired(r).paired_peer = NoPeer
  BY DEF Unpaired, PeerRec
<1>4. FreeSlot.paired_peer = NoPeer
  BY DEF FreeSlot, pop_peer_new
<1>5. ASSUME NEW r \in Peers, g[r].paired_peer # NoPeer
      PROVE  /\ g[g[r].paired_peer].paired_peer = r
             /\ {g[r].type, g[g[r].paired_peer].type} = {"client", "server"}
  <2>1. r # p /\ r # q /\ g[r] = f[r]
    BY <1>1, <1>2, <1>3, <1>4, <1>5
  <2> DEFINE k == f[r].paired_peer
  <2>2. k \in Peers /\ f[k].paired_peer = r
    BY <1>5, <2>1, PartnerIs
  <2>3. q # NoPeer => q \in Peers /\ f[q].paired_peer = p
    BY PartnerIs
  <2>4. k # p /\ k # q
    BY <2>1, <2>2, <2>3, ProxyAssumption
  <2>5. g[k] = f[k]
    BY <1>2, <2>2, <2>4
  <2>6. {f[r].type, f[k].type} = {"client", "server"}
    BY <1>5, <2>1 DEF Sound, Mutual
  <2> QED
    BY <2>1, <2>2, <2>5, <2>6
<1>6. ASSUME NEW r \in Peers, ~g[r].alive
      PROVE  g[r] = FreeSlot
  <2>1. CASE r = p
    BY <1>2, <2>1
  <2>2. CASE r # p
    <3>1. ~f[r].alive
      BY <1>1, <1>2, <1>3, <1>6, <2>2
    <3>2. r # q
      BY <3>1, PartnerIs, ProxyAssumption
    <3> QED
      BY <1>2, <2>2, <3>1, <3>2 DEF Sound, Freed
  <2> QED
    BY <2>1, <2>2
<1> QED
  BY <1>2, <1>5, <1>6 DEF Sound, Mutual, Freed, g

-----------------------------------------------------------------------------
(* Every callback is called for a live peer and leaves sound peers behind. *)

PairInv == WaitInv /\ Sound(peer)

(* Something is pending for the peer, so it is alive. *)
LEMMA PendingAlive ==
    ASSUME Sound(peer), NEW p \in Peers,
           \/ peer[p].t_info_deal \/ peer[p].t_connecting \/ peer[p].t_DnsWaitAck
           \/ peer[p].t_event # "off"
    PROVE  peer[p].alive
BY DEF Sound, Freed, FreeSlot, pop_peer_new

(* A new client is not paired. *)
LEMMA SoundAccept ==
    ASSUME PairInv, NEW c \in Peers, Accept(c)
    PROVE  Sound(peer')
<1> DEFINE v == [pop_peer_new EXCEPT !.type = "client", !.sockfd = TRUE,
                                     !.server_status = "Established",
                                     !.t_event = "read", !.listed = TRUE]
           f == [peer EXCEPT ![c] = v]
<1>1. Sound(peer) /\ peer \in PeerFun /\ ~peer[c].alive
  BY DEF PairInv, Sound, Accept, Free
<1>2. peer' = event_add(f, c, "ACCEPT")
  BY DEF Accept
<1>3. v \in PeerRec /\ v.alive /\ v.paired_peer = NoPeer
  <2>1. v \in PeerRec
    BY ONLY NewPeerType DEF PeerRec, ServerStatus, TEvents
  <2>2. v.alive /\ v.paired_peer = NoPeer
    BY ONLY TRUE DEF pop_peer_new
  <2> QED
    BY ONLY <2>1, <2>2
<1> HIDE DEF v
<1>4. Replaced(peer, c, v, f)
  BY <1>1, <1>3, ReplacedExcept
<1> HIDE DEF f
<1>5. f \in PeerFun /\ f[c] = v /\ "ACCEPT" \in Infos /\ \A r \in Peers \ {c} : f[r] = peer[r]
  BY <1>4 DEF Replaced, Infos
<1>6. Sound(f)
  BY <1>1, <1>3, <1>5, NewSlotSound
<1>7. Replaced(f, c, Added(f[c], "ACCEPT"), peer')
  BY <1>2, <1>5, EventAddIs
<1>8. Touched(f, c, peer')
  BY <1>3, <1>5, <1>7, AddedAlike DEF Replaced, Touched
<1> QED
  BY <1>3, <1>5, <1>6, <1>8, TouchedSound

(* The end of a connection closes the pair. *)
LEMMA SoundReadClosed ==
    ASSUME PairInv, NEW p \in Peers, ReadClosed(p)
    PROVE  Sound(peer')
BY ClosePairSound DEF PairInv, ReadClosed, Readable

(* Relaying a packet writes to the partner or closes the pair. *)
LEMMA SoundReadForward ==
    ASSUME PairInv, NEW p \in Peers, ReadForward(p)
    PROVE  Sound(peer')
<1> DEFINE q == peer[p].paired_peer
           f == push(peer, q, peer[p].type)
<1>1. Sound(peer) /\ peer \in PeerFun
  BY DEF PairInv, Sound
<1>2. q \in Peers /\ peer[q].alive
  BY <1>1, PartnerIs DEF ReadForward, CanForward
<1>3. peer[p].type \in Packets
  BY DEF ReadForward, CanForward, Packets
<1>4. peer' \in WriteOutcomes(f, q)
  BY DEF ReadForward
<1> HIDE DEF q
<1>5. Touched(peer, q, f)
  BY <1>1, <1>2, <1>3, PushIs
<1> HIDE DEF f
<1>6. Sound(f) /\ f[q].alive
  BY <1>1, <1>2, <1>5, TouchedSound
<1> QED
  BY <1>2, <1>4, <1>6, WriteOutcomesSound

(* A packet kept for later touches one peer. *)
LEMMA SoundReadEarly ==
    ASSUME PairInv, NEW c \in Peers, ReadEarly(c)
    PROVE  Sound(peer')
<1>1. Sound(peer) /\ peer \in PeerFun /\ peer[c].alive /\ "client" \in Packets
  BY DEF PairInv, Sound, ReadEarly, Readable, Packets
<1>2. peer' = push(peer, c, "client")
  BY DEF ReadEarly
<1>3. Touched(peer, c, peer')
  BY <1>1, <1>2, PushIs
<1> QED
  BY <1>1, <1>3, TouchedSound

(* Writing touches one peer or closes the pair. *)
LEMMA SoundWrite ==
    ASSUME PairInv, NEW p \in Peers, Write(p)
    PROVE  Sound(peer')
BY WriteOutcomesSound DEF PairInv, Write

(* connect() succeeds, or the pair is closed. *)
LEMMA SoundConnectCheck ==
    ASSUME PairInv, NEW s \in Peers, ConnectCheck(s)
    PROVE  Sound(peer')
<1>1. Sound(peer) /\ peer \in PeerFun /\ peer[s].alive
  BY PendingAlive DEF PairInv, Sound, ConnectCheck
<1>2. CASE peer' = success_event(peer, s)
  BY <1>1, <1>2, SuccessEventIs, TouchedSound
<1>3. CASE peer' = pop_tcp_close_paired_peer(peer, s)
  BY <1>1, <1>3, ClosePairSound
<1> QED
  BY <1>2, <1>3 DEF ConnectCheck

(* The 5 s timer closes the pair. *)
LEMMA SoundConnectExpired ==
    ASSUME PairInv, NEW s \in Peers, ConnectExpired(s)
    PROVE  Sound(peer')
<1> DEFINE v == [peer[s] EXCEPT !.t_connecting = FALSE]
           f == [peer EXCEPT ![s] = v]
<1>1. Sound(peer) /\ peer \in PeerFun /\ peer[s].alive
  BY PendingAlive DEF PairInv, Sound, ConnectExpired
<1>2. peer' = pop_tcp_close_paired_peer(f, s)
  BY <1>1 DEF ConnectExpired, PeerFun
<1>3. v \in PeerRec /\ Alike(peer[s], v)
  <2>1. peer[s] \in PeerRec
    BY <1>1 DEF PeerFun
  <2>2. v \in PeerRec
    BY ONLY <2>1, FieldTypes
  <2> QED
    BY ONLY <2>1, <2>2 DEF PeerRec, Alike
<1> HIDE DEF v
<1>4. Touched(peer, s, f)
  BY <1>1, <1>3, TouchedExcept
<1> HIDE DEF f
<1>5. Sound(f) /\ f[s].alive
  BY <1>1, <1>4, TouchedSound
<1> QED
  BY <1>2, <1>5, ClosePairSound

(* A client without a server gets a new one. *)
LEMMA SoundRequestResolved ==
    ASSUME PairInv, ~Pipelining, NEW c \in Peers, NEW s \in Peers, NEW tunnel \in BOOLEAN,
           RequestResolved(c, s, tunnel)
    PROVE  Sound(peer')
<1> DEFINE f == PairMade(c, s, tunnel)
<1>1. Sound(f) /\ f[s].alive
  BY PairMadeSound DEF PairInv, RequestResolved, RequestPossible, Readable, Free
<1>2. PICK connecting \in BOOLEAN : peer' = start_event(f, s, connecting)
  BY DEF RequestResolved
<1> HIDE DEF f
<1>3. Touched(f, s, peer')
  BY <1>1, <1>2, StartEventIs DEF Sound
<1> QED
  BY <1>1, <1>3, TouchedSound

(* Setting the id and the timer of a wait, or cancelling the timer, leaves *)
(* the peers sound, too.                                                   *)
LEMMA WaitFieldsSound ==
    ASSUME NEW f, Sound(f), NEW s \in Peers, f[s].alive,
           NEW id \in Ids, NEW t \in BOOLEAN
    PROVE  Sound([f EXCEPT ![s] = [@ EXCEPT !.DnsTransactionID = id, !.t_DnsWaitAck = t]])
<1> DEFINE v == [f[s] EXCEPT !.DnsTransactionID = id, !.t_DnsWaitAck = t]
           g == [f EXCEPT ![s] = v]
<1>1. f \in PeerFun /\ f[s] \in PeerRec
  BY DEF Sound, PeerFun
<1>2. v \in PeerRec /\ v.alive /\ v.type = f[s].type /\ v.paired_peer = f[s].paired_peer
  BY <1>1 DEF PeerRec
<1> HIDE DEF v
<1>3. Replaced(f, s, v, g)
  BY <1>1, <1>2, ReplacedExcept
<1>4. g \in PeerFun /\ g[s] = v /\ \A r \in Peers \ {s} : g[r] = f[r]
  BY <1>3 DEF Replaced
<1> HIDE DEF g
<1>5. \A r \in Peers : g[r].type = f[r].type /\ g[r].paired_peer = f[r].paired_peer
  BY <1>2, <1>4
<1>6. \A r \in Peers : f[r].paired_peer # NoPeer => f[r].paired_peer \in Peers
  BY <1>1 DEF PeerFun, PeerRec, PeerOrNull
<1>7. Mutual(g)
  BY <1>5, <1>6 DEF Sound, Mutual
<1>8. Freed(g)
  BY <1>2, <1>4 DEF Sound, Freed
<1> QED
  BY <1>1, <1>4, <1>7, <1>8 DEF Sound, g, v

(* Cancelling the timer of the wait touches one peer. *)
LEMMA WaitOverSound ==
    ASSUME NEW f, Sound(f), NEW s \in Peers, f[s].alive
    PROVE  LET g == [f EXCEPT ![s].t_DnsWaitAck = FALSE]
           IN  Sound(g) /\ g[s].alive
<1> DEFINE id == f[s].DnsTransactionID
           g == [f EXCEPT ![s].t_DnsWaitAck = FALSE]
<1>1. f \in PeerFun /\ f[s] \in PeerRec /\ id \in Ids
  BY DEF Sound, PeerFun, PeerRec
<1>2. [f[s] EXCEPT !.t_DnsWaitAck = FALSE] =
        [f[s] EXCEPT !.DnsTransactionID = id, !.t_DnsWaitAck = FALSE]
  BY <1>1 DEF PeerRec
<1>3. g = [f EXCEPT ![s] = [@ EXCEPT !.DnsTransactionID = id, !.t_DnsWaitAck = FALSE]]
  BY <1>1, <1>2 DEF PeerFun
<1>4. Sound(g)
  <2> HIDE DEF id, g
  <2>1. Sound([f EXCEPT ![s] = [@ EXCEPT !.DnsTransactionID = id, !.t_DnsWaitAck = FALSE]])
    BY <1>1, WaitFieldsSound
  <2> QED
    BY <1>3, <2>1
<1>5. g[s].alive
  BY <1>1 DEF PeerFun, PeerRec
<1> QED
  BY <1>4, <1>5

(* A client gets a new server that waits, or both are closed. *)
LEMMA SoundRequestQuery ==
    ASSUME PairInv, ~Pipelining, NEW c \in Peers, NEW s \in Peers, NEW tunnel \in BOOLEAN,
           RequestQuery(c, s, tunnel)
    PROVE  Sound(peer')
<1> DEFINE f == PairMade(c, s, tunnel)
<1>1. Sound(f) /\ f[s].alive /\ f[c].alive /\ transId \in Ids
  BY PairMadeSound
  DEF PairInv, RequestQuery, RequestPossible, Readable, Free, WaitInv, TypeOK
<1>2. \/ peer' = [f EXCEPT ![s].DnsTransactionID = transId, ![s].t_DnsWaitAck = TRUE]
      \/ peer' = pop_tcp_close_paired_peer(f, c)
  BY DEF RequestQuery
<1> HIDE DEF f
<1>3. CASE peer' = [f EXCEPT ![s].DnsTransactionID = transId, ![s].t_DnsWaitAck = TRUE]
  <2>1. peer' = [f EXCEPT ![s] = [@ EXCEPT !.DnsTransactionID = transId, !.t_DnsWaitAck = TRUE]]
    BY <1>1, <1>3 DEF Sound, PeerFun
  <2> QED
    BY <1>1, <2>1, WaitFieldsSound
<1>4. CASE peer' = pop_tcp_close_paired_peer(f, c)
  BY <1>1, <1>4, ClosePairSound
<1> QED
  BY <1>2, <1>3, <1>4

(* The answer starts the waiter, or leaves it alone. *)
LEMMA SoundDnsAck ==
    ASSUME PairInv, NEW id \in Ids, DnsAck(id)
    PROVE  Sound(peer')
<1> DEFINE s == waitq[id]
           f == [peer EXCEPT ![s].t_DnsWaitAck = FALSE]
<1>1. Sound(peer) /\ s \in Peers /\ s # NoPeer
  BY DEF DnsAck, PairInv, WaitInv, TypeOK, PeerOrNull
<1>2. Waits(peer[s], id)
  BY <1>1, WaitersAre DEF PairInv, WaitInv
<1>3. peer' = f \/ \E connecting \in BOOLEAN : peer' = start_event(f, s, connecting)
  BY DEF DnsAck
<1> HIDE DEF s
<1>4. Sound(f) /\ f[s].alive
  BY <1>1, <1>2, WaitOverSound DEF Waits
<1> HIDE DEF f
<1>5. ASSUME NEW connecting \in BOOLEAN, peer' = start_event(f, s, connecting)
      PROVE  Sound(peer')
  <2>1. Touched(f, s, peer')
    BY <1>1, <1>4, <1>5, StartEventIs DEF Sound
  <2> QED
    BY <1>1, <1>4, <2>1, TouchedSound
<1> QED
  BY <1>3, <1>4, <1>5

(* The timeout closes the pair. *)
LEMMA SoundDnsTimeout ==
    ASSUME PairInv, NEW s \in Peers, DnsTimeout(s)
    PROVE  Sound(peer')
<1> DEFINE f == [peer EXCEPT ![s].t_DnsWaitAck = FALSE]
<1>1. Sound(peer) /\ peer[s].alive
  BY PendingAlive DEF PairInv, DnsTimeout
<1>2. peer' = pop_tcp_close_paired_peer(f, s)
  BY DEF DnsTimeout
<1>3. Sound(f) /\ f[s].alive
  BY <1>1, WaitOverSound
<1> HIDE DEF f
<1> QED
  BY <1>2, <1>3, ClosePairSound

(* A peer is freed, or left with fewer infos. *)
LEMMA SoundInfoDeal ==
    ASSUME PairInv, NEW p \in Peers, InfoDeal(p)
    PROVE  Sound(peer')
<1> DEFINE v == [peer[p] EXCEPT !.t_info_deal = FALSE]
           f == [peer EXCEPT ![p] = v]
           n == IF Len(peer[p].info) < ExecuteCount THEN Len(peer[p].info) ELSE ExecuteCount
           rest == SubSeq(peer[p].info, n + 1, Len(peer[p].info))
           done(g) == [g EXCEPT ![p].info = rest, ![p].t_info_deal = (rest # <<>>)]
<1>1. Sound(peer) /\ peer \in PeerFun /\ peer[p] \in PeerRec /\ peer[p].alive
  BY PendingAlive DEF InfoDeal, PairInv, Sound, PeerFun
<1>2. f = [peer EXCEPT ![p].t_info_deal = FALSE]
  BY <1>1 DEF PeerFun
<1>3. \E g \in {f, client_success(f, p)} :
        peer' = f \/ peer' = PeerDeleted(g, p) \/ peer' = done(g)
  BY <1>2 DEF InfoDeal
<1>4. rest \in Seq(Infos)
  <2>1. peer[p].info \in Seq(Infos) /\ n \in Nat
    BY <1>1, ProxyAssumption DEF PeerRec
  <2> QED
    BY <2>1
<1> HIDE DEF rest
<1>5. v \in PeerRec /\ Alike(peer[p], v)
  BY <1>1 DEF PeerRec, Alike
<1> HIDE DEF v
<1>6. Touched(peer, p, f)
  BY <1>1, <1>5, TouchedExcept
<1> HIDE DEF f
<1>7. Sound(f) /\ f[p].alive
  BY <1>1, <1>6, TouchedSound
<1>8. Sound(client_success(f, p)) /\ client_success(f, p)[p].alive
  <2>1. PICK q \in Peers : /\ q = p \/ q = f[p].paired_peer
                           /\ Touched(f, q, client_success(f, p))
    BY <1>7, ClientSuccessIs DEF Sound
  <2>2. f[q].alive
    BY <1>7, <2>1, PartnerIs, ProxyAssumption
  <2>3. Sound(client_success(f, p))
    BY <1>7, <2>1, <2>2, TouchedSound
  <2>4. Alike(f[p], client_success(f, p)[p])
    BY <2>1 DEF Touched, Alike
  <2> QED
    BY <1>7, <2>3, <2>4 DEF Alike
<1>9. PICK g \in {f, client_success(f, p)} :
        peer' = f \/ peer' = PeerDeleted(g, p) \/ peer' = done(g)
  BY <1>3
<1>10. Sound(g) /\ g[p].alive /\ g \in PeerFun
  BY <1>7, <1>8 DEF Sound
<1>11. CASE peer' = PeerDeleted(g, p)
  BY <1>10, <1>11, PeerDeletedSound
<1>12. CASE peer' = done(g)
  <2> DEFINE w == [g[p] EXCEPT !.info = rest, !.t_info_deal = (rest # <<>>)]
             h == [g EXCEPT ![p] = w]
  <2>1. peer' = h
    BY <1>10, <1>12 DEF PeerFun
  <2>2. w \in PeerRec /\ Alike(g[p], w)
    <3>1. g[p] \in PeerRec
      BY <1>10 DEF PeerFun
    <3>2. (rest # <<>>) \in BOOLEAN
      OBVIOUS
    <3>3. w \in PeerRec
      BY ONLY <1>4, <3>1, <3>2, FieldTypes
    <3> QED
      BY ONLY <3>1, <3>3 DEF PeerRec, Alike
  <2> HIDE DEF w
  <2>3. Touched(g, p, h)
    BY <1>10, <2>2, TouchedExcept
  <2> HIDE DEF h
  <2> QED
    BY <1>10, <2>1, <2>3, TouchedSound
<1> QED
  BY <1>7, <1>9, <1>11, <1>12

-----------------------------------------------------------------------------

(* The inductive invariant of the pairing holds with no peer allocated.    *)
THEOREM PairInvInit == Init => PairInv
<1> SUFFICES ASSUME Init PROVE PairInv
  OBVIOUS
<1>1. peer = [p \in Peers |-> FreeSlot] /\ FreeSlot.paired_peer = NoPeer
  BY DEF Init, FreeSlot, pop_peer_new
<1>2. WaitInv
  BY WaitInvInit
<1>3. peer \in PeerFun
  BY <1>2 DEF WaitInv, TypeOK, PeerFun
<1>4. Mutual(peer) /\ Freed(peer)
  BY <1>1 DEF Mutual, Freed
<1> QED
  BY <1>2, <1>3, <1>4 DEF PairInv, Sound

(* No callback breaks the inductive invariant of the pairing, if a client  *)
(* does not send a second request while its server is Idle.                *)
THEOREM PairInvStep == ~Pipelining /\ PairInv /\ [Next]_vars => PairInv'
<1> SUFFICES ASSUME ~Pipelining, PairInv, [Next]_vars
             PROVE  PairInv'
  OBVIOUS
<1>1. WaitInv'
  BY WaitInvStep DEF PairInv
<1>2. ASSUME NEW p \in Peers,
             \/ Accept(p) \/ ReadClosed(p) \/ ReadForward(p)
             \/ ReadEarly(p) \/ Write(p) \/ ConnectCheck(p)
      PROVE  Sound(peer')
  BY <1>2, SoundAccept, SoundReadClosed, SoundReadForward, SoundReadEarly,
     SoundWrite, SoundConnectCheck
<1>3. ASSUME NEW c \in Peers, NEW s \in Peers, NEW tunnel \in BOOLEAN,
             RequestResolved(c, s, tunnel) \/ RequestQuery(c, s, tunnel)
      PROVE  Sound(peer')
  BY <1>3, SoundRequestResolved, SoundRequestQuery
<1>4. ASSUME NEW id \in Ids, DnsAck(id)
      PROVE  Sound(peer')
  BY <1>4, SoundDnsAck
<1>5. ASSUME NEW p \in Peers, InfoDeal(p) \/ ConnectExpired(p) \/ DnsTimeout(p)
      PROVE  Sound(peer')
  BY <1>5, SoundInfoDeal, SoundConnectExpired, SoundDnsTimeout
<1>6. ASSUME UNCHANGED vars
      PROVE  Sound(peer')
  BY <1>6 DEF vars, PairInv
<1>7. Sound(peer')
  BY <1>2, <1>3, <1>4, <1>5, <1>6 DEF Next, NetworkStep, TimerStep
<1> QED
  BY <1>1, <1>7 DEF PairInv, Sound, Mutual, Freed

(* The inductive invariant holds in every reachable state. *)
LEMMA PairInvHolds == ~Pipelining /\ Spec => []PairInv
<1>1. Init => PairInv
  BY PairInvInit
<1>2. CASE ~Pipelining
  <2>1. PairInv /\ [Next]_vars => PairInv'
    BY <1>2, PairInvStep
  <2> QED
    BY <1>1, <2>1, PTL DEF Spec
<1> QED
  BY <1>2

(* When one half of a pair is closed, pop_tcp_close_paired_peer finds the   *)
(* other: pairing is mutual and joins a client with a server.               *)
THEOREM PairingIsMutual == ~Pipelining /\ Spec => []PairingMutual
<1>1. PairInv => PairingMutual
  BY DEF PairInv, Sound, Mutual, PairingMutual
<1> QED
  BY <1>1, PairInvHolds, PTL

(* pop_peer_delete leaves nothing through which the freed memory could be   *)
(* reached: no timer or event, no queue or list, no other peer.             *)
THEOREM FreedPeersUnreachable == ~Pipelining /\ Spec => []FreedPeerUnreachable
<1>1. ASSUME PairInv, NEW p \in Peers, ~peer[p].alive
      PROVE  /\ peer[p] = FreeSlot
             /\ \A q \in Peers : peer[q].paired_peer # p
             /\ \A id \in Ids : waitq[id] # p
  <2>1. peer[p] = FreeSlot
    BY <1>1 DEF PairInv, Sound, Freed
  <2>2. ASSUME NEW q \in Peers PROVE peer[q].paired_peer # p
    BY <1>1, PartnerIs, ProxyAssumption DEF PairInv
  <2>3. \A id \in Ids : waitq[id] # p
    BY <1>1, FreeNotQueued DEF PairInv, Free
  <2> QED
    BY <2>1, <2>2, <2>3
<1>2. PairInv => FreedPeerUnreachable
  BY <1>1 DEF FreedPeerUnreachable
<1> QED
  BY <1>2, PairInvHolds, PTL

=============================================================================
