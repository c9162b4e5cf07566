-------------------------------- MODULE Proxy --------------------------------
(***************************************************************************)
(* The life of the proxy's peers (struct peer): accepting a client, taking *)
(* its request, resolving and connecting to the web server, relaying bytes *)
(* in both directions, closing the pair and freeing both halves.           *)
(*                                                                         *)
(* The program is one thread that runs callbacks one at a time, so every   *)
(* callback is one action.  A function of the code that works on a peer is *)
(* an operator that maps the function from peer slots to peer records to   *)
(* the function it leaves behind; a callback composes them in the order of *)
(* the code.                                                               *)
(***************************************************************************)
EXTENDS Naturals, Sequences, FiniteSets

CONSTANTS
    Peers,          \* memory slots a struct peer can occupy; a freed slot is reused
    NoPeer,         \* the NULL pointer
    IdMod,          \* DomainTransID is an unsigned short: 2^16 in the code
    ExecuteCount,   \* POP_TRANSINFO_EXECUTE_COUNT, infos dealt with per callback
    FifoMax,        \* bound on the length of a write_fifo, for TLC only
    Pipelining,     \* may a client send a second request while its server is Idle?
    EarlyData       \* may a client send bytes that are put into its own fifo?

ASSUME ProxyAssumption ==
    /\ NoPeer \notin Peers
    /\ IdMod \in Nat \ {0}
    /\ ExecuteCount \in Nat \ {0}
    /\ FifoMax \in Nat
    /\ Pipelining \in BOOLEAN
    /\ EarlyData \in BOOLEAN

VARIABLES
    peer,       \* slot -> struct peer
    waitq,      \* dns_ack_wait_queue: a hash keyed by the transaction id
    transId     \* DomainTransID, the id of the next DNS query

vars == <<peer, waitq, transId>>

Ids == 0 .. IdMod - 1
PeerOrNull == Peers \cup {NoPeer}

ClientStatus == {"Idle", "Connect", "Establish"}
ServerStatus == {"Idle", "Established"}
Infos == {"ACCEPT", "SUCCESS", "ERROR", "BREAK"}

(* Who produced the bytes of a packet: the client, the web server, or the *)
(* proxy itself ("HTTP/1.1 200 Connection established").                   *)
Packets == {"client", "server", "estab"}

(* t_event: no event node; waiting for connect() to finish; waiting for   *)
(* input; waiting for input and for room to write.                         *)
TEvents == {"off", "check", "read", "rw"}

PeerRec ==
    [alive            : BOOLEAN,        \* allocated and not yet freed
     type             : {"unknown", "server", "client"},   \* tcp_peer_type
     client_status    : ClientStatus,   \* tcp_client_status
     server_status    : ServerStatus,   \* tcp_server_status
     sockfd           : BOOLEAN,        \* is the socket open?
     paired_peer      : PeerOrNull,
     listed           : BOOLEAN,        \* in paired_peer_tcp_list
     info             : Seq(Infos),     \* tcp_client_info_list / tcp_server_info_list
     t_info_deal      : BOOLEAN,        \* is the timer set?
     t_connecting     : BOOLEAN,
     t_DnsWaitAck     : BOOLEAN,
     DnsTransactionID : Ids,
     t_event          : TEvents,
     if_tunnel        : BOOLEAN,
     write_fifo       : Seq(Packets)]

(* pop_peer_new: a zeroed structure, both state machines idle. *)
pop_peer_new ==
    [alive |-> TRUE, type |-> "unknown", client_status |-> "Idle",
     server_status |-> "Idle", sockfd |-> FALSE, paired_peer |-> NoPeer,
     listed |-> FALSE, info |-> <<>>, t_info_deal |-> FALSE,
     t_connecting |-> FALSE, t_DnsWaitAck |-> FALSE, DnsTransactionID |-> 0,
     t_event |-> "off", if_tunnel |-> FALSE, write_fifo |-> <<>>]

FreeSlot == [pop_peer_new EXCEPT !.alive = FALSE]

Init ==
    /\ peer = [p \in Peers |-> FreeSlot]
    /\ waitq = [id \in Ids |-> NoPeer]
    /\ transId = 0

-----------------------------------------------------------------------------
(* Functions of the code, as operators on the peers f. *)

(* Operators whose name ends in _bug are faulty variants of the operator   *)
(* that follows them; no action uses them.  A run with one of them put in  *)
(* the place of the operator shows which property notices the fault.       *)

event_add_bug(f, p, info) ==    \* the timer only for the first info of a queue
    [f EXCEPT ![p].info = Append(@, info),
              ![p].t_info_deal = @ \/ f[p].info = <<>>]

(* pop_tcp_client_event_add and pop_tcp_server_event_add: queue the info,  *)
(* TIMER_ON(t_info_deal), which keeps a timer that is already set.         *)
event_add(f, p, info) ==
    [f EXCEPT ![p].info = Append(@, info), ![p].t_info_deal = TRUE]

pop_peers_paired_bug(f, p, q) ==    \* one direction only
    [f EXCEPT ![q].paired_peer = p]

pop_peers_paired(f, p, q) ==
    [f EXCEPT ![p].paired_peer = q, ![q].paired_peer = p]

(* Clears the peer's pointer and that of whoever it points to. *)
pop_tcp_cancle_paired(f, p) ==
    [r \in Peers |-> IF r = p \/ r = f[p].paired_peer
                       THEN [f[r] EXCEPT !.paired_peer = NoPeer]
                       ELSE f[r]]

(* pop_tcp_client_stop, and Idle, the next status in every row of the FSM  *)
(* table.  The DNS timer and the wait queue entry stay.                    *)
pop_tcp_client_stop(f, p) ==
    LET g == pop_tcp_cancle_paired(f, p)
    IN  event_add([g EXCEPT ![p].t_connecting = FALSE, ![p].t_event = "off",
                            ![p].sockfd = FALSE, ![p].info = <<>>,
                            ![p].client_status = "Idle"],
                  p, "BREAK")

pop_tcp_client_start_bug(f, p, connecting) ==    \* no timer for connect()
    IF connecting
      THEN [f EXCEPT ![p].sockfd = TRUE, ![p].t_event = "check",
                     ![p].client_status = "Connect"]
      ELSE event_add([f EXCEPT ![p].sockfd = FALSE], p, "ERROR")

(* pop_tcp_client_start.  connecting says whether connect() succeeded or   *)
(* is in progress; if it failed at once the function returns -1, and       *)
(* pop_tcp_client_event leaves the status alone.                           *)
pop_tcp_client_start(f, p, connecting) ==
    IF connecting
      THEN [f EXCEPT ![p].sockfd = TRUE, ![p].t_event = "check",
                     ![p].t_connecting = TRUE, ![p].client_status = "Connect"]
      ELSE event_add([f EXCEPT ![p].sockfd = FALSE], p, "ERROR")

pop_tcp_client_establish_bug(f, p) ==    \* TIMER_OFF(t_connecting_timer) missing
    event_add([f EXCEPT ![p].listed = TRUE, ![p].t_event = "read",
                        ![p].client_status = "Establish"],
              p, "SUCCESS")

pop_tcp_client_establish(f, p) ==
    event_add([f EXCEPT ![p].t_connecting = FALSE, ![p].listed = TRUE,
                        ![p].t_event = "read", ![p].client_status = "Establish"],
              p, "SUCCESS")

(* pop_tcp_client_event for the events the code raises: start acts when    *)
(* Idle and success when Connect; every other cell of the table ignores    *)
(* them and keeps the status.                                              *)
start_event(f, p, connecting) ==
    IF f[p].client_status = "Idle" THEN pop_tcp_client_start(f, p, connecting) ELSE f

success_event(f, p) ==
    IF f[p].client_status = "Connect" THEN pop_tcp_client_establish(f, p) ELSE f

pop_tcp_server_close_bug(f, p) ==    \* the timers are cancelled last
    LET g == event_add(pop_tcp_cancle_paired(f, p), p, "BREAK")
    IN  [g EXCEPT ![p].t_event = "off", ![p].t_connecting = FALSE,
                  ![p].t_DnsWaitAck = FALSE, ![p].t_info_deal = FALSE,
                  ![p].server_status = "Idle", ![p].sockfd = FALSE]

(* _pop_tcp_server_close: all timers and the event off, then BREAK, which  *)
(* sets t_info_deal again.                                                 *)
pop_tcp_server_close(f, p) ==
    LET g == pop_tcp_cancle_paired(f, p)
    IN  event_add([g EXCEPT ![p].t_event = "off", ![p].t_connecting = FALSE,
                            ![p].t_DnsWaitAck = FALSE, ![p].t_info_deal = FALSE,
                            ![p].server_status = "Idle", ![p].sockfd = FALSE,
                            ![p].info = <<>>],
                  p, "BREAK")

close_by_type(f, p) ==
    IF f[p].type = "server" THEN pop_tcp_client_stop(f, p) ELSE pop_tcp_server_close(f, p)

pop_tcp_close_paired_peer_bug(f, p) == close_by_type(f, p)    \* only one half

(* The paired peer first, then the peer itself. *)
pop_tcp_close_paired_peer(f, p) ==
    LET q == f[p].paired_peer
    IN  close_by_type(IF q = NoPeer THEN f ELSE close_by_type(f, q), p)

(* pop_check_whether_msg_forward *)
CanForward(p) ==
    LET q == peer[p].paired_peer
    IN  /\ q # NoPeer
        /\ \/ /\ peer[p].type = "client" /\ peer[q].type = "server"
              /\ peer[q].client_status = "Establish"
           \/ /\ peer[p].type = "server" /\ peer[q].type = "client"
              /\ peer[q].server_status = "Established"

tcp_write_bug(f, p, n) ==    \* EPOLLOUT is not asked for when packets are left
    [f EXCEPT ![p].write_fifo = SubSeq(@, n + 1, Len(@)), ![p].t_event = "read"]

(* _pop_http_proxy_tcp_write: the first n packets go out, the socket takes *)
(* no more (or only a part of the next one), and what is left asks for     *)
(* writability.                                                            *)
tcp_write(f, p, n) ==
    LET rest == SubSeq(f[p].write_fifo, n + 1, Len(f[p].write_fifo))
    IN  [f EXCEPT ![p].write_fifo = rest,
                  ![p].t_event = IF rest = <<>> THEN "read" ELSE "rw"]

(* The outcomes of writing: some packets go out, or a hard error closes    *)
(* the pair.                                                               *)
WriteOutcomes(f, p) ==
    {tcp_write(f, p, n) : n \in 0 .. Len(f[p].write_fifo)}
        \cup (IF f[p].write_fifo = <<>> THEN {} ELSE {pop_tcp_close_paired_peer(f, p)})

push_bug(f, p, pkt) == [f EXCEPT ![p].write_fifo = <<pkt>> \o @]    \* before the others

push(f, p, pkt) == [f EXCEPT ![p].write_fifo = Append(@, pkt)]

(* pop_tcp_client_event_http_proxy_call, SUCCESS: have the packets that    *)
(* waited for the connection sent, the client's in the case of a tunnel.   *)
client_success(f, p) ==
    LET q == IF f[p].if_tunnel THEN f[p].paired_peer ELSE p
    IN  IF q # NoPeer /\ f[q].write_fifo # <<>>
          THEN [f EXCEPT ![q].t_event = "rw"] ELSE f

-----------------------------------------------------------------------------
(* The callbacks. *)

(* pop_peer_new takes any slot that is not in use. *)
Free(p) == ~peer[p].alive

(* pop_http_proxy_server_peer_connect, for a connection accept() returned. *)
Accept(c) ==
    /\ Free(c)
    /\ peer' = event_add([peer EXCEPT ![c] =
                   [pop_peer_new EXCEPT !.type = "client", !.sockfd = TRUE,
                                        !.server_status = "Established",
                                        !.t_event = "read", !.listed = TRUE]],
                   c, "ACCEPT")
    /\ UNCHANGED <<waitq, transId>>

(* A readable socket whose read() or message led nowhere but to the end:   *)
(* the other side closed, a hard error, a request that does not parse.     *)
Readable(p) == peer[p].alive /\ peer[p].t_event \in {"read", "rw"}

ReadClosed(p) ==
    /\ Readable(p)
    /\ peer' = pop_tcp_close_paired_peer(peer, p)
    /\ UNCHANGED <<waitq, transId>>

(* pop_http_proxy_message_deal on a pair that is up: the packet is put     *)
(* into the other half's fifo and written at once as far as possible.  A   *)
(* hard error closes both; the read(-1) that follows closes them again,    *)
(* which changes nothing.                                                  *)
ReadForward(p) ==
    LET q == peer[p].paired_peer IN
    /\ Readable(p)
    /\ CanForward(p)
    /\ Len(peer[q].write_fifo) < FifoMax
    /\ peer' \in WriteOutcomes(push(peer, q, peer[p].type), q)
    /\ UNCHANGED <<waitq, transId>>

(* DELAY_FORWARD of pop_http_proxy_request_event: the server is being      *)
(* connected, or the method is none of the table; the bytes are put into   *)
(* the fifo of the peer they came from.                                    *)
ReadEarly(c) ==
    /\ EarlyData
    /\ Readable(c) /\ peer[c].type = "client" /\ ~CanForward(c)
    /\ Len(peer[c].write_fifo) < FifoMax
    /\ peer' = push(peer, c, "client")
    /\ UNCHANGED <<waitq, transId>>

(* May the client's bytes start a request?  Not while its server is being  *)
(* connected; a server that is Idle, because its name is being resolved or *)
(* its connect() failed at once, does not prevent it.                      *)
RequestPossible(c) ==
    /\ Readable(c) /\ peer[c].type = "client"
    /\ LET q == peer[c].paired_peer
       IN q # NoPeer => Pipelining /\ peer[q].client_status = "Idle"

PairMade_bug(c, s, tunnel) ==    \* the answer to CONNECT may leave at once
    LET f == pop_peers_paired(
               [peer EXCEPT ![s] = [pop_peer_new EXCEPT !.type = "server",
                                                        !.if_tunnel = tunnel]],
               s, c)
    IN  IF tunnel THEN [push(f, c, "estab") EXCEPT ![c].t_event = "rw"]
                  ELSE push(f, s, "client")

(* pop_remote_server_peer_make, pop_peers_paired and the packet that has   *)
(* to wait for the connection: the request itself in the server's fifo, or *)
(* for CONNECT the reply in the client's.                                  *)
PairMade(c, s, tunnel) ==
    LET f == pop_peers_paired(
               [peer EXCEPT ![s] = [pop_peer_new EXCEPT !.type = "server",
                                                        !.if_tunnel = tunnel]],
               s, c)
    IN  IF tunnel THEN push(f, c, "estab") ELSE push(f, s, "client")

(* pop_http_proxy_request_get / _connect with an address at hand: an IPv4  *)
(* literal or a valid DNS cache entry.                                     *)
RequestResolved(c, s, tunnel) ==
    /\ RequestPossible(c) /\ Free(s)
    /\ Len(peer[c].write_fifo) < FifoMax
    /\ \E connecting \in BOOLEAN :
         peer' = start_event(PairMade(c, s, tunnel), s, connecting)
    /\ UNCHANGED <<waitq, transId>>

(* hash_get keeps the entry a key already has. *)
DnsWaitAckQueueAdd(q, id, p) ==
    IF q[id] = NoPeer THEN [q EXCEPT ![id] = p] ELSE q

DnsWaitAckQueueDel_bug(q, id) == q    \* the entry stays

DnsWaitAckQueueDel(q, id) == [q EXCEPT ![id] = NoPeer]

NextId_bug == transId + 1    \* a wider type than the packet's id

NextId == (transId + 1) % IdMod

(* The same with a name to resolve: the id is used up in any case; when    *)
(* sendto() fails the pair is closed.                                      *)
RequestQuery(c, s, tunnel) ==
    /\ RequestPossible(c) /\ Free(s)
    /\ Len(peer[c].write_fifo) < FifoMax
    /\ transId' = NextId
    /\ \/ /\ peer' = [PairMade(c, s, tunnel) EXCEPT ![s].DnsTransactionID = transId,
                                                    ![s].t_DnsWaitAck = TRUE]
          /\ waitq' = DnsWaitAckQueueAdd(waitq, transId, s)
       \/ /\ peer' = pop_tcp_close_paired_peer(PairMade(c, s, tunnel), c)
          /\ UNCHANGED waitq

(* pop_udp_recv_dns_query_ack: an answer, possibly late or repeated, for   *)
(* an id somebody waits under.  Without an address nothing is started.     *)
DnsAck(id) ==
    LET s == waitq[id] IN
    /\ s # NoPeer
    /\ waitq' = DnsWaitAckQueueDel(waitq, peer[s].DnsTransactionID)
    /\ LET f == [peer EXCEPT ![s].t_DnsWaitAck = FALSE]
       IN \/ peer' = f
          \/ \E connecting \in BOOLEAN : peer' = start_event(f, s, connecting)
    /\ UNCHANGED transId

(* DnsWaitAckTimeoutCall *)
DnsTimeout(s) ==
    /\ peer[s].t_DnsWaitAck
    /\ waitq' = DnsWaitAckQueueDel(waitq, peer[s].DnsTransactionID)
    /\ peer' = pop_tcp_close_paired_peer([peer EXCEPT ![s].t_DnsWaitAck = FALSE], s)
    /\ UNCHANGED transId

(* pop_tcp_client_connect_check: SO_ERROR says how the connect() ended. *)
ConnectCheck(s) ==
    /\ peer[s].t_event = "check"
    /\ \/ peer' = success_event(peer, s)
       \/ peer' = pop_tcp_close_paired_peer(peer, s)
    /\ UNCHANGED <<waitq, transId>>

(* pop_tcp_client_connect_expired *)
ConnectExpired(s) ==
    /\ peer[s].t_connecting
    /\ peer' = pop_tcp_close_paired_peer([peer EXCEPT ![s].t_connecting = FALSE], s)
    /\ UNCHANGED <<waitq, transId>>

(* pop_http_proxy_tcp_write, for a socket that became writable. *)
Write(p) ==
    /\ peer[p].alive /\ peer[p].t_event = "rw"
    /\ peer' \in WriteOutcomes(peer, p)
    /\ UNCHANGED <<waitq, transId>>

PeerDeleted_bug(f, p) ==    \* EVENT_OFF(t_event) missing
    [pop_tcp_cancle_paired(f, p) EXCEPT ![p] = [FreeSlot EXCEPT !.t_event = f[p].t_event]]

(* pop_peer_delete *)
PeerDeleted(f, p) == [pop_tcp_cancle_paired(f, p) EXCEPT ![p] = FreeSlot]

(* pop_tcp_client_event_deal and pop_tcp_server_event_deal: up to          *)
(* ExecuteCount infos in their order, until one of them frees the peer; a  *)
(* peer that is not in the list is left alone.                             *)
InfoDeal(p) ==
    LET f      == [peer EXCEPT ![p].t_info_deal = FALSE]
        n      == IF Len(peer[p].info) < ExecuteCount THEN Len(peer[p].info) ELSE ExecuteCount
        Fatal  == {i \in 1 .. n : peer[p].info[i] \in {"ERROR", "BREAK"}}
        Ok     == {i \in 1 .. n : /\ peer[p].info[i] = "SUCCESS"
                                  /\ \A j \in Fatal : i < j}
        rest   == SubSeq(peer[p].info, n + 1, Len(peer[p].info))
        g      == IF Ok = {} THEN f ELSE client_success(f, p)
    IN
    /\ peer[p].t_info_deal
    /\ UNCHANGED transId
    /\ \/ /\ ~peer[p].listed
          /\ peer' = f
          /\ UNCHANGED waitq
       \/ /\ peer[p].listed /\ Fatal # {}
          /\ peer' = PeerDeleted(g, p)
          /\ waitq' = DnsWaitAckQueueDel(waitq, peer[p].DnsTransactionID)
       \/ /\ peer[p].listed /\ Fatal = {}
          /\ peer' = [g EXCEPT ![p].info = rest, ![p].t_info_deal = (rest # <<>>)]
          /\ UNCHANGED waitq

-----------------------------------------------------------------------------
(* What the clients, the web servers and the DNS server make happen. *)
NetworkStep ==
    \/ \E p \in Peers : \/ Accept(p) \/ ReadClosed(p) \/ ReadForward(p)
                        \/ ReadEarly(p) \/ Write(p) \/ ConnectCheck(p)
    \/ \E c, s \in Peers, tunnel \in BOOLEAN :
         RequestResolved(c, s, tunnel) \/ RequestQuery(c, s, tunnel)
    \/ \E id \in Ids : DnsAck(id)

(* Timers that run out. *)
TimerStep == \E p \in Peers : InfoDeal(p) \/ ConnectExpired(p) \/ DnsTimeout(p)

Next == NetworkStep \/ TimerStep

(* A timer that is set runs out, and the loop calls its callback: the only *)
(* progress the program owes by itself.                                    *)
Fairness ==
    \A p \in Peers : /\ WF_vars(InfoDeal(p))
                     /\ WF_vars(ConnectExpired(p))
                     /\ WF_vars(DnsTimeout(p))

Spec == Init /\ [][Next]_vars

FairSpec == Spec /\ Fairness

-----------------------------------------------------------------------------
(* Properties. *)

(* Every peer is in a status of its state machines, its queues hold what   *)
(* the code puts there, and ids fit the 16 bits of the DNS header.         *)
TypeOK ==
    /\ peer \in [Peers -> PeerRec]
    /\ waitq \in [Ids -> PeerOrNull]
    /\ transId \in Ids

(* Nothing of the program can reach the memory of a freed peer: it has no  *)
(* timer or event that would call back with it, is in no list or queue,    *)
(* and no other peer is paired with it.  pop_peer_delete has to undo what  *)
(* seven other functions set up.                                           *)
FreedPeerUnreachable ==
    \A p \in Peers : ~peer[p].alive =>
        /\ peer[p] = FreeSlot
        /\ \A q \in Peers : peer[q].paired_peer # p
        /\ \A id \in Ids : waitq[id] # p

(* A peer in the DNS wait queue is under the id it sent its query with, is *)
(* still allocated and Idle, and its wait is limited by the timer: an      *)
(* answer never starts a connection twice nor reaches a freed peer.        *)
WaitersConsistent ==
    \A id \in Ids : waitq[id] # NoPeer =>
        LET s == waitq[id] IN
        /\ peer[s].alive /\ peer[s].type = "server"
        /\ peer[s].DnsTransactionID = id
        /\ peer[s].t_DnsWaitAck
        /\ peer[s].client_status = "Idle"

(* The status of a peer and what is pending for it go together: a          *)
(* connection attempt is watched by both its event and the 5 s timer, an   *)
(* established socket always listens, and an idle peer holds neither.      *)
StatusHasHandles ==
    \A p \in Peers : peer[p].alive =>
        /\ (peer[p].client_status = "Connect") <=> (peer[p].t_event = "check")
        /\ (peer[p].client_status = "Connect") <=> peer[p].t_connecting
        /\ Readable(p) <=> \/ peer[p].client_status = "Establish"
                           \/ peer[p].server_status = "Established"
        /\ peer[p].sockfd <=> peer[p].t_event # "off"

(* Pairing is mutual and joins a client with a server: when one half is    *)
(* closed, pop_tcp_close_paired_peer finds the other.                      *)
PairingMutual ==
    \A p \in Peers : LET q == peer[p].paired_peer IN
        q # NoPeer =>
            /\ peer[q].paired_peer = p
            /\ {peer[p].type, peer[q].type} = {"client", "server"}

SuccessQueued(s) == \E i \in DOMAIN peer[s].info : peer[s].info[i] = "SUCCESS"

SuccessPending(s) == peer[s].t_info_deal /\ SuccessQueued(s)

Has(p, pkt) == \E i \in DOMAIN peer[p].write_fifo : peer[p].write_fifo[i] = pkt

ServerPacketsWatched ==
    \A s \in Peers :
        peer[s].client_status = "Establish" /\ peer[s].write_fifo # <<>>
            => peer[s].t_event = "rw" \/ SuccessPending(s)

TunnelAnswerWatched ==
    \A c, s \in Peers :
        (/\ peer[s].paired_peer = c
         /\ peer[s].client_status = "Establish" /\ peer[s].if_tunnel
         /\ Has(c, "estab"))
            => peer[c].t_event = "rw" \/ SuccessPending(s)

ClientPacketsWatched ==
    \A c \in Peers :
        peer[c].server_status = "Established" /\ Has(c, "server")
            => peer[c].t_event = "rw"

(* Packets never wait for nobody.  Those of an established server are      *)
(* either watched by EPOLLOUT or by a SUCCESS that will be dealt with; so  *)
(* is the proxy's own answer to CONNECT once the tunnel is up, and a       *)
(* server's packets in a client's fifo are watched at once.                *)
NoStrandedPackets ==
    ServerPacketsWatched /\ TunnelAnswerWatched /\ ClientPacketsWatched

(* An action property: a socket is never closed without the sockets of the *)
(* peers that are paired with it (pop_network.c:97-99).                    *)
PairClosesTogether ==
    [][\A p, q \in Peers :
         peer[p].sockfd /\ ~peer'[p].sockfd /\ peer[q].paired_peer = p
           => ~peer'[q].sockfd]_vars

EstabPackets(f, p) == Cardinality({i \in DOMAIN f[p].write_fifo : f[p].write_fifo[i] = "estab"})

(* An action property: the answer to CONNECT leaves for the client only    *)
(* when the connection to the server is established, or is thrown away     *)
(* with the client.                                                        *)
TunnelAnswerAfterConnect ==
    [][\A c \in Peers :
         EstabPackets(peer', c) < EstabPackets(peer, c) /\ peer'[c].alive
           => LET s == peer[c].paired_peer
              IN s # NoPeer /\ peer[s].client_status = "Establish"]_vars

(* A connection attempt comes to an end: connect() that neither succeeds   *)
(* nor fails is ended by t_connecting_timer.                               *)
ConnectResolves ==
    \A s \in Peers : peer[s].client_status = "Connect" ~> peer[s].client_status # "Connect"

(* A wait for a DNS answer comes to an end, and leaves no entry behind:    *)
(* DnsWaitAckTimeoutCall deletes it if nobody else did.                    *)
DnsWaitEnds == \A id \in Ids, s \in Peers : waitq[id] = s ~> waitq[id] # s

(* A client whose connection was closed is freed: the BREAK that            *)
(* _pop_tcp_server_close queues survives the cancelling of t_info_deal.     *)
ClosedClientFreed ==
    \A c \in Peers :
        peer[c].alive /\ peer[c].type = "client" /\ peer[c].server_status = "Idle"
            ~> ~peer[c].alive

(* A SUCCESS is dealt with even if it is not the first info of its queue.   *)
SuccessDealtWith == \A s \in Peers : SuccessQueued(s) ~> ~SuccessQueued(s)

-----------------------------------------------------------------------------
(* What comments of the code say, and the code does not do. *)

(* pop_tcp_fsm.c:89 (in translation): "trigger the transaction layer's      *)
(* TCP_SERVER_INFO_ERROR, to have it released".                             *)
EndedPeerReleased ==
    \A p \in Peers :
        (\E i \in DOMAIN peer[p].info : peer[p].info[i] \in {"ERROR", "BREAK"})
            ~> ~peer[p].alive

(* pop_http_proxy_request.c:676 and 682: "the TCP connection with the       *)
(* server is being established, buffer the packet and send it later";       *)
(* "packets of an unknown method are forwarded directly".  So a client's    *)
(* bytes never wait to be sent back to that client.                         *)
NoEcho == \A c \in Peers : peer[c].type = "client" => ~Has(c, "client")

(* pop_http_proxy_request.c:395: "record the DNS id, put the peer into the  *)
(* wait queue"; a peer that waits for its answer can be found there.        *)
WaiterCanBeFound ==
    \A s \in Peers : peer[s].t_DnsWaitAck => waitq[peer[s].DnsTransactionID] = s

=============================================================================
