# A TLA+ model of Poplar2

Poplar2 is an HTTP proxy: one thread, an epoll loop, non-blocking sockets. It accepts clients,
reads the start line of their request, resolves the host (with a small DNS client and a cache of its
own), connects to the web server, and from then on relays bytes in both directions. `CONNECT` opens a
tunnel. This directory models that program; the reference is always the code in `src/`, whose
comments (GBK) are quoted in translation.

## 1. Inventory

| Component | State | Operations | Model |
|---|---|---|---|
| event loop, `eventsCtl/event_ctl.*` | node pool in five lists and a hash, the timerfd, the epoll set | add/cancel timers, watch/re-arm/unwatch descriptors, `event_waiting_process` | `EventCtl`, `EventCtlAccept`; what it promises: `EventApi` |
| TCP state machines, `pop_tcp_fsm.*`; peers, `pop_paired_peer.*` | `struct peer`: two statuses, socket, partner, timers, list membership | events of the client's machine, accept, close, pair, free | `Proxy` |
| transaction layer, `pop_transaction.*` | a queue of infos per peer, `t_info_deal` | add an info; deal with up to five | `Proxy` |
| network, `pop_network.*`, `pop_transpond.*` | `write_fifo`, what `t_event` waits for | read, relay, write, close a pair | `Proxy` by packets, `ByteRelay` by bytes; what they promise: `Relay`, `ByteChannel` |
| HTTP requests, `pop_http_proxy_request.*` | none of its own | GET, CONNECT, packets that come too early | `Proxy`, `DnsCache`, `Session` |
| DNS client, `pop_domain_parse.*` | `DomainTransID`, the wait queue (a hash), one 3 s timer per waiter | query, answer, timeout; names and responses | `Proxy`, `DnsCache`; `DnsMessage` |
| DNS cache, `pop_domain_cache.*` | map by name, queue by freshness | look up, add, delete, renew, make room, check every 60 s | `DnsCache` |
| buffers, `pop_stream.*` | bytes with two positions and a size; fifos of them | new, reset, read, duplicate, move on | `Stream`, `ByteRelay` |
| hash and list, `common/` | buckets, links | | as functions and sequences |
| HTTP header parsing, `pop_http_header.*` | none | start line, URI | `HttpHeader`, `Session` |

Not modelled: `pop_httpcache` (only its start-up call is reached), `pop_paired_peer_hash` ("no longer
used", says `popd.c`), `pop_socket` (wrappers of system calls; their outcomes are choices of the
model), `pop_daemon`, memory, digests, `test/`. In `pop_http_proxy_request.c` lines 37-362 belong to a
build with `DNSPARSE_BLOCK`, which the Makefile does not make. The SOCKS5 branches and
`pop_tcp_server_event` are reached by no caller.

How they interact: the loop calls one callback at a time. Callbacks share the peers: a read of one half of
a pair writes, closes or re-arms the other. Things that are to happen "later" go through an info queue
and a timer of 0 s (`t_info_deal`), through the DNS wait queue, or through `connect()`. So although there is one
thread, what was true when an operation began may not be true when it goes on: the client may be gone
when the DNS answer comes, the peer freed when its timer runs out, the fifo written by somebody else.

What is hard, and which property looks at it (the full list, with lines, is `hazards` in
`PROJECT.json`):

* answers and connections for pairs that were closed meanwhile - `WaitersConsistent`,
  `FreedPeerUnreachable`;
* closing one half only, or leaving it paired - `PairingMutual`, `PairClosesTogether`;
* bytes left in a fifo that nobody will write - `NoStrandedPackets`, `BytesArrive`, or written too
  early - `TunnelAnswerAfterConnect`;
* bytes lost, doubled or out of order when reads and writes take only part of what there is, or when a
  full socket or an error comes in between - `BytesInOrder`, `ImplementsChannel`, `ImplementsRelay`;
* one-shot events that some way out of a callback forgets to set again, and an `errno` that is not
  that of the call before it - `SocketsWatched`, `EndNoticed`;
* a text or a message that is read differently from what it means - `ReachesMeantServer`,
  `StrandedOnlyWithReason`, `CrashOnlyWithoutAddress`;
* timers lost or left behind - `StatusHasHandles`, `ClosedClientFreed`, `TimerfdArmedForEarliest`,
  `TimersRun`;
* a callback begun twice, before its time, after its `OFF` or out of the order of its round - `ImplementsApi`;
* memory and descriptors that are reused while something still refers to them - `EpollNodesLive`,
  `LookupFindsHandle`, `NodeInOnePlace`;
* a map and a queue that must hold the same results - `MapAndQueueInStep`.

## 2. Modules

### `Proxy`

`peer` maps memory slots to peer records: `alive` says whether a slot is allocated, and the next
`pop_peer_new` may take any slot that is not, as `malloc` may. `waitq` is the hash of waiting peers and
`transId` the id counter with its width `IdMod`.

A function of the code that works on peers is an operator from the peers before to the peers after it,
with the name it has in the code (`pop_tcp_client_stop`, `pop_tcp_close_paired_peer`, ...). An
action is a callback, and composes the operators in the order of the code:

| Action | Callback |
|---|---|
| `Accept` | `pop_http_proxy_tcp_server_accept`, one connection |
| `ReadClosed`, `ReadForward`, `ReadEarly`, `RequestResolved`, `RequestQuery` | `pop_http_proxy_tcp_read`, by what was read |
| `Write` | `pop_http_proxy_tcp_write` |
| `ConnectCheck`, `ConnectExpired` | the end of `connect()`, the 5 s timer |
| `DnsAck`, `DnsTimeout` | an answer to a query, the 3 s timer |
| `InfoDeal` | `pop_tcp_client_event_deal` / `pop_tcp_server_event_deal` |

Abstractions. A packet is its origin (client, server, or the proxy's own `200 Connection established`).
A read callback reads up to ten times; each read is a step, which allows every run of the code and
others, where something else happens between the reads. After a read or write error the callback tries
again with descriptor -1 and closes the pair a second time, which changes nothing (the operators are
idempotent there). An event that is readable and writable is a read followed by a write. A request that
does not parse, and one whose socket was closed, end alike. A partial write is a write of fewer packets.
Servers have no `ACCEPT`, clients no `SUCCESS`, so the two info lists of a peer are one. The DNS client's
own peer is none of the slots. `connect()` and `sendto()` fail or succeed as they like.

Two constants say what clients do. `Pipelining`: a client sends another request while its server is
still Idle. `EarlyData`: it sends bytes that can only be put aside. Both are things a client may do;
the runs that find disagreements set them.

The names that end in `_bug` are faulty variants of the definition that follows them. No action uses them:
each shows, put in its place, that the property it is meant for would notice.

### `EventCtl`, `EventCtlAccept`

`m` is `struct event_master`: the nodes, the timer and rear lists, the ready and unused lists, the hash of
watched descriptors, the node the timerfd was set for (`armed`) and the time it was set to (`alarm`).
`ep` is the kernel's epoll set, `handle` the nodes the owners hold, `now` the clock. `Pass` is one round
of `event_waiting_process`; `Callback` is what users do between rounds: `TIMER_ON`, `TIMER_OFF`,
`EVENT_SET` (`Watch` or `Rearm`), `EVENT_OFF` followed by `close()` (`Unwatch`). Unused nodes keep their old
`fd`, as in the code, since the search of the ready list looks at it.

The timerfd is never read: it stays readable until it is set again, so the guard of `Pass` is that
`alarm` has passed. `event_list_delete` clears `next`, so the loop of `event_timer_process` ends after one
node; the model takes one node per list and pass for that reason. The timerfd's own node is left out, and
so are nodes of a failed `epoll_ctl` but for being lost (`WatchClosed`).

`EventCtlAccept` adds the one callback that cancels the event it was given, when `accept()` fails for good.
What the program does after that step is not modelled: `SpecAccept` stops there.

### `EventApi`, `EventCtlApi`

`EventApi` is what `EventCtl` promises those who call it, without nodes, lists, hash, timerfd and epoll set. A timer is
off, set for a time, or ready; a descriptor is open, armed, ready. `Set`, `Stop`, `Open`, `Arm` and `Close` are the macros
`TIMER_ON` to `EVENT_OFF`. `Run` begins the callback of something that is ready. `Round` happens only when nothing is: it
takes due timers in the order of their times, at least one of each kind that has some (the code takes exactly one,
the promise is weaker on purpose), and any armed descriptors, and begins the first callback. A ready timer goes before
descriptors, descriptors before rear nodes. A callback is begun once for what it was asked for: beginning it takes the
timer off, or the descriptor's readiness away. `EventCtlApi` is the refinement mapping. A node that was added as a timer or
rear node is the timer of that name while its type is that of a list it waits in or READY; a descriptor is what its
owner's node and the epoll set say of it. A node whose `epoll_ctl` failed (`WatchClosed`) is seen by nobody.

### `DnsCache`

`cache` holds the map, the queue and the results in memory; `asked` counts, per host, the peers that wait
for an answer (that side is modelled in `Proxy`); `clock` is `time(NULL)`. `RequestHit` and the two
`...Miss` actions are the look-ups by GET and by CONNECT, which differ in what they do with a result
that is out of date. `Answer` is the part of `pop_udp_recv_dns_query_ack` that changes the cache, with
`ValidityEndTime` in `TimeMod`. `used` and `told` are history variables inside a result. An answer is about
the name that was asked.

### `Relay`, `ProxyRelay`

`Relay` is what `Proxy` promises: halves joined in pairs, a queue of packets for each, packets that leave in their
order through connections that are up, both halves closed in one step. It knows no timers, DNS
queries, info queues, descriptors or memory. `ProxyRelay` is the refinement mapping: a peer is a half, its
two status fields become "none", "idle" or "up", `paired_peer` the partner, `write_fifo` the
queue. `Request` covers both ways to a server (resolved or asked for), `Connect` is the end of
`connect()`, also for a server whose client has gone, `Release` a peer's end.

### `Stream`, `ByteRelay`, `ByteChannel`

`Stream` is `struct stream`: a size, a position and the bytes up to `endp`. The assertions of
`pop_stream.c` are operators of their own (`..._asserts`), so that a run can ask whether they ever fail.

`ByteRelay` is one direction of a pair at the level of system calls. `Proxy` has the same functions as single
steps on whole packets; here `read()` takes up to `BufferSize` bytes, the read loop goes around
`ReadTimes` times, each packet is copied into the destination's fifo, `write()` takes what
there is `room` for, and the kernel moves between any two calls. `errno` is one variable, as in the
process: a call that succeeds does not touch it. `OtherCallback` stands for everything else the loop calls: it may
leave any `errno` behind and may close the pair. Bytes are numbered in the order in which the source sent them.

`ByteChannel` is its abstract specification: `Take`, `Give`, `Break`.

### `HttpHeader`, `DnsMessage`, `Session`

`HttpHeader` has the start line and the URI as functions of sequences of tokens (`":"`, `"/"`, blank, end of
line, and words); `atoi` of what is no number is 0, as in the library, and an uninitialised port is
"undefined". `Uris`, `UriText` and `Meant` are the reference: the URIs a client may write and what
they mean.

`DnsMessage` has names as bytes, with the counts that replace the dots. A count is an `int` that is stored in a `char` (`Byte`) and read back as a signed one (`CharMax`): a label of
128 bytes or more has a negative count, with which `check_dns_name_pkt_format` leaves the string, so such
a name is asked for and never accepted. A response is a record with the form of each name (labels, a pointer,
both), the type and the address of its records.
`DomainNameIpv4Addr` says what the code makes of one: nothing, a result without an address, an address, or
a look at the record after the last.

`Session` composes `HttpHeader`, `DnsMessage` and `ByteRelay` into the life of one pair: `RequestRead`
parses the text and makes the server peer, `ResponseRead` takes a response of an honest DNS server (it answers
the query it gets, with further records in any order), `LookupTimeout` and `Connected` end the
waiting, and then the steps are those of `ByteRelay`.

### Checking and proving modules

`MCProxy`, `MCEventCtl`, `MCEventCtlAccept`, `MCDnsCache` and `MCSession` give constants their values.
`Lists` has `Keep`, a list without some of its nodes, which `EventCtl` and `DnsCache` share; it is a recursive
function, so that it can be proved about. `ListProofs` holds what is true of it and of appending to,
joining and taking the first of a list; `ByteRelayProofs`, `DnsCacheProofs`,
`EventCtlProofs` (which includes the refinement of `EventApi`) and `SessionProofs` hold the theorems of their components. Those of `Proxy` are in three modules,
each of which extends the one before: `ProxyProofs` (types, waiters, pairs), `ProxyStatusProofs`
(statuses, packets, what closes when) and `ProxyRelayProofs` (the refinement of `Relay`).

## 3. Runs

Deadlock is not checked: with finitely many slots a model may stop (all slots leaked, or the clock
at its end), and the program itself waits in `epoll_wait` when nothing happens.

| Run | Bounds | What it shows |
|---|---|---|
| `proxy_safe` | 3 slots, 2 ids, 2 packets per fifo, 5 infos | pairs are mutual and close together, statuses and handles agree, nothing is stranded or sent too early, waiters are consistent, freed memory is unreachable; every callback is a step of `Relay` |
| `proxy_live` | 3 slots, 1 id, 1 packet, 1 info per callback | connections and DNS waits end, closed clients are freed, a SUCCESS is dealt with |
| `eventctl` | 4 nodes, 2 descriptors, 2 instants | lists, timerfd, look-up by descriptor, epoll data; every step is one of `EventApi` |
| `eventctl_live` | 3 nodes, 1 descriptor, 2 instants | every timer runs or is cancelled |
| `dnscache` | 4 hosts, threshold 2, clock of 8, 2 waiters per host | map and queue in step, order of use, bound, what is dropped |
| `session` | 5 bytes, reads of 3, 2 reads per callback, 2 bytes of send buffer; 7 hosts, with labels of up to 128 bytes, paths of up to 3 tokens, 2 records per response | the server meant is reached; failed lookups have a reason; no assertion fails; bytes arrive, once and in order, at sockets that stay watched; every system call is a step of `ByteChannel` |

Why the bounds are enough. A pair needs two slots; the third is another client, a server whose client has
gone, or the slot a freed peer's memory is given out again in. Two ids wrap after the second query, one id
collides at once. Two packets in a fifo tell "all written" from "some written". Four
nodes are a timer, a rear node and two descriptors, or any three timers and a descriptor; two instants are due and
not due. With a threshold of 2 the cache reaches 3 results and makes room; with four hosts it does so
again. A time to live of 7 in a clock of 8 wraps.

In `session` a read of 3 with 5 bytes on the
way gives full and partial reads and a second packet behind a first that was sent in part; a send buffer of 2
is smaller than a packet, so every packet may be cut; with two reads per callback the loop ends both by its
count and by an empty socket. The hosts are a name of two labels, one of one label, one with a dot at its
end, two with labels of 127 and 128 bytes, the longest that is accepted and the shortest that is not, an address and
one that the DNS does not know; the paths are all that have up to two tokens after the first
slash, the colon among them; two records tell "first", "last" and "one past the last".

Symmetry is used in runs without temporal formulas about progress, over slots, nodes and hosts, which no
definition tells apart (the `CHOOSE`s take memory that was not used yet, all of it alike).

Fairness. `Proxy`: a timer that is set runs out and its callback is called (`InfoDeal`, `ConnectExpired`,
`DnsTimeout`, weakly fair, each peer's own). Nothing is owed by clients, servers or the DNS. `EventCtl`: the
process gets the processor and time passes. That the timers of `Proxy` run is what `eventctl_live`
shows about the loop. `ByteRelay`: a callback that has begun goes on (`ReadStep`, `WriteStep`, weakly fair,
it is one thread); a descriptor that is ready again and again is served (strongly fair), because each pass of
the loop calls the callbacks of all descriptors that `epoll_wait` reports (`event_ctl.c:803-826`); and the
destination takes in what its socket holds (`Drain`), which is an assumption about the other end, not about the
code: without it bytes may wait for ever, and rightly. `SF` and not `WF` since a read may empty a
socket that a write had filled before the loop gets there.

### Disagreements between the code and its comments

Each has a run that checks what the comment says and finds a behaviour of the code that breaks it.

* `proxy_leak`, `EndedPeerReleased`: `pop_tcp_fsm.c:89` raises an info "to have it released";
  `pop_transaction.c:127` ignores infos of peers that are not in the list, and servers enter it only when
  they are established. A server whose `connect()` fails at once, or whose pair is closed while it is
  resolving or connecting, stays allocated.
* `proxy_echo`, `NoEcho`: `pop_http_proxy_request.c:676`, `:682` say "buffer and send it later",
  "forwarded directly"; line 696 puts the packet into the fifo of the client it came from.
* `proxy_wait`, `WaiterCanBeFound`: `pop_http_proxy_request.c:395` puts a peer into the wait queue;
  `pop_paired_peer.c:52` takes out whoever is there under the id of the peer that is freed, and 0 is the id
  of every peer that never asked.
* `proxy_repair`, `PairClosesTogether` with `Pipelining`: `pop_network.c:97-99` closes "the other socket
  of the pair"; a second request while the first name is being resolved pairs the client again
  (`pop_http_proxy_request.c:431`) and leaves the first server pointing to it.
* `eventctl_accept`, `AcceptErrorCancels`: `pop_tcp_fsm.c:369` says "cancel reading of the listening
  socket", and cancels the loop's copy of the node.
* `dnscache_stale`, `ServedAddressValid`: `pop_domain_cache.h:13` calls `ValidityEndTime` "the time until
  which it is valid"; `pop_domain_parse.c:572-575` renews it and keeps the old address.

Smaller ones without a run of their own, each visible in a property that has to allow for it:

* the comment at `pop_domain_cache.c:251` says at most 1000 results, and the code reaches 1001
  (`CacheBounded` states the bound it does keep);
* an answer without an address (`pop_domain_parse.c:560`) leaves a pair without any timer;
  `StrandedOnlyWithReason` says when that can happen. One way is a record whose name is labels and a
  pointer: the comment at `:220` says there are such names, the one at `:388` that a name that cannot be parsed
  does not matter, and the code gives up;
* if no record has an address, `pop_domain_parse.c:488` looks at the record after the last
  (`CrashOnlyWithoutAddress`);
* `pop_domain_parse.c:433` takes the flag `1 << 7` for that of a response; in a message it is "recursion
  available" (`recursion` in `DnsMessage`);
* `pop_network.c:293` looks at `errno` after a `read()` that returned 0, which does not set it; as long as an earlier
  call's `EAGAIN` is in it the end of a connection is not noticed (`EndNoticed` is about the executions where it
  does not stay there);
* the end of a source closes the pair at once, with what its destination has not yet taken
  (`pop_network.c:298`, `Break` of `ByteChannel`);
* the first colon after the scheme is taken for the port's, even in the path (`pop_http_header.c:218`,
  `Misread`): without a port in the URI the host's name is cut wrongly, and a URI without scheme
  and port leaves the port uninitialised.

## 4. Proofs

tlapm proves, for every set of slots, every number of ids and of infos per callback:

* `ProxyProofs!TypeCorrect`: `Spec => []TypeOK`;
* `ProxyProofs!DnsWaitersConsistent`: `Spec => []WaitersConsistent`;
* `ProxyProofs!PairingIsMutual`: `~Pipelining /\ Spec => []PairingMutual`;
* `ProxyProofs!FreedPeersUnreachable`: `~Pipelining /\ Spec => []FreedPeerUnreachable`;
* `ProxyStatusProofs!StatusesHaveHandles`: `~Pipelining /\ Spec => []StatusHasHandles`;
* `ProxyStatusProofs!PacketsNotStranded`: `~Pipelining /\ Spec => []NoStrandedPackets`;
* `ProxyStatusProofs!PairsCloseTogether`: `~Pipelining /\ Spec => PairClosesTogether`;
* `ProxyStatusProofs!TunnelAnswersAfterConnect`: `~Pipelining /\ Spec => TunnelAnswerAfterConnect`;
* `ProxyRelayProofs!ProxyIsRelay`: `~Pipelining /\ Spec => ImplementsRelay`.

and, for every number of bytes, size of the buffers and number of reads per callback:

* `ByteRelayProofs!TypeCorrect`: `Spec => []TypeOK`;
* `ByteRelayProofs!AssertionsHold`: `Spec => []NeverAborts`;
* `ByteRelayProofs!BytesStayInOrder`: `Spec => []BytesInOrder`;
* `ByteRelayProofs!SocketsStayWatched`: `Spec => []SocketsWatched`;
* `ByteRelayProofs!RelayIsChannel`: `Spec => ImplementsChannel`.

for every set of hosts and entries, every size of the cache and width of the clock:

* `DnsCacheProofs!CacheTypeCorrect`, `CacheInStep`, `CacheQueueOrdered`, `CacheStaysBounded`:
  `Spec => []TypeOK`, `[]MapAndQueueInStep`, `[]QueueByFreshness`, `[]CacheBounded`;
* `DnsCacheProofs!CacheEvictsLeastFresh`: `Spec => EvictsLeastFresh`;
* `DnsCacheProofs!CacheValidResultsStay`: `Spec => ValidResultsStay`;

for every set of nodes, every finite set of descriptors and every set of delays:

* `EventCtlProofs!TypeCorrect`: `Spec => []TypeOK`;
* `EventCtlProofs!NodesInOnePlace`: `Spec => []NodeInOnePlace`;
* `EventCtlProofs!TimerfdRight`: `Spec => []TimerfdArmedForEarliest`;
* `EventCtlProofs!LookupRight`: `Spec => []LookupFindsHandle`;
* `EventCtlProofs!EpollDataLive`: `Spec => []EpollNodesLive`;
* `EventCtlProofs!LoopIsApi`: `Spec => ImplementsApi`;

and, for every set of hosts, names that fit into their buffer (`HostLength`), paths of any length and responses of any
number of records:

* `SessionProofs!MeantServerReached`: `SessionSpec => []ReachesMeantServer`;
* `SessionProofs!StrandedWithReason`: `SessionSpec => []StrandedOnlyWithReason`;
* `SessionProofs!CrashWithoutAddress`: `SessionSpec => []CrashOnlyWithoutAddress`;
* `SessionProofs!SessionBytesRight`: `SessionSpec => [](TypeOK /\ NeverAborts /\ BytesInOrder /\ SocketsWatched)`;
* `SessionProofs!SessionIsChannel`: `SessionSpec => ImplementsChannel`;
* about the parsers, `NameReadBack` (a name of the DNS whose labels have at most 127 bytes is read back as it was
  written), `AcceptedNameReadBack` (the check accepts no longer label, so what it accepts is the name asked for),
  `ProperNameWellFormed` (with the same bound on labels, names without empty labels are accepted), `StartLineParsed`, `UriParsed` and `ResponseParsed`.

So every safety property that a passing run checks is proved.

The only other assumptions are `ProxyAssumption`, `ByteRelayAssumption`, `DnsCacheAssumption` (the null pointer
`NoEntry` is no result), `EventCtlAssumption` (a process has finitely many descriptors), `SessionAssumption` and
`TextAssumption` (no blanks or separators in methods and hosts, a path starts with "/", names have no byte 0, have
at most the 254 bytes that `char ipAddr[255]` holds, and are those of one host each). TLC evaluates each of them on the constants of its runs. `~Pipelining` is a
constant of the model and says what clients do; the runs take both values. It cannot be dropped from the
pairing: with `Pipelining` a pair is mutual no more after a few steps, for the reason `proxy_repair`
shows, and what is said of pairs closing together fails with it. `EarlyData` is free.

The argument. `WaitInv` is `TypeOK /\ WaitersConsistent`; it is inductive. A waiter is Idle, so no callback
but the answer, the timeout and its own release changes anything it needs; each of these three takes it out of
the queue, and `QueueDeleted` says that this is enough. `PairInv` adds `Sound(peer)`: pairs are mutual,
and a freed slot is empty. Both are needed together: a freed slot has no partner, so by mutuality nobody
has it as partner, and a closing that clears two pointers clears all there are. The lemmas go from the
operators (`StopIs`: what `pop_tcp_client_stop` does to one record and its partner) to the
callbacks (`SoundDnsTimeout`, ...), one for each action; `Replaced`, `ReplacedAndUnpaired` and `Touched` are the
three shapes all changes of the code have.

`StatusHasHandles` is not inductive, even with `PairInv`: it speaks of one peer, and what a callback does to a
peer depends on the infos in its queue and on its partner. `StatusInv` is `WaitInv /\ Good(peer)`, and `Good` is
`Sound` with two more parts, one about each record (`Fits`) and one about each pair (`Pairs`). TLC finds
`Good` to hold in every reachable state of three slots (92,197 states with `EarlyData`).

* `Kind`: a client keeps `client_status` Idle and is no tunnel and no waiter; a server keeps `server_status`
  Idle and holds no `estab` packet.
* `Watched`: the status and its timers, events and descriptor, as `StatusHasHandles` says.
* `InfosFit`: `SUCCESS` is queued only while `client_status` is Establish, `BREAK` only on an unpaired peer with
  `server_status` Idle, `ERROR` only on an Idle one that is neither listed nor waiting. An info is
  acted on long after it was queued; this is why it is never out of date when it is.
* `StatusFits`: Establish implies listed, waiting implies Idle and not listed, a paired client is Established.
* `FifoFits`: packets of an established connection have an `rw` handle or a `SUCCESS` still to be dealt
  with; a tunnel that is not up has none.
* `Pairs`: a client without a server is not watched for writing; one with a server is only if that server's
  `client_status` is Establish.

`Step(f, h)` says of a callback that takes the peers from `f` to `h` that `h` is `Good` again, that what closed
did so together with its partner (`ClosedTogether`), and that nothing leaves a fifo that holds the answer for a
tunnel unless the tunnel is up (`AnswersKept`). Each callback has its lemma (`StepAccept`, ..., `StepInfoDeal`), so the invariants
and both action properties come from the same case analysis. `TunnelAnswerAfterConnect` counts packets;
`LongerEstab` and `NoEstab` go from fifos to the cardinalities it compares.

`ProxyRelayProofs` restates the actions of `Relay` on records of `Proxy` (`OpenOfRelay`, `CloseOfRelay`,
`DeliverOfRelay`, ...) and then says of each callback which of them it is, in the states of `StatusInv`:
`Accept` is `Open`; `ReadClosed`, `ConnectExpired` and `DnsTimeout` are `Close`; `ReadForward` is `Forward` and
`ReadEarly` is `Early`; `Write` is `Deliver`, `Close` or nothing; `ConnectCheck` is `Connect` or `Close`; both
requests are `Request`; `DnsAck` is not seen, nor is `InfoDeal` unless it is `Release`.

In `ByteRelayProofs` the inductive invariant is `Inv`: `TypeOK`, `NeverAborts` and `BytesInOrder` with four
more parts. `BufferWhole` says that the receive buffer has its full size and that its position is where
the bytes begin, without which the read after it could be refused. `FifoWasRead` says that the last byte of
each packet has been read; it follows from the order of the packets by induction over the fifo; it is carried as a
part of its own instead, and gives the bound `taken` that `Give` of the channel
needs. `SourceArmed` and `DestinationArmed` extend `SocketsWatched` to the states within a callback: an
event is unset only on the way from its report to `Out` or to the end of the write loop. About
the operators there is one lemma per operation (`PushFollows`, `PopFollows`, `ForwardFollows`: the fifo
after `Append`, `Tail` and a partial write still continues the output), about the actions
`ReadBytesStep` and `WriteBytesStep`, and the rest are the quiet steps, which leave the bytes alone. The
same lemmas prove the step simulation, so `RelayIsChannel` follows from the invariant without more
than a case per action.

`DnsCache` and `EventCtl` delete from lists, and what a deletion leaves is a recursive function of the list. The
induction theorems of the library cannot be used here, since they take an operator as a parameter; `ListProofs` goes
around that: `Least` says that a set of numbers with a member has a least one, so an argument by induction is one about the
least length for which the claim fails. From it come `KeepLeaves` (which nodes are left), `KeepInjective`
(none of them twice), `KeepOrder` (in their order) and `KeepShorter`.

In `DnsCacheProofs` the inductive invariant is `CacheInv`: map, queue and memory fit each other, the queue is as long
as its bound at most, and its order is that of last use. Lemmas say of each operation (look-up and renewal, addition,
making room, the check every 60 s) that the cache it leaves `Fits`; the two action properties follow from the same
lemmas, because each says which results the operation may take away.

In `EventCtlProofs` it is `LoopInv`. Its first part, `Core`, holds at every point of a round and not only between rounds:
each node is in the one list, or the bucket of the hash, that its type says (`Placed`); timer and rear list are by
time (`InOrder`); handles, hash and the descriptors of ready nodes agree (`Owned`). The other parts hold at some points only:
`EventsFirst(m, k)`, which says that from place `k` on the ready list has event nodes before timers; `ArmedFor`, that
the timerfd stands at the earliest timer. A round is proved in the order of the code: a due timer comes first into the
ready list, then the nodes of the epoll events, then a due node of the rear list, so while a round runs the first
place is the only one that may be out of order, and `event_run` takes it at once. `event_cancel` resets the timerfd before the node
has its new type; the lemma about it (`ResetArms`) is therefore about the nodes of before and the lists of after.

For `LoopIsApi` the lemmas about the code's functions also say which node they change and to what (`Made`, `Taken`,
`Marked`), so the steps of callers are one lemma each (`SetOfApi`, `StopOfApi`, `OpenOfApi`, `ArmOfApi`, `CloseOfApi`).
`ApiInv` is `LoopInv` and that no node of the timer list is ready between rounds: it is always the first of its round. A
round is `Rounded`: each due node that became ready was the earliest of its list, each list with a due node has
one that became ready, the nodes of the reported descriptors became ready, and nothing else changed. `HeadRight` says that
the head of the ready list is what `EventApi` lets begin; it comes from the order in which the three parts of a round
append to the list, and, for what is left over, from `EventsFirst`. `RoundFindsWork` uses that the timerfd is armed for
a node that is due when it goes off: a round that the timerfd ends finds a timer. The theorem says so too, since
`Round` has no case in which nothing is begun.

In `SessionProofs` the first half is about texts, without any state. `Find`, `LoopEnd` and `NextCount` are least
members of sets, so `MinIs` and `Least` say what they return; `CutAt` and `NotFound` say what a text is when it is cut at
a token, and the parsers are a few of these cuts one after the other. The walk over the counts of a DNS name is a
recursive function: `CountsUpTo` gives a function that satisfies its equation (the places where a count was
written, up to the end or to the first count that is negative), `ReachedOnce` says that there is no other, by the least
place at which two would differ. From the first case comes `NameReadBack`, for labels of at most 127 bytes; from the
second that a name with a longer label is not accepted, so that `AcceptedNameReadBack` needs no bound on labels but
only that of the buffer, within which a count does not wrap around. From that comes `MeaningIs`: a query asks for the
host whose name it holds and for no other.
The second half needs little: `TextInv` adds to the three properties what is known while a name is being looked up
(`LookupAsked`: the server peer has the host and port that were meant, or no host that is a single token) and that nothing is cached
before the response. `SessionStep` says what each step is for `ByteRelay`: its start, a step of it or none;
so `Inv` of `ByteRelayProofs` holds in a session, and the session is a channel.

Only model-checked: all liveness (`TimersRun`, `BytesArrive`, `EndNoticed`, the run `proxy_live`), which is
out of the prover's reach, as is `ENABLED`. The runs that show a disagreement are refutations.

## 5. Not modelled, and what is left

Reached by the program and left out:

* that the hash of `common/hash.c` behaves as a function and the list as a sequence is assumed by the
  modules that use them (with `hash_get` keeping an older entry, `hash_release` and `listnode_delete` removing
  the first that matches);
* the two-byte and four-byte numbers of a DNS message, and responses that are cut short: `Stream` stops at what the
  relay uses, `DnsMessage` at parsed records;
* the fixed-size text buffers of the HTTP parser (`ipAddr`, `HttpOrHttps`, the method of a start line): texts that do
  not fit are outside the model, and for hosts `TextAssumption` says so;
* the DNS peer's own socket, `pop_udp_write`, creation of the listening socket, `CacheRootSetStorePath`: start-up
  and pure output;
* the caches and queues of `DnsCache`, `Proxy` and `Session` are each module's own: the peers that wait are counted
  in `DnsCache`, and `Session` has one pair, which takes a cached result as one more outcome of the look-up.

Not reached: see the end of the table in section 1, and the notes of the components in `PROJECT.json`.

Left to prove: what holds of `Proxy` with `Pipelining`, beyond types and waiters; how much of `StatusInv` survives a
pair that is not mutual is open.
