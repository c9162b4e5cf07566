-------------------------------- MODULE Session --------------------------------
(***************************************************************************)
(* One pair from the text of its request to the last byte: the request is  *)
(* read (HttpHeader.tla), the host in its URI is looked up (DnsMessage.tla)*)
(* and connected to, and then ByteRelay.tla relays what the client sends.  *)
(* Proxy.tla has the same steps for several pairs at a time and without    *)
(* texts, messages and bytes.                                              *)
(***************************************************************************)
EXTENDS ByteRelay, HttpHeader, DnsMessage

CONSTANTS
    Hosts,          \* hosts that URIs name
    Spelling,       \* host -> its name as bytes
    Literals,       \* hosts that are IPv4 addresses
    Resolvable,     \* hosts the DNS server knows an address of
    Methods, Paths, \* of the requests
    AnswersMax      \* bound on the records of a response

ASSUME SessionAssumption ==
    /\ Literals \subseteq Hosts /\ Resolvable \subseteq Hosts \ Literals
    /\ AnswersMax \in Nat
    /\ Bytes # 0                           \* a request has a byte at least

(* A name of several tokens is none that anybody has. *)
StrangeName == <<47>>

(* A host of the URI and the 0 behind it fit into char ipAddr[255]. *)
HostLength == 254

(* What a URI is made of: no blank and no end of line, no separator within *)
(* a host, a path that starts with its "/".  Names are strings of C, with  *)
(* no byte 0 in them and not longer than their buffer, none is "/", and    *)
(* different hosts have different ones.                                    *)
Blanks == {"SP", "CRLF"}

ASSUME TextAssumption ==
    /\ Hosts \cap (Blanks \cup {":", "/", "none"}) = {} /\ Methods \cap Blanks = {}
    /\ \A p \in Paths : /\ p \in Seq(STRING \ Blanks)
                        /\ p # <<>> => Head(p) = "/"
    /\ Spelling \in [Hosts -> Seq(Nat \ {0})]
    /\ \A h \in Hosts : Spelling[h] \notin {<<>>, StrangeName} /\ Len(Spelling[h]) <= HostLength
    /\ \A g, h \in Hosts : Spelling[g] = Spelling[h] => g = h

VARIABLES
    phase,          \* "idle", "lookup", "stranded", "crashed", "connecting", "relay", "closed"
    request,        \* what the client asked for
    server,         \* the server peer: remote_hostname, remote_port, remote_hostip
    response,       \* the response that ended the wait for the DNS server
    cached          \* the name a DNS result was cached under

session == <<phase, request, server, response, cached>>

None == "none"

(* The address of a host is the host itself; nobody else has it. *)
NoServer == [hostname |-> <<>>, port |-> None, hostip |-> None]
NoRequest == [method |-> None]
NoResponse == [answers |-> <<>>]

Requests == [method : Methods, uri : Uris(Hosts, Paths)]

SessionInit ==
    /\ Init /\ Started(0)
    /\ phase = "idle" /\ request = NoRequest /\ server = NoServer
    /\ response = NoResponse /\ cached = <<>>

-----------------------------------------------------------------------------
HostBytes(hostname) == IF \E h \in Hosts : hostname = <<h>> THEN Spelling[hostname[1]] ELSE StrangeName

(* Is a query what its packet says?  An empty label ends the name before   *)
(* the type and the class.                                                 *)
WellFormed(name) ==
    LET packet == PacketName(name)
    IN  /\ Len(String(packet)) + 1 = Len(packet)
        /\ check_dns_name_pkt_format(String(packet))

(* The hosts the DNS server can find with a query for the name. *)
Meaning(name) ==
    {h \in Resolvable : WellFormed(name) /\ HostName(PacketName(name)) = Spelling[h]}

(* What the DNS server may send: records with the address of the host, if  *)
(* it knows the name, and others, in any order.                            *)
ResponsesTo(name) ==
    LET addresses == Meaning(name)
    IN  {m \in Responses(addresses \cup {None}, {0}, 0 .. AnswersMax) :
           /\ \A k \in DOMAIN m.answers : m.answers[k].type = "A" <=> m.answers[k].ADDR # None
           /\ addresses # {} => \E k \in DOMAIN m.answers : m.answers[k].type = "A"}

-----------------------------------------------------------------------------
Relaying(n) ==    \* the state ByteRelay starts from
    /\ sent' = n /\ taken' = n
    /\ write_fifo' = IF n = 0 THEN <<>> ELSE <<FirstPacket(n)>>
    /\ dstEvents' = IF n = 0 THEN "read" ELSE "rw"
    /\ UNCHANGED <<eof, room, output, errno, thread, recv_buffer, srcArmed, open, aborted>>

Closing == phase' = "closed" /\ open' = FALSE
           /\ UNCHANGED <<kernel, errno, thread, taken, recv_buffer, write_fifo, events, aborted>>

(* pop_http_proxy_request_get and _connect.  What cannot be parsed closes   *)
(* the client.  Else the server peer is made; if its name is no address it *)
(* is looked up, in the cache or by a query.                               *)
RequestRead(r) ==
    LET text    == RequestText(r.method, r.uri)
        line    == HttpRequestStartLineParse(text)
        address == GetHostIpPostFromURI(line.URI)
        peer    == [hostname |-> address.host, port |-> address.port, hostip |-> None]
        literal == address.host \in {<<h>> : h \in Literals}
    IN
    /\ phase = "idle"
    /\ pop_http_proxy_method_match(r.method, TRUE) \in {"get", "connect"}
    /\ request' = r
    /\ \/ /\ line = NoLine \/ address = BadUri
          /\ Closing /\ UNCHANGED server
       \/ /\ line # NoLine /\ address # BadUri
          /\ \/ /\ literal
                /\ server' = [peer EXCEPT !.hostip = address.host[1]]
                /\ phase' = "connecting" /\ UNCHANGED vars
             \/ /\ address.host \in {<<h>> : h \in Resolvable}    \* in the cache
                /\ WellFormed(HostBytes(address.host))
                /\ server' = [peer EXCEPT !.hostip = address.host[1]]
                /\ phase' = "connecting" /\ UNCHANGED vars
             \/ ~literal /\ server' = peer /\ phase' = "lookup" /\ UNCHANGED vars
             \/ ~literal /\ server' = peer /\ Closing    \* sendto() fails
    /\ UNCHANGED <<response, cached>>

(* pop_udp_recv_dns_query_ack.  A result without an address ends the wait  *)
(* and its timer, and nothing else.                                        *)
ResponseRead(m) ==
    /\ response' = m
    /\ \/ DomainNameIpv4Addr(m) = "none" /\ phase' = "stranded" /\ UNCHANGED <<server, cached>>
       \/ DomainNameIpv4Addr(m) = "undefined" /\ phase' = "crashed" /\ UNCHANGED <<server, cached>>
       \/ /\ DomainNameIpv4Addr(m) = "address"
          /\ server' = [server EXCEPT !.hostip = m.answers[LoopEnd(m)].ADDR]
          /\ cached' = HostName(PacketName(HostBytes(server.hostname)))
          /\ phase' = "connecting"
    /\ UNCHANGED <<vars, request>>

(* DnsWaitAckTimeoutCall *)
LookupTimeout ==
    /\ phase = "lookup"
    /\ Closing
    /\ UNCHANGED <<request, server, response, cached>>

(* The end of connect().  From here on the request is in the server's fifo, *)
(* or was a CONNECT, and the texts do not matter any more.                  *)
Connected ==
    /\ phase = "connecting"
    /\ \/ /\ phase' = "relay"
          /\ Relaying(IF request.method = "CONNECT" THEN 0 ELSE 1)
       \/ Closing
    /\ request' = NoRequest /\ server' = NoServer /\ response' = NoResponse /\ cached' = <<>>

Relay == phase = "relay" /\ Next /\ UNCHANGED session

SessionNext ==
    \/ \E r \in Requests : RequestRead(r)
    \/ phase = "lookup" /\ \E m \in ResponsesTo(HostBytes(server.hostname)) : ResponseRead(m)
    \/ LookupTimeout
    \/ Connected
    \/ Relay

SessionSpec == SessionInit /\ [][SessionNext]_<<vars, session>> /\ Fairness

-----------------------------------------------------------------------------
(* Properties. *)

(* No label has a count that check_dns_name_pkt_format takes for a negative *)
(* number (pop_domain_parse.c:156).                                        *)
LabelsFit(n) ==
    \A p \in 1 .. Len(n) + 1 : CountAt(n, p) => NextCount(n, p) - p - 1 <= CharMax

(* No dot at an end, no two in a row, and no label that is too long. *)
ProperName(n) ==
    /\ LabelsFit(n)
    /\ n[1] # Dot /\ n[Len(n)] # Dot
    /\ \A k \in 1 .. Len(n) - 1 : n[k] # Dot \/ n[k + 1] # Dot

(* Without a port in the URI a ":" of the path is taken for the port's     *)
(* (pop_http_header.c:218).                                                *)
Misread(u) == u.port = None /\ Has(u.path, ":")

(* The server that is connected to is the one the URI names, whatever its  *)
(* form, whatever else is in the response; and the result is cached under  *)
(* the name it will be looked up with.                                     *)
ReachesMeantServer ==
    phase = "connecting" =>
        /\ server.hostname = Meant(request.uri).host
        /\ server.port = Meant(request.uri).port
        /\ server.hostip = request.uri.host
        /\ cached # <<>> => cached = Spelling[request.uri.host]

(* The lookup can fail if the host has no address, its name cannot be      *)
(* asked for, or the URI was misread.                                      *)
Excused ==
    \/ request.uri.host \notin Resolvable
    \/ ~ProperName(Spelling[request.uri.host])
    \/ Misread(request.uri)

(* A pair is left with no address and no timer (pop_domain_parse.c:560)    *)
(* only with such an excuse, or if a record before the address has a name  *)
(* of labels and a pointer, which line 220 says there are, and of which    *)
(* line 388 says that it does not matter.                                  *)
StrandedOnlyWithReason ==
    phase = "stranded" =>
        \/ Excused
        \/ response.answers # <<>> /\ response.answers[LoopEnd(response)].form = "mixed"

(* Memory beyond the last record is looked at (pop_domain_parse.c:488)     *)
(* only with such an excuse: never if one of the records has the address.  *)
CrashOnlyWithoutAddress == phase = "crashed" => Excused

=============================================================================
