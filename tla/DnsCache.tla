-------------------------------- MODULE DnsCache --------------------------------
(***************************************************************************)
(* The DNS cache (pop_domain_cache.c) and the places that use it: the      *)
(* requests that look names up, and the DNS answers that add to it.        *)
(*                                                                         *)
(* A result is an object: the map finds it by its host name, and the queue *)
(* lists it by freshness, the freshest last.                               *)
(***************************************************************************)
EXTENDS Integers, Sequences, FiniteSets, Lists

CONSTANTS
    Hosts, Addresses,
    Entries,        \* memory for a DnsQueryResult
    NoEntry,        \* NULL, and memory that is not in use
    RecordsMax,     \* DNS_CACHE_RECORD_COUNTS_MAX, 1000 in the code
    limit,          \* how many are deleted at a time, RecordsMax / 3 in the code
    TimeLives,      \* the times to live of the DNS answers
    TimeMod,        \* time is kept in an unsigned int: 2^32 in the code
    Horizon,        \* the clock stops here, a bound for TLC
    QueriesMax      \* bound on the queries per name that wait for an answer

Time == 0 .. TimeMod - 1

(* used and told are history: when the result was last added or hit, and   *)
(* until when the DNS server said that its Address is valid.               *)
DnsQueryResult ==
    [HostName : Hosts, Address : Addresses, ValidityEndTime : Time,
     used : Time, told : Time]

ASSUME DnsCacheAssumption ==
    /\ NoEntry \notin Entries /\ NoEntry \notin DnsQueryResult
    /\ RecordsMax \in Nat
    /\ limit \in 1 .. RecordsMax
    /\ TimeMod \in Nat \ {0}
    /\ TimeLives \subseteq 0 .. TimeMod - 1
    /\ Horizon \in 0 .. TimeMod - 1
    /\ QueriesMax \in Nat

VARIABLES
    cache,      \* DnsCache, and the results in memory
    asked,      \* host -> how many peers wait for an answer about it
    clock       \* time(NULL)

vars == <<cache, asked, clock>>

Init ==
    /\ cache = [Map   |-> [h \in Hosts |-> NoEntry],
                Queue |-> <<>>,
                entry |-> [e \in Entries |-> NoEntry]]
    /\ asked = [h \in Hosts |-> 0]
    /\ clock = 0

-----------------------------------------------------------------------------
(* Functions of the code, as operators on the cache c.  Those whose name   *)
(* ends in _bug are faulty variants of the definition that follows; no     *)
(* action uses them.                                                       *)

(* hash_get keeps the result the map already has for the host. *)
DnsCacheAdd(c, e, r) ==
    [Map   |-> IF c.Map[r.HostName] = NoEntry THEN [c.Map EXCEPT ![r.HostName] = e] ELSE c.Map,
     Queue |-> Append(c.Queue, e),
     entry |-> [c.entry EXCEPT ![e] = r]]

DnsCacheDel_bug(c, S) ==    \* the results stay in the map
    [c EXCEPT !.Queue = Keep(@, Entries \ S),
              !.entry = [e \in Entries |-> IF e \in S THEN NoEntry ELSE @[e]]]

(* DnsCacheDel of each result in S: hash_release looks for the host name. *)
DnsCacheDel(c, S) ==
    [Map   |-> [h \in Hosts |-> IF \E e \in S : c.entry[e].HostName = h THEN NoEntry ELSE c.Map[h]],
     Queue |-> Keep(c.Queue, Entries \ S),
     entry |-> [e \in Entries |-> IF e \in S THEN NoEntry ELSE c.entry[e]]]

DnsCacheFreshnessUpdate_bug(c, e) ==    \* the result is not moved
    [c EXCEPT !.entry[e].used = clock]

(* To the tail of the queue. *)
DnsCacheFreshnessUpdate(c, e) ==
    [c EXCEPT !.Queue = Append(Keep(@, Entries \ {e}), e),
              !.entry[e].used = clock]

Results(c) == {c.Queue[i] : i \in DOMAIN c.Queue}

DnsCacheRecordCountsCheck_bug(c) == Len(c.Queue) > 2 * RecordsMax    \* a wrong threshold

DnsCacheRecordCountsCheck(c) == Len(c.Queue) > RecordsMax

DnsCacheCheckAndDelete_bug(c) ==    \* deletes from the tail
    IF DnsCacheRecordCountsCheck(c)
      THEN DnsCacheDel(c, {c.Queue[i] : i \in {i \in DOMAIN c.Queue :
                                                 i > Len(c.Queue) - limit}})
      ELSE c

(* The first limit results of the queue. *)
DnsCacheCheckAndDelete(c) ==
    IF DnsCacheRecordCountsCheck(c)
      THEN DnsCacheDel(c, {c.Queue[i] : i \in {i \in DOMAIN c.Queue : i <= limit}})
      ELSE c

-----------------------------------------------------------------------------

(* DnsCacheLookupByHostname and the check of ValidityEndTime. *)
Found(h) == cache.Map[h] # NoEntry

Hits(h) == Found(h) /\ clock <= cache.entry[cache.Map[h]].ValidityEndTime

(* A request for a name whose address is cached, by any method. *)
RequestHit(h) ==
    /\ Hits(h)
    /\ cache' = DnsCacheFreshnessUpdate(cache, cache.Map[h])
    /\ UNCHANGED <<asked, clock>>

(* The name is asked for; sendto() may fail. *)
Query(h) == asked' = asked \/ asked' = [asked EXCEPT ![h] = @ + 1]

(* pop_http_proxy_request_get deletes a result that is out of date. *)
RequestGetMiss(h) ==
    /\ ~Hits(h) /\ asked[h] < QueriesMax
    /\ Query(h)
    /\ cache' = IF Found(h) THEN DnsCacheDel(cache, {cache.Map[h]}) ELSE cache
    /\ UNCHANGED clock

(* pop_http_proxy_request_connect leaves it where it is. *)
RequestConnectMiss(h) ==
    /\ ~Hits(h) /\ asked[h] < QueriesMax
    /\ Query(h)
    /\ UNCHANGED <<cache, clock>>

(* A result already there gets the new ValidityEndTime, and only that. *)
Renewed(h, a, end) ==
    [cache EXCEPT !.entry[cache.Map[h]].ValidityEndTime = end,
                  !.entry[cache.Map[h]].told =
                      IF a = cache.entry[cache.Map[h]].Address THEN end ELSE @]

(* DnsQueryResultNew: which memory it gets makes no difference. *)
FreeEntry == CHOOSE e \in Entries : cache.entry[e] = NoEntry

ValidityEnd_bug(TimeLive) == clock + TimeLive    \* a wider type than ValidityEndTime

(* The sum of time(NULL) and the answer's time to live, in 32 bits. *)
ValidityEnd(TimeLive) == (clock + TimeLive) % TimeMod

(* pop_udp_recv_dns_query_ack, for an answer with an address. *)
Answer(h, a, TimeLive) ==
    LET end == ValidityEnd(TimeLive)
        r   == [HostName |-> h, Address |-> a, ValidityEndTime |-> end,
                used |-> clock, told |-> end]
    IN
    /\ asked[h] > 0
    /\ asked' = [asked EXCEPT ![h] = @ - 1]
    /\ \/ Found(h) /\ cache' = Renewed(h, a, end)
       \/ /\ ~Found(h)
          /\ \E e \in Entries : cache.entry[e] = NoEntry
          /\ cache' = DnsCacheAdd(DnsCacheCheckAndDelete(cache), FreeEntry, r)
    /\ UNCHANGED clock

(* The answer has no address, the wait for it ends, or the peer is freed. *)
NoAnswer(h) ==
    /\ asked[h] > 0
    /\ asked' = [asked EXCEPT ![h] = @ - 1]
    /\ UNCHANGED <<cache, clock>>

Expired_bug(c) == {e \in Results(c) : c.entry[e].ValidityEndTime >= clock}    \* operands swapped

Expired(c) == {e \in Results(c) : c.entry[e].ValidityEndTime <= clock}

(* Every 60 s: the loop takes the next node before it deletes one. *)
DnsCacheValidityCheckTimeout ==
    /\ cache' = DnsCacheDel(cache, Expired(cache))
    /\ UNCHANGED <<asked, clock>>

Tick ==
    /\ clock < Horizon
    /\ clock' = clock + 1
    /\ UNCHANGED <<cache, asked>>

Next ==
    \/ \E h \in Hosts : \/ RequestHit(h) \/ RequestGetMiss(h) \/ RequestConnectMiss(h)
                        \/ NoAnswer(h)
                        \/ \E a \in Addresses, t \in TimeLives : Answer(h, a, t)
    \/ DnsCacheValidityCheckTimeout
    \/ Tick

Spec == Init /\ [][Next]_vars

-----------------------------------------------------------------------------
(* Properties. *)

(* The cache's records keep their types; the end of a result's validity is *)
(* a number of the width of an unsigned int.                               *)
TypeOK ==
    /\ cache \in [Map : [Hosts -> Entries \cup {NoEntry}], Queue : Seq(Entries),
                  entry : [Entries -> DnsQueryResult \cup {NoEntry}]]
    /\ asked \in [Hosts -> Nat]
    /\ clock \in Time

(* "The map and the queue are in step" (pop_domain_cache.h:16-18): both     *)
(* hold the same results, each once, a host has one at most, and memory     *)
(* that was freed is in neither.                                            *)
MapAndQueueInStep ==
    /\ \A i, j \in DOMAIN cache.Queue : cache.Queue[i] = cache.Queue[j] => i = j
    /\ \A e \in Results(cache) : cache.entry[e] # NoEntry
    /\ \A h \in Hosts : Found(h) => /\ cache.Map[h] \in Results(cache)
                                    /\ cache.entry[cache.Map[h]].HostName = h
    /\ \A e \in Results(cache) : cache.Map[cache.entry[e].HostName] = e
    /\ \A e \in Entries : cache.entry[e] # NoEntry => e \in Results(cache)

(* The queue is ordered by the last use (pop_domain_cache.h:28-31), although *)
(* answers of several requests for a host may come in any order.             *)
QueueByFreshness ==
    \A i, j \in DOMAIN cache.Queue :
        i < j => cache.entry[cache.Queue[i]].used <= cache.entry[cache.Queue[j]].used

(* The cache holds one result more than its threshold at most: the count is *)
(* compared before the result is added, and with ">", so a full cache is    *)
(* one above the 1000 of the comment in pop_domain_cache.c:251.             *)
CacheBounded == Len(cache.Queue) <= RecordsMax + 1

(* An action property: what an answer drives out of the cache was not used  *)
(* after anything it leaves there.                                          *)
EvictsLeastFresh ==
    [][\A e, k \in Results(cache) :
         (/\ \E h \in Hosts : asked'[h] < asked[h]
          /\ cache'.entry[e] = NoEntry /\ cache'.entry[k] # NoEntry)
            => cache.entry[e].used <= cache.entry[k].used]_vars

(* An action property: while the cache is within its threshold a result is *)
(* lost only when it is out of date, whoever deletes it: the periodic      *)
(* check, a request that found it too old, or an answer that makes room.   *)
ValidResultsStay ==
    [][\A e \in Results(cache) :
         cache'.entry[e] = NoEntry
            => cache.entry[e].ValidityEndTime <= clock \/ Len(cache.Queue) > RecordsMax]_vars

-----------------------------------------------------------------------------
(* What a comment of the code says, and the code does not do. *)

(* pop_domain_cache.h:13 (in translation): ValidityEndTime is "the time     *)
(* until which it is valid": an address the cache serves is one the DNS     *)
(* server gave for a time that has not run out.                             *)
ServedAddressValid ==
    \A h \in Hosts : Hits(h) => clock <= cache.entry[cache.Map[h]].told

=============================================================================
