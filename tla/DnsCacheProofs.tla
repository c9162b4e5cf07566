---------------------------- MODULE DnsCacheProofs ----------------------------
(***************************************************************************)
(* Proofs about DnsCache: its map and its queue stay in step, the queue    *)
(* stays ordered by freshness, and the cache stays within its bound,       *)
(* whatever the names, the answers and their order.                        *)
(***************************************************************************)
EXTENDS DnsCache, ListProofs

CacheType ==
    [Map : [Hosts -> Entries \cup {NoEntry}], Queue : Seq(Entries),
     entry : [Entries -> DnsQueryResult \cup {NoEntry}]]

(* MapAndQueueInStep, for any cache: the code's functions compose.         *)
InStep(c) ==
    /\ IsInjective(c.Queue)
    /\ \A e \in Results(c) : c.entry[e] # NoEntry
    /\ \A h \in Hosts : c.Map[h] # NoEntry => /\ c.Map[h] \in Results(c)
                                              /\ c.entry[c.Map[h]].HostName = h
    /\ \A e \in Results(c) : c.Map[c.entry[e].HostName] = e
    /\ \A e \in Entries : c.entry[e] # NoEntry => e \in Results(c)

(* QueueByFreshness, and no result was used later than t. *)
Ordered(c, t) ==
    /\ \A i, j \in DOMAIN c.Queue :
         i < j => c.entry[c.Queue[i]].used <= c.entry[c.Queue[j]].used
    /\ \A e \in Results(c) : c.entry[e].used <= t

Fits(c, t) == c \in CacheType /\ InStep(c) /\ Ordered(c, t)

(* The inductive invariant: with the clock as the limit of used.           *)
CacheInv ==
    /\ Fits(cache, clock)
    /\ Len(cache.Queue) <= RecordsMax + 1
    /\ asked \in [Hosts -> Nat]
    /\ clock \in Time

-----------------------------------------------------------------------------
(* The parts of a cache. *)

(* The types of a cache's three parts. *)
LEMMA Parts ==
    ASSUME NEW c \in CacheType
    PROVE  /\ c.Map \in [Hosts -> Entries \cup {NoEntry}]
           /\ c.Queue \in Seq(Entries)
           /\ Len(c.Queue) \in Nat /\ DOMAIN c.Queue = 1 .. Len(c.Queue)
           /\ c.entry \in [Entries -> DnsQueryResult \cup {NoEntry}]
BY DEF CacheType

(* The results of a cache are what its queue holds. *)
LEMMA ResultsAre ==
    ASSUME NEW c \in CacheType
    PROVE  /\ Results(c) = Range(c.Queue)
           /\ Results(c) \subseteq Entries
           /\ \A i \in 1 .. Len(c.Queue) : c.Queue[i] \in Results(c)
           /\ \A e \in Results(c) : \E i \in 1 .. Len(c.Queue) : e = c.Queue[i]
BY Parts DEF Results, Range

(* A result in the queue is a record. *)
LEMMA ResultIsRecord ==
    ASSUME NEW c, NEW t, Fits(c, t), NEW e \in Results(c)
    PROVE  /\ e \in Entries /\ c.entry[e] \in DnsQueryResult /\ c.entry[e] # NoEntry
           /\ c.entry[e].HostName \in Hosts
           /\ c.entry[e].used \in Time /\ c.entry[e].used <= t
<1>1. e \in Entries /\ c.entry[e] # NoEntry
  BY ResultsAre DEF Fits, InStep
<1>2. c.entry[e] \in DnsQueryResult
  BY <1>1, Parts DEF Fits
<1> QED
  BY <1>1, <1>2 DEF DnsQueryResult, Fits, Ordered

-----------------------------------------------------------------------------
(* Deleting some results. *)

(* What DnsCacheDel makes of each part. *)
LEMMA DelParts ==
    ASSUME NEW c, NEW S
    PROVE  LET d == DnsCacheDel(c, S) IN
           /\ d.Map = [h \in Hosts |-> IF \E e \in S : c.entry[e].HostName = h
                                         THEN NoEntry ELSE c.Map[h]]
           /\ d.Queue = Keep(c.Queue, Entries \ S)
           /\ d.entry = [e \in Entries |-> IF e \in S THEN NoEntry ELSE c.entry[e]]
           /\ d = [Map |-> d.Map, Queue |-> d.Queue, entry |-> d.entry]
BY DEF DnsCacheDel

(* DnsCacheDel takes the deleted results, and only those, out of the map,   *)
(* the queue and the memory at once.                                        *)
LEMMA DelFits ==
    ASSUME NEW c, NEW t, Fits(c, t), NEW S, S \subseteq Results(c)
    PROVE  LET d == DnsCacheDel(c, S) IN
           /\ Fits(d, t)
           /\ Results(d) = Results(c) \ S
           /\ \A e \in Results(d) : d.entry[e] = c.entry[e]
           /\ \A h \in Hosts : c.Map[h] = NoEntry => d.Map[h] = NoEntry
<1> DEFINE d == DnsCacheDel(c, S)
<1>1. /\ d.Map = [h \in Hosts |-> IF \E e \in S : c.entry[e].HostName = h
                                    THEN NoEntry ELSE c.Map[h]]
      /\ d.Queue = Keep(c.Queue, Entries \ S)
      /\ d.entry = [e \in Entries |-> IF e \in S THEN NoEntry ELSE c.entry[e]]
      /\ d = [Map |-> d.Map, Queue |-> d.Queue, entry |-> d.entry]
  BY DelParts
<1>2. c \in CacheType /\ InStep(c) /\ Ordered(c, t)
  BY DEF Fits
<1>3. /\ c.Map \in [Hosts -> Entries \cup {NoEntry}]
      /\ c.Queue \in Seq(Entries)
      /\ DOMAIN c.Queue = 1 .. Len(c.Queue)
      /\ c.entry \in [Entries -> DnsQueryResult \cup {NoEntry}]
  BY <1>2, Parts
<1>4. Results(c) = Range(c.Queue) /\ Results(c) \subseteq Entries
  BY <1>2, ResultsAre
<1> HIDE DEF d
<1>5. d.Queue \in Seq(Entries)
  BY <1>1, <1>3, KeepLeaves
<1>6. d \in CacheType
  <2>1. d.Map \in [Hosts -> Entries \cup {NoEntry}]
    BY <1>1, <1>3
  <2>2. d.entry \in [Entries -> DnsQueryResult \cup {NoEntry}]
    BY <1>1, <1>3
  <2> QED
    BY <1>1, <1>5, <2>1, <2>2 DEF CacheType
<1>7. Results(d) = Range(d.Queue) /\ DOMAIN d.Queue = 1 .. Len(d.Queue)
  BY <1>6, ResultsAre, Parts
<1>8. Results(d) = Results(c) \ S
  <2>1. Range(d.Queue) = Range(c.Queue) \cap (Entries \ S)
    BY <1>1, <1>3, KeepRange
  <2> QED
    BY <1>4, <1>7, <2>1
<1>9. \A e \in Results(d) : e \in Entries /\ e \notin S /\ d.entry[e] = c.entry[e]
  BY <1>1, <1>4, <1>8
<1>10. IsInjective(d.Queue)
  BY <1>1, <1>2, <1>3, KeepInjective DEF InStep
<1>11. \A e \in Results(d) : d.entry[e] # NoEntry
  BY <1>2, <1>8, <1>9 DEF InStep
<1>12. ASSUME NEW h \in Hosts, d.Map[h] # NoEntry
       PROVE  d.Map[h] \in Results(d) /\ d.entry[d.Map[h]].HostName = h
  <2>1. d.Map[h] = c.Map[h] /\ ~ \E e \in S : c.entry[e].HostName = h
    BY <1>1, <1>12
  <2>2. c.Map[h] \in Results(c) /\ c.entry[c.Map[h]].HostName = h
    BY <1>2, <1>12, <2>1 DEF InStep
  <2>3. c.Map[h] \notin S
    BY <2>1, <2>2
  <2> QED
    BY <1>8, <1>9, <2>1, <2>2, <2>3
<1>13. ASSUME NEW e \in Results(d) PROVE d.Map[d.entry[e].HostName] = e
  <2> DEFINE h == c.entry[e].HostName
  <2>1. e \in Results(c) /\ e \notin S /\ d.entry[e] = c.entry[e]
    BY <1>8, <1>9, <1>13
  <2>2. h \in Hosts
    BY <2>1, ResultIsRecord
  <2>3. c.Map[h] = e
    BY <1>2, <2>1 DEF InStep
  <2>4. ~ \E k \in S : c.entry[k].HostName = h
    <3>1. \A k \in S : c.Map[c.entry[k].HostName] = k
      BY <1>2 DEF InStep
    <3> QED
      BY <2>1, <2>3, <3>1
  <2> HIDE DEF h
  <2>5. d.Map[h] = c.Map[h]
    BY <1>1, <2>2, <2>4
  <2>6. d.entry[e].HostName = h
    BY <2>1 DEF h
  <2> QED
    BY <2>3, <2>5, <2>6
<1>14. \A e \in Entries : d.entry[e] # NoEntry => e \in Results(d)
  BY <1>1, <1>2, <1>8 DEF InStep
<1>15. InStep(d)
  BY <1>10, <1>11, <1>12, <1>13, <1>14 DEF InStep
<1>16. ASSUME NEW i \in DOMAIN d.Queue, NEW j \in DOMAIN d.Queue, i < j
       PROVE  d.entry[d.Queue[i]].used <= d.entry[d.Queue[j]].used
  <2>1. PICK k, l \in 1 .. Len(c.Queue) : k < l /\ d.Queue[i] = c.Queue[k] /\ d.Queue[j] = c.Queue[l]
    <3> DEFINE R == Entries \ S
               q == c.Queue
               k == Keep(q, R)
    <3>1. i \in 1 .. Len(k) /\ j \in 1 .. Len(k) /\ d.Queue = k /\ q \in Seq(Entries)
      BY <1>1, <1>3, <1>7, <1>16
    <3> HIDE DEF R, q
    <3>2. \E n, l \in 1 .. Len(q) : n < l /\ k[i] = q[n] /\ k[j] = q[l]
      BY <1>16, <3>1, KeepOrder DEF KeptInOrder
    <3> HIDE DEF k
    <3> USE DEF q
    <3> QED
      BY <3>1, <3>2
  <2>2. d.Queue[i] \in Results(d) /\ d.Queue[j] \in Results(d)
    BY <1>7, <1>16 DEF Range
  <2>3. c.entry[c.Queue[k]].used <= c.entry[c.Queue[l]].used
    BY <1>2, <1>3, <2>1 DEF Ordered
  <2> QED
    BY <1>9, <2>1, <2>2, <2>3
<1>17. \A e \in Results(d) : d.entry[e].used <= t
  BY <1>2, <1>8, <1>9 DEF Ordered
<1>18. Fits(d, t)
  BY <1>6, <1>15, <1>16, <1>17 DEF Fits, Ordered
<1>19. \A h \in Hosts : c.Map[h] = NoEntry => d.Map[h] = NoEntry
  BY <1>1
<1> QED
  BY <1>8, <1>9, <1>18, <1>19 DEF d

(* The queue does not get longer, and shorter if something was deleted.    *)
LEMMA DelShorter ==
    ASSUME NEW c, NEW t, Fits(c, t), NEW S, S \subseteq Results(c)
    PROVE  LET d == DnsCacheDel(c, S) IN
           /\ Len(d.Queue) \in Nat /\ Len(d.Queue) <= Len(c.Queue)
           /\ S # {} => Len(d.Queue) <= Len(c.Queue) - 1
<1> DEFINE q == c.Queue
           k == Keep(q, Entries \ S)
<1>1. q \in Seq(Entries) /\ Len(q) \in Nat
  BY Parts DEF Fits
<1>2. DnsCacheDel(c, S).Queue = k
  BY DelParts
<1>3. \A e \in S : \E i \in 1 .. Len(q) : e = q[i]
  BY ResultsAre DEF Fits
<1> HIDE DEF q
<1>4. k \in Seq(Entries)
  BY <1>1, KeepLeaves
<1>5. Len(k) \in Nat
  BY <1>4
<1>6. Len(k) <= Len(q)
  <2>1. Len(k) <= Len(q) - Cardinality({})
    BY <1>1, KeepShorter
  <2> QED
    BY <1>1, <1>5, <2>1, FS_EmptySet
<1>7. ASSUME S # {} PROVE Len(k) <= Len(q) - 1
  <2>1. PICK i \in 1 .. Len(q) : q[i] \in S
    BY <1>3, <1>7
  <2>2. Len(k) <= Len(q) - Cardinality({i})
    BY <1>1, <2>1, KeepShorter
  <2>3. Cardinality({i}) = 1
    BY FS_Singleton
  <2> QED
    BY <2>2, <2>3
<1> QED
  BY <1>2, <1>5, <1>6, <1>7 DEF q

-----------------------------------------------------------------------------
(* A hit. *)

(* What DnsCacheFreshnessUpdate makes of each part. *)
LEMMA UpdateParts ==
    ASSUME NEW c \in CacheType, NEW e \in Entries, c.entry[e] \in DnsQueryResult
    PROVE  LET d == DnsCacheFreshnessUpdate(c, e)
               r == [c.entry[e] EXCEPT !.used = clock] IN
           /\ d.Map = c.Map
           /\ d.Queue = Append(Keep(c.Queue, Entries \ {e}), e)
           /\ d.entry = [c.entry EXCEPT ![e] = r]
           /\ d = [Map |-> d.Map, Queue |-> d.Queue, entry |-> d.entry]
           /\ r.HostName = c.entry[e].HostName /\ r.used = clock
<1> DEFINE q == Append(Keep(c.Queue, Entries \ {e}), e)
           r == [c.entry[e] EXCEPT !.used = clock]
<1>1. c = [Map |-> c.Map, Queue |-> c.Queue, entry |-> c.entry]
  BY DEF CacheType
<1>2. DnsCacheFreshnessUpdate(c, e)
        = [Map |-> c.Map, Queue |-> q, entry |-> [c.entry EXCEPT ![e] = r]]
  <2> DEFINE d == DnsCacheFreshnessUpdate(c, e)
             b == [c EXCEPT !.Queue = q]
  <2>1. b = [Map |-> c.Map, Queue |-> q, entry |-> c.entry]
    <3> HIDE DEF q
    <3> QED
      BY DEF CacheType
  <2>2. b.entry = c.entry /\ b.Map = c.Map /\ b.Queue = q
    BY <2>1
  <2>3. d = [b EXCEPT !.entry[e].used = clock]
    BY DEF DnsCacheFreshnessUpdate
  <2> HIDE DEF b, d, q
  <2>4. d = [Map |-> b.Map, Queue |-> b.Queue, entry |-> [b.entry EXCEPT ![e].used = clock]]
    BY <2>1, <2>3
  <2>5. [b.entry EXCEPT ![e].used = clock] = [c.entry EXCEPT ![e] = r]
    BY <2>2
  <2> QED
    BY <2>2, <2>4, <2>5 DEF d
<1>3. r.HostName = c.entry[e].HostName /\ r.used = clock
  BY DEF DnsQueryResult
<1> HIDE DEF q, r
<1>4. LET d == DnsCacheFreshnessUpdate(c, e) IN
      /\ d.Map = c.Map /\ d.Queue = q /\ d.entry = [c.entry EXCEPT ![e] = r]
      /\ d = [Map |-> d.Map, Queue |-> d.Queue, entry |-> d.entry]
  BY <1>2
<1> QED
  BY <1>3, <1>4 DEF q, r

(* Moving a result that was hit to the tail keeps the order, as it is the  *)
(* one used last; nothing is lost.                                         *)
LEMMA UpdateFits ==
    ASSUME NEW c, Fits(c, clock), clock \in Time, NEW e \in Results(c)
    PROVE  LET d == DnsCacheFreshnessUpdate(c, e) IN
           /\ Fits(d, clock)
           /\ Len(d.Queue) <= Len(c.Queue)
           /\ \A k \in Results(c) : d.entry[k] # NoEntry
<1> DEFINE d == DnsCacheFreshnessUpdate(c, e)
           R == Entries \ {e}
           q == Keep(c.Queue, R)
           r == [c.entry[e] EXCEPT !.used = clock]
<1>1. /\ c \in CacheType /\ InStep(c) /\ Ordered(c, clock)
      /\ e \in Entries /\ c.entry[e] \in DnsQueryResult
  BY ResultIsRecord DEF Fits
<1>2. /\ d.Map = c.Map
      /\ d.Queue = Append(q, e)
      /\ d.entry = [c.entry EXCEPT ![e] = r]
      /\ d = [Map |-> d.Map, Queue |-> d.Queue, entry |-> d.entry]
      /\ r.HostName = c.entry[e].HostName /\ r.used = clock
  BY <1>1, UpdateParts
<1>3. r \in DnsQueryResult
  BY <1>1 DEF DnsQueryResult
<1>4. /\ c.Map \in [Hosts -> Entries \cup {NoEntry}]
      /\ c.Queue \in Seq(Entries)
      /\ DOMAIN c.Queue = 1 .. Len(c.Queue) /\ Len(c.Queue) \in Nat
      /\ c.entry \in [Entries -> DnsQueryResult \cup {NoEntry}]
  BY <1>1, Parts
<1>5. Results(c) = Range(c.Queue) /\ Results(c) \subseteq Entries
  BY <1>1, ResultsAre
<1> HIDE DEF d, r
<1>6. q \in Seq(Entries) /\ Range(q) = Range(c.Queue) \cap R /\ IsInjective(q)
  <2> HIDE DEF R
  <2> QED
    BY <1>1, <1>4, KeepLeaves, KeepRange, KeepInjective DEF InStep
<1>7. \A i, j \in 1 .. Len(q) : i < j =>
        \E k, l \in 1 .. Len(c.Queue) : k < l /\ q[i] = c.Queue[k] /\ q[j] = c.Queue[l]
  <2> DEFINE p == c.Queue
  <2> HIDE DEF R, p
  <2>1. p \in Seq(Entries)
    BY <1>4 DEF p
  <2>2. \A i, j \in 1 .. Len(Keep(p, R)) : i < j =>
          \E k, l \in 1 .. Len(p) : k < l /\ Keep(p, R)[i] = p[k] /\ Keep(p, R)[j] = p[l]
    BY <2>1, KeepOrder DEF KeptInOrder
  <2> QED
    BY <2>2 DEF p
<1>8. Len(q) <= Len(c.Queue) - 1
  <2>1. PICK i \in 1 .. Len(c.Queue) : c.Queue[i] = e
    BY <1>1, ResultsAre
  <2>2. c.Queue[i] \notin R
    BY <2>1
  <2> HIDE DEF R
  <2>3. Len(q) <= Len(c.Queue) - Cardinality({i})
    BY <1>4, <2>2, KeepShorter
  <2>4. Cardinality({i}) = 1
    BY FS_Singleton
  <2> QED
    BY <2>3, <2>4
<1> HIDE DEF q
<1>9. e \notin Range(q) /\ Range(q) \cup {e} = Results(c)
  BY <1>5, <1>6
<1>10. /\ d.Queue \in Seq(Entries) /\ Len(q) \in Nat /\ Len(d.Queue) = Len(q) + 1
       /\ DOMAIN d.Queue = 1 .. Len(q) + 1
       /\ \A i \in 1 .. Len(q) : d.Queue[i] = q[i]
       /\ d.Queue[Len(q) + 1] = e
       /\ Range(d.Queue) = Results(c)
       /\ IsInjective(d.Queue)
  <2> HIDE DEF R
  <2> DEFINE u == Append(q, e)
  <2>1. /\ u \in Seq(Entries) /\ Len(q) \in Nat /\ Len(u) = Len(q) + 1
        /\ DOMAIN u = 1 .. Len(q) + 1
        /\ \A i \in 1 .. Len(q) : u[i] = q[i]
        /\ u[Len(q) + 1] = e
        /\ Range(u) = Range(q) \cup {e}
        /\ IsInjective(u)
    BY <1>1, <1>6, <1>9, AppendNew
  <2> HIDE DEF u
  <2>2. d.Queue = u
    BY <1>2 DEF u
  <2> QED
    BY <1>9, <2>1, <2>2
<1>11. d \in CacheType
  BY <1>2, <1>3, <1>4, <1>10 DEF CacheType
<1>12. Results(d) = Results(c)
  BY <1>10, <1>11, ResultsAre
<1>13. /\ \A k \in Entries : k # e => d.entry[k] = c.entry[k]
       /\ d.entry[e] = r /\ r # NoEntry
  BY <1>1, <1>2, <1>3, <1>4, DnsCacheAssumption
<1>14. \A k \in Entries : d.entry[k].HostName = c.entry[k].HostName
  BY <1>2, <1>13
<1>15. InStep(d)
  <2>1. \A k \in Results(d) : d.entry[k] # NoEntry
    BY <1>1, <1>5, <1>12, <1>13 DEF InStep
  <2>2. \A h \in Hosts : d.Map[h] # NoEntry =>
          d.Map[h] \in Results(d) /\ d.entry[d.Map[h]].HostName = h
    BY <1>1, <1>2, <1>5, <1>12, <1>14 DEF InStep
  <2>3. \A k \in Results(d) : d.Map[d.entry[k].HostName] = k
    BY <1>1, <1>2, <1>5, <1>12, <1>14 DEF InStep
  <2>4. \A k \in Entries : d.entry[k] # NoEntry => k \in Results(d)
    BY <1>1, <1>12, <1>13 DEF InStep
  <2> QED
    BY <1>10, <2>1, <2>2, <2>3, <2>4 DEF InStep
<1>16. \A k \in Results(d) : d.entry[k].used <= clock
  <2>1. clock <= clock
    BY DEF Time
  <2> QED
    BY <1>1, <1>2, <1>5, <1>12, <1>13, <2>1 DEF Ordered
<1>17. ASSUME NEW i \in DOMAIN d.Queue, NEW j \in DOMAIN d.Queue, i < j
       PROVE  d.entry[d.Queue[i]].used <= d.entry[d.Queue[j]].used
  <2>1. i \in 1 .. Len(q)
    BY <1>10, <1>17
  <2>2. d.Queue[i] = q[i] /\ d.Queue[i] \in Range(q) /\ d.Queue[i] \in Results(d)
    BY <1>6, <1>9, <1>10, <1>12, <2>1 DEF Range
  <2>3. CASE j = Len(q) + 1
    BY <1>2, <1>10, <1>13, <1>16, <2>2, <2>3
  <2>4. CASE j # Len(q) + 1
    <3>1. j \in 1 .. Len(q)
      BY <1>10, <2>4
    <3>2. d.Queue[j] = q[j] /\ d.Queue[j] \in Range(q) /\ d.Queue[j] \in Results(d)
      BY <1>6, <1>9, <1>10, <1>12, <3>1 DEF Range
    <3>3. PICK k, l \in 1 .. Len(c.Queue) : k < l /\ q[i] = c.Queue[k] /\ q[j] = c.Queue[l]
      BY <1>7, <1>17, <2>1, <3>1
    <3>4. c.entry[c.Queue[k]].used <= c.entry[c.Queue[l]].used
      BY <1>1, <1>4, <3>3 DEF Ordered
    <3>5. d.entry[q[i]] = c.entry[q[i]] /\ d.entry[q[j]] = c.entry[q[j]]
      BY <1>5, <1>9, <1>12, <1>13, <2>2, <3>2
    <3> QED
      BY <2>2, <3>2, <3>3, <3>4, <3>5
  <2> QED
    BY <2>3, <2>4
<1>18. Fits(d, clock)
  BY <1>11, <1>15, <1>16, <1>17 DEF Fits, Ordered
<1>19. Len(d.Queue) <= Len(c.Queue)
  BY <1>4, <1>8, <1>10
<1>20. \A k \in Results(c) : d.entry[k] # NoEntry
  BY <1>12, <1>15 DEF InStep
<1> QED
  BY <1>18, <1>19, <1>20 DEF d

-----------------------------------------------------------------------------
(* A new result. *)

(* DnsCacheAdd of a result for a host that has none: map and queue agree.  *)
LEMMA AddFits ==
    ASSUME NEW c, NEW t \in Time, Fits(c, t), NEW e \in Entries, e \notin Results(c),
           NEW r \in DnsQueryResult, r.used = t, c.Map[r.HostName] = NoEntry
    PROVE  LET d == DnsCacheAdd(c, e, r) IN
           /\ Fits(d, t)
           /\ Len(d.Queue) = Len(c.Queue) + 1
           /\ d.entry = [c.entry EXCEPT ![e] = r]
<1> DEFINE d == DnsCacheAdd(c, e, r)
           q == c.Queue
           host == r.HostName
<1>1. c \in CacheType /\ InStep(c) /\ Ordered(c, t) /\ host \in Hosts
  BY DEF Fits, DnsQueryResult
<1>2. /\ d.Map = [c.Map EXCEPT ![host] = e]
      /\ d.Queue = Append(q, e)
      /\ d.entry = [c.entry EXCEPT ![e] = r]
      /\ d = [Map |-> d.Map, Queue |-> d.Queue, entry |-> d.entry]
  BY DEF DnsCacheAdd
<1>3. /\ c.Map \in [Hosts -> Entries \cup {NoEntry}]
      /\ q \in Seq(Entries)
      /\ DOMAIN q = 1 .. Len(q) /\ Len(q) \in Nat
      /\ c.entry \in [Entries -> DnsQueryResult \cup {NoEntry}]
  BY <1>1, Parts
<1>4. Results(c) = Range(q) /\ Results(c) \subseteq Entries
  BY <1>1, ResultsAre
<1> HIDE DEF d, q
<1>5. /\ d.Queue \in Seq(Entries) /\ Len(d.Queue) = Len(q) + 1
      /\ DOMAIN d.Queue = 1 .. Len(q) + 1
      /\ \A i \in 1 .. Len(q) : d.Queue[i] = q[i]
      /\ d.Queue[Len(q) + 1] = e
      /\ Range(d.Queue) = Range(q) \cup {e}
      /\ IsInjective(q) => IsInjective(d.Queue)
  BY <1>2, <1>3, <1>4, AppendNew
<1>6. d \in CacheType
  <2>1. d.Map \in [Hosts -> Entries \cup {NoEntry}]
    BY <1>2, <1>3
  <2>2. d.entry \in [Entries -> DnsQueryResult \cup {NoEntry}]
    BY <1>2, <1>3
  <2> QED
    BY <1>2, <1>5, <2>1, <2>2 DEF CacheType
<1>7. Results(d) = Results(c) \cup {e}
  BY <1>4, <1>5, <1>6, ResultsAre
<1>8. /\ \A k \in Entries : k # e => d.entry[k] = c.entry[k]
      /\ d.entry[e] = r /\ r # NoEntry /\ e # NoEntry
      /\ \A k \in Results(c) : k # e /\ k \in Entries
  BY <1>2, <1>3, <1>4, DnsCacheAssumption
<1>9. \A h \in Hosts : d.Map[h] = IF h = host THEN e ELSE c.Map[h]
  BY <1>1, <1>2, <1>3
<1>10. InStep(d)
  <2>1. IsInjective(d.Queue)
    BY <1>1, <1>5 DEF InStep, q
  <2>2. \A k \in Results(d) : d.entry[k] # NoEntry
    BY <1>1, <1>7, <1>8 DEF InStep
  <2>3. ASSUME NEW h \in Hosts, d.Map[h] # NoEntry
        PROVE  d.Map[h] \in Results(d) /\ d.entry[d.Map[h]].HostName = h
    <3>1. CASE h = host
      BY <1>7, <1>8, <1>9, <3>1
    <3>2. CASE h # host
      <4>1. d.Map[h] = c.Map[h]
        BY <1>9, <3>2
      <4>2. c.Map[h] \in Results(c) /\ c.entry[c.Map[h]].HostName = h
        BY <1>1, <2>3, <4>1 DEF InStep
      <4> QED
        BY <1>7, <1>8, <4>1, <4>2
    <3> QED
      BY <3>1, <3>2
  <2>4. ASSUME NEW k \in Results(d) PROVE d.Map[d.entry[k].HostName] = k
    <3>1. CASE k = e
      BY <1>1, <1>8, <1>9, <3>1
    <3>2. CASE k # e
      <4>1. k \in Results(c) /\ d.entry[k] = c.entry[k]
        BY <1>7, <1>8, <2>4, <3>2
      <4>2. c.Map[c.entry[k].HostName] = k /\ c.entry[k].HostName \in Hosts
        BY <1>1, <4>1, ResultIsRecord DEF InStep
      <4>3. c.entry[k].HostName # host
        BY <1>8, <4>1, <4>2, DnsCacheAssumption
      <4> QED
        BY <1>9, <4>1, <4>2, <4>3
    <3> QED
      BY <3>1, <3>2
  <2>5. \A k \in Entries : d.entry[k] # NoEntry => k \in Results(d)
    BY <1>1, <1>7, <1>8 DEF InStep
  <2> QED
    BY <2>1, <2>2, <2>3, <2>4, <2>5 DEF InStep
<1>11. \A k \in Results(d) : d.entry[k].used <= t
  <2>1. t <= t
    BY DEF Time
  <2> QED
    BY <1>1, <1>7, <1>8, <2>1 DEF Ordered
<1>12. ASSUME NEW i \in DOMAIN d.Queue, NEW j \in DOMAIN d.Queue, i < j
       PROVE  d.entry[d.Queue[i]].used <= d.entry[d.Queue[j]].used
  <2>1. i \in 1 .. Len(q)
    BY <1>3, <1>5, <1>12
  <2>2. d.Queue[i] = q[i] /\ q[i] \in Results(c) /\ q[i] \in Results(d)
    BY <1>3, <1>4, <1>5, <1>7, <2>1 DEF Range
  <2>3. CASE j = Len(q) + 1
    BY <1>5, <1>8, <1>11, <2>2, <2>3
  <2>4. CASE j # Len(q) + 1
    <3>1. j \in 1 .. Len(q)
      BY <1>3, <1>5, <2>4
    <3>2. d.Queue[j] = q[j] /\ q[j] \in Results(c)
      BY <1>3, <1>4, <1>5, <3>1 DEF Range
    <3>3. c.entry[q[i]].used <= c.entry[q[j]].used
      BY <1>1, <1>3, <1>12, <2>1, <3>1 DEF Ordered, q
    <3> QED
      BY <1>8, <2>2, <3>2, <3>3
  <2> QED
    BY <2>3, <2>4
<1>13. Fits(d, t)
  BY <1>6, <1>10, <1>11, <1>12 DEF Fits, Ordered
<1> QED
  BY <1>2, <1>5, <1>13 DEF d, q

-----------------------------------------------------------------------------
(* Making room. *)

(* DnsCacheCheckAndDelete leaves room for one result, and what it deletes  *)
(* is not fresher than what it leaves.                                     *)
LEMMA CheckAndDeleteFits ==
    ASSUME NEW c, NEW t, Fits(c, t), Len(c.Queue) <= RecordsMax + 1
    PROVE  LET d == DnsCacheCheckAndDelete(c) IN
           /\ Fits(d, t)
           /\ Len(d.Queue) <= RecordsMax
           /\ Results(d) \subseteq Results(c)
           /\ \A e \in Results(d) : d.entry[e] = c.entry[e]
           /\ \A h \in Hosts : c.Map[h] = NoEntry => d.Map[h] = NoEntry
           /\ \A e \in Results(c) : e \notin Results(d) =>
                 /\ Len(c.Queue) > RecordsMax
                 /\ \A k \in Results(d) : c.entry[e].used <= c.entry[k].used
<1> DEFINE S == {c.Queue[i] : i \in {i \in DOMAIN c.Queue : i <= limit}}
           d == DnsCacheDel(c, S)
<1>1. c \in CacheType /\ InStep(c) /\ Ordered(c, t)
  BY DEF Fits
<1>2. /\ DOMAIN c.Queue = 1 .. Len(c.Queue) /\ Len(c.Queue) \in Nat
      /\ limit \in Nat /\ 1 <= limit /\ RecordsMax \in Nat /\ 1 <= RecordsMax
  BY <1>1, Parts, DnsCacheAssumption
<1>3. S \subseteq Results(c)
  BY DEF Results
<1>4. CASE DnsCacheRecordCountsCheck(c)
  <2>1. Len(c.Queue) > RecordsMax /\ DnsCacheCheckAndDelete(c) = d
    BY <1>4 DEF DnsCacheRecordCountsCheck, DnsCacheCheckAndDelete
  <2>2. c.Queue[1] \in S
    BY <1>2, <2>1
  <2>3. \A e \in S, k \in Results(c) : k \notin S => c.entry[e].used <= c.entry[k].used
    <3>1. ASSUME NEW e \in S, NEW k \in Results(c), k \notin S
          PROVE  c.entry[e].used <= c.entry[k].used
      <4>1. PICK i \in DOMAIN c.Queue : i <= limit /\ e = c.Queue[i]
        OBVIOUS
      <4>2. PICK j \in DOMAIN c.Queue : k = c.Queue[j]
        BY <3>1 DEF Results
      <4>3. ~(j <= limit)
        BY <3>1, <4>2
      <4>4. i < j
        BY <1>2, <4>1, <4>2, <4>3
      <4> QED
        BY <1>1, <4>1, <4>2, <4>4 DEF Ordered
    <3> QED
      BY <3>1
  <2> HIDE DEF S, d
  <2>4. /\ Fits(d, t)
        /\ Results(d) = Results(c) \ S
        /\ \A e \in Results(d) : d.entry[e] = c.entry[e]
        /\ \A h \in Hosts : c.Map[h] = NoEntry => d.Map[h] = NoEntry
    BY <1>3, DelFits DEF d
  <2>5. Len(d.Queue) \in Nat /\ Len(d.Queue) <= Len(c.Queue) - 1
    <3>1. S # {}
      BY <2>2
    <3> QED
      BY <1>3, <3>1, DelShorter DEF d
  <2>6. Len(d.Queue) <= RecordsMax
    BY <1>2, <2>5
  <2>7. ASSUME NEW e \in Results(c), e \notin Results(d)
        PROVE  \A k \in Results(d) : c.entry[e].used <= c.entry[k].used
    <3>1. e \in S
      BY <2>4, <2>7
    <3> QED
      BY <2>3, <2>4, <3>1
  <2> QED
    BY <2>1, <2>4, <2>6, <2>7
<1>5. CASE ~DnsCacheRecordCountsCheck(c)
  <2>1. DnsCacheCheckAndDelete(c) = c
    BY <1>5 DEF DnsCacheCheckAndDelete
  <2>2. Len(c.Queue) <= RecordsMax
    BY <1>2, <1>5 DEF DnsCacheRecordCountsCheck
  <2> QED
    BY <2>1, <2>2
<1> QED
  BY <1>4, <1>5

-----------------------------------------------------------------------------
(* A new end of validity. *)

(* What an answer makes of a result that is there already: HostName and    *)
(* the last use stay.                                                      *)
LEMMA RenewedParts ==
    ASSUME CacheInv, NEW h \in Hosts, Found(h), NEW a, NEW end \in Time
    PROVE  LET k == cache.Map[h] IN
           \E r \in DnsQueryResult :
             /\ r.HostName = cache.entry[k].HostName /\ r.used = cache.entry[k].used
             /\ Renewed(h, a, end) = [Map |-> cache.Map, Queue |-> cache.Queue,
                                      entry |-> [cache.entry EXCEPT ![k] = r]]
<1> DEFINE k == cache.Map[h]
           b == [cache EXCEPT !.entry[k].ValidityEndTime = end]
           told == IF a = cache.entry[k].Address THEN end ELSE cache.entry[k].told
           q == [cache.entry[k] EXCEPT !.ValidityEndTime = end]
           r == [q EXCEPT !.told = told]
<1>1. k \in Results(cache) /\ Fits(cache, clock)
  BY DEF CacheInv, Fits, InStep, Found
<1>2. k \in Entries /\ cache.entry[k] \in DnsQueryResult
  BY <1>1, ResultIsRecord
<1>3. cache \in CacheType /\ cache.entry \in [Entries -> DnsQueryResult \cup {NoEntry}]
  BY <1>1, Parts DEF Fits
<1>4. told \in Time
  BY <1>2 DEF DnsQueryResult
<1> HIDE DEF told
<1>5. q \in DnsQueryResult /\ q.told = cache.entry[k].told
      /\ q.HostName = cache.entry[k].HostName /\ q.used = cache.entry[k].used
  BY <1>2 DEF DnsQueryResult
<1> HIDE DEF q, k
<1>6. r \in DnsQueryResult /\ r.HostName = q.HostName /\ r.used = q.used
  BY <1>4, <1>5 DEF DnsQueryResult
<1>7. b = [Map |-> cache.Map, Queue |-> cache.Queue, entry |-> [cache.entry EXCEPT ![k] = q]]
  BY <1>3 DEF CacheType, q
<1> HIDE DEF b
<1>8. b.entry[k] = q
  BY <1>2, <1>3, <1>7
<1>9. Renewed(h, a, end) = [b EXCEPT !.entry[k].told = told]
  <2>1. b.entry[k].told = cache.entry[k].told
    BY <1>5, <1>8
  <2> QED
    BY <1>8, <2>1 DEF Renewed, b, k, told, q
<1>10. [b EXCEPT !.entry[k].told = told]
         = [Map |-> cache.Map, Queue |-> cache.Queue, entry |-> [b.entry EXCEPT ![k].told = told]]
  BY <1>7
<1>11. [b.entry EXCEPT ![k].told = told] = [cache.entry EXCEPT ![k] = r]
  BY <1>7, <1>8, <1>3
<1> HIDE DEF r
<1> QED
  BY <1>5, <1>6, <1>9, <1>10, <1>11 DEF k

(* So the queue stays in order, although the result is not moved.          *)
LEMMA RenewedFits ==
    ASSUME CacheInv, NEW h \in Hosts, Found(h), NEW a, NEW end \in Time
    PROVE  LET d == Renewed(h, a, end) IN
           /\ Fits(d, clock)
           /\ d.Queue = cache.Queue
           /\ \A e \in Results(cache) : d.entry[e] # NoEntry
<1> DEFINE k == cache.Map[h]
           d == Renewed(h, a, end)
<1>1. PICK r \in DnsQueryResult :
        /\ r.HostName = cache.entry[k].HostName /\ r.used = cache.entry[k].used
        /\ d = [Map |-> cache.Map, Queue |-> cache.Queue, entry |-> [cache.entry EXCEPT ![k] = r]]
  BY RenewedParts
<1>2. cache \in CacheType /\ InStep(cache) /\ Ordered(cache, clock) /\ k \in Results(cache)
  BY DEF CacheInv, Fits, InStep, Found
<1>3. k \in Entries /\ Results(cache) \subseteq Entries /\ r # NoEntry
  BY <1>2, ResultsAre, DnsCacheAssumption
<1>4. /\ cache.Map \in [Hosts -> Entries \cup {NoEntry}]
      /\ cache.Queue \in Seq(Entries)
      /\ cache.entry \in [Entries -> DnsQueryResult \cup {NoEntry}]
  BY <1>2, Parts
<1>5. cache.entry[k] # NoEntry
  BY <1>2 DEF InStep
<1> HIDE DEF d, k
<1>6. /\ d.Map = cache.Map /\ d.Queue = cache.Queue
      /\ d.entry = [cache.entry EXCEPT ![k] = r]
  BY <1>1
<1>7. \A e \in Entries :
        /\ d.entry[e] = NoEntry <=> cache.entry[e] = NoEntry
        /\ d.entry[e].HostName = cache.entry[e].HostName
        /\ d.entry[e].used = cache.entry[e].used
  BY <1>1, <1>3, <1>4, <1>5, <1>6
<1>8. d.entry \in [Entries -> DnsQueryResult \cup {NoEntry}]
  BY <1>4, <1>6
<1>9. d \in CacheType
  BY <1>1, <1>4, <1>6, <1>8 DEF CacheType
<1>10. Results(d) = Results(cache)
  BY <1>6 DEF Results
<1>11. InStep(d)
  BY <1>2, <1>3, <1>6, <1>7, <1>10 DEF InStep
<1>12. Ordered(d, clock)
  <2>1. \A i \in DOMAIN cache.Queue : cache.Queue[i] \in Entries
    BY <1>3 DEF Results
  <2> QED
    BY <1>2, <1>3, <1>6, <1>7, <1>10, <2>1 DEF Ordered
<1>13. \A e \in Results(cache) : d.entry[e] # NoEntry
  BY <1>10, <1>11 DEF InStep
<1> QED
  BY <1>6, <1>9, <1>11, <1>12, <1>13 DEF Fits, d

-----------------------------------------------------------------------------
(* The actions keep the invariant. *)

(* What the invariant says of the cache's size and of the clock. *)
LEMMA InvSays ==
    ASSUME CacheInv
    PROVE  /\ Fits(cache, clock)
           /\ cache \in CacheType /\ InStep(cache) /\ Ordered(cache, clock)
           /\ Len(cache.Queue) \in Nat /\ Len(cache.Queue) <= RecordsMax + 1
           /\ asked \in [Hosts -> Nat]
           /\ clock \in Time /\ clock \in Nat
           /\ RecordsMax \in Nat
BY Parts, DnsCacheAssumption DEF CacheInv, Fits, Time

(* The queue of a cache that fits has a length. *)
LEMMA FitsLen ==
    ASSUME NEW c, NEW t, Fits(c, t)
    PROVE  Len(c.Queue) \in Nat
BY Parts DEF Fits

(* The empty cache. *)
LEMMA InvInit == Init => CacheInv
<1> SUFFICES ASSUME Init PROVE CacheInv
  OBVIOUS
<1>1. /\ cache = [Map |-> cache.Map, Queue |-> cache.Queue, entry |-> cache.entry]
      /\ cache.Map = [h \in Hosts |-> NoEntry]
      /\ cache.Queue = <<>>
      /\ cache.entry = [e \in Entries |-> NoEntry]
  BY DEF Init
<1>2. cache \in CacheType
  BY DEF Init, CacheType
<1>3. Results(cache) = {} /\ DOMAIN cache.Queue = {} /\ Len(cache.Queue) = 0
  BY <1>1 DEF Results
<1>4. InStep(cache)
  BY <1>1, <1>3 DEF InStep, IsInjective
<1>5. Ordered(cache, clock)
  BY <1>3 DEF Ordered
<1>6. asked \in [Hosts -> Nat] /\ clock \in Time
  BY DnsCacheAssumption DEF Init, Time
<1>7. Len(cache.Queue) <= RecordsMax + 1
  BY <1>3, DnsCacheAssumption
<1> QED
  BY <1>2, <1>4, <1>5, <1>6, <1>7 DEF CacheInv, Fits

(* An action that leaves the clock alone keeps it if the new cache fits.   *)
LEMMA InvKept ==
    ASSUME CacheInv, Fits(cache', clock), Len(cache'.Queue) <= RecordsMax + 1,
           asked' \in [Hosts -> Nat], UNCHANGED clock
    PROVE  CacheInv'
BY DEF CacheInv, Fits, CacheType, InStep, Ordered, Results, Time, DnsQueryResult

(* A query that is sent is waited for. *)
LEMMA QueryCounts ==
    ASSUME CacheInv, NEW h \in Hosts, Query(h)
    PROVE  /\ asked' \in [Hosts -> Nat]
           /\ \A k \in Hosts : asked[k] <= asked'[k]
BY DEF CacheInv, Query

(* A hit loses nothing. *)
LEMMA RequestHitInv ==
    ASSUME CacheInv, NEW h \in Hosts, RequestHit(h)
    PROVE  CacheInv' /\ \A e \in Results(cache) : cache'.entry[e] # NoEntry
<1> DEFINE k == cache.Map[h]
           d == DnsCacheFreshnessUpdate(cache, k)
<1>1. /\ Fits(cache, clock) /\ InStep(cache) /\ clock \in Time /\ asked \in [Hosts -> Nat]
      /\ Len(cache.Queue) \in Nat /\ Len(cache.Queue) <= RecordsMax + 1 /\ RecordsMax \in Nat
  BY InvSays
<1>2. k \in Results(cache) /\ cache' = d /\ asked' = asked /\ clock' = clock
  BY <1>1 DEF InStep, RequestHit, Hits, Found
<1> HIDE DEF d, k
<1>3. /\ Fits(d, clock) /\ Len(d.Queue) <= Len(cache.Queue)
      /\ \A e \in Results(cache) : d.entry[e] # NoEntry
  BY <1>1, <1>2, UpdateFits DEF d
<1>4. Len(d.Queue) \in Nat
  BY <1>3, FitsLen
<1>5. Len(d.Queue) <= RecordsMax + 1
  BY <1>1, <1>3, <1>4
<1>6. CacheInv'
  BY <1>1, <1>2, <1>3, <1>5, InvKept
<1> QED
  BY <1>2, <1>3, <1>6

(* What is deleted was too old. *)
LEMMA RequestGetMissInv ==
    ASSUME CacheInv, NEW h \in Hosts, RequestGetMiss(h)
    PROVE  /\ CacheInv'
           /\ \A k \in Hosts : asked[k] <= asked'[k]
           /\ \A e \in Results(cache) : cache'.entry[e] = NoEntry
                 => cache.entry[e].ValidityEndTime <= clock
<1> DEFINE k == cache.Map[h]
           d == DnsCacheDel(cache, {k})
<1>1. /\ Fits(cache, clock) /\ InStep(cache) /\ clock \in Time
      /\ Len(cache.Queue) \in Nat /\ Len(cache.Queue) <= RecordsMax + 1 /\ RecordsMax \in Nat
  BY InvSays
<1>2. asked' \in [Hosts -> Nat] /\ (\A n \in Hosts : asked[n] <= asked'[n]) /\ clock' = clock
  BY QueryCounts DEF RequestGetMiss
<1>3. CASE ~Found(h)
  <2>1. cache' = cache
    BY <1>3 DEF RequestGetMiss
  <2>2. CacheInv'
    BY <1>1, <1>2, <2>1, InvKept
  <2>3. \A e \in Results(cache) : cache'.entry[e] # NoEntry
    BY <1>1, <2>1 DEF InStep
  <2> QED
    BY <1>2, <2>2, <2>3
<1>4. CASE Found(h)
  <2>1. cache' = d
    BY <1>4 DEF RequestGetMiss
  <2>2. k \in Results(cache) /\ ~(clock <= cache.entry[k].ValidityEndTime)
    BY <1>1, <1>4 DEF InStep, RequestGetMiss, Hits, Found
  <2>3. cache.entry[k].ValidityEndTime \in Time
    BY <1>1, <2>2, ResultIsRecord DEF DnsQueryResult
  <2>4. cache.entry[k].ValidityEndTime <= clock
    BY <1>1, <2>2, <2>3 DEF Time
  <2> HIDE DEF d, k
  <2>5. /\ Fits(d, clock) /\ Results(d) = Results(cache) \ {k}
        /\ \A e \in Results(d) : d.entry[e] = cache.entry[e]
    BY <1>1, <2>2, DelFits DEF d
  <2>6. Len(d.Queue) \in Nat /\ Len(d.Queue) <= Len(cache.Queue)
    BY <1>1, <2>2, DelShorter DEF d
  <2>7. Len(d.Queue) <= RecordsMax + 1
    BY <1>1, <2>6
  <2>8. CacheInv'
    BY <1>1, <1>2, <2>1, <2>5, <2>7, InvKept
  <2>9. \A e \in Results(cache) : e # k => d.entry[e] # NoEntry
    BY <1>1, <2>5 DEF InStep
  <2> QED
    BY <1>2, <2>1, <2>4, <2>8, <2>9
<1> QED
  BY <1>3, <1>4

(* An answer renews the host's result or adds one, and then deletes only   *)
(* if the queue is over the threshold, from its stale end.                 *)
LEMMA AnswerInv ==
    ASSUME CacheInv, NEW h \in Hosts, NEW a \in Addresses, NEW TimeLive \in TimeLives,
           Answer(h, a, TimeLive)
    PROVE  /\ CacheInv'
           /\ \A e \in Results(cache) : cache'.entry[e] = NoEntry =>
                 /\ Len(cache.Queue) > RecordsMax
                 /\ \A k \in Results(cache) : cache'.entry[k] # NoEntry
                       => cache.entry[e].used <= cache.entry[k].used
<1> DEFINE end == ValidityEnd(TimeLive)
           r == [HostName |-> h, Address |-> a, ValidityEndTime |-> end,
                 used |-> clock, told |-> end]
           c == DnsCacheCheckAndDelete(cache)
           f == FreeEntry
           d == DnsCacheAdd(c, f, r)
<1>1. /\ Fits(cache, clock) /\ InStep(cache) /\ clock \in Time /\ clock \in Nat
      /\ Len(cache.Queue) \in Nat /\ Len(cache.Queue) <= RecordsMax + 1 /\ RecordsMax \in Nat
      /\ asked \in [Hosts -> Nat]
  BY InvSays
<1>2. asked' \in [Hosts -> Nat] /\ clock' = clock
  BY <1>1 DEF Answer
<1>3. end \in Time
  <2>1. TimeLive \in Nat /\ TimeMod \in Nat \ {0}
    BY DnsCacheAssumption
  <2>2. clock + TimeLive \in Nat
    BY <1>1, <2>1
  <2> DEFINE n == clock + TimeLive
  <2> HIDE DEF n
  <2>3. n % TimeMod \in 0 .. TimeMod - 1
    BY <2>1, <2>2 DEF n
  <2> QED
    BY <2>3 DEF ValidityEnd, Time, n
<1>4. r \in DnsQueryResult /\ r.used = clock /\ r.HostName = h
  <2> HIDE DEF end
  <2> QED
    BY <1>1, <1>3 DEF DnsQueryResult
<1>5. CASE Found(h) /\ cache' = Renewed(h, a, end)
  <2> DEFINE x == Renewed(h, a, end)
  <2> HIDE DEF x, end
  <2>1. /\ Fits(x, clock) /\ x.Queue = cache.Queue
        /\ \A e \in Results(cache) : x.entry[e] # NoEntry
    BY <1>3, <1>5, RenewedFits DEF x
  <2>2. cache' = x
    BY <1>5 DEF x
  <2>3. CacheInv'
    BY <1>1, <1>2, <2>1, <2>2, InvKept
  <2> QED
    BY <2>1, <2>2, <2>3
<1>6. CASE /\ ~Found(h)
           /\ \E e \in Entries : cache.entry[e] = NoEntry
           /\ cache' = d
  <2>1. f \in Entries /\ cache.entry[f] = NoEntry
    BY <1>6 DEF FreeEntry
  <2>2. f \notin Results(cache)
    BY <1>1, <2>1 DEF InStep
  <2>3. cache.Map[h] = NoEntry
    BY <1>6 DEF Found
  <2> HIDE DEF c, f, r
  <2>4. /\ Fits(c, clock) /\ Len(c.Queue) <= RecordsMax
        /\ Results(c) \subseteq Results(cache)
        /\ \A e \in Results(c) : c.entry[e] = cache.entry[e]
        /\ \A n \in Hosts : cache.Map[n] = NoEntry => c.Map[n] = NoEntry
        /\ \A e \in Results(cache) : e \notin Results(c) =>
              /\ Len(cache.Queue) > RecordsMax
              /\ \A k \in Results(c) : cache.entry[e].used <= cache.entry[k].used
    BY <1>1, CheckAndDeleteFits DEF c
  <2>5. /\ f \notin Results(c) /\ c.Map[h] = NoEntry
        /\ Len(c.Queue) \in Nat /\ c \in CacheType /\ InStep(c)
    BY <2>2, <2>3, <2>4, FitsLen DEF Fits
  <2> HIDE DEF d
  <2>6. /\ Fits(d, clock) /\ Len(d.Queue) = Len(c.Queue) + 1
        /\ d.entry = [c.entry EXCEPT ![f] = r]
    BY <1>1, <1>4, <2>1, <2>4, <2>5, AddFits DEF d
  <2>7. Len(d.Queue) <= RecordsMax + 1
    BY <1>1, <2>4, <2>5, <2>6
  <2>8. CacheInv'
    BY <1>2, <1>6, <2>6, <2>7, InvKept
  <2>9. \A e \in Results(cache) : d.entry[e] = NoEntry <=> e \notin Results(c)
    <3>1. c.entry \in [Entries -> DnsQueryResult \cup {NoEntry}] /\ Results(cache) \subseteq Entries
      BY <1>1, <2>5, Parts, ResultsAre DEF Fits
    <3>2. \A e \in Results(cache) : d.entry[e] = c.entry[e]
      BY <2>2, <2>6, <3>1
    <3> QED
      BY <2>5, <3>1, <3>2 DEF InStep
  <2> QED
    BY <1>6, <2>4, <2>8, <2>9
<1> QED
  BY <1>5, <1>6 DEF Answer

(* The periodic check deletes what is out of date. *)
LEMMA ValidityCheckInv ==
    ASSUME CacheInv, DnsCacheValidityCheckTimeout
    PROVE  /\ CacheInv'
           /\ \A e \in Results(cache) : cache'.entry[e] = NoEntry
                 => cache.entry[e].ValidityEndTime <= clock
<1> DEFINE S == Expired(cache)
           d == DnsCacheDel(cache, S)
<1>1. /\ Fits(cache, clock) /\ InStep(cache)
      /\ Len(cache.Queue) \in Nat /\ Len(cache.Queue) <= RecordsMax + 1 /\ RecordsMax \in Nat
      /\ asked \in [Hosts -> Nat]
  BY InvSays
<1>2. S \subseteq Results(cache) /\ \A e \in S : cache.entry[e].ValidityEndTime <= clock
  BY DEF Expired
<1>3. cache' = d /\ asked' = asked /\ clock' = clock
  BY DEF DnsCacheValidityCheckTimeout
<1> HIDE DEF S, d
<1>4. /\ Fits(d, clock) /\ Results(d) = Results(cache) \ S
      /\ \A e \in Results(d) : d.entry[e] = cache.entry[e]
  BY <1>1, <1>2, DelFits DEF d
<1>5. Len(d.Queue) \in Nat /\ Len(d.Queue) <= Len(cache.Queue)
  BY <1>1, <1>2, DelShorter DEF d
<1>6. Len(d.Queue) <= RecordsMax + 1
  BY <1>1, <1>5
<1>7. CacheInv'
  BY <1>1, <1>3, <1>4, <1>6, InvKept
<1>8. \A e \in Results(cache) : e \notin S => d.entry[e] # NoEntry
  BY <1>1, <1>4 DEF InStep
<1> QED
  BY <1>2, <1>3, <1>7, <1>8

(* The clock alone. *)
LEMMA TickInv ==
    ASSUME CacheInv, Tick
    PROVE  CacheInv'
<1>1. /\ Fits(cache, clock) /\ InStep(cache) /\ Ordered(cache, clock) /\ cache \in CacheType
      /\ clock \in Nat /\ clock \in Time
  BY InvSays
<1>2. cache' = cache /\ asked' = asked /\ clock' = clock + 1 /\ clock < Horizon
  BY DEF Tick
<1>3. clock' \in Time
  BY <1>1, <1>2, DnsCacheAssumption DEF Time
<1>4. \A e \in Results(cache) : cache.entry[e].used <= clock + 1
  <2>1. ASSUME NEW e \in Results(cache) PROVE cache.entry[e].used <= clock + 1
    <3>1. cache.entry[e].used \in Time /\ cache.entry[e].used <= clock
      BY <1>1, <2>1, ResultIsRecord
    <3> QED
      BY <1>1, <3>1 DEF Time
  <2> QED
    BY <2>1
<1>5. Fits(cache', clock')
  BY <1>1, <1>2, <1>4 DEF Fits, Ordered
<1> QED
  BY <1>2, <1>3, <1>5 DEF CacheInv, Fits, CacheType, InStep, Ordered, Results, Time, DnsQueryResult

(* Every step keeps the invariant. *)
LEMMA InvStep == CacheInv /\ [Next]_vars => CacheInv'
<1> SUFFICES ASSUME CacheInv, [Next]_vars PROVE CacheInv'
  OBVIOUS
<1>1. ASSUME NEW h \in Hosts, RequestHit(h) PROVE CacheInv'
  BY <1>1, RequestHitInv
<1>2. ASSUME NEW h \in Hosts, RequestGetMiss(h) PROVE CacheInv'
  BY <1>2, RequestGetMissInv
<1>3. ASSUME NEW h \in Hosts, RequestConnectMiss(h) PROVE CacheInv'
  <2>1. cache' = cache /\ clock' = clock /\ asked' \in [Hosts -> Nat]
    BY <1>3, QueryCounts DEF RequestConnectMiss
  <2> QED
    BY <2>1, InvSays, InvKept
<1>4. ASSUME NEW h \in Hosts, NoAnswer(h) PROVE CacheInv'
  <2>1. cache' = cache /\ clock' = clock /\ asked' \in [Hosts -> Nat]
    BY <1>4, InvSays DEF NoAnswer
  <2> QED
    BY <2>1, InvSays, InvKept
<1>5. ASSUME NEW h \in Hosts, NEW a \in Addresses, NEW t \in TimeLives, Answer(h, a, t)
      PROVE  CacheInv'
  BY <1>5, AnswerInv
<1>6. CASE DnsCacheValidityCheckTimeout
  BY <1>6, ValidityCheckInv
<1>7. CASE Tick
  BY <1>7, TickInv
<1>8. CASE UNCHANGED vars
  <2>1. cache' = cache /\ clock' = clock /\ asked' = asked
    BY <1>8 DEF vars
  <2> QED
    BY <2>1, InvSays, InvKept
<1> QED
  BY <1>1, <1>2, <1>3, <1>4, <1>5, <1>6, <1>7, <1>8 DEF Next

(* The inductive invariant holds in every reachable state. *)
THEOREM CacheInvariant == Spec => []CacheInv
BY InvInit, InvStep, PTL DEF Spec

-----------------------------------------------------------------------------
(* The properties. *)

(* The cache's parts, counts and clock keep their types: ValidityEndTime   *)
(* stays within the width of an unsigned int.                              *)
THEOREM CacheTypeCorrect == Spec => []TypeOK
<1>1. CacheInv => TypeOK
  BY DEF CacheInv, Fits, CacheType, TypeOK
<1> QED
  BY <1>1, CacheInvariant, PTL

(* The map and the queue hold the same results, each once, whatever the    *)
(* order of requests, answers and the periodic check.                      *)
THEOREM CacheInStep == Spec => []MapAndQueueInStep
<1>1. CacheInv => MapAndQueueInStep
  BY DEF CacheInv, Fits, InStep, IsInjective, MapAndQueueInStep, Found
<1> QED
  BY <1>1, CacheInvariant, PTL

(* The queue of the cache is ordered by the last use. *)
THEOREM CacheQueueOrdered == Spec => []QueueByFreshness
<1>1. CacheInv => QueueByFreshness
  BY DEF CacheInv, Fits, Ordered, QueueByFreshness
<1> QED
  BY <1>1, CacheInvariant, PTL

(* The cache never holds more than RecordsMax + 1 results, for any number  *)
(* of answers that are on their way.                                       *)
THEOREM CacheStaysBounded == Spec => []CacheBounded
<1>1. CacheInv => CacheBounded
  BY DEF CacheInv, CacheBounded
<1> QED
  BY <1>1, CacheInvariant, PTL

(* Answers are the only steps that take a query off and delete results. *)
LEMMA EvictStep ==
    ASSUME CacheInv, [Next]_vars, NEW h \in Hosts, asked'[h] < asked[h],
           NEW e \in Results(cache), NEW k \in Results(cache),
           cache'.entry[e] = NoEntry, cache'.entry[k] # NoEntry
    PROVE  cache.entry[e].used <= cache.entry[k].used
<1>1. asked[h] \in Nat /\ ~(asked[h] < asked[h]) /\ InStep(cache)
  BY InvSays
<1>2. ASSUME cache' = cache PROVE FALSE
  BY <1>1, <1>2 DEF InStep
<1>3. ASSUME \A n \in Hosts : asked[n] <= asked'[n], asked' \in [Hosts -> Nat] PROVE FALSE
  BY <1>1, <1>3
<1>4. ~ UNCHANGED vars
  BY <1>2 DEF vars
<1>5. ~ \E n \in Hosts : RequestHit(n) \/ RequestConnectMiss(n) \/ NoAnswer(n)
  BY <1>1, <1>2, RequestHitInv DEF RequestConnectMiss, NoAnswer
<1>6. ~ \E n \in Hosts : RequestGetMiss(n)
  BY <1>3, RequestGetMissInv, QueryCounts DEF RequestGetMiss
<1>7. ~DnsCacheValidityCheckTimeout /\ ~Tick
  BY <1>1, <1>2 DEF DnsCacheValidityCheckTimeout, Tick
<1>8. PICK n \in Hosts, a \in Addresses, t \in TimeLives : Answer(n, a, t)
  BY <1>4, <1>5, <1>6, <1>7 DEF Next
<1> QED
  BY <1>8, AnswerInv

(* What an answer drives out was not used after what it leaves. *)
THEOREM CacheEvictsLeastFresh == Spec => EvictsLeastFresh
<1>1. CacheInv /\ [Next]_vars =>
        [\A e, k \in Results(cache) :
           (/\ \E h \in Hosts : asked'[h] < asked[h]
            /\ cache'.entry[e] = NoEntry /\ cache'.entry[k] # NoEntry)
              => cache.entry[e].used <= cache.entry[k].used]_vars
  BY EvictStep
<1> QED
  BY <1>1, CacheInvariant, PTL DEF Spec, EvictsLeastFresh

(* A step deletes what is out of date, or makes room. *)
LEMMA DeleteStep ==
    ASSUME CacheInv, [Next]_vars, NEW e \in Results(cache), cache'.entry[e] = NoEntry
    PROVE  cache.entry[e].ValidityEndTime <= clock \/ Len(cache.Queue) > RecordsMax
<1>1. InStep(cache)
  BY InvSays
<1>2. ASSUME cache' = cache PROVE FALSE
  BY <1>1, <1>2 DEF InStep
<1>3. ~ UNCHANGED vars /\ ~Tick
  BY <1>2 DEF vars, Tick
<1>4. ~ \E n \in Hosts : RequestHit(n) \/ RequestConnectMiss(n) \/ NoAnswer(n)
  BY <1>2, RequestHitInv DEF RequestConnectMiss, NoAnswer
<1>5. CASE \E n \in Hosts : RequestGetMiss(n)
  BY <1>5, RequestGetMissInv
<1>6. CASE DnsCacheValidityCheckTimeout
  BY <1>6, ValidityCheckInv
<1>7. CASE \E n \in Hosts, a \in Addresses, t \in TimeLives : Answer(n, a, t)
  BY <1>7, AnswerInv
<1> QED
  BY <1>3, <1>4, <1>5, <1>6, <1>7 DEF Next

(* Within the threshold, a result that is still valid is never lost. *)
THEOREM CacheValidResultsStay == Spec => ValidResultsStay
<1>1. CacheInv /\ [Next]_vars =>
        [\A e \in Results(cache) :
           cache'.entry[e] = NoEntry
             => cache.entry[e].ValidityEndTime <= clock \/ Len(cache.Queue) > RecordsMax]_vars
  BY DeleteStep
<1> QED
  BY <1>1, CacheInvariant, PTL DEF Spec, ValidResultsStay
=============================================================================
