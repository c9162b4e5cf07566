---------------------------- MODULE EventCtlProofs ----------------------------
(***************************************************************************)
(* Proofs about EventCtl: each node is in one place, the timerfd is armed  *)
(* for the earliest timer, and descriptors find their nodes, whatever the  *)
(* callbacks do between the rounds of the loop and for any number of nodes *)
(* and descriptors.                                                        *)
(***************************************************************************)
EXTENDS EventCtlApi, ListProofs

MasterType ==
    [node : [Nodes -> NodeRec], timer : Seq(Nodes), rear : Seq(Nodes),
     ready : Seq(Nodes), unuse : Seq(Nodes), hash : [Fds -> Nodes \cup {NoNode}],
     armed : Nodes \cup {NoNode}, alarm : Nat \cup {Never}]

(* A list of the master: each node of the type once, and no other. *)
IsListOf(list, type, node) ==
    /\ IsInjective(list)
    /\ Range(list) = {n \in Nodes : node[n].type = type}

(* The hash holds the nodes of type EVENT under their descriptors, except  *)
(* those whose event_epoll_add failed.                                     *)
Hashed(hash, node) ==
    /\ \A fd \in Fds : hash[fd] # NoNode => /\ node[hash[fd]].type = "EVENT"
                                            /\ node[hash[fd]].fd = fd
    /\ \A n \in Nodes : node[n].type = "EVENT" /\ node[n].fd # Bad
                          => node[n].fd \in Fds /\ hash[node[n].fd] = n

Placed(x) ==
    /\ IsListOf(x.timer, "TIMER", x.node)
    /\ IsListOf(x.rear, "REAR", x.node)
    /\ IsListOf(x.ready, "READY", x.node)
    /\ IsListOf(x.unuse, "UNUSED", x.node)
    /\ Hashed(x.hash, x.node)

(* What a node was added as. *)
Added(node) ==
    \A n \in Nodes :
        /\ node[n].type # "FREE" => node[n].add_type \in Kinds \cup {"EVENT"}
        /\ node[n].type \in Kinds \cup {"EVENT"} => node[n].add_type = node[n].type

(* The timer lists are in the order of their times. *)
InOrder(list, node) ==
    \A i, j \in DOMAIN list : i < j => node[list[i]].time <= node[list[j]].time

(* The node of a descriptor that is watched, in the hash or ready. *)
Watching(r) ==
    \/ r.type = "EVENT" /\ r.fd # Bad
    \/ r.type = "READY" /\ r.add_type = "EVENT"

(* A watched descriptor has one node, and such a node is its descriptor's. *)
Owned(h, node) ==
    /\ \A fd \in Fds : h[fd] # NoNode => /\ node[h[fd]].type \in {"EVENT", "READY"}
                                         /\ node[h[fd]].add_type = "EVENT"
                                         /\ node[h[fd]].fd = fd
    /\ \A n \in Nodes : Watching(node[n]) => node[n].fd \in Fds /\ h[node[n].fd] = n

(* What holds of the master at every point of a round of the loop, for the *)
(* descriptors' nodes h.                                                   *)
Core(x, h) ==
    /\ x \in MasterType
    /\ Placed(x)
    /\ Added(x.node)
    /\ InOrder(x.timer, x.node) /\ InOrder(x.rear, x.node)
    /\ Owned(h, x.node)
    /\ (x.armed = NoNode) <=> (x.alarm = Never)

(* From the position k of the ready list on, the nodes of descriptors come *)
(* before those of timers: so a timer's node, which may keep the fd it had *)
(* before, is never found in their place.                                  *)
EventsFirst(x, k) ==
    \A i, j \in DOMAIN x.ready :
        k <= i /\ i < j /\ x.node[x.ready[j]].add_type = "EVENT"
          => x.node[x.ready[i]].add_type = "EVENT"

(* TimerfdArmedForEarliest: the timerfd is armed for a node of the         *)
(* earliest time if one of the nodes N is in a timer list, and else is not. *)
ArmedFor(armed, alarm, N) ==
    LET waiting == {n \in Nodes : N[n].type \in Kinds} IN
    /\ (armed = NoNode) <=> (waiting = {})
    /\ (armed = NoNode) <=> (alarm = Never)
    /\ waiting # {} => /\ armed \in waiting
                       /\ alarm = N[armed].time
                       /\ \A n \in waiting : alarm <= N[n].time

(* The inductive invariant. *)
LoopInv ==
    /\ Core(m, handle)
    /\ EventsFirst(m, 1)
    /\ ArmedFor(m.armed, m.alarm, m.node)
    /\ handle \in [Fds -> Nodes \cup {NoNode}]
    /\ ep \in [Fds -> [node : Nodes \cup {NoNode}, on : BOOLEAN]]
    /\ \A fd \in Fds : ep[fd].node = handle[fd]
    /\ now \in Nat

-----------------------------------------------------------------------------
(* What the code's functions make of the parts of the master. *)

(* Only the node n differs. *)
Only(N2, N, n) == N2 \in [Nodes -> NodeRec] /\ \A k \in Nodes : k # n => N2[k] = N[k]

(* y is x with the record r for the node n. *)
Sets(y, x, n, r) ==
    /\ y \in MasterType
    /\ Only(y.node, x.node, n)
    /\ y.node[n] = r
    /\ y.timer = x.timer /\ y.rear = x.rear /\ y.ready = x.ready /\ y.unuse = x.unuse
    /\ y.hash = x.hash /\ y.armed = x.armed /\ y.alarm = x.alarm

(* The nodes are N2, which differ from N in the node n; it is of this type. *)
Made(N2, N, n, type, add_type, time) ==
    /\ Only(N2, N, n)
    /\ N2[n].type = type /\ N2[n].add_type = add_type /\ N2[n].time = time

(* node->type = t *)
LEMMA SetType ==
    ASSUME NEW x \in MasterType, NEW n \in Nodes, NEW t \in Types
    PROVE  Sets([x EXCEPT !.node[n].type = t], x, n,
                [type |-> t, add_type |-> x.node[n].add_type,
                 fd |-> x.node[n].fd, time |-> x.node[n].time])
<1> DEFINE r == [x.node[n] EXCEPT !.type = t]
           N == [x.node EXCEPT ![n] = r]
           y == [x EXCEPT !.node = N]
<1>1. x.node \in [Nodes -> NodeRec]
  BY DEF MasterType
<1>2. /\ r \in NodeRec
      /\ r = [type |-> t, add_type |-> x.node[n].add_type,
                 fd |-> x.node[n].fd, time |-> x.node[n].time]
  BY <1>1 DEF NodeRec
<1> HIDE DEF r
<1>3. N \in [Nodes -> NodeRec] /\ N[n] = r /\ \A k \in Nodes : k # n => N[k] = x.node[k]
  BY <1>1, <1>2
<1> HIDE DEF N
<1>4. /\ y \in MasterType /\ y.node = N
      /\ y.timer = x.timer /\ y.rear = x.rear /\ y.ready = x.ready /\ y.unuse = x.unuse
      /\ y.hash = x.hash /\ y.armed = x.armed /\ y.alarm = x.alarm
  BY <1>3 DEF MasterType
<1>5. [x EXCEPT !.node[n].type = t] = y
  BY DEF N, r
<1> QED
  BY <1>2, <1>3, <1>4, <1>5 DEF Only, Sets

(* node->add_type = t *)
LEMMA SetAddType ==
    ASSUME NEW x \in MasterType, NEW n \in Nodes, NEW t \in Types
    PROVE  Sets([x EXCEPT !.node[n].add_type = t], x, n,
                [type |-> x.node[n].type, add_type |-> t,
                 fd |-> x.node[n].fd, time |-> x.node[n].time])
<1> DEFINE r == [x.node[n] EXCEPT !.add_type = t]
           N == [x.node EXCEPT ![n] = r]
           y == [x EXCEPT !.node = N]
<1>1. x.node \in [Nodes -> NodeRec]
  BY DEF MasterType
<1>2. /\ r \in NodeRec
      /\ r = [type |-> x.node[n].type, add_type |-> t,
                 fd |-> x.node[n].fd, time |-> x.node[n].time]
  BY <1>1 DEF NodeRec
<1> HIDE DEF r
<1>3. N \in [Nodes -> NodeRec] /\ N[n] = r /\ \A k \in Nodes : k # n => N[k] = x.node[k]
  BY <1>1, <1>2
<1> HIDE DEF N
<1>4. /\ y \in MasterType /\ y.node = N
      /\ y.timer = x.timer /\ y.rear = x.rear /\ y.ready = x.ready /\ y.unuse = x.unuse
      /\ y.hash = x.hash /\ y.armed = x.armed /\ y.alarm = x.alarm
  BY <1>3 DEF MasterType
<1>5. [x EXCEPT !.node[n].add_type = t] = y
  BY DEF N, r
<1> QED
  BY <1>2, <1>3, <1>4, <1>5 DEF Only, Sets

(* node->fd = t *)
LEMMA SetFd ==
    ASSUME NEW x \in MasterType, NEW n \in Nodes, NEW t \in NodeFd
    PROVE  Sets([x EXCEPT !.node[n].fd = t], x, n,
                [type |-> x.node[n].type, add_type |-> x.node[n].add_type,
                 fd |-> t, time |-> x.node[n].time])
<1> DEFINE r == [x.node[n] EXCEPT !.fd = t]
           N == [x.node EXCEPT ![n] = r]
           y == [x EXCEPT !.node = N]
<1>1. x.node \in [Nodes -> NodeRec]
  BY DEF MasterType
<1>2. /\ r \in NodeRec
      /\ r = [type |-> x.node[n].type, add_type |-> x.node[n].add_type,
                 fd |-> t, time |-> x.node[n].time]
  BY <1>1 DEF NodeRec
<1> HIDE DEF r
<1>3. N \in [Nodes -> NodeRec] /\ N[n] = r /\ \A k \in Nodes : k # n => N[k] = x.node[k]
  BY <1>1, <1>2
<1> HIDE DEF N
<1>4. /\ y \in MasterType /\ y.node = N
      /\ y.timer = x.timer /\ y.rear = x.rear /\ y.ready = x.ready /\ y.unuse = x.unuse
      /\ y.hash = x.hash /\ y.armed = x.armed /\ y.alarm = x.alarm
  BY <1>3 DEF MasterType
<1>5. [x EXCEPT !.node[n].fd = t] = y
  BY DEF N, r
<1> QED
  BY <1>2, <1>3, <1>4, <1>5 DEF Only, Sets

(* The time of a timer. *)
LEMMA SetTime ==
    ASSUME NEW x \in MasterType, NEW n \in Nodes, NEW t \in Nat
    PROVE  Sets([x EXCEPT !.node[n].time = t], x, n,
                [type |-> x.node[n].type, add_type |-> x.node[n].add_type,
                 fd |-> x.node[n].fd, time |-> t])
<1> DEFINE r == [x.node[n] EXCEPT !.time = t]
           N == [x.node EXCEPT ![n] = r]
           y == [x EXCEPT !.node = N]
<1>1. x.node \in [Nodes -> NodeRec]
  BY DEF MasterType
<1>2. /\ r \in NodeRec
      /\ r = [type |-> x.node[n].type, add_type |-> x.node[n].add_type,
                 fd |-> x.node[n].fd, time |-> t]
  BY <1>1 DEF NodeRec
<1> HIDE DEF r
<1>3. N \in [Nodes -> NodeRec] /\ N[n] = r /\ \A k \in Nodes : k # n => N[k] = x.node[k]
  BY <1>1, <1>2
<1> HIDE DEF N
<1>4. /\ y \in MasterType /\ y.node = N
      /\ y.timer = x.timer /\ y.rear = x.rear /\ y.ready = x.ready /\ y.unuse = x.unuse
      /\ y.hash = x.hash /\ y.armed = x.armed /\ y.alarm = x.alarm
  BY <1>3 DEF MasterType
<1>5. [x EXCEPT !.node[n].time = t] = y
  BY DEF N, r
<1> QED
  BY <1>2, <1>3, <1>4, <1>5 DEF Only, Sets

(* Two changes of one node are a change of that node. *)
LEMMA OnlyTwice ==
    ASSUME NEW N, NEW N2, NEW N3, NEW n, Only(N2, N, n), Only(N3, N2, n)
    PROVE  Only(N3, N, n)
BY DEF Only

(* y is x with the record r for the node n and U as the unused nodes. *)
Gets(y, x, n, r, U) ==
    /\ y \in MasterType
    /\ Only(y.node, x.node, n)
    /\ y.node[n] = r
    /\ y.timer = x.timer /\ y.rear = x.rear /\ y.ready = x.ready /\ y.unuse = U
    /\ y.hash = x.hash /\ y.armed = x.armed /\ y.alarm = x.alarm

(* A change of the node's record after that. *)
LEMMA GetsSets ==
    ASSUME NEW x, NEW y, NEW z, NEW n, NEW r, NEW q, NEW U, Gets(y, x, n, r, U), Sets(z, y, n, q)
    PROVE  Gets(z, x, n, q, U)
<1>1. Only(z.node, x.node, n)
  BY OnlyTwice DEF Gets, Sets
<1> QED
  BY <1>1 DEF Gets, Sets

(* event_node_get *)
LEMMA GetParts ==
    ASSUME NEW x \in MasterType, NEW type \in Types, NEW n \in Nodes, n = NextNode(x),
           Without(x.unuse, n) \in Seq(Nodes)
    PROVE  Gets(event_node_get(x, type), x, n,
                [type |-> type, add_type |-> type, fd |-> x.node[n].fd, time |-> x.node[n].time],
                Without(x.unuse, n))
<1> SUFFICES ASSUME NEW W \in Seq(Nodes)
             PROVE  Gets([x EXCEPT !.unuse = W, !.node[n].type = type, !.node[n].add_type = type],
                         x, n, [type |-> type, add_type |-> type,
                                fd |-> x.node[n].fd, time |-> x.node[n].time], W)
  BY DEF event_node_get
<1> DEFINE a == [x EXCEPT !.unuse = W]
           b == [a EXCEPT !.node[n].type = type]
           y == [b EXCEPT !.node[n].add_type = type]
<1>1. [x EXCEPT !.unuse = W, !.node[n].type = type, !.node[n].add_type = type] = y
  OBVIOUS
<1>2. /\ a \in MasterType /\ a.node = x.node
      /\ a.timer = x.timer /\ a.rear = x.rear /\ a.ready = x.ready /\ a.unuse = W
      /\ a.hash = x.hash /\ a.armed = x.armed /\ a.alarm = x.alarm
  BY DEF MasterType
<1> HIDE DEF a
<1>3. Sets(b, a, n, [type |-> type, add_type |-> a.node[n].add_type,
                     fd |-> a.node[n].fd, time |-> a.node[n].time])
  BY <1>2, SetType
<1> HIDE DEF b
<1>4. b \in MasterType
  BY <1>3 DEF Sets
<1>5. Sets(y, b, n, [type |-> b.node[n].type, add_type |-> type,
                     fd |-> b.node[n].fd, time |-> b.node[n].time])
  BY <1>4, SetAddType
<1> HIDE DEF y
<1>6. Gets(b, x, n, [type |-> type, add_type |-> a.node[n].add_type,
                     fd |-> a.node[n].fd, time |-> a.node[n].time], W)
  BY <1>2, <1>3 DEF Gets, Sets
<1>7. /\ b.node[n].type = type /\ b.node[n].fd = x.node[n].fd /\ b.node[n].time = x.node[n].time
  BY <1>2, <1>3 DEF Sets
<1> QED
  BY <1>1, <1>5, <1>6, <1>7, GetsSets

(* event_list_add(&m->unuse): the node is given back. *)
LEMMA ToUnusedParts ==
    ASSUME NEW x \in MasterType, NEW n \in Nodes
    PROVE  Gets(ToUnused(x, n), x, n,
                [type |-> "UNUSED", add_type |-> x.node[n].add_type,
                 fd |-> x.node[n].fd, time |-> x.node[n].time], Append(x.unuse, n))
<1> DEFINE b == [x EXCEPT !.node[n].type = "UNUSED"]
           U == Append(x.unuse, n)
           y == [b EXCEPT !.unuse = U]
<1>0. U \in Seq(Nodes)
  BY DEF MasterType
<1>1. Sets(b, x, n, [type |-> "UNUSED", add_type |-> x.node[n].add_type,
                     fd |-> x.node[n].fd, time |-> x.node[n].time])
  BY SetType DEF Types
<1>2. ToUnused(x, n) = y
  <2>1. ToUnused(x, n) = [b EXCEPT !.unuse = Append(@, n)]
    BY DEF ToUnused
  <2> HIDE DEF b
  <2> QED
    BY <1>1, <2>1 DEF Sets
<1> HIDE DEF b, U
<1>3. /\ y \in MasterType /\ y.node = b.node
      /\ y.timer = b.timer /\ y.rear = b.rear /\ y.ready = b.ready /\ y.unuse = U
      /\ y.hash = b.hash /\ y.armed = b.armed /\ y.alarm = b.alarm
  BY <1>0, <1>1 DEF MasterType, Sets
<1> QED
  BY <1>1, <1>2, <1>3 DEF U, Gets, Sets
-----------------------------------------------------------------------------
(* What a change of one node does to the lists, the hash and the handles.  *)

(* A list none of whose nodes changes its type. *)
LEMMA ListKept ==
    ASSUME NEW list, NEW type, NEW N, NEW N2, IsListOf(list, type, N),
           \A k \in Nodes : (N2[k].type = type) <=> (N[k].type = type)
    PROVE  IsListOf(list, type, N2)
BY DEF IsListOf

(* event_list_delete *)
LEMMA ListWithout ==
    ASSUME NEW list \in Seq(Nodes), NEW type, NEW N, NEW N2, NEW n \in Nodes,
           IsListOf(list, type, N),
           \A k \in Nodes : (N2[k].type = type) <=> (N[k].type = type /\ k # n)
    PROVE  Without(list, n) \in Seq(Nodes) /\ IsListOf(Without(list, n), type, N2)
<1>1. Without(list, n) \in Seq(Nodes) /\ IsInjective(Without(list, n))
  BY KeepLeaves, KeepInjective DEF Without, IsListOf
<1>2. Range(Without(list, n)) = Range(list) \cap (Nodes \ {n})
  BY KeepRange DEF Without
<1> QED
  BY <1>1, <1>2 DEF IsListOf

(* event_list_trim_head *)
LEMMA ListTail ==
    ASSUME NEW list \in Seq(Nodes), list # <<>>, NEW type, NEW N, NEW N2, IsListOf(list, type, N),
           \A k \in Nodes : (N2[k].type = type) <=> (N[k].type = type /\ k # Head(list))
    PROVE  Tail(list) \in Seq(Nodes) /\ IsListOf(Tail(list), type, N2)
<1>1. Tail(list) \in Seq(Nodes) /\ IsInjective(Tail(list)) /\ Head(list) \in Nodes
      /\ Range(Tail(list)) = Range(list) \ {Head(list)}
  BY TailOf DEF IsListOf
<1> QED
  BY <1>1 DEF IsListOf

(* event_list_add *)
LEMMA ListAdded ==
    ASSUME NEW list \in Seq(Nodes), NEW type, NEW N, NEW N2, NEW n \in Nodes,
           IsListOf(list, type, N), N[n].type # type,
           \A k \in Nodes : (N2[k].type = type) <=> (N[k].type = type \/ k = n)
    PROVE  Append(list, n) \in Seq(Nodes) /\ IsListOf(Append(list, n), type, N2)
<1>1. n \notin Range(list)
  BY DEF IsListOf
<1>2. Append(list, n) \in Seq(Nodes) /\ IsInjective(Append(list, n))
      /\ Range(Append(list, n)) = Range(list) \cup {n}
  BY <1>1, AppendNew DEF IsListOf
<1> QED
  BY <1>2 DEF IsListOf

(* The order of a list none of whose nodes changes its time. *)
LEMMA OrderKept ==
    ASSUME NEW list \in Seq(Nodes), NEW N, NEW N2, InOrder(list, N),
           \A k \in Range(list) : N2[k].time = N[k].time
    PROVE  InOrder(list, N2)
<1>1. \A i \in DOMAIN list : list[i] \in Range(list)
  BY DEF Range
<1> QED
  BY <1>1 DEF InOrder

(* The order of a list after deletions. *)
LEMMA OrderKeep ==
    ASSUME NEW list \in Seq(Nodes), NEW N, NEW S, InOrder(list, N)
    PROVE  InOrder(Keep(list, S), N)
<1>1. Keep(list, S) \in Seq(Nodes) /\ DOMAIN Keep(list, S) = 1 .. Len(Keep(list, S))
      /\ DOMAIN list = 1 .. Len(list)
  BY KeepLeaves
<1>2. ASSUME NEW i \in DOMAIN Keep(list, S), NEW j \in DOMAIN Keep(list, S), i < j
      PROVE  N[Keep(list, S)[i]].time <= N[Keep(list, S)[j]].time
  <2>1. PICK k, l \in 1 .. Len(list) : k < l /\ Keep(list, S)[i] = list[k] /\ Keep(list, S)[j] = list[l]
    <3>1. i \in 1 .. Len(Keep(list, S)) /\ j \in 1 .. Len(Keep(list, S)) /\ i < j
      BY <1>1, <1>2
    <3>2. \A p, q \in 1 .. Len(Keep(list, S)) : p < q =>
            \E k, l \in 1 .. Len(list) : k < l /\ Keep(list, S)[p] = list[k] /\ Keep(list, S)[q] = list[l]
      BY KeepOrder DEF KeptInOrder
    <3> QED
      BY <3>1, <3>2
  <2> QED
    BY <1>1, <2>1 DEF InOrder
<1> QED
  BY <1>2 DEF InOrder

(* The order of a list without its head. *)
LEMMA OrderTail ==
    ASSUME NEW list \in Seq(Nodes), list # <<>>, NEW N, InOrder(list, N)
    PROVE  InOrder(Tail(list), N)
<1> DEFINE t == Tail(list)
           l == Len(list)
<1>1. l \in Nat /\ DOMAIN list = 1 .. l /\ DOMAIN t = 1 .. l - 1
      /\ \A i \in 1 .. l - 1 : i + 1 \in 1 .. l /\ t[i] = list[i + 1]
  BY TailOf
<1> HIDE DEF t, l
<1>2. ASSUME NEW i \in 1 .. l - 1, NEW j \in 1 .. l - 1, i < j PROVE N[t[i]].time <= N[t[j]].time
  <2>1. i + 1 < j + 1
    BY <1>2
  <2> QED
    BY <1>1, <2>1 DEF InOrder
<1>3. InOrder(t, N)
  BY <1>1, <1>2 DEF InOrder
<1> QED
  BY <1>3 DEF t

(* event_timer_add_itimerspec: the new node between those that are not     *)
(* later and those that are.                                               *)
Between(list, n, Later) == Keep(list, Nodes \ Later) \o <<n>> \o Keep(list, Later)

(* The list stays one of its type, and in order. *)
LEMMA ListInserted ==
    ASSUME NEW list \in Seq(Nodes), NEW type, NEW N \in [Nodes -> NodeRec], NEW N2, NEW n \in Nodes,
           Only(N2, N, n), N[n].type # type, N2[n].type = type,
           IsListOf(list, type, N), InOrder(list, N),
           NEW Later, Later = {k \in Nodes : N[k].time > N2[n].time}
    PROVE  /\ Between(list, n, Later) \in Seq(Nodes)
           /\ IsListOf(Between(list, n, Later), type, N2)
           /\ InOrder(Between(list, n, Later), N2)
<1> DEFINE a == Keep(list, Nodes \ Later)
           b == Keep(list, Later)
           c == a \o <<n>>
           d == c \o b
<1>1. /\ a \in Seq(Nodes) /\ b \in Seq(Nodes) /\ IsInjective(a) /\ IsInjective(b)
      /\ Range(a) = Range(list) \cap (Nodes \ Later) /\ Range(b) = Range(list) \cap Later
      /\ InOrder(a, N) /\ InOrder(b, N)
  <2> DEFINE S == Nodes \ Later
  <2> HIDE DEF S
  <2>1. /\ Keep(list, S) \in Seq(Nodes) /\ IsInjective(Keep(list, S))
        /\ Range(Keep(list, S)) = Range(list) \cap S /\ InOrder(Keep(list, S), N)
    BY KeepLeaves, KeepInjective, KeepRange, OrderKeep DEF IsListOf
  <2>2. /\ b \in Seq(Nodes) /\ IsInjective(b) /\ Range(b) = Range(list) \cap Later /\ InOrder(b, N)
    BY KeepLeaves, KeepInjective, KeepRange, OrderKeep DEF IsListOf
  <2> QED
    BY <2>1, <2>2 DEF S
<1> HIDE DEF a, b
<1>2. n \notin Range(list) /\ Range(list) \subseteq Nodes
  BY DEF IsListOf
<1>3. <<n>> \in Seq(Nodes) /\ IsInjective(<<n>>) /\ Range(<<n>>) = {n} /\ Len(<<n>>) = 1
      /\ <<n>>[1] = n
  BY DEF IsInjective, Range
<1>4. Range(a) \cap {n} = {}
  BY <1>1, <1>2
<1>5. /\ c \in Seq(Nodes) /\ IsInjective(c) /\ Range(c) = Range(a) \cup {n}
      /\ DOMAIN c = 1 .. Len(a) + 1 /\ Len(a) \in Nat
      /\ \A i \in 1 .. Len(a) + 1 :
           IF i <= Len(a) THEN i \in 1 .. Len(a) /\ c[i] = a[i]
           ELSE i - Len(a) \in 1 .. 1 /\ c[i] = <<n>>[i - Len(a)]
  <2> DEFINE e == <<n>>
  <2>1. e \in Seq(Nodes) /\ IsInjective(e) /\ Range(e) = {n} /\ Len(e) = 1
    BY <1>3
  <2> HIDE DEF e
  <2>2. /\ a \o e \in Seq(Nodes) /\ Range(a \o e) = Range(a) \cup Range(e)
        /\ Len(a) \in Nat /\ DOMAIN (a \o e) = 1 .. Len(a) + Len(e)
        /\ \A i \in 1 .. Len(a) + Len(e) :
             IF i <= Len(a) THEN i \in 1 .. Len(a) /\ (a \o e)[i] = a[i]
             ELSE i - Len(a) \in 1 .. Len(e) /\ (a \o e)[i] = e[i - Len(a)]
    <3>1. a \in Seq(Nodes) /\ e \in Seq(Nodes)
      BY <1>1, <2>1
    <3> QED
      BY <3>1, Joined
  <2>3. Range(a) \cap Range(e) = {}
    BY <1>4, <2>1
  <2>4. IsInjective(a \o e)
    BY <1>1, <2>1, <2>3, Joined
  <2> QED
    BY <2>1, <2>2, <2>4 DEF e
<1>6. Range(c) \cap Range(b) = {}
  BY <1>1, <1>2, <1>5
<1>7. \A i \in 1 .. Len(a) + 1 : IF i <= Len(a) THEN i \in 1 .. Len(a) /\ c[i] = a[i] ELSE c[i] = n
  <2>1. ASSUME NEW i \in 1 .. Len(a) + 1, ~(i <= Len(a)) PROVE c[i] = n
    <3>1. i - Len(a) = 1
      BY <1>5, <2>1
    <3> QED
      BY <1>3, <1>5, <2>1, <3>1
  <2> QED
    BY <1>5, <2>1
<1>8. Len(c) = Len(a) + 1 /\ Len(c) \in Nat
  BY <1>5
<1> HIDE DEF c
<1>9. /\ d \in Seq(Nodes) /\ IsInjective(d) /\ Range(d) = Range(c) \cup Range(b)
      /\ DOMAIN d = 1 .. Len(c) + Len(b) /\ Len(b) \in Nat
      /\ \A i \in 1 .. Len(c) + Len(b) :
           IF i <= Len(c) THEN i \in 1 .. Len(c) /\ d[i] = c[i]
           ELSE i - Len(c) \in 1 .. Len(b) /\ d[i] = b[i - Len(c)]
  BY <1>1, <1>5, <1>6, Joined
<1> HIDE DEF d
<1>10. IsListOf(d, type, N2)
  <2>1. Range(d) = Range(list) \cup {n}
    BY <1>1, <1>2, <1>5, <1>9
  <2> QED
    BY <1>9, <2>1 DEF IsListOf, Only
<1>11. /\ \A k \in Range(a) : N2[k] = N[k] /\ N2[k].time \in Nat /\ N2[k].time <= N2[n].time
       /\ \A k \in Range(b) : N2[k] = N[k] /\ N2[k].time \in Nat /\ N2[n].time <= N2[k].time
       /\ N2[n].time \in Nat
  <2>1. \A k \in Nodes : N2[k].time \in Nat /\ N[k].time \in Nat
    BY DEF Only, NodeRec
  <2> QED
    BY <1>1, <1>2, <2>1 DEF Only
<1>12. InOrder(a, N2) /\ InOrder(b, N2)
  BY <1>1, <1>11, OrderKept
<1>13. ASSUME NEW i \in 1 .. Len(c) + Len(b), NEW j \in 1 .. Len(c) + Len(b), i < j
       PROVE  N2[d[i]].time <= N2[d[j]].time
  <2>0. /\ \A k \in 1 .. Len(a) : a[k] \in Range(a) /\ k \in DOMAIN a
        /\ \A k \in 1 .. Len(b) : b[k] \in Range(b) /\ k \in DOMAIN b
    BY <1>1 DEF Range
  <2>1. CASE j <= Len(a)
    <3>1. i <= Len(a) /\ i <= Len(c) /\ j <= Len(c)
      BY <1>5, <1>8, <1>13, <2>1
    <3>2. d[i] = a[i] /\ d[j] = a[j] /\ i \in 1 .. Len(a) /\ j \in 1 .. Len(a)
      BY <1>7, <1>8, <1>9, <2>1, <3>1
    <3> QED
      BY <1>12, <1>13, <2>0, <3>2 DEF InOrder
  <2>2. CASE j = Len(a) + 1
    <3>1. i <= Len(a) /\ i <= Len(c) /\ j <= Len(c) /\ ~(j <= Len(a))
      BY <1>5, <1>8, <1>13, <2>2
    <3>2. d[i] = a[i] /\ d[j] = n /\ i \in 1 .. Len(a)
      BY <1>7, <1>8, <1>9, <3>1
    <3> QED
      BY <1>11, <2>0, <3>2
  <2>3. CASE j > Len(a) + 1
    <3>1. ~(j <= Len(c))
      BY <1>5, <1>8, <2>3
    <3>2. j - Len(c) \in 1 .. Len(b) /\ d[j] = b[j - Len(c)] /\ d[j] \in Range(b)
      BY <1>9, <2>0, <3>1
    <3>3. CASE i <= Len(a)
      <4>1. i <= Len(c)
        BY <1>5, <1>8, <3>3
      <4>2. d[i] = a[i] /\ i \in 1 .. Len(a)
        BY <1>7, <1>8, <1>9, <3>3, <4>1
      <4>3. N2[d[i]].time \in Nat /\ N2[d[i]].time <= N2[n].time
        BY <1>11, <2>0, <4>2
      <4>4. N2[d[j]].time \in Nat /\ N2[n].time <= N2[d[j]].time
        BY <1>11, <3>2
      <4> QED
        BY <1>11, <4>3, <4>4
    <3>4. CASE i = Len(a) + 1
      <4>1. i <= Len(c) /\ ~(i <= Len(a))
        BY <1>5, <1>8, <3>4
      <4>2. d[i] = n
        BY <1>7, <1>8, <1>9, <4>1
      <4> QED
        BY <1>11, <3>2, <4>2
    <3>5. CASE i > Len(a) + 1
      <4>1. ~(i <= Len(c))
        BY <1>5, <1>8, <3>5
      <4>2. i - Len(c) \in 1 .. Len(b) /\ d[i] = b[i - Len(c)] /\ i - Len(c) < j - Len(c)
        BY <1>8, <1>9, <1>13, <4>1
      <4> QED
        BY <1>12, <2>0, <3>2, <4>2 DEF InOrder
    <3> QED
      BY <1>5, <3>3, <3>4, <3>5
  <2> QED
    BY <1>5, <2>1, <2>2, <2>3
<1>14. InOrder(d, N2)
  BY <1>9, <1>13 DEF InOrder
<1> QED
  BY <1>9, <1>10, <1>14 DEF Between, a, b, c, d

(* A closed descriptor is none of the epoll set's. *)
LEMMA BadFd == Bad \notin Fds /\ Fds \subseteq Nat /\ Fds \subseteq NodeFd
BY EventCtlAssumption DEF Bad, NodeFd

(* The hash, when no node it holds changes, and none becomes one it has to *)
(* hold.                                                                   *)
LEMMA HashKept ==
    ASSUME NEW H \in [Fds -> Nodes \cup {NoNode}], NEW N, NEW N2, Hashed(H, N),
           \A k \in Nodes : \/ N2[k] = N[k]
                            \/ N[k].type # "EVENT" /\ (N2[k].type # "EVENT" \/ N2[k].fd = Bad)
    PROVE  Hashed(H, N2)
<1>1. ASSUME NEW fd \in Fds, H[fd] # NoNode
      PROVE  N2[H[fd]].type = "EVENT" /\ N2[H[fd]].fd = fd
  <2>1. H[fd] \in Nodes /\ N[H[fd]].type = "EVENT" /\ N[H[fd]].fd = fd
    BY <1>1 DEF Hashed
  <2> QED
    BY <2>1
<1>2. ASSUME NEW n \in Nodes, N2[n].type = "EVENT", N2[n].fd # Bad
      PROVE  N2[n].fd \in Fds /\ H[N2[n].fd] = n
  <2>1. N2[n] = N[n]
    BY <1>2
  <2> QED
    BY <1>2, <2>1 DEF Hashed
<1> QED
  BY <1>1, <1>2 DEF Hashed

(* hash_get of a descriptor that has no entry. *)
LEMMA HashAdded ==
    ASSUME NEW H \in [Fds -> Nodes \cup {NoNode}], NEW N, NEW N2, NEW n \in Nodes, NEW fd \in Fds,
           Hashed(H, N), H[fd] = NoNode, Only(N2, N, n), N[n].type # "EVENT",
           N2[n].type = "EVENT", N2[n].fd = fd
    PROVE  [H EXCEPT ![fd] = n] \in [Fds -> Nodes \cup {NoNode}]
           /\ Hashed([H EXCEPT ![fd] = n], N2)
<1> DEFINE G == [H EXCEPT ![fd] = n]
<1>1. G \in [Fds -> Nodes \cup {NoNode}] /\ G[fd] = n /\ \A f \in Fds : f # fd => G[f] = H[f]
  OBVIOUS
<1> HIDE DEF G
<1>2. ASSUME NEW f \in Fds, G[f] # NoNode PROVE N2[G[f]].type = "EVENT" /\ N2[G[f]].fd = f
  <2>1. CASE f = fd
    BY <1>1, <2>1
  <2>2. CASE f # fd
    <3>1. H[f] \in Nodes /\ N[H[f]].type = "EVENT" /\ N[H[f]].fd = f /\ G[f] = H[f]
      BY <1>1, <1>2, <2>2 DEF Hashed
    <3> QED
      BY <3>1 DEF Only
  <2> QED
    BY <2>1, <2>2
<1>3. ASSUME NEW k \in Nodes, N2[k].type = "EVENT", N2[k].fd # Bad
      PROVE  N2[k].fd \in Fds /\ G[N2[k].fd] = k
  <2>1. CASE k = n
    BY <1>1, <2>1
  <2>2. CASE k # n
    <3>1. N[k].fd \in Fds /\ H[N[k].fd] = k /\ N2[k] = N[k]
      BY <1>3, <2>2 DEF Hashed, Only
    <3>2. N[k].fd # fd
      BY <3>1, EventCtlAssumption
    <3> QED
      BY <1>1, <3>1, <3>2
  <2> QED
    BY <2>1, <2>2
<1>4. Hashed(G, N2)
  BY <1>2, <1>3 DEF Hashed
<1> QED
  BY <1>1, <1>4 DEF G

(* hash_release *)
LEMMA HashRemoved ==
    ASSUME NEW H \in [Fds -> Nodes \cup {NoNode}], NEW N, NEW N2, NEW n \in Nodes, NEW fd \in Fds,
           Hashed(H, N), N[n].type = "EVENT", N[n].fd = fd, Only(N2, N, n), N2[n].type # "EVENT"
    PROVE  [H EXCEPT ![fd] = NoNode] \in [Fds -> Nodes \cup {NoNode}]
           /\ Hashed([H EXCEPT ![fd] = NoNode], N2)
<1> DEFINE G == [H EXCEPT ![fd] = NoNode]
<1>1. G \in [Fds -> Nodes \cup {NoNode}] /\ G[fd] = NoNode /\ \A f \in Fds : f # fd => G[f] = H[f]
  OBVIOUS
<1> HIDE DEF G
<1>2. H[fd] = n
  BY BadFd DEF Hashed
<1>3. ASSUME NEW f \in Fds, G[f] # NoNode PROVE N2[G[f]].type = "EVENT" /\ N2[G[f]].fd = f
  <2>1. f # fd /\ H[f] \in Nodes /\ N[H[f]].type = "EVENT" /\ N[H[f]].fd = f /\ G[f] = H[f]
    BY <1>1, <1>3 DEF Hashed
  <2> QED
    BY <2>1 DEF Only
<1>4. ASSUME NEW k \in Nodes, N2[k].type = "EVENT", N2[k].fd # Bad
      PROVE  N2[k].fd \in Fds /\ G[N2[k].fd] = k
  <2>1. k # n
    BY <1>4
  <2>2. N[k].fd \in Fds /\ H[N[k].fd] = k /\ N2[k] = N[k]
    BY <1>4, <2>1 DEF Hashed, Only
  <2>3. N[k].fd # fd
    BY <1>2, <2>1, <2>2
  <2> QED
    BY <1>1, <2>2, <2>3
<1>5. Hashed(G, N2)
  BY <1>3, <1>4 DEF Hashed
<1> QED
  BY <1>1, <1>5 DEF G

(* The handles, when the nodes of descriptors stay such nodes. *)
LEMMA OwnedKept ==
    ASSUME NEW h \in [Fds -> Nodes \cup {NoNode}], NEW N, NEW N2, Owned(h, N),
           \A k \in Nodes :
              \/ N2[k] = N[k]
              \/ ~Watching(N[k]) /\ ~Watching(N2[k])
              \/ Watching(N[k]) /\ Watching(N2[k]) /\ N2[k].add_type = "EVENT" /\ N2[k].fd = N[k].fd
    PROVE  Owned(h, N2)
<1>1. ASSUME NEW fd \in Fds, h[fd] # NoNode
      PROVE  /\ N2[h[fd]].type \in {"EVENT", "READY"}
             /\ N2[h[fd]].add_type = "EVENT"
             /\ N2[h[fd]].fd = fd
  <2>1. /\ h[fd] \in Nodes /\ N[h[fd]].type \in {"EVENT", "READY"}
        /\ N[h[fd]].add_type = "EVENT" /\ N[h[fd]].fd = fd
    BY <1>1 DEF Owned
  <2>2. Watching(N[h[fd]])
    BY <2>1, BadFd DEF Watching
  <2> QED
    BY <2>1, <2>2 DEF Watching
<1>2. ASSUME NEW n \in Nodes, Watching(N2[n]) PROVE N2[n].fd \in Fds /\ h[N2[n].fd] = n
  BY <1>2 DEF Owned
<1> QED
  BY <1>1, <1>2 DEF Owned

(* EVENT_SET of a descriptor that is not watched. *)
LEMMA OwnedAdded ==
    ASSUME NEW h \in [Fds -> Nodes \cup {NoNode}], NEW N, NEW N2, NEW n \in Nodes, NEW fd \in Fds,
           Owned(h, N), h[fd] = NoNode, Only(N2, N, n), ~Watching(N[n]),
           N2[n].type = "EVENT", N2[n].add_type = "EVENT", N2[n].fd = fd
    PROVE  [h EXCEPT ![fd] = n] \in [Fds -> Nodes \cup {NoNode}]
           /\ Owned([h EXCEPT ![fd] = n], N2)
<1> DEFINE g == [h EXCEPT ![fd] = n]
<1>1. g \in [Fds -> Nodes \cup {NoNode}] /\ g[fd] = n /\ \A f \in Fds : f # fd => g[f] = h[f]
  OBVIOUS
<1> HIDE DEF g
<1>2. ASSUME NEW f \in Fds, g[f] # NoNode
      PROVE  /\ N2[g[f]].type \in {"EVENT", "READY"}
             /\ N2[g[f]].add_type = "EVENT"
             /\ N2[g[f]].fd = f
  <2>1. CASE f = fd
    BY <1>1, <2>1
  <2>2. CASE f # fd
    <3>1. /\ h[f] \in Nodes /\ N[h[f]].type \in {"EVENT", "READY"}
          /\ N[h[f]].add_type = "EVENT" /\ N[h[f]].fd = f /\ g[f] = h[f]
      BY <1>1, <1>2, <2>2 DEF Owned
    <3>2. h[f] # n
      BY <3>1, BadFd DEF Watching
    <3> QED
      BY <3>1, <3>2 DEF Only
  <2> QED
    BY <2>1, <2>2
<1>3. ASSUME NEW k \in Nodes, Watching(N2[k]) PROVE N2[k].fd \in Fds /\ g[N2[k].fd] = k
  <2>1. CASE k = n
    BY <1>1, <2>1
  <2>2. CASE k # n
    <3>1. N[k].fd \in Fds /\ h[N[k].fd] = k /\ N2[k] = N[k]
      BY <1>3, <2>2 DEF Owned, Only
    <3>2. N[k].fd # fd
      BY <3>1, EventCtlAssumption
    <3> QED
      BY <1>1, <3>1, <3>2
  <2> QED
    BY <2>1, <2>2
<1>4. Owned(g, N2)
  BY <1>2, <1>3 DEF Owned
<1> QED
  BY <1>1, <1>4 DEF g

(* EVENT_OFF *)
LEMMA OwnedRemoved ==
    ASSUME NEW h \in [Fds -> Nodes \cup {NoNode}], NEW N, NEW N2, NEW n \in Nodes, NEW fd \in Fds,
           Owned(h, N), h[fd] = n, Only(N2, N, n), ~Watching(N2[n])
    PROVE  [h EXCEPT ![fd] = NoNode] \in [Fds -> Nodes \cup {NoNode}]
           /\ Owned([h EXCEPT ![fd] = NoNode], N2)
<1> DEFINE g == [h EXCEPT ![fd] = NoNode]
<1>1. g \in [Fds -> Nodes \cup {NoNode}] /\ g[fd] = NoNode /\ \A f \in Fds : f # fd => g[f] = h[f]
  OBVIOUS
<1> HIDE DEF g
<1>2. n # NoNode
  BY EventCtlAssumption
<1>3. N[n].fd = fd
  BY <1>2 DEF Owned
<1>4. ASSUME NEW f \in Fds, g[f] # NoNode
      PROVE  /\ N2[g[f]].type \in {"EVENT", "READY"}
             /\ N2[g[f]].add_type = "EVENT"
             /\ N2[g[f]].fd = f
  <2>1. /\ f # fd /\ h[f] \in Nodes /\ N[h[f]].type \in {"EVENT", "READY"}
        /\ N[h[f]].add_type = "EVENT" /\ N[h[f]].fd = f /\ g[f] = h[f]
    BY <1>1, <1>4 DEF Owned
  <2>2. h[f] # n
    BY <1>3, <2>1
  <2> QED
    BY <2>1, <2>2 DEF Only
<1>5. ASSUME NEW k \in Nodes, Watching(N2[k]) PROVE N2[k].fd \in Fds /\ g[N2[k].fd] = k
  <2>1. k # n
    BY <1>5
  <2>2. N[k].fd \in Fds /\ h[N[k].fd] = k /\ N2[k] = N[k]
    BY <1>5, <2>1 DEF Owned, Only
  <2>3. N[k].fd # fd
    BY <2>1, <2>2
  <2> QED
    BY <1>1, <2>2, <2>3
<1>6. Owned(g, N2)
  BY <1>4, <1>5 DEF Owned
<1> QED
  BY <1>1, <1>6 DEF g

-----------------------------------------------------------------------------
(* The timerfd. *)

(* It stays right when no timer is added, removed or moved. *)
LEMMA ArmedKept ==
    ASSUME NEW armed, NEW alarm, NEW N, NEW N2, ArmedFor(armed, alarm, N),
           \A k \in Nodes : /\ (N2[k].type \in Kinds) <=> (N[k].type \in Kinds)
                            /\ N[k].type \in Kinds => N2[k].time = N[k].time
    PROVE  ArmedFor(armed, alarm, N2)
<1>1. {n \in Nodes : N2[n].type \in Kinds} = {n \in Nodes : N[n].type \in Kinds}
  OBVIOUS
<1> QED
  BY <1>1 DEF ArmedFor

(* event_timer_get: the first of the nodes N that the lists hold. *)
LEMMA FirstTimer ==
    ASSUME NEW x \in MasterType, NEW N \in [Nodes -> NodeRec],
           \A k \in Nodes : N[k].time = x.node[k].time,
           IsListOf(x.timer, "TIMER", N), IsListOf(x.rear, "REAR", N),
           InOrder(x.timer, N), InOrder(x.rear, N)
    PROVE  LET n == event_timer_get(x)
               waiting == {k \in Nodes : N[k].type \in Kinds}
           IN  /\ n \in Nodes \cup {NoNode}
               /\ n = NoNode <=> waiting = {}
               /\ n # NoNode => n \in waiting /\ \A k \in waiting : N[n].time <= N[k].time
<1> DEFINE n == event_timer_get(x)
<1>1. \A list \in Seq(Nodes) : list # <<>> => Head(list) = list[1] /\ 1 \in DOMAIN list
        /\ list[1] \in Range(list) /\ list[1] \in Nodes
  BY TailOf DEF Range
<1>2. x.timer \in Seq(Nodes) /\ x.rear \in Seq(Nodes)
  BY DEF MasterType
<1>3. \A k \in Nodes : N[k].time \in Nat
  BY DEF NodeRec
<1>4. ASSUME NEW list \in Seq(Nodes), list # <<>>, InOrder(list, N), NEW k \in Range(list)
      PROVE  N[Head(list)].time <= N[k].time
  <2>1. PICK i \in DOMAIN list : k = list[i]
    BY DEF Range
  <2>2. DOMAIN list = 1 .. Len(list)
    OBVIOUS
  <2>3. CASE i = 1
    BY <1>1, <1>3, <1>4, <2>1, <2>3
  <2>4. CASE i # 1
    <3>1. 1 < i
      BY <2>2, <2>4
    <3> QED
      BY <1>1, <1>4, <2>1, <3>1 DEF InOrder
  <2> QED
    BY <2>3, <2>4
<1>5. \A k \in Nodes : N[k].type \in Kinds <=> k \in Range(x.timer) \/ k \in Range(x.rear)
  BY DEF IsListOf, Kinds
<1>6. \A list \in Seq(Nodes) : list = <<>> => Range(list) = {}
  BY DEF Range
<1>7. CASE x.rear = <<>> /\ x.timer = <<>>
  BY <1>2, <1>5, <1>6, <1>7 DEF event_timer_get
<1>8. CASE x.rear = <<>> /\ x.timer # <<>>
  <2>1. n = Head(x.timer) /\ n \in Nodes /\ n \in Range(x.timer)
    BY <1>1, <1>2, <1>8 DEF event_timer_get
  <2>2. \A k \in Nodes : N[k].type \in Kinds => k \in Range(x.timer)
    BY <1>2, <1>5, <1>6, <1>8
  <2> QED
    BY <1>2, <1>4, <1>5, <1>8, <2>1, <2>2, EventCtlAssumption
<1>9. CASE x.rear # <<>> /\ x.timer = <<>>
  <2>1. n = Head(x.rear) /\ n \in Nodes /\ n \in Range(x.rear)
    BY <1>1, <1>2, <1>9 DEF event_timer_get
  <2>2. \A k \in Nodes : N[k].type \in Kinds => k \in Range(x.rear)
    BY <1>2, <1>5, <1>6, <1>9
  <2> QED
    BY <1>2, <1>4, <1>5, <1>9, <2>1, <2>2, EventCtlAssumption
<1>10. CASE x.rear # <<>> /\ x.timer # <<>>
  <2> DEFINE r == Head(x.rear)
             t == Head(x.timer)
  <2>1. /\ r \in Nodes /\ r \in Range(x.rear) /\ t \in Nodes /\ t \in Range(x.timer)
        /\ n = IF N[r].time > N[t].time THEN t ELSE r
    BY <1>1, <1>2, <1>10 DEF event_timer_get
  <2>2. /\ \A k \in Range(x.timer) : N[t].time <= N[k].time
        /\ \A k \in Range(x.rear) : N[r].time <= N[k].time
    BY <1>2, <1>4, <1>10
  <2> HIDE DEF r, t, n
  <2>3. n \in Nodes /\ N[n].type \in Kinds
    BY <1>5, <2>1
  <2>4. N[n].time <= N[t].time /\ N[n].time <= N[r].time
    BY <1>3, <2>1
  <2>5. ASSUME NEW k \in Nodes, N[k].type \in Kinds PROVE N[n].time <= N[k].time
    BY <1>3, <1>5, <2>1, <2>2, <2>3, <2>4, <2>5
  <2> QED
    BY <2>3, <2>5, EventCtlAssumption DEF n
<1> QED
  BY <1>7, <1>8, <1>9, <1>10

(* y is x but for the timerfd. *)
SameLists(y, x) ==
    /\ y \in MasterType
    /\ y.node = x.node
    /\ y.timer = x.timer /\ y.rear = x.rear /\ y.ready = x.ready /\ y.unuse = x.unuse
    /\ y.hash = x.hash

(* event_timer_reset arms it for the nodes N that the lists hold.  Within  *)
(* event_cancel these are not yet the nodes of the master.                 *)
LEMMA ResetArms ==
    ASSUME NEW x \in MasterType, NEW N \in [Nodes -> NodeRec],
           \A k \in Nodes : N[k].time = x.node[k].time,
           IsListOf(x.timer, "TIMER", N), IsListOf(x.rear, "REAR", N),
           InOrder(x.timer, N), InOrder(x.rear, N),
           (x.armed = NoNode) <=> (x.alarm = Never)
    PROVE  LET y == event_timer_reset(x) IN
           SameLists(y, x) /\ ArmedFor(y.armed, y.alarm, N)
<1> DEFINE n == event_timer_get(x)
           y == event_timer_reset(x)
           waiting == {k \in Nodes : N[k].type \in Kinds}
<1>1. /\ n \in Nodes \cup {NoNode}
      /\ n = NoNode <=> waiting = {}
      /\ n # NoNode => n \in waiting /\ \A k \in waiting : N[n].time <= N[k].time
  BY FirstTimer
<1>2. y = IF n # NoNode THEN event_timer_set(x, n)
          ELSE IF x.armed # NoNode THEN [x EXCEPT !.armed = NoNode, !.alarm = Never] ELSE x
  BY DEF event_timer_reset
<1>3. \A k \in Nodes : N[k].time \in Nat
  BY DEF NodeRec
<1> HIDE DEF n, y
<1>4. CASE n # NoNode
  <2>1. y = [x EXCEPT !.armed = n, !.alarm = N[n].time] /\ n \in Nodes
    BY <1>1, <1>2, <1>4 DEF event_timer_set
  <2>2. SameLists(y, x) /\ y.armed = n /\ y.alarm = N[n].time
    BY <1>3, <2>1 DEF MasterType, SameLists
  <2>3. y.alarm # Never
    BY <1>3, <2>1, <2>2 DEF Never
  <2> QED
    BY <1>1, <1>4, <2>2, <2>3 DEF ArmedFor, y
<1>5. CASE n = NoNode
  <2>1. SameLists(y, x) /\ y.armed = NoNode /\ y.alarm = Never
    <3>1. CASE x.armed # NoNode
      <4>1. y = [x EXCEPT !.armed = NoNode, !.alarm = Never]
        BY <1>2, <1>5, <3>1
      <4> QED
        BY <4>1 DEF MasterType, SameLists
    <3>2. CASE x.armed = NoNode
      BY <1>2, <1>5, <3>2 DEF MasterType, SameLists
    <3> QED
      BY <3>1, <3>2
  <2> QED
    BY <1>1, <1>5, <2>1 DEF ArmedFor, y
<1> QED
  BY <1>4, <1>5

-----------------------------------------------------------------------------
(* The functions of the code keep Core. *)

(* The node that event_node_get takes is not in use. *)
LEMMA NextIsUnused ==
    ASSUME NEW x, NEW h, Core(x, h), CanGet(x)
    PROVE  NextNode(x) \in Nodes /\ x.node[NextNode(x)].type \in {"UNUSED", "FREE"}
<1>1. CASE x.unuse # <<>>
  <2>1. Head(x.unuse) \in Range(x.unuse)
    BY <1>1, TailOf DEF Core, MasterType, Range
  <2> QED
    BY <1>1, <2>1 DEF Core, Placed, IsListOf, NextNode
<1>2. CASE x.unuse = <<>>
  <2>1. \E n \in Nodes : x.node[n].type = "FREE"
    BY <1>2 DEF CanGet
  <2> QED
    BY <1>2, <2>1 DEF NextNode
<1> QED
  BY <1>1, <1>2

(* The unused nodes without the one that is taken, if it was one. *)
LEMMA UnuseShrinks ==
    ASSUME NEW x, NEW h, Core(x, h), NEW n \in Nodes, x.node[n].type \in {"UNUSED", "FREE"},
           NEW N2, Only(N2, x.node, n), N2[n].type \in Kinds \cup {"EVENT"}
    PROVE  /\ Without(x.unuse, n) \in Seq(Nodes)
           /\ IsListOf(Without(x.unuse, n), "UNUSED", N2)
<1>1. \A k \in Nodes : (N2[k].type = "UNUSED") <=> (x.node[k].type = "UNUSED" /\ k # n)
  BY DEF Only, Kinds
<1>2. x.unuse \in Seq(Nodes) /\ IsListOf(x.unuse, "UNUSED", x.node)
  BY DEF Core, Placed, MasterType
<1> QED
  BY <1>1, <1>2, ListWithout

(* The parts of the master after event_timer_add. *)
Inserted(list, N, n, time) == Between(list, n, {k \in Nodes : N[k].time > time})

(* event_timer_add_itimerspec sets the node, one list, and the timerfd if  *)
(* the new time is earlier.                                                *)
LEMMA AddParts ==
    ASSUME NEW x \in MasterType, NEW kind \in Kinds, NEW time \in Nat,
           NEW n \in Nodes, n = NextNode(x), Without(x.unuse, n) \in Seq(Nodes),
           NEW new \in Seq(Nodes), new = Inserted(ListOf(x, kind), x.node, n, time)
    PROVE  LET y == event_timer_add(x, kind, time) IN
           /\ y \in MasterType
           /\ Only(y.node, x.node, n)
           /\ y.node[n] = [type |-> kind, add_type |-> kind, fd |-> x.node[n].fd, time |-> time]
           /\ y.timer = IF kind = "TIMER" THEN new ELSE x.timer
           /\ y.rear = IF kind = "TIMER" THEN x.rear ELSE new
           /\ y.ready = x.ready /\ y.unuse = Without(x.unuse, n) /\ y.hash = x.hash
           /\ IF x.armed = NoNode \/ x.node[x.armed].time > time
                THEN y.armed = n /\ y.alarm = time
                ELSE y.armed = x.armed /\ y.alarm = x.alarm
<1> DEFINE e == event_node_get(x, kind)
           b == [e EXCEPT !.node[n].time = time]
           z == WithList(b, kind, new)
           y == event_timer_add(x, kind, time)
           r == [type |-> kind, add_type |-> kind, fd |-> x.node[n].fd, time |-> time]
<1>1. Gets(e, x, n, [type |-> kind, add_type |-> kind, fd |-> x.node[n].fd,
                     time |-> x.node[n].time], Without(x.unuse, n))
  BY GetParts DEF Kinds, Types
<1> HIDE DEF e
<1>2. e \in MasterType
  BY <1>1 DEF Gets
<1>3. Sets(b, e, n, [type |-> e.node[n].type, add_type |-> e.node[n].add_type,
                     fd |-> e.node[n].fd, time |-> time])
  BY <1>2, SetTime
<1>4. e.node[n].type = kind /\ e.node[n].add_type = kind /\ e.node[n].fd = x.node[n].fd
  BY <1>1 DEF Gets
<1>5. y = IF x.armed = NoNode THEN event_timer_set(z, n)
          ELSE IF x.node[x.armed].time > time THEN event_timer_set(z, n) ELSE z
  BY DEF event_timer_add, Inserted, Between, e
<1> HIDE DEF b
<1>6. Gets(b, x, n, r, Without(x.unuse, n))
  BY <1>1, <1>3, <1>4, GetsSets
<1> HIDE DEF r, y
<1>7. /\ z \in MasterType /\ z.node = b.node
      /\ z.timer = IF kind = "TIMER" THEN new ELSE b.timer
      /\ z.rear = IF kind = "TIMER" THEN b.rear ELSE new
      /\ z.ready = b.ready /\ z.unuse = b.unuse /\ z.hash = b.hash
      /\ z.armed = b.armed /\ z.alarm = b.alarm
  <2>1. b \in MasterType
    BY <1>6 DEF Gets
  <2>2. CASE kind = "TIMER"
    BY <2>1, <2>2 DEF MasterType, WithList
  <2>3. CASE kind # "TIMER"
    BY <2>1, <2>3 DEF MasterType, WithList
  <2> QED
    BY <2>2, <2>3
<1> HIDE DEF z
<1>8. z.node[n].time = time
  BY <1>6, <1>7 DEF Gets, r
<1>9. CASE x.armed = NoNode \/ x.node[x.armed].time > time
  <2>1. y = [z EXCEPT !.armed = n, !.alarm = time]
    BY <1>5, <1>8, <1>9 DEF event_timer_set
  <2>2. SameLists(y, z) /\ y.armed = n /\ y.alarm = time
    BY <1>7, <2>1 DEF MasterType, SameLists
  <2> QED
    BY <1>6, <1>7, <1>9, <2>2 DEF Gets, SameLists, r, y
<1>10. CASE ~(x.armed = NoNode \/ x.node[x.armed].time > time)
  <2>1. y = z
    BY <1>5, <1>10
  <2> QED
    BY <1>6, <1>7, <1>10, <2>1 DEF Gets, r, y
<1> QED
  BY <1>9, <1>10

(* event_timer_add_itimerspec *)
LEMMA AddCore ==
    ASSUME NEW x, NEW h \in [Fds -> Nodes \cup {NoNode}], Core(x, h), CanGet(x),
           ArmedFor(x.armed, x.alarm, x.node), NEW kind \in Kinds, NEW time \in Nat
    PROVE  LET y == event_timer_add(x, kind, time) IN
           /\ Core(y, h)
           /\ ArmedFor(y.armed, y.alarm, y.node)
           /\ y.ready = x.ready
           /\ \A k \in Nodes : x.node[k].type = "READY" => y.node[k] = x.node[k]
           /\ Made(y.node, x.node, NextNode(x), kind, kind, time)
<1> DEFINE n == NextNode(x)
           N == x.node
           list == ListOf(x, kind)
           Later == {k \in Nodes : N[k].time > time}
           new == Inserted(list, N, n, time)
           y == event_timer_add(x, kind, time)
           r == [type |-> kind, add_type |-> kind, fd |-> N[n].fd, time |-> time]
           M == [k \in Nodes |-> IF k = n THEN r ELSE N[k]]
<1>1. n \in Nodes /\ N[n].type \in {"UNUSED", "FREE"}
  BY NextIsUnused
<1>2. x \in MasterType /\ N \in [Nodes -> NodeRec] /\ list \in Seq(Nodes) /\ r \in NodeRec
      /\ x.armed \in Nodes \cup {NoNode} /\ x.hash \in [Fds -> Nodes \cup {NoNode}]
      /\ x.timer \in Seq(Nodes) /\ x.rear \in Seq(Nodes) /\ x.ready \in Seq(Nodes)
  BY <1>1 DEF Core, MasterType, NodeRec, ListOf, Kinds, Types
<1>3. Only(M, N, n) /\ M[n] = r
  BY <1>1, <1>2 DEF Only
<1>4. M[n].type = kind /\ M[n].time = time /\ M[n].add_type = kind /\ kind # "READY"
      /\ kind # "UNUSED" /\ kind # "EVENT" /\ kind # "FREE"
  BY <1>3 DEF Kinds
<1> HIDE DEF M
<1>5. /\ new \in Seq(Nodes) /\ IsListOf(new, kind, M) /\ InOrder(new, M)
  <2>1. N[n].type # kind
    BY <1>1 DEF Kinds
  <2>2. IsListOf(list, kind, N) /\ InOrder(list, N)
    BY DEF Core, Placed, ListOf, Kinds
  <2>3. Later = {k \in Nodes : N[k].time > M[n].time}
    BY <1>4
  <2> HIDE DEF Later, n, list, N
  <2>4. list \in Seq(Nodes) /\ N \in [Nodes -> NodeRec] /\ n \in Nodes /\ M[n].type = kind
    BY <1>1, <1>2, <1>4
  <2>5. Only(M, N, n)
    BY <1>3
  <2>6. /\ Between(list, n, Later) \in Seq(Nodes)
        /\ IsListOf(Between(list, n, Later), kind, M)
        /\ InOrder(Between(list, n, Later), M)
    BY <2>1, <2>2, <2>3, <2>4, <2>5, ListInserted
  <2> QED
    BY <2>6 DEF Inserted, Later
<1>6. Without(x.unuse, n) \in Seq(Nodes) /\ IsListOf(Without(x.unuse, n), "UNUSED", M)
  BY <1>1, <1>3, <1>4, UnuseShrinks
<1> HIDE DEF n, list, new
<1>7. /\ y \in MasterType
      /\ Only(y.node, N, n)
      /\ y.node[n] = r
      /\ y.timer = IF kind = "TIMER" THEN new ELSE x.timer
      /\ y.rear = IF kind = "TIMER" THEN x.rear ELSE new
      /\ y.ready = x.ready /\ y.unuse = Without(x.unuse, n) /\ y.hash = x.hash
      /\ IF x.armed = NoNode \/ N[x.armed].time > time
           THEN y.armed = n /\ y.alarm = time
           ELSE y.armed = x.armed /\ y.alarm = x.alarm
  BY <1>1, <1>2, <1>5, <1>6, AddParts DEF n, list, new
<1>8. y.node = M
  BY <1>3, <1>7 DEF Only
<1> HIDE DEF y, N, r
<1>9. \A k \in Nodes : k # n => M[k] = N[k]
  BY <1>3 DEF Only
<1>10. /\ IsListOf(y.timer, "TIMER", M) /\ InOrder(y.timer, M)
       /\ IsListOf(y.rear, "REAR", M) /\ InOrder(y.rear, M)
  <2>1. /\ IsListOf(x.timer, "TIMER", N) /\ InOrder(x.timer, N)
        /\ IsListOf(x.rear, "REAR", N) /\ InOrder(x.rear, N)
    BY DEF Core, Placed, N
  <2>2. n \notin Range(x.timer) /\ n \notin Range(x.rear)
        /\ Range(x.timer) \subseteq Nodes /\ Range(x.rear) \subseteq Nodes
    BY <1>1, <2>1 DEF IsListOf
  <2>3. InOrder(x.timer, M) /\ InOrder(x.rear, M)
    <3>1. \A list0 \in {x.timer, x.rear} : \A k \in Range(list0) : M[k].time = N[k].time
      BY <1>9, <2>2
    <3> QED
      BY <1>2, <2>1, <3>1, OrderKept
  <2>4. CASE kind = "TIMER"
    <3>1. IsListOf(x.rear, "REAR", M)
      BY <1>1, <1>4, <1>9, <2>1, <2>4, ListKept
    <3> QED
      BY <1>5, <1>7, <2>3, <2>4, <3>1
  <2>5. CASE kind = "REAR"
    <3>1. IsListOf(x.timer, "TIMER", M)
      BY <1>1, <1>4, <1>9, <2>1, <2>5, ListKept
    <3> QED
      BY <1>5, <1>7, <2>3, <2>5, <3>1
  <2> QED
    BY <2>4, <2>5 DEF Kinds
<1>11. IsListOf(y.ready, "READY", M)
  <2>1. IsListOf(x.ready, "READY", N)
    BY DEF Core, Placed, N
  <2> QED
    BY <1>1, <1>4, <1>7, <1>9, <2>1, ListKept
<1>12. Hashed(y.hash, M)
  <2>1. Hashed(x.hash, N)
    BY DEF Core, Placed, N
  <2>2. \A k \in Nodes : \/ M[k] = N[k]
                         \/ N[k].type # "EVENT" /\ (M[k].type # "EVENT" \/ M[k].fd = Bad)
    BY <1>1, <1>4, <1>9
  <2>3. x.hash \in [Fds -> Nodes \cup {NoNode}] /\ y.hash = x.hash
    BY <1>2, <1>7
  <2>4. Hashed(x.hash, M)
    BY <2>1, <2>2, <2>3, HashKept
  <2> QED
    BY <2>3, <2>4
<1>13. Added(M)
  <2>1. Added(N)
    BY DEF Core, N
  <2> QED
    BY <1>4, <1>9, <2>1 DEF Added
<1>14. Owned(h, M)
  <2>1. Owned(h, N)
    BY DEF Core, N
  <2>2. \A k \in Nodes : M[k] = N[k] \/ (~Watching(N[k]) /\ ~Watching(M[k]))
    BY <1>1, <1>4, <1>9 DEF Watching
  <2> QED
    BY <2>1, <2>2, OwnedKept
<1>15. ArmedFor(y.armed, y.alarm, M)
  <2> DEFINE before == {k \in Nodes : N[k].type \in Kinds}
             waiting == {k \in Nodes : M[k].type \in Kinds}
  <2>1. waiting = before \cup {n} /\ n \notin before
    BY <1>1, <1>4, <1>9 DEF Kinds
  <2>2. /\ (x.armed = NoNode) <=> (before = {})
        /\ (x.armed = NoNode) <=> (x.alarm = Never)
        /\ before # {} => /\ x.armed \in before /\ x.alarm = N[x.armed].time
                          /\ \A k \in before : x.alarm <= N[k].time
    BY DEF ArmedFor, N
  <2>3. \A k \in Nodes : M[k].time \in Nat /\ N[k].time \in Nat
    BY <1>2, <1>3 DEF Only, NodeRec
  <2>4. \A k \in before : M[k] = N[k] /\ k \in Nodes /\ k # n
    BY <1>9, <2>1
  <2> HIDE DEF before, waiting
  <2>5. CASE x.armed = NoNode
    <3>1. y.armed = n /\ y.alarm = time /\ waiting = {n}
      BY <1>7, <2>1, <2>2, <2>5
    <3> QED
      BY <1>1, <1>4, <3>1, EventCtlAssumption DEF ArmedFor, Never, waiting
  <2>6. CASE x.armed # NoNode /\ N[x.armed].time > time
    <3>1. y.armed = n /\ y.alarm = time /\ x.armed \in before
      BY <1>7, <2>2, <2>6
    <3>2. \A k \in before : time <= M[k].time
      BY <2>2, <2>3, <2>4, <2>6, <3>1
    <3>3. \A k \in waiting : time <= M[k].time
      BY <1>4, <2>1, <3>2
    <3> QED
      BY <1>1, <1>4, <2>1, <3>1, <3>3, EventCtlAssumption DEF ArmedFor, Never, waiting
  <2>7. CASE x.armed # NoNode /\ ~(N[x.armed].time > time)
    <3>1. y.armed = x.armed /\ y.alarm = x.alarm /\ x.armed \in before /\ x.alarm # Never
          /\ x.alarm = M[x.armed].time
      BY <1>7, <2>2, <2>4, <2>7
    <3>2. \A k \in waiting : x.alarm <= M[k].time
      BY <1>4, <2>1, <2>2, <2>3, <2>4, <2>7, <3>1
    <3> QED
      BY <2>1, <3>1, <3>2, <2>7 DEF ArmedFor, waiting
  <2> QED
    BY <2>5, <2>6, <2>7
<1>16. (y.armed = NoNode) <=> (y.alarm = Never)
  BY <1>15 DEF ArmedFor
<1>17. Core(y, h)
  BY <1>6, <1>7, <1>8, <1>10, <1>11, <1>12, <1>13, <1>14, <1>16 DEF Core, Placed
<1>18. \A k \in Nodes : N[k].type = "READY" => M[k] = N[k]
  BY <1>1, <1>9
<1>19. Made(M, N, n, kind, kind, time)
  BY <1>3, <1>4 DEF Made
<1> QED
  BY <1>7, <1>8, <1>15, <1>17, <1>18, <1>19 DEF y, N, n

(* event_epoll_add up to epoll_ctl: the node of type EVENT. *)
LEMMA EventParts ==
    ASSUME NEW x \in MasterType, NEW n \in Nodes, n = NextNode(x), NEW fd \in NodeFd,
           Without(x.unuse, n) \in Seq(Nodes)
    PROVE  Gets([event_node_get(x, "EVENT") EXCEPT !.node[n].fd = fd], x, n,
                [type |-> "EVENT", add_type |-> "EVENT", fd |-> fd, time |-> x.node[n].time],
                Without(x.unuse, n))
<1> DEFINE e == event_node_get(x, "EVENT")
           b == [e EXCEPT !.node[n].fd = fd]
<1>1. Gets(e, x, n, [type |-> "EVENT", add_type |-> "EVENT", fd |-> x.node[n].fd,
                     time |-> x.node[n].time], Without(x.unuse, n))
  BY GetParts DEF Types
<1> HIDE DEF e
<1>2. e \in MasterType
  BY <1>1 DEF Gets
<1>3. Sets(b, e, n, [type |-> e.node[n].type, add_type |-> e.node[n].add_type,
                     fd |-> fd, time |-> e.node[n].time])
  BY <1>2, SetFd
<1>4. e.node[n].type = "EVENT" /\ e.node[n].add_type = "EVENT" /\ e.node[n].time = x.node[n].time
  BY <1>1 DEF Gets
<1> HIDE DEF b
<1> QED
  BY <1>1, <1>3, <1>4, GetsSets DEF b, e

(* What of Core a new node of type EVENT leaves as it is. *)
LEMMA EventCore ==
    ASSUME NEW x, NEW y, NEW h, Core(x, h), NEW n \in Nodes, x.node[n].type \in {"UNUSED", "FREE"},
           NEW fd, Gets(y, x, n, [type |-> "EVENT", add_type |-> "EVENT", fd |-> fd,
                                  time |-> x.node[n].time], Without(x.unuse, n))
    PROVE  /\ IsListOf(y.timer, "TIMER", y.node) /\ IsListOf(y.rear, "REAR", y.node)
           /\ IsListOf(y.ready, "READY", y.node) /\ IsListOf(y.unuse, "UNUSED", y.node)
           /\ Added(y.node)
           /\ InOrder(y.timer, y.node) /\ InOrder(y.rear, y.node)
           /\ (y.armed = NoNode) <=> (y.alarm = Never)
           /\ \A k \in Nodes : x.node[k].type = "READY" => y.node[k] = x.node[k]
           /\ \A k \in Nodes : /\ (y.node[k].type \in Kinds) <=> (x.node[k].type \in Kinds)
                               /\ x.node[k].type \in Kinds => y.node[k].time = x.node[k].time
<1> DEFINE N == x.node
           M == y.node
<1>1. /\ \A k \in Nodes : k # n => M[k] = N[k]
      /\ M[n].type = "EVENT" /\ M[n].add_type = "EVENT" /\ M[n].time = N[n].time
      /\ y.timer = x.timer /\ y.rear = x.rear /\ y.ready = x.ready
      /\ y.armed = x.armed /\ y.alarm = x.alarm
      /\ y.unuse = Without(x.unuse, n) /\ Only(M, N, n)
  BY DEF Gets, Only
<1>2. /\ IsListOf(x.timer, "TIMER", N) /\ IsListOf(x.rear, "REAR", N)
      /\ IsListOf(x.ready, "READY", N) /\ IsListOf(x.unuse, "UNUSED", N)
      /\ Added(N) /\ InOrder(x.timer, N) /\ InOrder(x.rear, N)
      /\ (x.armed = NoNode) <=> (x.alarm = Never)
      /\ x.timer \in Seq(Nodes) /\ x.rear \in Seq(Nodes)
  BY DEF Core, Placed, MasterType
<1>3. IsListOf(y.unuse, "UNUSED", M)
  BY <1>1, UnuseShrinks
<1> HIDE DEF N, M
<1>4. N[n].type \in {"UNUSED", "FREE"}
  BY DEF N
<1>5. /\ IsListOf(y.timer, "TIMER", M) /\ IsListOf(y.rear, "REAR", M)
      /\ IsListOf(y.ready, "READY", M)
  <2>1. \A type \in {"TIMER", "REAR", "READY"} : \A k \in Nodes :
          (M[k].type = type) <=> (N[k].type = type)
    BY <1>1, <1>4
  <2> QED
    BY <1>1, <1>2, <2>1, ListKept
<1>6. InOrder(y.timer, M) /\ InOrder(y.rear, M)
  <2>1. \A k \in Nodes : M[k].time = N[k].time
    BY <1>1
  <2>2. Range(x.timer) \subseteq Nodes /\ Range(x.rear) \subseteq Nodes
    BY <1>2 DEF IsListOf
  <2> QED
    BY <1>1, <1>2, <2>1, <2>2, OrderKept
<1>7. Added(M)
  BY <1>1, <1>2 DEF Added, Kinds
<1>8. \A k \in Nodes : /\ N[k].type = "READY" => M[k] = N[k]
                       /\ (M[k].type \in Kinds) <=> (N[k].type \in Kinds)
                       /\ M[k].time = N[k].time
  BY <1>1, <1>4 DEF Kinds
<1> QED
  BY <1>1, <1>2, <1>3, <1>5, <1>6, <1>7, <1>8 DEF N, M

(* event_epoll_add of a descriptor that is not watched yet. *)
LEMMA WatchCore ==
    ASSUME NEW x, NEW h \in [Fds -> Nodes \cup {NoNode}], Core(x, h), CanGet(x),
           ArmedFor(x.armed, x.alarm, x.node), NEW fd \in Fds, h[fd] = NoNode
    PROVE  LET n == NextNode(x)
               y == HashAdd([event_node_get(x, "EVENT") EXCEPT !.node[n].fd = fd], fd, n)
           IN  /\ Core(y, [h EXCEPT ![fd] = n])
               /\ ArmedFor(y.armed, y.alarm, y.node)
               /\ y.ready = x.ready
               /\ \A k \in Nodes : x.node[k].type = "READY" => y.node[k] = x.node[k]
               /\ Made(y.node, x.node, n, "EVENT", "EVENT", x.node[n].time)
<1> DEFINE n == NextNode(x)
           b == [event_node_get(x, "EVENT") EXCEPT !.node[n].fd = fd]
           y == HashAdd(b, fd, n)
           N == x.node
           H == [x.hash EXCEPT ![fd] = n]
<1>1. n \in Nodes /\ N[n].type \in {"UNUSED", "FREE"}
  BY NextIsUnused
<1>2. x \in MasterType /\ N \in [Nodes -> NodeRec] /\ x.unuse \in Seq(Nodes)
      /\ x.hash \in [Fds -> Nodes \cup {NoNode}] /\ Hashed(x.hash, N) /\ Owned(h, N)
  BY DEF Core, MasterType, Placed
<1>3. Without(x.unuse, n) \in Seq(Nodes)
  BY <1>2, KeepLeaves DEF Without
<1>4. fd \in NodeFd /\ fd # Bad
  BY BadFd
<1>5. x.hash[fd] = NoNode
  <2>1. SUFFICES ASSUME x.hash[fd] # NoNode PROVE FALSE
    OBVIOUS
  <2>2. x.hash[fd] \in Nodes /\ N[x.hash[fd]].type = "EVENT" /\ N[x.hash[fd]].fd = fd
    BY <1>2, <2>1 DEF Hashed
  <2>3. h[fd] = x.hash[fd]
    BY <1>2, <1>4, <2>2 DEF Owned, Watching
  <2> QED
    BY <2>2, <2>3, EventCtlAssumption
<1>6. Gets(b, x, n, [type |-> "EVENT", add_type |-> "EVENT", fd |-> fd, time |-> N[n].time],
           Without(x.unuse, n))
  BY <1>1, <1>2, <1>3, <1>4, EventParts
<1> HIDE DEF n, b, N
<1>7. /\ IsListOf(b.timer, "TIMER", b.node) /\ IsListOf(b.rear, "REAR", b.node)
      /\ IsListOf(b.ready, "READY", b.node) /\ IsListOf(b.unuse, "UNUSED", b.node)
      /\ Added(b.node)
      /\ InOrder(b.timer, b.node) /\ InOrder(b.rear, b.node)
      /\ (b.armed = NoNode) <=> (b.alarm = Never)
      /\ \A k \in Nodes : x.node[k].type = "READY" => b.node[k] = x.node[k]
      /\ \A k \in Nodes : /\ (b.node[k].type \in Kinds) <=> (x.node[k].type \in Kinds)
                          /\ x.node[k].type \in Kinds => b.node[k].time = x.node[k].time
  BY <1>1, <1>6, EventCore DEF N
<1>8. /\ b \in MasterType /\ Only(b.node, N, n) /\ b.node[n].type = "EVENT"
      /\ b.node[n].add_type = "EVENT" /\ b.node[n].fd = fd
      /\ b.hash = x.hash /\ b.armed = x.armed /\ b.alarm = x.alarm /\ b.ready = x.ready
  BY <1>6 DEF Gets, N
<1>9. H \in [Fds -> Nodes \cup {NoNode}] /\ Hashed(H, b.node)
  BY <1>1, <1>2, <1>5, <1>8, HashAdded
<1>10. Owned([h EXCEPT ![fd] = n], b.node)
  <2>1. ~Watching(N[n])
    BY <1>1 DEF Watching
  <2> QED
    BY <1>1, <1>2, <1>8, <2>1, OwnedAdded
<1>11. /\ y \in MasterType /\ y.node = b.node
       /\ y.timer = b.timer /\ y.rear = b.rear /\ y.ready = b.ready /\ y.unuse = b.unuse
       /\ y.hash = H /\ y.armed = b.armed /\ y.alarm = b.alarm
  <2>1. y = [b EXCEPT !.hash = H]
    BY <1>2, <1>5, <1>8 DEF HashAdd, MasterType
  <2> HIDE DEF H, y
  <2> QED
    BY <1>8, <1>9, <2>1 DEF MasterType
<1>12. ArmedFor(b.armed, b.alarm, b.node)
  BY <1>7, <1>8, ArmedKept
<1> HIDE DEF y, H
<1>13. Core(y, [h EXCEPT ![fd] = n])
  BY <1>7, <1>9, <1>10, <1>11 DEF Core, Placed
<1>14. Made(b.node, N, n, "EVENT", "EVENT", N[n].time)
  BY <1>6, <1>8 DEF Gets, Made
<1> QED
  BY <1>7, <1>8, <1>11, <1>12, <1>13, <1>14 DEF n, y, b, N

(* event_epoll_add of a socket that was closed. *)
LEMMA WatchClosedCore ==
    ASSUME NEW x, NEW h \in [Fds -> Nodes \cup {NoNode}], Core(x, h), CanGet(x),
           ArmedFor(x.armed, x.alarm, x.node)
    PROVE  LET y == [event_node_get(x, "EVENT") EXCEPT !.node[NextNode(x)].fd = Bad] IN
           /\ Core(y, h)
           /\ ArmedFor(y.armed, y.alarm, y.node)
           /\ y.ready = x.ready
           /\ \A k \in Nodes : x.node[k].type = "READY" => y.node[k] = x.node[k]
           /\ Made(y.node, x.node, NextNode(x), "EVENT", "EVENT", x.node[NextNode(x)].time)
<1> DEFINE n == NextNode(x)
           y == [event_node_get(x, "EVENT") EXCEPT !.node[n].fd = Bad]
           N == x.node
<1>1. n \in Nodes /\ N[n].type \in {"UNUSED", "FREE"}
  BY NextIsUnused
<1>2. x \in MasterType /\ N \in [Nodes -> NodeRec] /\ x.unuse \in Seq(Nodes)
      /\ x.hash \in [Fds -> Nodes \cup {NoNode}] /\ Hashed(x.hash, N) /\ Owned(h, N)
  BY DEF Core, MasterType, Placed
<1>3. Without(x.unuse, n) \in Seq(Nodes)
  BY <1>2, KeepLeaves DEF Without
<1>4. Bad \in NodeFd
  BY DEF NodeFd
<1>5. Gets(y, x, n, [type |-> "EVENT", add_type |-> "EVENT", fd |-> Bad, time |-> N[n].time],
           Without(x.unuse, n))
  BY <1>1, <1>2, <1>3, <1>4, EventParts
<1> HIDE DEF n, y, N
<1>6. /\ IsListOf(y.timer, "TIMER", y.node) /\ IsListOf(y.rear, "REAR", y.node)
      /\ IsListOf(y.ready, "READY", y.node) /\ IsListOf(y.unuse, "UNUSED", y.node)
      /\ Added(y.node)
      /\ InOrder(y.timer, y.node) /\ InOrder(y.rear, y.node)
      /\ (y.armed = NoNode) <=> (y.alarm = Never)
      /\ \A k \in Nodes : x.node[k].type = "READY" => y.node[k] = x.node[k]
      /\ \A k \in Nodes : /\ (y.node[k].type \in Kinds) <=> (x.node[k].type \in Kinds)
                          /\ x.node[k].type \in Kinds => y.node[k].time = x.node[k].time
  BY <1>1, <1>5, EventCore DEF N
<1>7. /\ y \in MasterType /\ Only(y.node, N, n) /\ y.node[n].type = "EVENT" /\ y.node[n].fd = Bad
      /\ y.hash = x.hash /\ y.armed = x.armed /\ y.alarm = x.alarm /\ y.ready = x.ready
  BY <1>5 DEF Gets, N
<1>8. \A k \in Nodes : k # n => y.node[k] = N[k]
  BY <1>7 DEF Only
<1>9. Hashed(y.hash, y.node)
  <2>1. \A k \in Nodes : \/ y.node[k] = N[k]
                         \/ N[k].type # "EVENT" /\ (y.node[k].type # "EVENT" \/ y.node[k].fd = Bad)
    BY <1>1, <1>7, <1>8
  <2> QED
    BY <1>2, <1>7, <2>1, HashKept
<1>10. Owned(h, y.node)
  <2>1. \A k \in Nodes : y.node[k] = N[k] \/ (~Watching(N[k]) /\ ~Watching(y.node[k]))
    BY <1>1, <1>7, <1>8 DEF Watching
  <2> QED
    BY <1>2, <2>1, OwnedKept
<1>11. ArmedFor(y.armed, y.alarm, y.node)
  BY <1>6, <1>7, ArmedKept
<1>12. Core(y, h)
  BY <1>6, <1>7, <1>9, <1>10 DEF Core, Placed
<1>13. Made(y.node, N, n, "EVENT", "EVENT", N[n].time)
  BY <1>5, <1>7 DEF Gets, Made
<1> QED
  BY <1>6, <1>7, <1>11, <1>12, <1>13 DEF n, y, N

(* event_cancel: the node n leaves its list or the hash and is given back. *)
LEMMA CancelCore ==
    ASSUME NEW x, NEW h, Core(x, h), ArmedFor(x.armed, x.alarm, x.node), NEW n \in Nodes,
           x.node[n].type \in Kinds \cup {"READY", "EVENT"},
           x.node[n].type = "EVENT" => x.node[n].fd \in Fds,
           NEW g, \A M : Only(M, x.node, n) /\ M[n].type = "UNUSED" => Owned(g, M)
    PROVE  LET y == event_cancel(x, n) IN
           /\ Core(y, g)
           /\ ArmedFor(y.armed, y.alarm, y.node)
           /\ y.ready = IF x.node[n].type = "READY" THEN Without(x.ready, n) ELSE x.ready
           /\ \A k \in Nodes : y.node[k].add_type = x.node[k].add_type
           /\ Made(y.node, x.node, n, "UNUSED", x.node[n].add_type, x.node[n].time)
<1> DEFINE N == x.node
           type == N[n].type
           c == CASE type \in Kinds -> WithList(x, type, Without(ListOf(x, type), n))
                  [] type = "READY" -> [x EXCEPT !.ready = Without(@, n)]
                  [] type = "EVENT" -> [x EXCEPT !.hash[N[n].fd] = NoNode]
           z == IF type # "EVENT" /\ n = x.armed THEN event_timer_reset(c) ELSE c
           y == event_cancel(x, n)
           r == [type |-> "UNUSED", add_type |-> N[n].add_type, fd |-> N[n].fd, time |-> N[n].time]
           M == [k \in Nodes |-> IF k = n THEN r ELSE N[k]]
           H == [x.hash EXCEPT ![N[n].fd] = NoNode]
<1>1. y = ToUnused(z, n)
  BY DEF event_cancel
<1>2. /\ x \in MasterType /\ N \in [Nodes -> NodeRec] /\ Placed(x) /\ Added(N) /\ Owned(h, N)
      /\ InOrder(x.timer, N) /\ InOrder(x.rear, N)
      /\ (x.armed = NoNode) <=> (x.alarm = Never)
      /\ x.timer \in Seq(Nodes) /\ x.rear \in Seq(Nodes) /\ x.ready \in Seq(Nodes)
      /\ x.unuse \in Seq(Nodes) /\ x.hash \in [Fds -> Nodes \cup {NoNode}]
      /\ x.armed \in Nodes \cup {NoNode}
  BY DEF Core, MasterType
<1>3. r \in NodeRec
  BY <1>2 DEF NodeRec, Types
<1>4. Only(M, N, n) /\ M[n] = r /\ M \in [Nodes -> NodeRec]
  BY <1>2, <1>3 DEF Only
<1>5. \A k \in Nodes : /\ k # n => M[k] = N[k]
                       /\ M[k].time = N[k].time /\ M[k].add_type = N[k].add_type
  BY <1>4 DEF Only
<1>6. M[n].type = "UNUSED"
  BY <1>4
<1>7. /\ IsListOf(x.timer, "TIMER", N) /\ IsListOf(x.rear, "REAR", N)
      /\ IsListOf(x.ready, "READY", N) /\ IsListOf(x.unuse, "UNUSED", N) /\ Hashed(x.hash, N)
  BY <1>2 DEF Placed
<1>8. type \in {"TIMER", "REAR", "READY", "EVENT"}
  BY DEF Kinds
<1> HIDE DEF M, r
<1>9. /\ c \in MasterType /\ c.node = N /\ c.unuse = x.unuse
      /\ c.armed = x.armed /\ c.alarm = x.alarm
      /\ c.timer = IF type = "TIMER" THEN Without(x.timer, n) ELSE x.timer
      /\ c.rear = IF type = "REAR" THEN Without(x.rear, n) ELSE x.rear
      /\ c.ready = IF type = "READY" THEN Without(x.ready, n) ELSE x.ready
      /\ c.hash = IF type = "EVENT" THEN H ELSE x.hash
  <2>1. /\ Without(x.timer, n) \in Seq(Nodes) /\ Without(x.rear, n) \in Seq(Nodes)
        /\ Without(x.ready, n) \in Seq(Nodes)
    BY <1>2, KeepLeaves DEF Without
  <2>2. CASE type = "TIMER"
    <3>1. c = [x EXCEPT !.timer = Without(x.timer, n)]
      BY <2>2 DEF WithList, ListOf, Kinds
    <3> HIDE DEF c, N
    <3> QED
      BY <1>2, <2>1, <2>2, <3>1 DEF MasterType, N
  <2>3. CASE type = "REAR"
    <3>1. c = [x EXCEPT !.rear = Without(x.rear, n)]
      BY <2>3 DEF WithList, ListOf, Kinds
    <3> HIDE DEF c, N
    <3> QED
      BY <1>2, <2>1, <2>3, <3>1 DEF MasterType, N
  <2>4. CASE type = "READY"
    <3>1. c = [x EXCEPT !.ready = Without(x.ready, n)]
      BY <2>4 DEF Kinds
    <3> HIDE DEF c, N
    <3> QED
      BY <1>2, <2>1, <2>4, <3>1 DEF MasterType, N
  <2>5. CASE type = "EVENT"
    <3>1. c = [x EXCEPT !.hash = H]
      BY <2>5 DEF Kinds
    <3>2. H \in [Fds -> Nodes \cup {NoNode}]
      BY <1>2, <2>5
    <3> HIDE DEF c, N, H
    <3> QED
      BY <1>2, <2>5, <3>1, <3>2 DEF MasterType, N
  <2> QED
    BY <1>8, <2>2, <2>3, <2>4, <2>5
<1> HIDE DEF c, H
<1>10. /\ IsListOf(c.timer, "TIMER", M) /\ InOrder(c.timer, M)
       /\ IsListOf(c.rear, "REAR", M) /\ InOrder(c.rear, M)
       /\ IsListOf(c.ready, "READY", M)
  <2>1. \A list \in Seq(Nodes), t \in {"TIMER", "REAR", "READY"} :
          IsListOf(list, t, N) =>
            IsListOf(IF type = t THEN Without(list, n) ELSE list, t, M)
    <3>1. ASSUME NEW list \in Seq(Nodes), NEW t \in {"TIMER", "REAR", "READY"}, IsListOf(list, t, N)
          PROVE  IsListOf(IF type = t THEN Without(list, n) ELSE list, t, M)
      <4>1. CASE type = t
        <5>1. \A k \in Nodes : (M[k].type = t) <=> (N[k].type = t /\ k # n)
          BY <1>5, <1>6
        <5> QED
          BY <3>1, <4>1, <5>1, ListWithout
      <4>2. CASE type # t
        <5>1. \A k \in Nodes : (M[k].type = t) <=> (N[k].type = t)
          BY <1>5, <1>6, <4>2
        <5> QED
          BY <3>1, <4>2, <5>1, ListKept
      <4> QED
        BY <4>1, <4>2
    <3> QED
      BY <3>1
  <2>2. \A list \in Seq(Nodes) : InOrder(list, N) => InOrder(Without(list, n), N)
    BY OrderKeep DEF Without
  <2>3. \A list \in Seq(Nodes) : InOrder(list, N) => InOrder(list, M)
    <3>1. ASSUME NEW list \in Seq(Nodes), InOrder(list, N) PROVE InOrder(list, M)
      <4>1. Range(list) \subseteq Nodes
        BY DEF Range
      <4> QED
        BY <1>5, <3>1, <4>1, OrderKept
    <3> QED
      BY <3>1
  <2>4. \A list \in Seq(Nodes) : Without(list, n) \in Seq(Nodes)
    BY KeepLeaves DEF Without
  <2>5. /\ IsListOf(IF type = "TIMER" THEN Without(x.timer, n) ELSE x.timer, "TIMER", M)
        /\ IsListOf(IF type = "REAR" THEN Without(x.rear, n) ELSE x.rear, "REAR", M)
        /\ IsListOf(IF type = "READY" THEN Without(x.ready, n) ELSE x.ready, "READY", M)
    BY <1>2, <1>7, <2>1
  <2>6. \A list \in Seq(Nodes) : InOrder(list, N)
           => InOrder(Without(list, n), M) /\ InOrder(list, M)
    BY <2>2, <2>3, <2>4
  <2> HIDE DEF type
  <2>7. InOrder(c.timer, M) /\ InOrder(c.rear, M)
    BY <1>2, <1>9, <2>6
  <2>8. /\ IsListOf(c.timer, "TIMER", M) /\ IsListOf(c.rear, "REAR", M)
        /\ IsListOf(c.ready, "READY", M)
    BY <1>9, <2>5
  <2> QED
    BY <2>7, <2>8
<1>11. /\ SameLists(z, c)
       /\ ArmedFor(z.armed, z.alarm, M)
  <2>1. CASE type # "EVENT" /\ n = x.armed
    <3>1. z = event_timer_reset(c)
      BY <2>1
    <3>2. /\ c \in MasterType /\ \A k \in Nodes : M[k].time = c.node[k].time
          /\ (c.armed = NoNode) <=> (c.alarm = Never)
      BY <1>2, <1>5, <1>9
    <3>3. M \in [Nodes -> NodeRec]
      BY <1>4
    <3>4. LET v == event_timer_reset(c) IN SameLists(v, c) /\ ArmedFor(v.armed, v.alarm, M)
      BY <1>10, <3>2, <3>3, ResetArms
    <3> QED
      BY <3>1, <3>4
  <2>2. CASE ~(type # "EVENT" /\ n = x.armed)
    <3>1. z = c
      BY <2>2
    <3>2. SameLists(z, c)
      BY <1>9, <3>1 DEF SameLists
    <3>3. ArmedFor(x.armed, x.alarm, M)
      <4> DEFINE before == {k \in Nodes : N[k].type \in Kinds}
                 waiting == {k \in Nodes : M[k].type \in Kinds}
      <4>1. waiting = before \ {n}
        BY <1>5, <1>6 DEF Kinds
      <4>2. /\ (x.armed = NoNode) <=> (before = {})
            /\ (x.armed = NoNode) <=> (x.alarm = Never)
            /\ before # {} => /\ x.armed \in before /\ x.alarm = N[x.armed].time
                              /\ \A k \in before : x.alarm <= N[k].time
        BY DEF ArmedFor
      <4>3. x.armed # n
        <5>1. type = "EVENT" => n \notin before
          BY DEF Kinds
        <5> QED
          BY <2>2, <4>2, <5>1, EventCtlAssumption
      <4>4. \A k \in before : k \in Nodes
        OBVIOUS
      <4> HIDE DEF before, waiting
      <4>5. (x.armed = NoNode) <=> (waiting = {})
        BY <4>1, <4>2, <4>3
      <4>6. waiting # {} => /\ x.armed \in waiting /\ x.alarm = M[x.armed].time
                            /\ \A k \in waiting : x.alarm <= M[k].time
        BY <1>5, <4>1, <4>2, <4>3, <4>4
      <4> QED
        BY <4>2, <4>5, <4>6 DEF ArmedFor, waiting
    <3> QED
      BY <1>9, <3>1, <3>2, <3>3
  <2> QED
    BY <2>1, <2>2
<1> HIDE DEF z, y
<1>12. z \in MasterType /\ z.node = N /\ z.unuse = x.unuse
  BY <1>9, <1>11 DEF SameLists
<1>13. Gets(y, z, n, r, Append(x.unuse, n))
  BY <1>1, <1>12, ToUnusedParts DEF r
<1>14. /\ y \in MasterType /\ y.node = M /\ y.unuse = Append(x.unuse, n)
       /\ y.timer = c.timer /\ y.rear = c.rear /\ y.ready = c.ready /\ y.hash = c.hash
       /\ y.armed = z.armed /\ y.alarm = z.alarm
  BY <1>4, <1>11, <1>12, <1>13 DEF Gets, Only, SameLists
<1>15. IsListOf(y.unuse, "UNUSED", M)
  <2>1. \A k \in Nodes : (M[k].type = "UNUSED") <=> (N[k].type = "UNUSED" \/ k = n)
    BY <1>5, <1>6
  <2> QED
    BY <1>2, <1>7, <1>8, <1>14, <2>1, ListAdded
<1>16. Hashed(y.hash, M)
  <2>1. CASE type = "EVENT"
    <3> DEFINE f == N[n].fd
    <3>1. f \in Fds /\ N[n].type = "EVENT" /\ M[n].type # "EVENT" /\ Only(M, N, n)
      BY <1>4, <1>6, <2>1
    <3>2. x.hash \in [Fds -> Nodes \cup {NoNode}] /\ Hashed(x.hash, N) /\ N[n].fd = f
      BY <1>2, <1>7
    <3>3. y.hash = [x.hash EXCEPT ![f] = NoNode]
      BY <1>9, <1>14, <2>1 DEF H
    <3> HIDE DEF f, N
    <3>4. Hashed([x.hash EXCEPT ![f] = NoNode], M)
      BY <3>1, <3>2, HashRemoved
    <3> QED
      BY <3>3, <3>4
  <2>2. CASE type # "EVENT"
    <3>1. \A k \in Nodes : \/ M[k] = N[k]
                           \/ N[k].type # "EVENT" /\ (M[k].type # "EVENT" \/ M[k].fd = Bad)
      BY <1>5, <1>6, <2>2
    <3>2. x.hash \in [Fds -> Nodes \cup {NoNode}] /\ Hashed(x.hash, N) /\ y.hash = x.hash
      BY <1>2, <1>7, <1>9, <1>14, <2>2
    <3>3. Hashed(x.hash, M)
      BY <3>1, <3>2, HashKept
    <3> QED
      BY <3>2, <3>3
  <2> QED
    BY <2>1, <2>2
<1>17. Added(M)
  BY <1>2, <1>5, <1>6, <1>8 DEF Added, Kinds
<1>18. Owned(g, M)
  BY <1>4, <1>6
<1>19. (y.armed = NoNode) <=> (y.alarm = Never)
  BY <1>11, <1>14 DEF ArmedFor
<1>20. Core(y, g)
  BY <1>10, <1>14, <1>15, <1>16, <1>17, <1>18, <1>19 DEF Core, Placed
<1>21. Made(M, N, n, "UNUSED", N[n].add_type, N[n].time)
  BY <1>4, <1>5, <1>6 DEF Made
<1> QED
  BY <1>5, <1>9, <1>11, <1>14, <1>20, <1>21 DEF y

(* The head of a list in order has the earliest time. *)
LEMMA HeadFirst ==
    ASSUME NEW list \in Seq(Nodes), NEW N \in [Nodes -> NodeRec], InOrder(list, N),
           NEW k \in Range(list)
    PROVE  list # <<>> /\ Head(list) \in Nodes /\ N[Head(list)].time <= N[k].time
<1>1. PICK i \in DOMAIN list : list[i] = k
  BY DEF Range
<1>2. /\ DOMAIN list = 1 .. Len(list) /\ Len(list) \in Nat /\ 1 \in DOMAIN list
      /\ list # <<>> /\ Head(list) = list[1] /\ list[1] \in Nodes /\ k \in Nodes
  BY <1>1
<1>3. CASE i = 1
  <2>1. N[k].time \in Nat
    BY <1>2 DEF NodeRec
  <2> QED
    BY <1>1, <1>2, <1>3, <2>1
<1>4. CASE i # 1
  <2>1. 1 < i
    BY <1>1, <1>2, <1>4
  <2>2. N[list[1]].time <= N[list[i]].time
    BY <1>1, <1>2, <2>1 DEF InOrder
  <2> QED
    BY <1>1, <1>2, <2>2
<1> QED
  BY <1>3, <1>4

(* What event_timer_process makes of x: the earliest node of the kind is   *)
(* ready if it is due, and else nothing is.                                *)
Taken(y, x, kind) ==
    \/ /\ y = x
       /\ \A k \in Nodes : x.node[k].type = kind => ~(x.node[k].time <= now)
    \/ \E n \in Nodes :
         /\ y.ready = Append(x.ready, n)
         /\ Made(y.node, x.node, n, "READY", kind, x.node[n].time)
         /\ x.node[n].type = kind /\ x.node[n].time <= now
         /\ \A k \in Nodes : x.node[k].type = kind => x.node[n].time <= x.node[k].time

(* event_timer_process: at most the head of a list becomes ready. *)
LEMMA ProcessCore ==
    ASSUME NEW x, NEW h \in [Fds -> Nodes \cup {NoNode}], Core(x, h), NEW kind \in Kinds, now \in Nat
    PROVE  LET y == event_timer_process(x, kind) IN
           /\ Core(y, h)
           /\ \/ y.ready = x.ready
              \/ \E n \in Nodes : y.ready = Append(x.ready, n) /\ y.node[n].add_type = kind
           /\ \A k \in Nodes : y.node[k].add_type = x.node[k].add_type
           /\ Taken(y, x, kind)
<1> DEFINE N == x.node
           list == ListOf(x, kind)
           n == Head(list)
           y == event_timer_process(x, kind)
           a == WithList(x, kind, Tail(list))
           b == [a EXCEPT !.node[n].type = "READY"]
           r == [type |-> "READY", add_type |-> N[n].add_type, fd |-> N[n].fd, time |-> N[n].time]
<1>3. /\ list \in Seq(Nodes) /\ IsListOf(list, kind, N) /\ InOrder(list, N)
      /\ N \in [Nodes -> NodeRec]
  BY DEF Core, Placed, MasterType, ListOf, Kinds
<1>1. CASE ~(list # <<>> /\ N[n].time <= now)
  <2>1. y = x
    BY <1>1 DEF event_timer_process
  <2>2. ASSUME NEW k \in Nodes, N[k].type = kind PROVE ~(N[k].time <= now)
    <3>1. k \in Range(list)
      BY <1>3, <2>2 DEF IsListOf
    <3>2. list # <<>> /\ N[n].time <= N[k].time /\ n \in Nodes
      BY <1>3, <3>1, HeadFirst
    <3>3. ~(N[n].time <= now) /\ N[n].time \in Nat /\ N[k].time \in Nat
      BY <1>1, <1>3, <3>2 DEF NodeRec
    <3> HIDE DEF N, n
    <3> QED
      BY <3>2, <3>3, now \in Nat
  <2> QED
    BY <2>1, <2>2 DEF Taken
<1>2. CASE list # <<>> /\ N[n].time <= now
  <2>1. y = [a EXCEPT !.node[n].type = "READY", !.ready = Append(@, n)]
    BY <1>2 DEF event_timer_process
  <2>2. /\ x \in MasterType /\ N \in [Nodes -> NodeRec] /\ Added(N) /\ Owned(h, N)
        /\ InOrder(x.timer, N) /\ InOrder(x.rear, N)
        /\ (x.armed = NoNode) <=> (x.alarm = Never)
        /\ x.timer \in Seq(Nodes) /\ x.rear \in Seq(Nodes) /\ x.ready \in Seq(Nodes)
        /\ x.unuse \in Seq(Nodes) /\ x.hash \in [Fds -> Nodes \cup {NoNode}]
    BY DEF Core, MasterType
  <2>3. /\ IsListOf(x.timer, "TIMER", N) /\ IsListOf(x.rear, "REAR", N)
        /\ IsListOf(x.ready, "READY", N) /\ IsListOf(x.unuse, "UNUSED", N) /\ Hashed(x.hash, N)
    BY DEF Core, Placed
  <2>4. /\ list \in Seq(Nodes) /\ list = IF kind = "TIMER" THEN x.timer ELSE x.rear
        /\ IsListOf(list, kind, N) /\ InOrder(list, N)
    BY <2>2, <2>3 DEF ListOf, Kinds
  <2>5. n \in Nodes /\ n \in Range(list) /\ Tail(list) \in Seq(Nodes)
    BY <1>2, <2>4, TailOf DEF Range
  <2>6. N[n].type = kind
    BY <2>4, <2>5 DEF IsListOf
  <2>7. InOrder(Tail(list), N)
    BY <1>2, <2>4, OrderTail
  <2>8. /\ a \in MasterType /\ a.node = N
        /\ a.timer = IF kind = "TIMER" THEN Tail(list) ELSE x.timer
        /\ a.rear = IF kind = "TIMER" THEN x.rear ELSE Tail(list)
        /\ a.ready = x.ready /\ a.unuse = x.unuse /\ a.hash = x.hash
        /\ a.armed = x.armed /\ a.alarm = x.alarm
    <3> DEFINE t == Tail(list)
    <3> HIDE DEF N, t
    <3>1. CASE kind = "TIMER"
      BY <2>2, <2>5, <3>1 DEF WithList, MasterType, N, t
    <3>2. CASE kind # "TIMER"
      BY <2>2, <2>5, <3>2 DEF WithList, MasterType, N, t
    <3> QED
      BY <3>1, <3>2 DEF t
  <2> HIDE DEF a
  <2>9. Sets(b, a, n, r)
    BY <2>5, <2>8, SetType DEF Types
  <2>10. y = [b EXCEPT !.ready = Append(x.ready, n)]
    <3>1. [a EXCEPT !.node[n].type = "READY", !.ready = Append(@, n)]
            = [b EXCEPT !.ready = Append(a.ready, n)]
      BY <2>8 DEF MasterType
    <3> QED
      BY <2>1, <2>8, <3>1
  <2> HIDE DEF b, y
  <2>11. /\ y \in MasterType /\ y.node = b.node
         /\ y.timer = a.timer /\ y.rear = a.rear /\ y.ready = Append(x.ready, n)
         /\ y.unuse = x.unuse /\ y.hash = x.hash /\ y.armed = x.armed /\ y.alarm = x.alarm
    <3> DEFINE t == Append(x.ready, n)
    <3>1. t \in Seq(Nodes)
      BY <2>2, <2>5
    <3>2. b \in MasterType
      BY <2>9 DEF Sets
    <3>3. y = [b EXCEPT !.ready = t]
      BY <2>10
    <3> HIDE DEF t
    <3>4. /\ y \in MasterType /\ y.node = b.node
          /\ y.timer = b.timer /\ y.rear = b.rear /\ y.ready = t
          /\ y.unuse = b.unuse /\ y.hash = b.hash /\ y.armed = b.armed /\ y.alarm = b.alarm
      BY <3>1, <3>2, <3>3 DEF MasterType
    <3> QED
      BY <2>8, <2>9, <3>4 DEF Sets, t
  <2> DEFINE M == y.node
  <2>12. Only(M, N, n) /\ M[n] = r
    BY <2>8, <2>9, <2>11 DEF Sets
  <2>13. /\ \A k \in Nodes : k # n => M[k] = N[k]
         /\ \A k \in Nodes : M[k].add_type = N[k].add_type /\ M[k].time = N[k].time
         /\ M[n].type = "READY" /\ M[n].add_type = N[n].add_type
    BY <2>12 DEF Only
  <2> HIDE DEF M, N, r, list, n
  <2>14. /\ IsListOf(y.timer, "TIMER", M) /\ IsListOf(y.rear, "REAR", M)
    <3>1. IsListOf(Tail(list), kind, M)
      <4>1. \A k \in Nodes : (M[k].type = kind) <=> (N[k].type = kind /\ k # Head(list))
        BY <2>6, <2>13 DEF Kinds, n
      <4> QED
        BY <1>2, <2>4, <4>1, ListTail
    <3>2. kind = "TIMER" => IsListOf(x.rear, "REAR", M)
      <4>1. kind = "TIMER" => \A k \in Nodes : (M[k].type = "REAR") <=> (N[k].type = "REAR")
        BY <2>5, <2>6, <2>13
      <4> QED
        BY <2>3, <4>1, ListKept
    <3>3. kind = "REAR" => IsListOf(x.timer, "TIMER", M)
      <4>1. kind = "REAR" => \A k \in Nodes : (M[k].type = "TIMER") <=> (N[k].type = "TIMER")
        BY <2>5, <2>6, <2>13
      <4> QED
        BY <2>3, <4>1, ListKept
    <3>4. CASE kind = "TIMER"
      BY <2>8, <2>11, <3>1, <3>2, <3>4
    <3>5. CASE kind = "REAR"
      BY <2>8, <2>11, <3>1, <3>3, <3>5
    <3> QED
      BY <3>4, <3>5 DEF Kinds
  <2>15. InOrder(y.timer, M) /\ InOrder(y.rear, M)
    <3>1. \A q \in Seq(Nodes) : InOrder(q, N) => InOrder(q, M)
      <4>1. ASSUME NEW q \in Seq(Nodes), InOrder(q, N) PROVE InOrder(q, M)
        <5>1. Range(q) \subseteq Nodes
          BY DEF Range
        <5> QED
          BY <2>13, <4>1, <5>1, OrderKept
      <4> QED
        BY <4>1
    <3>2. InOrder(Tail(list), M) /\ InOrder(x.timer, M) /\ InOrder(x.rear, M)
      BY <2>2, <2>5, <2>7, <3>1
    <3> QED
      BY <2>8, <2>11, <3>2
  <2>16. IsListOf(y.ready, "READY", M)
    <3>1. \A k \in Nodes : (M[k].type = "READY") <=> (N[k].type = "READY" \/ k = n)
      BY <2>13
    <3>2. N[n].type # "READY"
      BY <2>6 DEF Kinds
    <3> QED
      BY <2>2, <2>3, <2>5, <2>11, <3>1, <3>2, ListAdded
  <2>17. IsListOf(y.unuse, "UNUSED", M)
    <3>1. \A k \in Nodes : (M[k].type = "UNUSED") <=> (N[k].type = "UNUSED")
      BY <2>6, <2>13 DEF Kinds
    <3> QED
      BY <2>3, <2>11, <3>1, ListKept
  <2>18. Hashed(y.hash, M)
    <3>1. \A k \in Nodes : \/ M[k] = N[k]
                           \/ N[k].type # "EVENT" /\ (M[k].type # "EVENT" \/ M[k].fd = Bad)
      BY <2>6, <2>13 DEF Kinds
    <3>2. x.hash \in [Fds -> Nodes \cup {NoNode}] /\ Hashed(x.hash, N) /\ y.hash = x.hash
      BY <2>2, <2>3, <2>11
    <3>3. Hashed(x.hash, M)
      BY <3>1, <3>2, HashKept
    <3> QED
      BY <3>2, <3>3
  <2>19. N[n].add_type = kind /\ M[n].add_type = kind
    BY <2>2, <2>5, <2>6, <2>13 DEF Added
  <2>20. Added(M)
    BY <2>2, <2>13, <2>19 DEF Added, Kinds
  <2>21. Owned(h, M)
    <3>1. \A k \in Nodes : M[k] = N[k] \/ (~Watching(N[k]) /\ ~Watching(M[k]))
      BY <2>6, <2>13, <2>19 DEF Watching, Kinds
    <3> QED
      BY <2>2, <3>1, OwnedKept
  <2>22. Core(y, h)
    BY <2>2, <2>11, <2>14, <2>15, <2>16, <2>17, <2>18, <2>20, <2>21 DEF Core, Placed, M
  <2>23. Made(M, N, n, "READY", kind, N[n].time)
    BY <2>5, <2>12, <2>13, <2>19 DEF Made
  <2>24. \A k \in Nodes : N[k].type = kind => N[n].time <= N[k].time
    <3>1. ASSUME NEW k \in Nodes, N[k].type = kind PROVE N[n].time <= N[k].time
      <4>1. k \in Range(list)
        BY <2>4, <3>1 DEF IsListOf
      <4> QED
        BY <2>2, <2>4, <4>1, HeadFirst DEF n
    <3> QED
      BY <3>1
  <2>25. Taken(y, x, kind)
    BY <1>2, <2>5, <2>6, <2>11, <2>23, <2>24 DEF Taken, M, N, n
  <2> QED
    BY <2>5, <2>11, <2>13, <2>19, <2>22, <2>25 DEF M, N, y
<1> QED
  BY <1>1, <1>2

(* The order of a report names every descriptor that is reported. *)
LEMMA OrdersOnto ==
    ASSUME NEW S, IsFiniteSet(S), NEW fds \in Orders(S)
    PROVE  \A f \in S : \E i \in 1 .. Cardinality(S) : fds[i] = f
<1> DEFINE D == 1 .. Cardinality(S)
<1>1. Cardinality(S) \in Nat
  BY FS_CardinalityType
<1>2. IsFiniteSet(D) /\ Cardinality(D) = Cardinality(S)
  BY <1>1, FS_Interval
<1>3. fds \in Injection(D, S)
  BY DEF Orders, Injection, IsInjective
<1>4. fds \in Surjection(D, S)
  BY <1>2, <1>3, FS_Injection
<1> QED
  BY <1>4 DEF Surjection

(* The nodes of the descriptors S became ready, and no other changed. *)
Marked(N2, N, S) ==
    /\ N2 \in [Nodes -> NodeRec]
    /\ \A k \in Nodes :
         IF \E f \in S : handle[f] = k
           THEN N[k].type = "EVENT" /\ N2[k].type = "READY" /\ N2[k].add_type = "EVENT"
           ELSE N2[k] = N[k]

(* epoll_process: the nodes of the reported descriptors become ready, when *)
(* none of the nodes that are ready already is a descriptor's.             *)
LEMMA EpollCore ==
    ASSUME NEW x, Core(x, handle), handle \in [Fds -> Nodes \cup {NoNode}],
           \A f \in Fds : ep[f].node = handle[f],
           \A k \in Range(x.ready) : x.node[k].add_type # "EVENT",
           NEW S \in SUBSET Fds, \A f \in S : ep[f].node # NoNode, NEW fds \in Orders(S)
    PROVE  LET y == epoll_process(x, fds) IN
           /\ Core(y, handle)
           /\ \E nodes \in Seq(Nodes) :
                /\ y.ready = x.ready \o nodes
                /\ \A k \in Range(nodes) : y.node[k].add_type = "EVENT"
                /\ Range(nodes) = {handle[f] : f \in S}
           /\ \A k \in Nodes : y.node[k].add_type = x.node[k].add_type
           /\ Marked(y.node, x.node, S)
<1> DEFINE N == x.node
           reported == [i \in DOMAIN fds |-> ep[fds[i]].node]
           Kept0 == {n \in Nodes : N[n].type \notin Kinds}
           nodes == Keep(reported, Kept0)
           Hit == {nodes[i] : i \in DOMAIN nodes}
           M == [n \in Nodes |-> IF n \in Hit THEN [N[n] EXCEPT !.type = "READY"] ELSE N[n]]
           H == [fd \in Fds |-> IF x.hash[fd] \in Hit THEN NoNode ELSE x.hash[fd]]
           y == epoll_process(x, fds)
<1>1. /\ x \in MasterType /\ N \in [Nodes -> NodeRec] /\ Added(N) /\ Owned(handle, N)
      /\ InOrder(x.timer, N) /\ InOrder(x.rear, N)
      /\ (x.armed = NoNode) <=> (x.alarm = Never)
      /\ x.timer \in Seq(Nodes) /\ x.rear \in Seq(Nodes) /\ x.ready \in Seq(Nodes)
      /\ x.unuse \in Seq(Nodes) /\ x.hash \in [Fds -> Nodes \cup {NoNode}]
  BY DEF Core, MasterType
<1>2. /\ IsListOf(x.timer, "TIMER", N) /\ IsListOf(x.rear, "REAR", N)
      /\ IsListOf(x.ready, "READY", N) /\ IsListOf(x.unuse, "UNUSED", N) /\ Hashed(x.hash, N)
  BY DEF Core, Placed
<1>3. /\ DOMAIN fds = 1 .. Cardinality(S) /\ Cardinality(S) \in Nat
      /\ \A i \in DOMAIN fds : fds[i] \in S /\ fds[i] \in Fds
      /\ \A i, j \in DOMAIN fds : fds[i] = fds[j] => i = j
      /\ \A f \in S : \E i \in DOMAIN fds : fds[i] = f
  <2>1. IsFiniteSet(S)
    BY EventCtlAssumption, FS_Subset
  <2>2. Cardinality(S) \in Nat
    BY <2>1, FS_CardinalityType
  <2>3. \A f \in S : \E i \in 1 .. Cardinality(S) : fds[i] = f
    BY <2>1, OrdersOnto
  <2> QED
    BY <2>2, <2>3 DEF Orders
<1>4. ASSUME NEW f \in S
      PROVE  /\ handle[f] \in Nodes /\ ep[f].node = handle[f]
             /\ N[handle[f]].type = "EVENT" /\ N[handle[f]].add_type = "EVENT"
             /\ N[handle[f]].fd = f
  <2>1. /\ handle[f] \in Nodes /\ ep[f].node = handle[f]
        /\ N[handle[f]].type \in {"EVENT", "READY"} /\ N[handle[f]].add_type = "EVENT"
        /\ N[handle[f]].fd = f
    BY <1>1 DEF Owned
  <2>2. N[handle[f]].type # "READY"
    BY <1>2, <2>1 DEF IsListOf
  <2> QED
    BY <2>1, <2>2
<1>5. /\ reported \in Seq(Nodes)
      /\ DOMAIN reported = DOMAIN fds
      /\ \A i \in DOMAIN fds : reported[i] = handle[fds[i]]
  BY <1>3, <1>4
<1>6. IsInjective(reported)
  <2>1. ASSUME NEW i \in DOMAIN fds, NEW j \in DOMAIN fds, reported[i] = reported[j] PROVE i = j
    BY <1>3, <1>4, <1>5, <2>1
  <2> QED
    BY <1>5, <2>1 DEF IsInjective
<1> HIDE DEF reported
<1>7. nodes \in Seq(Nodes) /\ IsInjective(nodes) /\ Range(nodes) \subseteq Range(reported)
  <2> HIDE DEF Kept0
  <2> QED
    BY <1>5, <1>6, KeepLeaves, KeepInjective, KeepRange
<1>8. Hit = Range(nodes)
  BY DEF Range
<1> HIDE DEF nodes, Hit
<1>9. \A k \in Hit : /\ k \in Nodes /\ N[k].type = "EVENT" /\ N[k].add_type = "EVENT"
                     /\ N[k].fd \in Fds
  <2>1. \A k \in Range(reported) : \E f \in S : k = handle[f]
    BY <1>3, <1>5 DEF Range
  <2> QED
    BY <1>4, <1>7, <1>8, <2>1
<1>10. y = [x EXCEPT !.ready = x.ready \o nodes, !.hash = H, !.node = M]
  <2>1. y = [x EXCEPT !.ready = @ \o nodes,
                !.hash = [fd \in Fds |-> IF x.hash[fd] \in Hit THEN NoNode ELSE x.hash[fd]],
                !.node = [n \in Nodes |-> IF n \in Hit THEN [@[n] EXCEPT !.type = "READY"]
                                                       ELSE @[n]]]
    BY DEF epoll_process, reported, nodes, Hit
  <2> QED
    BY <1>1, <2>1 DEF MasterType
<1>11. /\ \A k \in Nodes : k \notin Hit => M[k] = N[k]
       /\ \A k \in Hit : /\ M[k].type = "READY" /\ M[k].add_type = "EVENT"
                         /\ M[k].fd = N[k].fd /\ M[k].time = N[k].time /\ M[k] \in NodeRec
  <2>1. ASSUME NEW k \in Hit
        PROVE  /\ M[k].type = "READY" /\ M[k].add_type = "EVENT"
               /\ M[k].fd = N[k].fd /\ M[k].time = N[k].time /\ M[k] \in NodeRec
    <3> DEFINE r == N[k]
    <3>1. M[k] = [r EXCEPT !.type = "READY"] /\ r \in NodeRec /\ r.add_type = "EVENT"
      BY <1>1, <1>9
    <3> HIDE DEF M, r
    <3>2. /\ M[k].type = "READY" /\ M[k].add_type = "EVENT"
          /\ M[k].fd = r.fd /\ M[k].time = r.time /\ M[k] \in NodeRec
      BY <3>1 DEF NodeRec, Types
    <3> QED
      BY <3>2 DEF r
  <2>2. \A k \in Nodes : k \notin Hit => M[k] = N[k]
    OBVIOUS
  <2> HIDE DEF M, N
  <2> QED
    BY <2>1, <2>2
<1>12. M \in [Nodes -> NodeRec]
  <2>1. \A k \in Nodes : M[k] \in NodeRec
    BY <1>1, <1>11
  <2> QED
    BY <2>1
<1>13. H \in [Fds -> Nodes \cup {NoNode}]
       /\ \A f \in Fds : H[f] = IF x.hash[f] \in Hit THEN NoNode ELSE x.hash[f]
  BY <1>1
<1>14. /\ x.ready \o nodes \in Seq(Nodes)
       /\ IsInjective(x.ready \o nodes)
       /\ Range(x.ready \o nodes) = Range(x.ready) \cup Hit
  <2> DEFINE s == x.ready
  <2>1. s \in Seq(Nodes) /\ IsInjective(s)
    BY <1>1, <1>2 DEF IsListOf
  <2>2. Range(s) \cap Range(nodes) = {}
    BY <1>2, <1>8, <1>9 DEF IsListOf
  <2> HIDE DEF s
  <2>3. s \o nodes \in Seq(Nodes) /\ Range(s \o nodes) = Range(s) \cup Range(nodes)
    BY <1>7, <2>1, Joined
  <2>4. IsInjective(s \o nodes)
    BY <1>7, <2>1, <2>2, Joined
  <2> QED
    BY <1>8, <2>3, <2>4 DEF s
<1> HIDE DEF M, H, y
<1>15. /\ y \in MasterType /\ y.node = M /\ y.timer = x.timer /\ y.rear = x.rear
       /\ y.ready = x.ready \o nodes /\ y.unuse = x.unuse /\ y.hash = H
       /\ y.armed = x.armed /\ y.alarm = x.alarm
  <2> DEFINE s == x.ready \o nodes
  <2>1. s \in Seq(Nodes) /\ y = [x EXCEPT !.ready = s, !.hash = H, !.node = M]
    BY <1>10, <1>14
  <2> HIDE DEF s
  <2>2. /\ y \in MasterType /\ y.node = M /\ y.timer = x.timer /\ y.rear = x.rear
        /\ y.ready = s /\ y.unuse = x.unuse /\ y.hash = H
        /\ y.armed = x.armed /\ y.alarm = x.alarm
    BY <1>1, <1>12, <1>13, <2>1 DEF MasterType
  <2> QED
    BY <2>2 DEF s
<1> HIDE DEF N
<1>16. \A k \in Nodes : /\ M[k].add_type = N[k].add_type /\ M[k].time = N[k].time
                        /\ M[k].fd = N[k].fd
  BY <1>9, <1>11
<1>17. /\ IsListOf(y.timer, "TIMER", M) /\ IsListOf(y.rear, "REAR", M)
       /\ IsListOf(y.unuse, "UNUSED", M)
  <2>1. \A t \in {"TIMER", "REAR", "UNUSED"} : \A k \in Nodes : (M[k].type = t) <=> (N[k].type = t)
    BY <1>9, <1>11
  <2> QED
    BY <1>2, <1>15, <2>1, ListKept
<1>18. InOrder(y.timer, M) /\ InOrder(y.rear, M)
  <2>1. Range(x.timer) \subseteq Nodes /\ Range(x.rear) \subseteq Nodes
    BY <1>2 DEF IsListOf
  <2> QED
    BY <1>1, <1>15, <1>16, <2>1, OrderKept
<1>19. IsListOf(y.ready, "READY", M)
  <2>1. Range(y.ready) = {k \in Nodes : N[k].type = "READY"} \cup Hit
    BY <1>2, <1>14, <1>15 DEF IsListOf
  <2>2. Range(y.ready) = {k \in Nodes : M[k].type = "READY"}
    BY <1>9, <1>11, <2>1
  <2> QED
    BY <1>14, <1>15, <2>2 DEF IsListOf
<1>20. Hashed(H, M)
  <2>1. ASSUME NEW f \in Fds, H[f] # NoNode PROVE M[H[f]].type = "EVENT" /\ M[H[f]].fd = f
    <3>1. H[f] = x.hash[f] /\ x.hash[f] \notin Hit /\ x.hash[f] \in Nodes
      BY <1>1, <1>13, <2>1
    <3>2. N[x.hash[f]].type = "EVENT" /\ N[x.hash[f]].fd = f
      BY <1>2, <2>1, <3>1 DEF Hashed
    <3> QED
      BY <1>11, <3>1, <3>2
  <2>2. ASSUME NEW n \in Nodes, M[n].type = "EVENT", M[n].fd # Bad
        PROVE  M[n].fd \in Fds /\ H[M[n].fd] = n
    <3>1. n \notin Hit
      BY <1>11, <2>2
    <3>2. M[n] = N[n]
      BY <1>11, <3>1
    <3>3. N[n].fd \in Fds /\ x.hash[N[n].fd] = n
      BY <1>2, <2>2, <3>2 DEF Hashed
    <3> QED
      BY <1>13, <3>1, <3>2, <3>3
  <2> QED
    BY <2>1, <2>2 DEF Hashed
<1>21. Added(M)
  BY <1>1, <1>9, <1>11 DEF Added, Kinds
<1>22. Owned(handle, M)
  <2>1. \A k \in Nodes :
          \/ M[k] = N[k]
          \/ ~Watching(N[k]) /\ ~Watching(M[k])
          \/ Watching(N[k]) /\ Watching(M[k]) /\ M[k].add_type = "EVENT" /\ M[k].fd = N[k].fd
    <3>1. \A k \in Hit : N[k].fd # Bad
      BY <1>9, BadFd
    <3> QED
      BY <1>9, <1>11, <3>1 DEF Watching
  <2>2. Owned(handle, N)
    BY <1>1
  <2> QED
    BY <2>1, <2>2, OwnedKept
<1>23. Core(y, handle)
  BY <1>1, <1>15, <1>17, <1>18, <1>19, <1>20, <1>21, <1>22 DEF Core, Placed
<1>24. \A k \in Range(nodes) : M[k].add_type = "EVENT"
  BY <1>8, <1>11
<1>25. \A k \in Nodes : M[k].add_type = N[k].add_type
  BY <1>16
<1>26. Hit = {handle[f] : f \in S}
  <2>1. Range(nodes) = Range(reported) \cap Kept0
    <3> HIDE DEF Kept0
    <3> QED
      BY <1>5, KeepRange DEF nodes
  <2>2. Range(reported) = {handle[f] : f \in S}
    BY <1>3, <1>5 DEF Range
  <2>3. {handle[f] : f \in S} \subseteq Kept0
    BY <1>4 DEF Kinds, N
  <2> QED
    BY <1>8, <2>1, <2>2, <2>3
<1>27. Marked(M, N, S)
  <2>1. \A k \in Nodes : (\E f \in S : handle[f] = k) <=> k \in Hit
    BY <1>26
  <2>2. \A k \in Hit : N[k].type = "EVENT"
    BY <1>9
  <2> QED
    BY <1>11, <1>12, <1>16, <2>1, <2>2 DEF Marked
<1> QED
  BY <1>7, <1>8, <1>15, <1>23, <1>24, <1>25, <1>26, <1>27 DEF y, N

(* event_run: the head of the ready list goes back to where its kind of    *)
(* node waits.                                                             *)
LEMMA RunCore ==
    ASSUME NEW x, NEW h \in [Fds -> Nodes \cup {NoNode}], Core(x, h), x.ready # <<>>,
           ArmedFor(x.armed, x.alarm, x.node)
    PROVE  LET y == event_run(x) IN
           /\ Core(y, h)
           /\ ArmedFor(y.armed, y.alarm, y.node)
           /\ y.ready = Tail(x.ready)
           /\ \A k \in Nodes : y.node[k].add_type = x.node[k].add_type
           /\ LET n == Head(x.ready)
                  r == x.node[n]
              IN  /\ r.type = "READY"
                  /\ Made(y.node, x.node, n, IF r.add_type = "EVENT" THEN "EVENT" ELSE "UNUSED",
                          r.add_type, r.time)
<1> DEFINE N == x.node
           n == Head(x.ready)
           t == Tail(x.ready)
           a == [x EXCEPT !.ready = t]
           y == event_run(x)
           watched == N[n].add_type = "EVENT"
           type == IF watched THEN "EVENT" ELSE "UNUSED"
           r == [type |-> type, add_type |-> N[n].add_type, fd |-> N[n].fd, time |-> N[n].time]
<1>1. /\ x \in MasterType /\ N \in [Nodes -> NodeRec] /\ Added(N) /\ Owned(h, N)
      /\ InOrder(x.timer, N) /\ InOrder(x.rear, N)
      /\ (x.armed = NoNode) <=> (x.alarm = Never)
      /\ x.timer \in Seq(Nodes) /\ x.rear \in Seq(Nodes) /\ x.ready \in Seq(Nodes)
      /\ x.unuse \in Seq(Nodes) /\ x.hash \in [Fds -> Nodes \cup {NoNode}]
  BY DEF Core, MasterType
<1>2. /\ IsListOf(x.timer, "TIMER", N) /\ IsListOf(x.rear, "REAR", N)
      /\ IsListOf(x.ready, "READY", N) /\ IsListOf(x.unuse, "UNUSED", N) /\ Hashed(x.hash, N)
  BY DEF Core, Placed
<1>3. n \in Nodes /\ n \in Range(x.ready) /\ t \in Seq(Nodes)
  BY <1>1, TailOf DEF Range
<1>4. N[n].type = "READY"
  BY <1>2, <1>3 DEF IsListOf
<1>5. /\ a \in MasterType /\ a.node = N /\ a.timer = x.timer /\ a.rear = x.rear
      /\ a.ready = t /\ a.unuse = x.unuse /\ a.hash = x.hash
      /\ a.armed = x.armed /\ a.alarm = x.alarm
  <2> HIDE DEF t
  <2> QED
    BY <1>1, <1>3 DEF MasterType
<1>6. y = IF watched THEN HashAdd([a EXCEPT !.node[n].type = "EVENT"], N[n].fd, n)
                     ELSE ToUnused(a, n)
  BY <1>1 DEF event_run, MasterType
<1>7. watched => /\ N[n].fd \in Fds /\ N[n].fd # Bad /\ x.hash[N[n].fd] = NoNode
  <2>1. SUFFICES ASSUME watched
                 PROVE  /\ N[n].fd \in Fds /\ N[n].fd # Bad /\ x.hash[N[n].fd] = NoNode
    OBVIOUS
  <2>2. N[n].fd \in Fds /\ h[N[n].fd] = n
    BY <1>1, <1>3, <1>4, <2>1 DEF Owned, Watching
  <2>3. N[n].fd # Bad
    BY <2>2, BadFd
  <2>4. ASSUME x.hash[N[n].fd] # NoNode PROVE FALSE
    <3> DEFINE k == x.hash[N[n].fd]
    <3>1. k \in Nodes /\ N[k].type = "EVENT" /\ N[k].fd = N[n].fd
      <4> DEFINE f == N[n].fd
      <4>1. f \in Fds /\ x.hash[f] # NoNode /\ x.hash[f] \in Nodes
        BY <1>1, <2>2, <2>4
      <4> HIDE DEF f
      <4>2. N[x.hash[f]].type = "EVENT" /\ N[x.hash[f]].fd = f
        BY <1>2, <4>1 DEF Hashed
      <4> QED
        BY <4>1, <4>2 DEF f
    <3>2. h[N[k].fd] = k
      BY <1>1, <2>3, <3>1 DEF Owned, Watching
    <3> QED
      BY <1>4, <2>2, <3>1, <3>2
  <2> QED
    BY <2>2, <2>3, <2>4
<1> HIDE DEF a, t, y
<1>8. /\ y \in MasterType /\ Only(y.node, N, n) /\ y.node[n] = r
      /\ y.timer = x.timer /\ y.rear = x.rear /\ y.ready = t
      /\ y.unuse = IF watched THEN x.unuse ELSE Append(x.unuse, n)
      /\ y.hash = IF watched THEN [x.hash EXCEPT ![N[n].fd] = n] ELSE x.hash
      /\ y.armed = x.armed /\ y.alarm = x.alarm
  <2>1. CASE watched
    <3> DEFINE b == [a EXCEPT !.node[n].type = "EVENT"]
               f == N[n].fd
               H == [x.hash EXCEPT ![f] = n]
    <3>1. Sets(b, a, n, r)
      BY <1>3, <1>5, <2>1, SetType DEF Types
    <3> HIDE DEF b
    <3>2. y = [b EXCEPT !.hash = H]
      <4>1. b \in MasterType /\ b.hash = x.hash
        BY <1>5, <3>1 DEF Sets
      <4>2. y = HashAdd(b, f, n)
        BY <1>6, <2>1 DEF b
      <4> QED
        BY <1>1, <1>7, <2>1, <4>1, <4>2 DEF HashAdd, MasterType
    <3>3. H \in [Fds -> Nodes \cup {NoNode}]
      BY <1>1, <1>3, <1>7, <2>1
    <3> HIDE DEF f, H, r
    <3>4. /\ y \in MasterType /\ y.node = b.node
          /\ y.timer = b.timer /\ y.rear = b.rear /\ y.ready = b.ready /\ y.unuse = b.unuse
          /\ y.hash = H /\ y.armed = b.armed /\ y.alarm = b.alarm
      BY <3>1, <3>2, <3>3 DEF MasterType, Sets
    <3> QED
      BY <1>5, <2>1, <3>1, <3>4 DEF Sets, H, f
  <2>2. CASE ~watched
    <3>1. Gets(y, a, n, r, Append(x.unuse, n))
      BY <1>3, <1>5, <1>6, <2>2, ToUnusedParts
    <3> HIDE DEF r
    <3> QED
      BY <1>5, <2>2, <3>1 DEF Gets
  <2> QED
    BY <2>1, <2>2
<1> DEFINE M == y.node
<1>9. /\ \A k \in Nodes : k # n => M[k] = N[k]
      /\ \A k \in Nodes : /\ M[k].add_type = N[k].add_type /\ M[k].time = N[k].time
                          /\ M[k].fd = N[k].fd
      /\ M[n].type = type
  BY <1>8 DEF Only
<1>10. Only(M, N, n)
  BY <1>8
<1> HIDE DEF M, N, r, n
<1>11. IsListOf(y.timer, "TIMER", M) /\ IsListOf(y.rear, "REAR", M)
  <2>1. \A s \in {"TIMER", "REAR"} : \A k \in Nodes : (M[k].type = s) <=> (N[k].type = s)
    BY <1>4, <1>9
  <2> QED
    BY <1>2, <1>8, <2>1, ListKept
<1>12. InOrder(y.timer, M) /\ InOrder(y.rear, M)
  <2>1. Range(x.timer) \subseteq Nodes /\ Range(x.rear) \subseteq Nodes
    BY <1>2 DEF IsListOf
  <2> QED
    BY <1>1, <1>8, <1>9, <2>1, OrderKept
<1>13. IsListOf(y.ready, "READY", M)
  <2>1. \A k \in Nodes : (M[k].type = "READY") <=> (N[k].type = "READY" /\ k # Head(x.ready))
    BY <1>4, <1>9 DEF n
  <2> QED
    <3>1. x.ready \in Seq(Nodes) /\ IsListOf(x.ready, "READY", N) /\ y.ready = Tail(x.ready)
      BY <1>1, <1>2, <1>8 DEF t
    <3> QED
      BY <2>1, <3>1, ListTail
<1>14. IsListOf(y.unuse, "UNUSED", M)
  <2>1. CASE watched
    <3>1. \A k \in Nodes : (M[k].type = "UNUSED") <=> (N[k].type = "UNUSED")
      BY <1>4, <1>9, <2>1
    <3> QED
      BY <1>2, <1>8, <2>1, <3>1, ListKept
  <2>2. CASE ~watched
    <3>1. \A k \in Nodes : (M[k].type = "UNUSED") <=> (N[k].type = "UNUSED" \/ k = n)
      BY <1>4, <1>9, <2>2
    <3> QED
      BY <1>1, <1>2, <1>3, <1>4, <1>8, <2>2, <3>1, ListAdded
  <2> QED
    BY <2>1, <2>2
<1>15. Hashed(y.hash, M)
  <2>1. CASE watched
    <3> DEFINE f == N[n].fd
    <3>1. f \in Fds /\ x.hash[f] = NoNode /\ N[n].type # "EVENT" /\ M[n].type = "EVENT"
          /\ M[n].fd = f
      BY <1>3, <1>4, <1>7, <1>9, <2>1
    <3>2. y.hash = [x.hash EXCEPT ![f] = n]
      BY <1>8, <2>1
    <3>3. x.hash \in [Fds -> Nodes \cup {NoNode}] /\ Hashed(x.hash, N)
      BY <1>1, <1>2
    <3> HIDE DEF f
    <3> QED
      BY <1>3, <1>10, <3>1, <3>2, <3>3, HashAdded
  <2>2. CASE ~watched
    <3>1. \A k \in Nodes : \/ M[k] = N[k]
                           \/ N[k].type # "EVENT" /\ (M[k].type # "EVENT" \/ M[k].fd = Bad)
      BY <1>4, <1>9, <2>2
    <3>2. x.hash \in [Fds -> Nodes \cup {NoNode}] /\ Hashed(x.hash, N) /\ y.hash = x.hash
      BY <1>1, <1>2, <1>8, <2>2
    <3>3. Hashed(x.hash, M)
      BY <3>1, <3>2, HashKept
    <3> QED
      BY <3>2, <3>3
  <2> QED
    BY <2>1, <2>2
<1>16. Added(M)
  BY <1>1, <1>4, <1>9 DEF Added, Kinds
<1>17. Owned(h, M)
  <2>1. \A k \in Nodes :
          \/ M[k] = N[k]
          \/ ~Watching(N[k]) /\ ~Watching(M[k])
          \/ Watching(N[k]) /\ Watching(M[k]) /\ M[k].add_type = "EVENT" /\ M[k].fd = N[k].fd
    BY <1>4, <1>7, <1>9 DEF Watching
  <2>2. Owned(h, N)
    BY <1>1
  <2> QED
    BY <2>1, <2>2, OwnedKept
<1>18. ArmedFor(y.armed, y.alarm, M)
  <2>1. \A k \in Nodes : /\ (M[k].type \in Kinds) <=> (N[k].type \in Kinds)
                         /\ N[k].type \in Kinds => M[k].time = N[k].time
    BY <1>4, <1>9 DEF Kinds
  <2>2. ArmedFor(x.armed, x.alarm, N)
    BY DEF N
  <2> QED
    BY <1>8, <2>1, <2>2, ArmedKept
<1>19. Core(y, h)
  <2>1. y.node = M
    BY DEF M
  <2> QED
    BY <1>1, <1>8, <1>11, <1>12, <1>13, <1>14, <1>15, <1>16, <1>17, <2>1 DEF Core, Placed
<1>20. Made(M, N, n, type, N[n].add_type, N[n].time)
  BY <1>8 DEF Made, M, r
<1> QED
  BY <1>4, <1>8, <1>9, <1>18, <1>19, <1>20 DEF M, N, n, y, t, type, watched

-----------------------------------------------------------------------------
(* The first of the ready list is the one that may be out of order. *)
LEMMA EventsAfterRun ==
    ASSUME NEW x, NEW y, x.ready \in Seq(Nodes), x.ready # <<>>, EventsFirst(x, 2),
           y.ready = Tail(x.ready),
           \A k \in Nodes : y.node[k].add_type = x.node[k].add_type
    PROVE  EventsFirst(y, 1)
<1> DEFINE l == Len(x.ready)
<1>1. /\ l \in Nat /\ DOMAIN x.ready = 1 .. l /\ DOMAIN y.ready = 1 .. l - 1
      /\ \A i \in 1 .. l - 1 : i + 1 \in 1 .. l /\ y.ready[i] = x.ready[i + 1]
      /\ \A i \in 1 .. l : x.ready[i] \in Nodes
  BY TailOf
<1> HIDE DEF l
<1>2. ASSUME NEW i \in 1 .. l - 1, NEW j \in 1 .. l - 1, i < j,
             y.node[y.ready[j]].add_type = "EVENT"
      PROVE  y.node[y.ready[i]].add_type = "EVENT"
  <2>1. i + 1 \in 1 .. l /\ j + 1 \in 1 .. l /\ i + 1 < j + 1 /\ 2 <= i + 1
    BY <1>1, <1>2
  <2>2. x.node[x.ready[j + 1]].add_type = "EVENT"
    BY <1>1, <1>2, <2>1
  <2>3. x.node[x.ready[i + 1]].add_type = "EVENT"
    BY <1>1, <2>1, <2>2 DEF EventsFirst
  <2> QED
    BY <1>1, <2>1, <2>3
<1> QED
  BY <1>1, <1>2 DEF EventsFirst

-----------------------------------------------------------------------------
(* The actions keep the invariant. *)

(* A ready list that loses nodes at most. *)
LEMMA EventsKept ==
    ASSUME NEW x, NEW y, x.ready \in Seq(Nodes), EventsFirst(x, 1),
           NEW S, y.ready = Keep(x.ready, S) \/ y.ready = x.ready,
           \A k \in Range(x.ready) : y.node[k].add_type = x.node[k].add_type
    PROVE  EventsFirst(y, 1)
<1>1. /\ DOMAIN x.ready = 1 .. Len(x.ready)
      /\ \A i \in DOMAIN x.ready : x.ready[i] \in Range(x.ready)
  BY DEF Range
<1>2. CASE y.ready = x.ready
  BY <1>1, <1>2 DEF EventsFirst
<1>3. CASE y.ready = Keep(x.ready, S)
  <2>1. DOMAIN y.ready = 1 .. Len(y.ready)
    BY <1>3, KeepLeaves
  <2>2. ASSUME NEW i \in DOMAIN y.ready, NEW j \in DOMAIN y.ready, i < j,
               y.node[y.ready[j]].add_type = "EVENT"
        PROVE  y.node[y.ready[i]].add_type = "EVENT"
    <3>1. i \in 1 .. Len(Keep(x.ready, S)) /\ j \in 1 .. Len(Keep(x.ready, S)) /\ i < j
      BY <1>3, <2>1, <2>2
    <3> DEFINE s == x.ready
    <3>2. s \in Seq(Nodes) /\ i \in 1 .. Len(Keep(s, S)) /\ j \in 1 .. Len(Keep(s, S)) /\ i < j
      BY <3>1
    <3> HIDE DEF s
    <3>3. \A p, q \in 1 .. Len(Keep(s, S)) : p < q =>
            \E k, l \in 1 .. Len(s) : k < l /\ Keep(s, S)[p] = s[k] /\ Keep(s, S)[q] = s[l]
      BY <3>2, KeepOrder DEF KeptInOrder
    <3>4. PICK k, l \in 1 .. Len(x.ready) : k < l /\ y.ready[i] = x.ready[k] /\ y.ready[j] = x.ready[l]
      BY <1>3, <3>1, <3>3 DEF s
    <3>5. k \in DOMAIN x.ready /\ l \in DOMAIN x.ready /\ 1 <= k
      BY <1>1
    <3>6. x.node[x.ready[l]].add_type = "EVENT"
      BY <1>1, <2>2, <3>4, <3>5
    <3>7. x.node[x.ready[k]].add_type = "EVENT"
      BY <3>4, <3>5, <3>6 DEF EventsFirst
    <3> QED
      BY <1>1, <3>4, <3>5, <3>7
  <2> QED
    BY <2>2 DEF EventsFirst
<1> QED
  BY <1>2, <1>3

(* The nodes that are ready are those of the ready list. *)
LEMMA ReadyRange ==
    ASSUME NEW x, NEW h, Core(x, h)
    PROVE  /\ x.ready \in Seq(Nodes) /\ Range(x.ready) = {n \in Nodes : x.node[n].type = "READY"}
           /\ x.unuse \in Seq(Nodes) /\ x.node \in [Nodes -> NodeRec]
BY DEF Core, Placed, MasterType, IsListOf

(* TIMER_ON and REAR_ON keep the invariant: AddCore, and nothing new is    *)
(* ready.                                                                  *)
LEMMA AddTimerStep ==
    ASSUME LoopInv, NEW kind \in Kinds, NEW delay \in Delays, AddTimer(kind, delay)
    PROVE  LoopInv'
<1>1. now + delay \in Nat
  BY EventCtlAssumption DEF LoopInv
<1> DEFINE y == event_timer_add(m, kind, now + delay)
<1>2. /\ Core(y, handle) /\ ArmedFor(y.armed, y.alarm, y.node)
      /\ y.ready = m.ready
      /\ \A k \in Nodes : m.node[k].type = "READY" => y.node[k] = m.node[k]
  BY <1>1, AddCore DEF LoopInv, AddTimer
<1>3. m' = y /\ UNCHANGED <<ep, handle, now>>
  BY DEF AddTimer
<1> HIDE DEF y
<1>4. EventsFirst(y, 1)
  <2>1. EventsFirst(m, 1) /\ Core(m, handle)
    BY DEF LoopInv
  <2>2. m.ready \in Seq(Nodes)
    BY <2>1, ReadyRange
  <2>3. \A k \in Range(m.ready) : y.node[k].add_type = m.node[k].add_type
    BY <1>2, <2>1, ReadyRange
  <2>4. y.ready = m.ready
    BY <1>2
  <2> QED
    BY <2>1, <2>2, <2>3, <2>4, EventsKept
<1> QED
  BY <1>2, <1>3, <1>4 DEF LoopInv

(* So does TIMER_OFF: the node of a timer watches no descriptor. *)
LEMMA CancelTimerStep ==
    ASSUME LoopInv, NEW n \in Nodes, CancelTimer(n)
    PROVE  LoopInv'
<1> DEFINE y == event_cancel(m, n)
           N == m.node
<1>1. N[n].add_type \in Kinds /\ N[n].type \in Kinds \cup {"READY"}
  BY DEF CancelTimer
<1>2. Core(m, handle) /\ ArmedFor(m.armed, m.alarm, N) /\ EventsFirst(m, 1)
      /\ handle \in [Fds -> Nodes \cup {NoNode}]
  BY DEF LoopInv
<1>3. ASSUME NEW M, Only(M, N, n), M[n].type = "UNUSED" PROVE Owned(handle, M)
  <2>1. \A k \in Nodes : M[k] = N[k] \/ (~Watching(N[k]) /\ ~Watching(M[k]))
    BY <1>1, <1>3 DEF Watching, Only, Kinds
  <2> QED
    BY <1>2, <2>1, OwnedKept DEF Core
<1>4. N[n].type \in Kinds \cup {"READY", "EVENT"} /\ (N[n].type = "EVENT" => N[n].fd \in Fds)
  BY <1>1 DEF Kinds
<1>5. /\ Core(y, handle) /\ ArmedFor(y.armed, y.alarm, y.node)
      /\ y.ready = IF N[n].type = "READY" THEN Without(m.ready, n) ELSE m.ready
      /\ \A k \in Nodes : y.node[k].add_type = N[k].add_type
  BY <1>2, <1>3, <1>4, CancelCore
<1>6. m' = y /\ UNCHANGED <<ep, handle, now>>
  BY DEF CancelTimer
<1> HIDE DEF y
<1>7. EventsFirst(y, 1)
  <2>1. y.ready = Keep(m.ready, Nodes \ {n}) \/ y.ready = m.ready
    BY <1>5 DEF Without
  <2>2. m.ready \in Seq(Nodes) /\ \A k \in Range(m.ready) : y.node[k].add_type = m.node[k].add_type
    BY <1>2, <1>5, ReadyRange
  <2> DEFINE S == Nodes \ {n}
  <2> HIDE DEF S
  <2>3. y.ready = Keep(m.ready, S) \/ y.ready = m.ready
    BY <2>1 DEF S
  <2> QED
    BY <1>2, <2>2, <2>3, EventsKept
<1> QED
  BY <1>5, <1>6, <1>7 DEF LoopInv

(* So does EVENT_OFF with close(), which clears node and handle together. *)
LEMMA UnwatchStep ==
    ASSUME LoopInv, NEW fd \in Fds, Unwatch(fd)
    PROVE  LoopInv'
<1> DEFINE n == handle[fd]
           y == event_cancel(m, n)
           N == m.node
           g == [handle EXCEPT ![fd] = NoNode]
<1>1. Core(m, handle) /\ ArmedFor(m.armed, m.alarm, N) /\ EventsFirst(m, 1)
      /\ handle \in [Fds -> Nodes \cup {NoNode}] /\ Owned(handle, N)
  BY DEF LoopInv, Core
<1>2. /\ n \in Nodes /\ N[n].type \in {"EVENT", "READY"} /\ N[n].fd = fd
  BY <1>1 DEF Owned, Unwatch
<1> DEFINE k0 == n
<1>3. ASSUME NEW M, Only(M, N, n), M[n].type = "UNUSED" PROVE Owned(g, M)
  <2>1. ~Watching(M[n])
    BY <1>3 DEF Watching
  <2>2. handle[fd] = k0 /\ k0 \in Nodes /\ Only(M, N, k0) /\ ~Watching(M[k0])
    BY <1>2, <1>3, <2>1
  <2> HIDE DEF k0, N
  <2> QED
    BY <1>1, <2>2, OwnedRemoved
<1>4. /\ Core(y, g) /\ ArmedFor(y.armed, y.alarm, y.node)
      /\ y.ready = IF N[n].type = "READY" THEN Without(m.ready, n) ELSE m.ready
      /\ \A k \in Nodes : y.node[k].add_type = N[k].add_type
  <2>1. /\ k0 \in Nodes /\ N[k0].type \in Kinds \cup {"READY", "EVENT"}
        /\ N[k0].type = "EVENT" => N[k0].fd \in Fds
        /\ \A M : Only(M, m.node, k0) /\ M[k0].type = "UNUSED" => Owned(g, M)
    BY <1>2, <1>3
  <2> HIDE DEF k0, g
  <2>2. LET v == event_cancel(m, k0) IN
        /\ Core(v, g)
        /\ ArmedFor(v.armed, v.alarm, v.node)
        /\ v.ready = IF N[k0].type = "READY" THEN Without(m.ready, k0) ELSE m.ready
        /\ \A k \in Nodes : v.node[k].add_type = N[k].add_type
    BY <1>1, <2>1, CancelCore
  <2> QED
    BY <2>2 DEF k0, g
<1>5. m' = y /\ handle' = g /\ ep' = [ep EXCEPT ![fd] = [node |-> NoNode, on |-> FALSE]]
      /\ now' = now
  BY DEF Unwatch
<1>6. g \in [Fds -> Nodes \cup {NoNode}]
  BY <1>1
<1>7. EventsFirst(y, 1)
  <2>1. m.ready \in Seq(Nodes)
    BY <1>1, ReadyRange
  <2>2. \A k \in Range(m.ready) : y.node[k].add_type = m.node[k].add_type
    BY <1>1, <1>4, ReadyRange
  <2> DEFINE S == Nodes \ {n}
  <2>3. y.ready = Keep(m.ready, S) \/ y.ready = m.ready
    BY <1>4 DEF Without
  <2> HIDE DEF S, y
  <2> QED
    BY <1>1, <2>1, <2>2, <2>3, EventsKept
<1> HIDE DEF y
<1>8. /\ ep' \in [Fds -> [node : Nodes \cup {NoNode}, on : BOOLEAN]]
      /\ \A f \in Fds : ep'[f].node = g[f]
  <2>1. ep \in [Fds -> [node : Nodes \cup {NoNode}, on : BOOLEAN]]
        /\ \A f \in Fds : ep[f].node = handle[f]
    BY DEF LoopInv
  <2> QED
    BY <1>1, <1>5, <2>1
<1>9. now \in Nat
  BY DEF LoopInv
<1> QED
  BY <1>4, <1>5, <1>6, <1>7, <1>8, <1>9 DEF LoopInv

(* So does EVENT_SET of a descriptor that is not watched. *)
LEMMA WatchStep ==
    ASSUME LoopInv, NEW fd \in Fds, Watch(fd)
    PROVE  LoopInv'
<1> DEFINE n == NextNode(m)
           y == HashAdd([event_node_get(m, "EVENT") EXCEPT !.node[n].fd = fd], fd, n)
           g == [handle EXCEPT ![fd] = n]
<1>1. Core(m, handle) /\ ArmedFor(m.armed, m.alarm, m.node) /\ EventsFirst(m, 1)
      /\ handle \in [Fds -> Nodes \cup {NoNode}] /\ handle[fd] = NoNode /\ CanGet(m)
  BY DEF LoopInv, Watch
<1>2. /\ Core(y, g) /\ ArmedFor(y.armed, y.alarm, y.node)
      /\ y.ready = m.ready
      /\ \A k \in Nodes : m.node[k].type = "READY" => y.node[k] = m.node[k]
  BY <1>1, WatchCore
<1>3. m' = y /\ handle' = g /\ ep' = [ep EXCEPT ![fd] = [node |-> n, on |-> TRUE]] /\ now' = now
  BY DEF Watch
<1>4. n \in Nodes
  BY <1>1, NextIsUnused
<1> HIDE DEF y, n
<1>5. g \in [Fds -> Nodes \cup {NoNode}]
  BY <1>1, <1>4
<1>6. EventsFirst(y, 1)
  <2>1. EventsFirst(m, 1) /\ m.ready \in Seq(Nodes)
    BY <1>1, ReadyRange
  <2>2. \A k \in Range(m.ready) : y.node[k].add_type = m.node[k].add_type
    BY <1>1, <1>2, ReadyRange
  <2>3. y.ready = m.ready
    BY <1>2
  <2> QED
    BY <2>1, <2>2, <2>3, EventsKept
<1>7. /\ ep' \in [Fds -> [node : Nodes \cup {NoNode}, on : BOOLEAN]]
      /\ \A f \in Fds : ep'[f].node = g[f]
  <2>1. ep \in [Fds -> [node : Nodes \cup {NoNode}, on : BOOLEAN]]
        /\ \A f \in Fds : ep[f].node = handle[f]
    BY DEF LoopInv
  <2> QED
    BY <1>1, <1>3, <1>4, <2>1
<1>8. now \in Nat
  BY DEF LoopInv
<1> QED
  BY <1>2, <1>3, <1>5, <1>6, <1>7, <1>8 DEF LoopInv

(* So does the event_epoll_add that fails. *)
LEMMA WatchClosedStep ==
    ASSUME LoopInv, WatchClosed
    PROVE  LoopInv'
<1> DEFINE y == [event_node_get(m, "EVENT") EXCEPT !.node[NextNode(m)].fd = Bad]
<1>1. Core(m, handle) /\ ArmedFor(m.armed, m.alarm, m.node) /\ EventsFirst(m, 1)
      /\ handle \in [Fds -> Nodes \cup {NoNode}] /\ CanGet(m)
  BY DEF LoopInv, WatchClosed
<1>2. /\ Core(y, handle) /\ ArmedFor(y.armed, y.alarm, y.node)
      /\ y.ready = m.ready
      /\ \A k \in Nodes : m.node[k].type = "READY" => y.node[k] = m.node[k]
  BY <1>1, WatchClosedCore
<1>3. m' = y /\ UNCHANGED <<ep, handle, now>>
  BY DEF WatchClosed
<1> HIDE DEF y
<1>4. EventsFirst(y, 1)
  <2>1. EventsFirst(m, 1) /\ m.ready \in Seq(Nodes)
    BY <1>1, ReadyRange
  <2>2. \A k \in Range(m.ready) : y.node[k].add_type = m.node[k].add_type
    BY <1>1, <1>2, ReadyRange
  <2>3. y.ready = m.ready
    BY <1>2
  <2> QED
    BY <2>1, <2>2, <2>3, EventsKept
<1> QED
  BY <1>2, <1>3, <1>4 DEF LoopInv

(* LookupFindsHandle: the node of a watched descriptor is in the hash, or  *)
(* the first of the ready list that has the fd.                            *)
LEMMA LookupFinds ==
    ASSUME LoopInv, NEW fd \in Fds, handle[fd] # NoNode
    PROVE  event_epoll_lookup_by_fd(m, fd) = handle[fd]
<1> DEFINE n == handle[fd]
           N == m.node
           r == m.ready
           hits == {i \in DOMAIN r : N[r[i]].fd = fd}
<1>1. /\ n \in Nodes /\ N[n].type \in {"EVENT", "READY"} /\ N[n].add_type = "EVENT"
      /\ N[n].fd = fd
  BY DEF LoopInv, Core, Owned
<1>2. /\ Hashed(m.hash, N) /\ Owned(handle, N) /\ IsListOf(r, "READY", N) /\ r \in Seq(Nodes)
      /\ m.hash \in [Fds -> Nodes \cup {NoNode}] /\ EventsFirst(m, 1) /\ DOMAIN r = 1 .. Len(r)
  BY DEF LoopInv, Core, Placed, MasterType
<1>3. CASE m.hash[fd] # NoNode
  <2> DEFINE k == m.hash[fd]
  <2>1. k \in Nodes /\ N[k].type = "EVENT" /\ N[k].fd = fd
    BY <1>2, <1>3 DEF Hashed
  <2>2. handle[fd] = k
    BY <1>2, <2>1, BadFd DEF Owned, Watching
  <2> QED
    BY <1>3, <2>2 DEF event_epoll_lookup_by_fd
<1>4. CASE m.hash[fd] = NoNode
  <2>1. N[n].type = "READY"
    <3>1. N[n].type = "EVENT" => m.hash[fd] = n
      BY <1>1, <1>2, BadFd DEF Hashed
    <3> QED
      BY <1>1, <1>4, <3>1
  <2>2. n \in Range(r)
    BY <1>1, <1>2, <2>1 DEF IsListOf
  <2>3. PICK i \in DOMAIN r : r[i] = n
    BY <2>2 DEF Range
  <2>4. i \in hits
    BY <1>1, <2>3
  <2>5. ASSUME NEW j \in hits PROVE i <= j
    <3>1. SUFFICES ASSUME j < i PROVE FALSE
      BY <1>2
    <3>2. j \in DOMAIN r /\ 1 <= j /\ r[j] \in Nodes /\ r[j] \in Range(r) /\ N[r[j]].fd = fd
      BY <1>2 DEF Range
    <3>3. N[r[j]].add_type = "EVENT"
      BY <1>1, <1>2, <2>3, <3>1, <3>2 DEF EventsFirst
    <3>4. N[r[j]].type = "READY"
      BY <1>2, <3>2 DEF IsListOf
    <3>5. handle[fd] = r[j]
      BY <1>2, <3>2, <3>3, <3>4 DEF Owned, Watching
    <3> QED
      BY <1>2, <2>3, <3>1, <3>2, <3>5 DEF IsListOf, IsInjective
  <2> DEFINE f == CHOOSE k \in hits : \A j \in hits : k <= j
  <2>6. f \in hits /\ \A j \in hits : f <= j
    BY <2>4, <2>5
  <2>7. f = i
    <3>1. f <= i /\ i <= f
      BY <2>4, <2>5, <2>6
    <3>2. hits \subseteq Nat
      BY <1>2
    <3> HIDE DEF f, hits
    <3>3. f \in Nat /\ i \in Nat
      BY <2>4, <2>6, <3>2
    <3> QED
      BY <3>1, <3>3
  <2>8. event_epoll_lookup_by_fd(m, fd) = r[f]
    BY <1>4, <2>4 DEF event_epoll_lookup_by_fd
  <2> QED
    BY <2>3, <2>7, <2>8
<1> QED
  BY <1>3, <1>4

(* So does event_epoll_mod, because the look-up finds the owner's node. *)
LEMMA RearmStep ==
    ASSUME LoopInv, NEW fd \in Fds, Rearm(fd)
    PROVE  LoopInv'
<1>1. event_epoll_lookup_by_fd(m, fd) = handle[fd]
  BY LookupFinds DEF Rearm
<1>2. ep' = [ep EXCEPT ![fd] = [node |-> handle[fd], on |-> TRUE]] /\ UNCHANGED <<m, handle, now>>
  BY <1>1 DEF Rearm
<1>3. /\ ep \in [Fds -> [node : Nodes \cup {NoNode}, on : BOOLEAN]]
      /\ \A f \in Fds : ep[f].node = handle[f]
      /\ handle \in [Fds -> Nodes \cup {NoNode}]
  BY DEF LoopInv
<1>4. /\ ep' \in [Fds -> [node : Nodes \cup {NoNode}, on : BOOLEAN]]
      /\ \A f \in Fds : ep'[f].node = handle[f]
  BY <1>2, <1>3
<1> QED
  BY <1>2, <1>4 DEF LoopInv

(* So does event_run of the first ready node. *)
LEMMA RunStep ==
    ASSUME LoopInv, Run
    PROVE  LoopInv'
<1> DEFINE y == event_run(m)
<1>1. Core(m, handle) /\ ArmedFor(m.armed, m.alarm, m.node) /\ EventsFirst(m, 1)
      /\ handle \in [Fds -> Nodes \cup {NoNode}] /\ m.ready # <<>>
  BY DEF LoopInv, Run
<1>2. /\ Core(y, handle) /\ ArmedFor(y.armed, y.alarm, y.node) /\ y.ready = Tail(m.ready)
      /\ \A k \in Nodes : y.node[k].add_type = m.node[k].add_type
  BY <1>1, RunCore
<1>3. m' = y /\ UNCHANGED <<ep, handle, now>>
  BY DEF Run
<1> HIDE DEF y
<1>4. m.ready \in Seq(Nodes)
  BY <1>1, ReadyRange
<1>5. EventsFirst(m, 2)
  BY <1>1, <1>4 DEF EventsFirst
<1>6. EventsFirst(y, 1)
  BY <1>1, <1>2, <1>4, <1>5, EventsAfterRun
<1> QED
  BY <1>2, <1>3, <1>6 DEF LoopInv

(* A round of the loop with nothing ready, up to the timerfd: timers,      *)
(* descriptors, rear nodes.                                                *)
LEMMA RoundCore ==
    ASSUME LoopInv, m.ready = <<>>, NEW S \in SUBSET Fds, \A f \in S : ep[f].node # NoNode,
           NEW fds \in Orders(S)
    PROVE  LET x1 == event_timer_process(m, "TIMER")
               x2 == epoll_process(x1, fds)
               x == event_timer_process(x2, "REAR")
           IN  /\ Core(x, handle) /\ EventsFirst(x, 2)
               /\ Core(x1, handle) /\ Taken(x1, m, "TIMER")
               /\ Core(x2, handle) /\ Marked(x2.node, x1.node, S)
               /\ \E nodes \in Seq(Nodes) : /\ x2.ready = x1.ready \o nodes
                                           /\ Range(nodes) = {handle[f] : f \in S}
               /\ Taken(x, x2, "REAR")
<1> DEFINE x1 == event_timer_process(m, "TIMER")
           x2 == epoll_process(x1, fds)
           x3 == event_timer_process(x2, "REAR")
<1>1. Core(m, handle) /\ handle \in [Fds -> Nodes \cup {NoNode}] /\ now \in Nat
      /\ \A f \in Fds : ep[f].node = handle[f]
  BY DEF LoopInv
<1>2. "TIMER" \in Kinds /\ "REAR" \in Kinds
  BY DEF Kinds
<1>3. /\ Core(x1, handle)
      /\ \/ x1.ready = m.ready
         \/ \E n \in Nodes : x1.ready = Append(m.ready, n) /\ x1.node[n].add_type = "TIMER"
      /\ Taken(x1, m, "TIMER")
  BY ONLY <1>1, <1>2, ProcessCore
<1> HIDE DEF x1
<1>4. /\ x1.ready \in Seq(Nodes) /\ Len(x1.ready) \in {0, 1}
      /\ \A k \in Range(x1.ready) : x1.node[k].add_type # "EVENT"
  <2>1. CASE x1.ready = <<>>
    BY <2>1 DEF Range
  <2>2. CASE x1.ready # <<>>
    <3>1. PICK n \in Nodes : x1.ready = Append(m.ready, n) /\ x1.node[n].add_type = "TIMER"
      BY <1>3, <2>2
    <3>2. x1.ready = <<n>>
      BY <3>1
    <3> QED
      BY <3>1, <3>2 DEF Range
  <2> QED
    BY <2>1, <2>2
<1>5. /\ Core(x2, handle)
      /\ \E nodes \in Seq(Nodes) :
           /\ x2.ready = x1.ready \o nodes
           /\ \A k \in Range(nodes) : x2.node[k].add_type = "EVENT"
           /\ Range(nodes) = {handle[f] : f \in S}
      /\ \A k \in Nodes : x2.node[k].add_type = x1.node[k].add_type
      /\ Marked(x2.node, x1.node, S)
  BY <1>1, <1>3, <1>4, EpollCore
<1> HIDE DEF x2
<1>6. PICK nodes \in Seq(Nodes) : /\ x2.ready = x1.ready \o nodes
                                  /\ \A k \in Range(nodes) : x2.node[k].add_type = "EVENT"
  BY <1>5
<1>7. /\ Core(x3, handle)
      /\ \/ x3.ready = x2.ready
         \/ \E n \in Nodes : x3.ready = Append(x2.ready, n) /\ x3.node[n].add_type = "REAR"
      /\ \A k \in Nodes : x3.node[k].add_type = x2.node[k].add_type
      /\ Taken(x3, x2, "REAR")
  BY ONLY <1>1, <1>2, <1>5, ProcessCore
<1> HIDE DEF x3
<1> DEFINE l == Len(x2.ready)
<1>8. /\ x2.ready \in Seq(Nodes) /\ l \in Nat /\ DOMAIN x2.ready = 1 .. l
      /\ \A i \in 1 .. l : 2 <= i => x3.node[x2.ready[i]].add_type = "EVENT"
  <2>1. x2.ready \in Seq(Nodes)
    BY <1>5, ReadyRange
  <2>2. ASSUME NEW i \in 1 .. l, 2 <= i PROVE x3.node[x2.ready[i]].add_type = "EVENT"
    <3> DEFINE d == Len(x1.ready)
               q == x1.ready \o nodes
    <3>1. /\ d \in Nat /\ Len(nodes) \in Nat /\ DOMAIN q = 1 .. d + Len(nodes)
          /\ \A k \in 1 .. d + Len(nodes) :
               IF k <= d THEN k \in 1 .. d /\ q[k] = x1.ready[k]
               ELSE k - d \in 1 .. Len(nodes) /\ q[k] = nodes[k - d]
      BY <1>4, Joined
    <3>2. q = x2.ready /\ i \in DOMAIN q
      BY <1>6, <2>1, <2>2
    <3>3. d \in {0, 1}
      BY <1>4
    <3> HIDE DEF d, q
    <3>4. ~(i <= d) /\ i \in 1 .. d + Len(nodes)
      BY <2>2, <3>1, <3>2, <3>3
    <3>5. i - d \in 1 .. Len(nodes) /\ x2.ready[i] = nodes[i - d]
      BY <3>1, <3>2, <3>4
    <3>6. x2.ready[i] \in Range(nodes) /\ x2.ready[i] \in Nodes
      BY <3>5 DEF Range
    <3> QED
      BY <1>6, <1>7, <3>6
  <2> QED
    BY <2>1, <2>2
<1> HIDE DEF l
<1>9. EventsFirst(x3, 2)
  <2>1. CASE x3.ready = x2.ready
    <3>1. ASSUME NEW i \in 1 .. l, 2 <= i PROVE x3.node[x3.ready[i]].add_type = "EVENT"
      BY <1>8, <2>1, <3>1
    <3> QED
      BY <1>8, <2>1, <3>1 DEF EventsFirst
  <2>2. CASE x3.ready # x2.ready
    <3>1. PICK n \in Nodes : x3.ready = Append(x2.ready, n) /\ x3.node[n].add_type = "REAR"
      BY <1>7, <2>2
    <3>2. /\ DOMAIN x3.ready = 1 .. l + 1
          /\ \A i \in 1 .. l : x3.ready[i] = x2.ready[i]
          /\ x3.ready[l + 1] = n
      BY <1>8, <3>1, AppendNew DEF l
    <3>3. ASSUME NEW i \in 1 .. l + 1, NEW j \in 1 .. l + 1, 2 <= i, i < j
          PROVE  x3.node[x3.ready[i]].add_type = "EVENT"
      <4>1. i \in 1 .. l
        BY <1>8, <3>3
      <4> QED
        BY <1>8, <3>2, <3>3, <4>1
    <3> QED
      BY <3>2, <3>3 DEF EventsFirst
  <2> QED
    BY <2>1, <2>2
<1> QED
  BY <1>3, <1>5, <1>7, <1>9 DEF x3, x2, x1

(* So does a round of event_waiting_process: RoundCore, the timerfd,       *)
(* event_run.                                                              *)
LEMMA PassStep ==
    ASSUME LoopInv, Pass
    PROVE  LoopInv'
<1>1. PICK S \in SUBSET {fd \in Fds : ep[fd].node # NoNode /\ ep[fd].on} :
      \E fds \in Orders(S) :
        LET x == Collected(fds) IN
        /\ m.ready = <<>>
        /\ S # {} \/ (m.alarm # Never /\ m.alarm <= now)
        /\ m' = IF x.ready = <<>> THEN x ELSE event_run(x)
        /\ ep' = [fd \in Fds |-> IF fd \in S /\ fd # ListenFd
                                   THEN [ep[fd] EXCEPT !.on = FALSE] ELSE ep[fd]]
        /\ UNCHANGED <<handle, now>>
  BY DEF Pass
<1>2. PICK fds \in Orders(S) :
        LET x == Collected(fds) IN
        /\ m.ready = <<>>
        /\ m' = IF x.ready = <<>> THEN x ELSE event_run(x)
        /\ ep' = [fd \in Fds |-> IF fd \in S /\ fd # ListenFd
                                   THEN [ep[fd] EXCEPT !.on = FALSE] ELSE ep[fd]]
        /\ UNCHANGED <<handle, now>>
  BY <1>1
<1> DEFINE w == event_timer_process(epoll_process(event_timer_process(m, "TIMER"), fds), "REAR")
           x == event_timer_reset(w)
<1>3. Core(w, handle) /\ EventsFirst(w, 2)
  <2>1. S \in SUBSET Fds /\ \A f \in S : ep[f].node # NoNode
    OBVIOUS
  <2> QED
    BY <1>2, <2>1, RoundCore
<1>4. /\ m' = IF x.ready = <<>> THEN x ELSE event_run(x)
      /\ ep' = [fd \in Fds |-> IF fd \in S /\ fd # ListenFd
                                 THEN [ep[fd] EXCEPT !.on = FALSE] ELSE ep[fd]]
      /\ UNCHANGED <<handle, now>>
  BY <1>2 DEF Collected
<1> HIDE DEF w
<1>5. SameLists(x, w) /\ ArmedFor(x.armed, x.alarm, w.node)
  <2>1. /\ w \in MasterType /\ w.node \in [Nodes -> NodeRec]
        /\ IsListOf(w.timer, "TIMER", w.node) /\ IsListOf(w.rear, "REAR", w.node)
        /\ InOrder(w.timer, w.node) /\ InOrder(w.rear, w.node)
        /\ (w.armed = NoNode) <=> (w.alarm = Never)
    BY <1>3 DEF Core, Placed, MasterType
  <2> QED
    BY <2>1, ResetArms
<1> HIDE DEF x
<1>6. Core(x, handle) /\ EventsFirst(x, 2) /\ ArmedFor(x.armed, x.alarm, x.node)
  <2>1. (x.armed = NoNode) <=> (x.alarm = Never)
    BY <1>5 DEF ArmedFor
  <2>2. Core(x, handle)
    BY <1>3, <1>5, <2>1 DEF SameLists, Core, Placed
  <2>3. EventsFirst(x, 2)
    BY <1>3, <1>5 DEF SameLists, EventsFirst
  <2> QED
    BY <1>5, <2>2, <2>3 DEF SameLists
<1>7. handle \in [Fds -> Nodes \cup {NoNode}] /\ x.ready \in Seq(Nodes)
  BY <1>6, ReadyRange DEF LoopInv
<1>8. Core(m', handle) /\ EventsFirst(m', 1) /\ ArmedFor(m'.armed, m'.alarm, m'.node)
  <2>1. CASE x.ready = <<>>
    <3>1. EventsFirst(x, 1)
      BY <2>1 DEF EventsFirst
    <3> QED
      BY <1>4, <1>6, <2>1, <3>1
  <2>2. CASE x.ready # <<>>
    <3> DEFINE y == event_run(x)
    <3>1. /\ Core(y, handle) /\ ArmedFor(y.armed, y.alarm, y.node) /\ y.ready = Tail(x.ready)
          /\ \A k \in Nodes : y.node[k].add_type = x.node[k].add_type
      BY <1>6, <1>7, <2>2, RunCore
    <3>2. m' = y
      BY <1>4, <2>2
    <3> HIDE DEF y
    <3>3. EventsFirst(y, 1)
      BY <1>6, <1>7, <2>2, <3>1, EventsAfterRun
    <3> QED
      BY <3>1, <3>2, <3>3
  <2> QED
    BY <2>1, <2>2
<1>9. /\ ep' \in [Fds -> [node : Nodes \cup {NoNode}, on : BOOLEAN]]
      /\ \A f \in Fds : ep'[f].node = handle[f]
  <2>1. /\ ep \in [Fds -> [node : Nodes \cup {NoNode}, on : BOOLEAN]]
        /\ \A f \in Fds : ep[f].node = handle[f]
    BY DEF LoopInv
  <2>2. ASSUME NEW f \in Fds
        PROVE  ep'[f] \in [node : Nodes \cup {NoNode}, on : BOOLEAN] /\ ep'[f].node = handle[f]
    BY <1>4, <2>1
  <2> QED
    BY <1>4, <2>2
<1>10. handle' = handle /\ now' = now /\ now \in Nat
  BY <1>4 DEF LoopInv
<1> QED
  BY <1>7, <1>8, <1>9, <1>10 DEF LoopInv

(* At the start no node is in use. *)
LEMMA LoopInit == Init => LoopInv
<1> SUFFICES ASSUME Init PROVE LoopInv
  OBVIOUS
<1>1. /\ m.node = [n \in Nodes |-> [type |-> "FREE", add_type |-> "FREE", fd |-> 0, time |-> 0]]
      /\ m.timer = <<>> /\ m.rear = <<>> /\ m.ready = <<>> /\ m.unuse = <<>>
      /\ m.hash = [fd \in Fds |-> NoNode] /\ m.armed = NoNode /\ m.alarm = Never
  BY DEF Init
<1>2. \A n \in Nodes : m.node[n].type = "FREE"
  BY <1>1
<1>3. m \in MasterType
  <2>1. m.node \in [Nodes -> NodeRec]
    BY <1>1 DEF NodeRec, Types, NodeFd
  <2>2. m = [node |-> m.node, timer |-> <<>>, rear |-> <<>>, ready |-> <<>>, unuse |-> <<>>,
             hash |-> [fd \in Fds |-> NoNode], armed |-> NoNode, alarm |-> Never]
    BY DEF Init
  <2> DEFINE N == m.node
  <2> HIDE DEF N
  <2>3. [node |-> N, timer |-> <<>>, rear |-> <<>>, ready |-> <<>>, unuse |-> <<>>,
         hash |-> [fd \in Fds |-> NoNode], armed |-> NoNode, alarm |-> Never] \in MasterType
    BY <2>1 DEF MasterType, N
  <2> QED
    BY <2>2, <2>3 DEF N
<1>4. Placed(m)
  <2>1. IsInjective(<<>>) /\ Range(<<>>) = {}
    BY DEF IsInjective, Range
  <2>2. Hashed(m.hash, m.node)
    BY <1>1, <1>2 DEF Hashed
  <2> QED
    BY <1>1, <1>2, <2>1, <2>2 DEF Placed, IsListOf
<1>5. Added(m.node)
  BY <1>2 DEF Added, Kinds
<1>6. InOrder(m.timer, m.node) /\ InOrder(m.rear, m.node) /\ EventsFirst(m, 1)
  BY <1>1 DEF InOrder, EventsFirst
<1>7. handle = [fd \in Fds |-> NoNode] /\ now = 0
      /\ ep = [fd \in Fds |-> [node |-> NoNode, on |-> FALSE]]
  BY DEF Init
<1>8. Owned(handle, m.node)
  BY <1>2, <1>7 DEF Owned, Watching
<1>9. ArmedFor(m.armed, m.alarm, m.node)
  BY <1>1, <1>2 DEF ArmedFor, Kinds
<1>10. Core(m, handle)
  BY <1>1, <1>3, <1>4, <1>5, <1>6, <1>8 DEF Core
<1> QED
  BY <1>6, <1>7, <1>9, <1>10 DEF LoopInv

(* Every step keeps the invariant, action by action. *)
LEMMA LoopNext == LoopInv /\ [Next]_vars => LoopInv'
<1> SUFFICES ASSUME LoopInv, [Next]_vars PROVE LoopInv'
  OBVIOUS
<1>1. CASE Callback
  <2>1. ASSUME NEW kind \in Kinds, NEW delay \in Delays, AddTimer(kind, delay) PROVE LoopInv'
    BY <2>1, AddTimerStep
  <2>2. ASSUME NEW n \in Nodes, CancelTimer(n) PROVE LoopInv'
    BY <2>2, CancelTimerStep
  <2>3. ASSUME NEW fd \in Fds, Watch(fd) PROVE LoopInv'
    BY <2>3, WatchStep
  <2>4. ASSUME NEW fd \in Fds, Rearm(fd) PROVE LoopInv'
    BY <2>4, RearmStep
  <2>5. ASSUME NEW fd \in Fds, Unwatch(fd) PROVE LoopInv'
    BY <2>5, UnwatchStep
  <2>6. CASE WatchClosed
    BY <2>6, WatchClosedStep
  <2> QED
    BY <1>1, <2>1, <2>2, <2>3, <2>4, <2>5, <2>6 DEF Callback
<1>2. CASE Loop
  BY <1>2, PassStep, RunStep DEF Loop
<1>3. CASE Tick
  <2>1. UNCHANGED <<m, ep, handle>> /\ now' \in Nat
    BY <1>3 DEF Tick, LoopInv
  <2> QED
    BY <2>1 DEF LoopInv
<1>4. CASE UNCHANGED vars
  BY <1>4 DEF vars, LoopInv
<1> QED
  BY <1>1, <1>2, <1>3, <1>4 DEF Next

(* The invariant holds in every reachable state of the event loop. *)
THEOREM LoopInvariant == Spec => []LoopInv
BY LoopInit, LoopNext, PTL DEF Spec

-----------------------------------------------------------------------------
(* The properties. *)

(* The loop's records keep their types, and used nodes have a kind         *)
(* event_run knows.                                                        *)
THEOREM TypeCorrect == Spec => []TypeOK
<1>1. LoopInv => TypeOK
  <2> SUFFICES ASSUME LoopInv PROVE TypeOK
    OBVIOUS
  <2>1. m \in MasterType /\ \A n \in Nodes : m.node[n].type # "FREE" => m.node[n].add_type \in Kinds \cup {"EVENT"}
    BY DEF LoopInv, Core, Added
  <2> QED
    BY <2>1 DEF LoopInv, TypeOK, MasterType
<1> QED
  BY <1>1, LoopInvariant, PTL

(* How often a node is in a list. *)
LEMMA OnceInList ==
    ASSUME NEW list \in Seq(Nodes), NEW type, NEW N, IsListOf(list, type, N), NEW n \in Nodes
    PROVE  Cardinality({i \in DOMAIN list : list[i] = n}) = IF N[n].type = type THEN 1 ELSE 0
<1>1. CASE N[n].type = type
  <2>1. PICK i \in DOMAIN list : list[i] = n
    BY <1>1 DEF IsListOf, Range
  <2>2. {j \in DOMAIN list : list[j] = n} = {i}
    BY <2>1 DEF IsListOf, IsInjective
  <2> QED
    BY <1>1, <2>2, FS_Singleton
<1>2. CASE N[n].type # type
  <2>1. \A j \in DOMAIN list : list[j] # n
    BY <1>2 DEF IsListOf, Range
  <2>2. {j \in DOMAIN list : list[j] = n} = {}
    BY <2>1
  <2> QED
    BY <1>2, <2>2, FS_EmptySet
<1> QED
  BY <1>1, <1>2

(* How often a node is in the hash. *)
LEMMA OnceInHash ==
    ASSUME NEW H \in [Fds -> Nodes \cup {NoNode}], NEW N, Hashed(H, N), NEW n \in Nodes
    PROVE  Cardinality({fd \in Fds : H[fd] = n})
             = IF N[n].type = "EVENT" /\ N[n].fd # Bad THEN 1 ELSE 0
<1>1. CASE N[n].type = "EVENT" /\ N[n].fd # Bad
  <2>1. {fd \in Fds : H[fd] = n} = {N[n].fd}
    <3>1. N[n].fd \in Fds /\ H[N[n].fd] = n
      BY <1>1 DEF Hashed
    <3>2. ASSUME NEW fd \in Fds, H[fd] = n PROVE fd = N[n].fd
      BY <3>2, EventCtlAssumption DEF Hashed
    <3> QED
      BY <3>1, <3>2
  <2> QED
    BY <1>1, <2>1, FS_Singleton
<1>2. CASE ~(N[n].type = "EVENT" /\ N[n].fd # Bad)
  <2>1. {fd \in Fds : H[fd] = n} = {}
    <3>1. ASSUME NEW fd \in Fds, H[fd] = n PROVE FALSE
      <4>1. N[n].type = "EVENT" /\ N[n].fd = fd
        BY <3>1, EventCtlAssumption DEF Hashed
      <4> QED
        BY <1>2, <4>1, BadFd
    <3> QED
      BY <3>1
  <2> QED
    BY <1>2, <2>1, FS_EmptySet
<1> QED
  BY <1>1, <1>2

(* A node is in the list, or the hash, that its type names, and there      *)
(* once: event_list_add and event_list_delete never meet a node of another *)
(* list.                                                                   *)
THEOREM NodesInOnePlace == Spec => []NodeInOnePlace
<1>1. LoopInv => NodeInOnePlace
  <2> SUFFICES ASSUME LoopInv, NEW n \in Nodes, NEW place \in Types
               PROVE  Places(n)[place] = IF place = m.node[n].type /\ place # "FREE"
                                            /\ ~(place = "EVENT" /\ m.node[n].fd = Bad)
                                           THEN 1 ELSE 0
    BY DEF NodeInOnePlace
  <2> DEFINE N == m.node
             count(list) == Cardinality({i \in DOMAIN list : list[i] = n})
  <2>1. /\ IsListOf(m.timer, "TIMER", N) /\ IsListOf(m.rear, "REAR", N)
        /\ IsListOf(m.ready, "READY", N) /\ IsListOf(m.unuse, "UNUSED", N) /\ Hashed(m.hash, N)
        /\ m.timer \in Seq(Nodes) /\ m.rear \in Seq(Nodes) /\ m.ready \in Seq(Nodes)
        /\ m.unuse \in Seq(Nodes) /\ m.hash \in [Fds -> Nodes \cup {NoNode}]
    BY DEF LoopInv, Core, Placed, MasterType
  <2>2. Places(n) = [TIMER |-> count(m.timer), REAR |-> count(m.rear), READY |-> count(m.ready),
                     UNUSED |-> count(m.unuse),
                     EVENT |-> Cardinality({fd \in Fds : m.hash[fd] = n}), FREE |-> 0]
    BY DEF Places
  <2>3. /\ count(m.timer) = IF N[n].type = "TIMER" THEN 1 ELSE 0
        /\ count(m.rear) = IF N[n].type = "REAR" THEN 1 ELSE 0
        /\ count(m.ready) = IF N[n].type = "READY" THEN 1 ELSE 0
        /\ count(m.unuse) = IF N[n].type = "UNUSED" THEN 1 ELSE 0
    <3>1. \A list \in Seq(Nodes) : \A type : IsListOf(list, type, N)
             => count(list) = IF N[n].type = type THEN 1 ELSE 0
      BY OnceInList
    <3> HIDE DEF count
    <3> QED
      BY <2>1, <3>1
  <2>4. Cardinality({fd \in Fds : m.hash[fd] = n})
          = IF N[n].type = "EVENT" /\ N[n].fd # Bad THEN 1 ELSE 0
    BY <2>1, OnceInHash
  <2> HIDE DEF count, N
  <2> QED
    BY <2>2, <2>3, <2>4 DEF Types, N
<1> QED
  BY <1>1, LoopInvariant, PTL

(* event_timer_add and event_timer_reset leave the timerfd armed for the   *)
(* earliest pending timer, and disarmed only if there is none.             *)
THEOREM TimerfdRight == Spec => []TimerfdArmedForEarliest
<1>1. LoopInv => TimerfdArmedForEarliest
  BY DEF LoopInv, ArmedFor, TimerfdArmedForEarliest, Pending
<1> QED
  BY <1>1, LoopInvariant, PTL

(* event_epoll_lookup_by_fd finds the node its caller holds: the abort()   *)
(* of EPOLL_EVENT_MOD is not reached.                                      *)
THEOREM LookupRight == Spec => []LookupFindsHandle
<1>1. LoopInv => LookupFindsHandle
  BY LookupFinds DEF LookupFindsHandle
<1> QED
  BY <1>1, LoopInvariant, PTL

(* data.ptr of a watched descriptor is its owner's node, which was not     *)
(* given to anybody else.                                                  *)
THEOREM EpollDataLive == Spec => []EpollNodesLive
<1>1. LoopInv => EpollNodesLive
  BY DEF LoopInv, Core, Owned, EpollNodesLive
<1> QED
  BY <1>1, LoopInvariant, PTL

-----------------------------------------------------------------------------
(* The loop implements EventApi.                                           *)

TimersOf(N) == [n \in Nodes |-> TimerOf(N[n])]

WatchesOf(N, h, e) == [fd \in Fds |-> WatchOf(N, h[fd], e[fd])]

(* A timer's node of the first list is never left ready when a callback    *)
(* has been begun: it is the first of its round.                           *)
ApiInv ==
    /\ LoopInv
    /\ \A n \in Nodes : m.node[n].type = "READY" => m.node[n].add_type # "TIMER"

(* One node changes, and with it at most one timer. *)
LEMMA TimersMade ==
    ASSUME NEW N, NEW N2, NEW n \in Nodes, Only(N2, N, n)
    PROVE  TimersOf(N2) = [TimersOf(N) EXCEPT ![n] = TimerOf(N2[n])]
BY DEF TimersOf, Only

(* A node that is no timer's before and after changes no timer. *)
LEMMA TimersKept ==
    ASSUME NEW N, NEW N2, NEW n \in Nodes, Only(N2, N, n), TimerOf(N2[n]) = TimerOf(N[n])
    PROVE  TimersOf(N2) = TimersOf(N)
<1>1. \A k \in Nodes : TimerOf(N2[k]) = TimerOf(N[k])
  BY DEF Only
<1> QED
  BY <1>1 DEF TimersOf

(* Neither does it change a watched descriptor if it is not its node. *)
LEMMA WatchesKept ==
    ASSUME NEW h \in [Fds -> Nodes \cup {NoNode}], NEW e, NEW N, NEW N2, NEW n \in Nodes,
           Only(N2, N, n), \A fd \in Fds : h[fd] # n
    PROVE  WatchesOf(N2, h, e) = WatchesOf(N, h, e)
<1>1. \A fd \in Fds : h[fd] # NoNode => N2[h[fd]] = N[h[fd]]
  BY DEF Only
<1>2. \A fd \in Fds : WatchOf(N2, h[fd], e[fd]) = WatchOf(N, h[fd], e[fd])
  BY <1>1 DEF WatchOf
<1> QED
  BY <1>2 DEF WatchesOf

(* A node that is not watching is no descriptor's. *)
LEMMA NotWatching ==
    ASSUME NEW h \in [Fds -> Nodes \cup {NoNode}], NEW N, Owned(h, N), NEW n \in Nodes,
           N[n].type \notin {"EVENT", "READY"} \/ N[n].add_type # "EVENT"
    PROVE  \A fd \in Fds : h[fd] # n
BY EventCtlAssumption DEF Owned

(* The node that is given out next is neither. *)
LEMMA NextIsOff ==
    ASSUME LoopInv, CanGet(m)
    PROVE  LET n == NextNode(m)
           IN  /\ n \in Nodes
               /\ TimerOf(m.node[n]) = [state |-> "off", rear |-> FALSE, time |-> 0]
               /\ \A fd \in Fds : handle[fd] # n
<1>1. NextNode(m) \in Nodes /\ m.node[NextNode(m)].type \in {"UNUSED", "FREE"}
  BY NextIsUnused DEF LoopInv
<1>2. TimerOf(m.node[NextNode(m)]) = [state |-> "off", rear |-> FALSE, time |-> 0]
  BY <1>1 DEF TimerOf, Kinds
<1>3. \A fd \in Fds : handle[fd] # NextNode(m)
  BY <1>1, NotWatching DEF LoopInv, Core
<1> QED
  BY <1>1, <1>2, <1>3

(* TIMER_ON and REAR_ON are Set. *)
LEMMA SetOfApi ==
    ASSUME LoopInv, NEW kind \in Kinds, NEW delay \in Delays, AddTimer(kind, delay)
    PROVE  A!Set(NextNode(m), kind = "REAR", delay)
<1> DEFINE n == NextNode(m)
           N2 == m'.node
<1>1. /\ CanGet(m) /\ m' = event_timer_add(m, kind, now + delay) /\ UNCHANGED <<ep, handle, now>>
      /\ now + delay \in Nat /\ handle \in [Fds -> Nodes \cup {NoNode}]
  BY EventCtlAssumption DEF AddTimer, LoopInv
<1>2. /\ n \in Nodes /\ \A fd \in Fds : handle[fd] # n
      /\ TimerOf(m.node[n]) = [state |-> "off", rear |-> FALSE, time |-> 0]
  BY <1>1, NextIsOff
<1>3. Made(N2, m.node, n, kind, kind, now + delay)
  BY <1>1, AddCore DEF LoopInv
<1> HIDE DEF n, N2
<1>4. TimerOf(N2[n]) = [state |-> "set", rear |-> kind = "REAR", time |-> now + delay]
  BY <1>3 DEF Made, TimerOf, Kinds
<1>5. TimersOf(N2) = [TimersOf(m.node) EXCEPT ![n] = TimerOf(N2[n])]
  BY <1>2, <1>3, TimersMade DEF Made
<1>6. WatchesOf(N2, handle, ep) = WatchesOf(m.node, handle, ep)
  BY <1>1, <1>2, <1>3, WatchesKept DEF Made
<1> QED
  BY <1>1, <1>2, <1>4, <1>5, <1>6 DEF A!Set, A!Off, TimersOf, WatchesOf, n, N2

(* TIMER_OFF and REAR_OFF are Stop. *)
LEMMA StopOfApi ==
    ASSUME LoopInv, NEW n \in Nodes, CancelTimer(n)
    PROVE  A!Stop(n)
<1> DEFINE N2 == m'.node
<1>1. /\ m.node[n].add_type \in Kinds /\ m.node[n].type \in Kinds \cup {"READY"}
      /\ m' = event_cancel(m, n) /\ UNCHANGED <<ep, handle, now>>
      /\ handle \in [Fds -> Nodes \cup {NoNode}] /\ Owned(handle, m.node)
  BY DEF CancelTimer, LoopInv, Core
<1>2. \A fd \in Fds : handle[fd] # n
  BY <1>1, NotWatching DEF Kinds
<1>3. Made(N2, m.node, n, "UNUSED", m.node[n].add_type, m.node[n].time)
  <2>1. \A M : Only(M, m.node, n) /\ M[n].type = "UNUSED" => Owned(handle, M)
    <3>1. ASSUME NEW M, Only(M, m.node, n), M[n].type = "UNUSED" PROVE Owned(handle, M)
      <4>1. \A k \in Nodes : \/ M[k] = m.node[k]
                             \/ ~Watching(m.node[k]) /\ ~Watching(M[k])
        BY <1>1, <3>1 DEF Only, Watching, Kinds
      <4> QED
        BY <1>1, <4>1, OwnedKept
    <3> QED
      BY <3>1
  <2>2. /\ Core(m, handle) /\ ArmedFor(m.armed, m.alarm, m.node)
        /\ m.node[n].type \in Kinds \cup {"READY", "EVENT"} /\ m.node[n].type # "EVENT"
    BY <1>1 DEF LoopInv, Kinds
  <2> QED
    BY <1>1, <2>1, <2>2, CancelCore
<1> HIDE DEF N2
<1>4. /\ TimerOf(m.node[n]).state # "off"
      /\ TimerOf(N2[n]) = [state |-> "off", rear |-> FALSE, time |-> 0]
  BY <1>1, <1>3 DEF Made, TimerOf, Kinds
<1>5. TimersOf(N2) = [TimersOf(m.node) EXCEPT ![n] = TimerOf(N2[n])]
  BY <1>3, TimersMade DEF Made
<1>6. WatchesOf(N2, handle, ep) = WatchesOf(m.node, handle, ep)
  BY <1>1, <1>2, <1>3, WatchesKept DEF Made
<1>7. TimerOf(m.node[n]) # [state |-> "off", rear |-> FALSE, time |-> 0]
  BY <1>4
<1> QED
  BY <1>1, <1>4, <1>5, <1>6, <1>7 DEF A!Stop, A!Off, TimersOf, WatchesOf, N2

(* EVENT_SET of a descriptor that is not watched is Open. *)
LEMMA OpenOfApi ==
    ASSUME LoopInv, NEW fd \in Fds, Watch(fd)
    PROVE  A!Open(fd)
<1> DEFINE n == NextNode(m)
           N2 == m'.node
           h2 == handle'
           e2 == ep'
<1>1. /\ CanGet(m) /\ handle[fd] = NoNode /\ now' = now
      /\ m' = HashAdd([event_node_get(m, "EVENT") EXCEPT !.node[n].fd = fd], fd, n)
      /\ h2 = [handle EXCEPT ![fd] = n] /\ e2 = [ep EXCEPT ![fd] = [node |-> n, on |-> TRUE]]
      /\ handle \in [Fds -> Nodes \cup {NoNode}]
      /\ ep \in [Fds -> [node : Nodes \cup {NoNode}, on : BOOLEAN]]
  BY DEF Watch, LoopInv
<1>2. /\ n \in Nodes /\ \A f \in Fds : handle[f] # n
      /\ TimerOf(m.node[n]) = [state |-> "off", rear |-> FALSE, time |-> 0]
  BY <1>1, NextIsOff
<1>3. Made(N2, m.node, n, "EVENT", "EVENT", m.node[n].time)
  BY <1>1, WatchCore DEF LoopInv
<1> HIDE DEF n, N2, h2, e2
<1>4. TimerOf(N2[n]) = TimerOf(m.node[n])
  BY <1>2, <1>3 DEF Made, TimerOf, Kinds
<1>5. TimersOf(N2) = TimersOf(m.node)
  BY <1>2, <1>3, <1>4, TimersKept DEF Made
<1>6. WatchesOf(N2, h2, e2)
        = [WatchesOf(m.node, handle, ep) EXCEPT ![fd] = [open |-> TRUE, armed |-> TRUE, ready |-> FALSE]]
  <2>1. WatchOf(N2, h2[fd], e2[fd]) = [open |-> TRUE, armed |-> TRUE, ready |-> FALSE]
    BY <1>1, <1>2, <1>3, EventCtlAssumption DEF WatchOf, Made
  <2>2. ASSUME NEW f \in Fds, f # fd
        PROVE  WatchOf(N2, h2[f], e2[f]) = WatchOf(m.node, handle[f], ep[f])
    <3>1. h2[f] = handle[f] /\ e2[f] = ep[f]
      BY <1>1, <2>2
    <3>2. handle[f] # NoNode => N2[handle[f]] = m.node[handle[f]]
      BY <1>1, <1>2, <1>3 DEF Made, Only
    <3> QED
      BY <3>1, <3>2 DEF WatchOf
  <2> QED
    BY <2>1, <2>2 DEF WatchesOf
<1>7. WatchOf(m.node, handle[fd], ep[fd]) = [open |-> FALSE, armed |-> FALSE, ready |-> FALSE]
  BY <1>1 DEF WatchOf
<1> QED
  BY <1>1, <1>5, <1>6, <1>7 DEF A!Open, A!Closed, TimersOf, WatchesOf, N2, h2, e2

(* A socket that was closed is not watched, and nobody notices. *)
LEMMA WatchClosedOfApi ==
    ASSUME LoopInv, WatchClosed
    PROVE  UNCHANGED A!vars
<1> DEFINE n == NextNode(m)
           N2 == m'.node
<1>1. /\ CanGet(m) /\ UNCHANGED <<ep, handle, now>>
      /\ m' = [event_node_get(m, "EVENT") EXCEPT !.node[n].fd = Bad]
      /\ handle \in [Fds -> Nodes \cup {NoNode}]
  BY DEF WatchClosed, LoopInv
<1>2. /\ n \in Nodes /\ \A f \in Fds : handle[f] # n
      /\ TimerOf(m.node[n]) = [state |-> "off", rear |-> FALSE, time |-> 0]
  BY <1>1, NextIsOff
<1>3. Made(N2, m.node, n, "EVENT", "EVENT", m.node[n].time)
  BY <1>1, WatchClosedCore DEF LoopInv
<1> HIDE DEF n, N2
<1>4. TimerOf(N2[n]) = TimerOf(m.node[n])
  BY <1>2, <1>3 DEF Made, TimerOf, Kinds
<1>5. TimersOf(N2) = TimersOf(m.node)
  BY <1>2, <1>3, <1>4, TimersKept DEF Made
<1>6. WatchesOf(N2, handle, ep) = WatchesOf(m.node, handle, ep)
  BY <1>1, <1>2, <1>3, WatchesKept DEF Made
<1> QED
  BY <1>1, <1>5, <1>6 DEF A!vars, TimersOf, WatchesOf, N2

(* EVENT_SET of a watched descriptor is Arm: the look-up finds its node. *)
LEMMA ArmOfApi ==
    ASSUME LoopInv, NEW fd \in Fds, Rearm(fd)
    PROVE  A!Arm(fd)
<1> DEFINE e2 == ep'
           N == m.node
<1>1. handle[fd] # NoNode /\ UNCHANGED <<m, handle, now>>
      /\ e2 = [ep EXCEPT ![fd] = [node |-> handle[fd], on |-> TRUE]]
      /\ ep \in [Fds -> [node : Nodes \cup {NoNode}, on : BOOLEAN]]
  BY LookupFinds DEF Rearm, LoopInv
<1> HIDE DEF e2, N
<1>2. WatchOf(N, handle[fd], ep[fd])
        = [open |-> TRUE, armed |-> ep[fd].on, ready |-> N[handle[fd]].type = "READY"]
  BY <1>1 DEF WatchOf
<1>3. WatchesOf(N, handle, e2)
        = [WatchesOf(N, handle, ep) EXCEPT
             ![fd] = [open |-> TRUE, armed |-> TRUE, ready |-> N[handle[fd]].type = "READY"]]
  <2>1. WatchOf(N, handle[fd], e2[fd])
          = [open |-> TRUE, armed |-> TRUE, ready |-> N[handle[fd]].type = "READY"]
    BY <1>1 DEF WatchOf
  <2>2. \A f \in Fds : f # fd => e2[f] = ep[f]
    BY <1>1
  <2> QED
    BY <2>1, <2>2 DEF WatchesOf
<1>4. WatchOf(N, handle[fd], ep[fd]).open
      /\ WatchOf(N, handle[fd], ep[fd]).ready = (N[handle[fd]].type = "READY")
  BY <1>2
<1> QED
  BY <1>1, <1>3, <1>4 DEF A!Arm, WatchesOf, N, e2

(* EVENT_OFF and close() are Close, for a node that is ready too. *)
LEMMA CloseOfApi ==
    ASSUME LoopInv, NEW fd \in Fds, Unwatch(fd)
    PROVE  A!Close(fd)
<1> DEFINE n == handle[fd]
           N2 == m'.node
           h2 == handle'
           e2 == ep'
<1>1. /\ n # NoNode /\ fd # ListenFd /\ now' = now /\ m' = event_cancel(m, n)
      /\ h2 = [handle EXCEPT ![fd] = NoNode] /\ e2 = [ep EXCEPT ![fd] = [node |-> NoNode, on |-> FALSE]]
      /\ handle \in [Fds -> Nodes \cup {NoNode}] /\ Owned(handle, m.node)
      /\ ep \in [Fds -> [node : Nodes \cup {NoNode}, on : BOOLEAN]]
  BY DEF Unwatch, LoopInv, Core
<1>2. /\ n \in Nodes /\ m.node[n].type \in {"EVENT", "READY"} /\ m.node[n].add_type = "EVENT"
      /\ m.node[n].fd = fd /\ \A f \in Fds : f # fd => handle[f] # n
  BY <1>1, EventCtlAssumption DEF Owned
<1>3. Made(N2, m.node, n, "UNUSED", m.node[n].add_type, m.node[n].time)
  <2>1. \A M : Only(M, m.node, n) /\ M[n].type = "UNUSED" => Owned(h2, M)
    <3>1. ASSUME NEW M, Only(M, m.node, n), M[n].type = "UNUSED" PROVE Owned(h2, M)
      <4>1. ~Watching(M[n])
        BY <3>1 DEF Watching
      <4> QED
        BY <1>1, <1>2, <3>1, <4>1, OwnedRemoved
    <3> QED
      BY <3>1
  <2>2. Core(m, handle) /\ ArmedFor(m.armed, m.alarm, m.node)
    BY DEF LoopInv
  <2>3. m.node[n].type \in Kinds \cup {"READY", "EVENT"} /\ m.node[n].fd \in Fds
    BY <1>2
  <2> HIDE DEF n, h2
  <2> QED
    BY <1>1, <1>2, <2>1, <2>2, <2>3, CancelCore
<1> HIDE DEF n, N2, h2, e2
<1>4. TimerOf(N2[n]) = TimerOf(m.node[n])
  BY <1>2, <1>3 DEF Made, TimerOf, Kinds
<1>5. TimersOf(N2) = TimersOf(m.node)
  BY <1>2, <1>3, <1>4, TimersKept DEF Made
<1>6. WatchesOf(N2, h2, e2)
        = [WatchesOf(m.node, handle, ep) EXCEPT ![fd] = [open |-> FALSE, armed |-> FALSE, ready |-> FALSE]]
  <2>1. WatchOf(N2, h2[fd], e2[fd]) = [open |-> FALSE, armed |-> FALSE, ready |-> FALSE]
    BY <1>1 DEF WatchOf
  <2>2. ASSUME NEW f \in Fds, f # fd
        PROVE  WatchOf(N2, h2[f], e2[f]) = WatchOf(m.node, handle[f], ep[f])
    <3>1. h2[f] = handle[f] /\ e2[f] = ep[f]
      BY <1>1, <2>2
    <3>2. handle[f] # NoNode => N2[handle[f]] = m.node[handle[f]]
      BY <1>1, <1>2, <1>3, <2>2 DEF Made, Only
    <3> QED
      BY <3>1, <3>2 DEF WatchOf
  <2> QED
    BY <2>1, <2>2 DEF WatchesOf
<1>7. WatchOf(m.node, handle[fd], ep[fd]).open
  BY <1>1 DEF WatchOf, n
<1> QED
  BY <1>1, <1>5, <1>6, <1>7 DEF A!Close, A!Closed, TimersOf, WatchesOf, N2, h2, e2

(* The head of the ready list is what EventApi lets run: it is the only    *)
(* timer's node if there is one, and a rear node only if no descriptor's   *)
(* node is ready.                                                          *)
HeadRight(x) ==
    \A k \in Nodes : x.node[k].type = "READY" =>
        /\ x.node[k].add_type = "TIMER" => k = Head(x.ready)
        /\ x.node[Head(x.ready)].add_type = "REAR" => x.node[k].add_type # "EVENT"

(* What the timers and descriptors of the nodes N are, by the types. *)
LEMMA ApiViews ==
    ASSUME NEW N, NEW h \in [Fds -> Nodes \cup {NoNode}], NEW e, Owned(h, N)
    PROVE  /\ \A k \in Nodes : TimersOf(N)[k].state = "ready"
                                 <=> N[k].type = "READY" /\ N[k].add_type \in Kinds
           /\ \A k \in Nodes : TimersOf(N)[k].state = "set"
                                 <=> N[k].type \in Kinds /\ N[k].add_type \in Kinds
           /\ \A k \in Nodes : TimersOf(N)[k].state # "off"
                                 => /\ TimersOf(N)[k].rear = (N[k].add_type = "REAR")
                                    /\ TimersOf(N)[k].time = N[k].time
           /\ \A f \in Fds : WatchesOf(N, h, e)[f].open <=> h[f] # NoNode
           /\ \A f \in Fds : h[f] # NoNode
                => /\ WatchesOf(N, h, e)[f].armed = e[f].on
                   /\ WatchesOf(N, h, e)[f].ready = (N[h[f]].type = "READY")
           /\ \A f \in Fds : h[f] = NoNode => ~WatchesOf(N, h, e)[f].ready
           /\ \A f \in Fds : WatchesOf(N, h, e)[f].ready
                => h[f] \in Nodes /\ N[h[f]].type = "READY" /\ N[h[f]].add_type = "EVENT"
<1>1. ASSUME NEW k \in Nodes
      PROVE  /\ TimersOf(N)[k].state = "ready" <=> N[k].type = "READY" /\ N[k].add_type \in Kinds
             /\ TimersOf(N)[k].state = "set" <=> N[k].type \in Kinds /\ N[k].add_type \in Kinds
             /\ TimersOf(N)[k].state # "off" => /\ TimersOf(N)[k].rear = (N[k].add_type = "REAR")
                                                /\ TimersOf(N)[k].time = N[k].time
  BY DEF TimersOf, TimerOf, Kinds
<1>2. ASSUME NEW f \in Fds
      PROVE  /\ WatchesOf(N, h, e)[f].open <=> h[f] # NoNode
             /\ h[f] # NoNode => /\ WatchesOf(N, h, e)[f].armed = e[f].on
                                 /\ WatchesOf(N, h, e)[f].ready = (N[h[f]].type = "READY")
             /\ h[f] = NoNode => ~WatchesOf(N, h, e)[f].ready
  BY DEF WatchesOf, WatchOf
<1>3. ASSUME NEW f \in Fds, WatchesOf(N, h, e)[f].ready
      PROVE  h[f] \in Nodes /\ N[h[f]].type = "READY" /\ N[h[f]].add_type = "EVENT"
  <2>1. h[f] # NoNode /\ N[h[f]].type = "READY"
    BY <1>2, <1>3
  <2>2. h[f] \in Nodes
    BY <2>1
  <2> QED
    BY <2>1, <2>2 DEF Owned
<1> QED
  BY <1>1, <1>2, <1>3

(* event_run begins one callback. *)
LEMMA BeginOfApi ==
    ASSUME NEW x, Core(x, handle), x.ready # <<>>, ArmedFor(x.armed, x.alarm, x.node),
           HeadRight(x), handle \in [Fds -> Nodes \cup {NoNode}],
           m' = event_run(x), UNCHANGED <<handle, now>>
    PROVE  /\ A!Begin(TimersOf(x.node), WatchesOf(x.node, handle, ep'))
           /\ \A k \in Nodes : m'.node[k].type = "READY" => m'.node[k].add_type # "TIMER"
<1> DEFINE N == x.node
           N2 == m'.node
           e2 == ep'
           n == Head(x.ready)
           r == N[n]
           t == TimersOf(N)
           w == WatchesOf(N, handle, e2)
<1>1. /\ r.type = "READY"
      /\ Made(N2, N, n, IF r.add_type = "EVENT" THEN "EVENT" ELSE "UNUSED", r.add_type, r.time)
  BY RunCore
<1>2. n \in Nodes /\ N \in [Nodes -> NodeRec] /\ Owned(handle, N) /\ Added(N)
  BY TailOf DEF Core, MasterType
<1>3. \A k \in Nodes : N[k].type = "READY" =>
        /\ N[k].add_type = "TIMER" => k = n
        /\ r.add_type = "REAR" => N[k].add_type # "EVENT"
  BY DEF HeadRight
<1>4. (m.node)' = N2 /\ handle' = handle /\ now' = now
  OBVIOUS
<1> HIDE DEF N, N2, e2, n
<1>5. \A k \in Nodes : N2[k].type = "READY" => N2[k].add_type # "TIMER"
  BY <1>1, <1>3 DEF Made, Only
<1>6. A!OnlyRear(t) <=> \A k \in Nodes : N[k].type = "READY" => N[k].add_type # "TIMER"
  <2>1. \A k \in Nodes : /\ t[k].state = "ready" <=> N[k].type = "READY" /\ N[k].add_type \in Kinds
                         /\ t[k].state # "off" => t[k].rear = (N[k].add_type = "REAR")
    BY <1>2, ApiViews
  <2> HIDE DEF t
  <2> QED
    BY <2>1 DEF A!OnlyRear, Kinds
<1>7. CASE r.add_type = "EVENT"
  <2> DEFINE fd == r.fd
  <2>1. fd \in Fds /\ handle[fd] = n /\ n # NoNode
    BY <1>1, <1>2, <1>7, EventCtlAssumption DEF Owned, Watching
  <2>2. \A f \in Fds : f # fd => handle[f] # n
    BY <1>2, <2>1 DEF Owned
  <2> HIDE DEF fd
  <2>3. TimersOf(N2) = t
    <3>1. TimerOf(N2[n]) = TimerOf(N[n])
      BY <1>1, <1>7 DEF Made, TimerOf, Kinds
    <3> QED
      BY <1>1, <1>2, <3>1, TimersKept DEF Made
  <2>4. w[fd] = [open |-> TRUE, armed |-> e2[fd].on, ready |-> TRUE]
    BY <1>1, <2>1 DEF WatchesOf, WatchOf
  <2>5. WatchesOf(N2, handle, e2)
          = [w EXCEPT ![fd] = [open |-> TRUE, armed |-> w[fd].armed, ready |-> FALSE]]
    <3>1. WatchOf(N2, handle[fd], e2[fd]) = [open |-> TRUE, armed |-> e2[fd].on, ready |-> FALSE]
      BY <1>1, <1>7, <2>1 DEF WatchOf, Made
    <3>2. ASSUME NEW f \in Fds, f # fd
          PROVE  WatchOf(N2, handle[f], e2[f]) = WatchOf(N, handle[f], e2[f])
      <4>1. handle[f] # NoNode => N2[handle[f]] = N[handle[f]]
        BY <1>1, <2>2, <3>2 DEF Made, Only
      <4> QED
        BY <4>1 DEF WatchOf
    <3>3. w[fd].armed = e2[fd].on
      BY <2>4
    <3> QED
      BY <3>1, <3>2, <3>3 DEF WatchesOf
  <2>6. A!OnlyRear(t)
    BY <1>3, <1>6, <1>7
  <2>7. w[fd].ready
    BY <2>4
  <2> HIDE DEF t, w
  <2>8. A!RunWatch(t, w, fd)
    BY <1>4, <2>3, <2>5, <2>6, <2>7 DEF A!RunWatch, TimersOf, WatchesOf, N2, e2
  <2>9. A!Begin(t, w)
    BY <1>4, <2>1, <2>8 DEF A!Begin
  <2> QED
    BY <1>5, <2>9 DEF t, w, N, N2, e2
<1>8. CASE r.add_type # "EVENT"
  <2>1. r.add_type \in Kinds
    BY <1>1, <1>2, <1>8 DEF Added
  <2>2. t[n].state = "ready" /\ (t[n].rear <=> r.add_type = "REAR")
    BY <1>1, <1>2, <2>1 DEF TimersOf, TimerOf, Kinds
  <2>3. TimersOf(N2) = [t EXCEPT ![n] = [state |-> "off", rear |-> FALSE, time |-> 0]]
    <3>1. TimerOf(N2[n]) = [state |-> "off", rear |-> FALSE, time |-> 0]
      BY <1>1, <1>8 DEF Made, TimerOf, Kinds
    <3> QED
      BY <1>1, <1>2, <3>1, TimersMade DEF Made
  <2>4. WatchesOf(N2, handle, e2) = w
    <3>1. \A f \in Fds : handle[f] # n
      BY <1>2, <1>8, NotWatching
    <3> QED
      BY <1>1, <1>2, <3>1, WatchesKept DEF Made
  <2>5. ASSUME t[n].rear PROVE A!OnlyRear(t) /\ \A f \in Fds : ~w[f].ready
    <3>1. A!OnlyRear(t)
      BY <1>1, <1>3, <1>6, <2>2, <2>5
    <3>2. ASSUME NEW f \in Fds, w[f].ready PROVE FALSE
      <4>1. handle[f] \in Nodes /\ N[handle[f]].type = "READY" /\ N[handle[f]].add_type = "EVENT"
        BY <1>2, <3>2, ApiViews
      <4> QED
        BY <1>3, <2>2, <2>5, <4>1
    <3> QED
      BY <3>1, <3>2
  <2> HIDE DEF t, w
  <2>6. A!RunTimer(t, w, n)
    BY <1>4, <2>2, <2>3, <2>4, <2>5 DEF A!RunTimer, A!Off, TimersOf, WatchesOf, N2, e2
  <2>7. A!Begin(t, w)
    BY <1>2, <1>4, <2>6 DEF A!Begin
  <2> QED
    BY <1>5, <2>7 DEF t, w, N, N2, e2
<1> QED
  BY <1>7, <1>8

(* Run is Run: what is ready already. *)
LEMMA RunOfApi ==
    ASSUME ApiInv, Run
    PROVE  /\ A!Run
           /\ \A k \in Nodes : m'.node[k].type = "READY" => m'.node[k].add_type # "TIMER"
<1> DEFINE n == Head(m.ready)
           t == TimersOf(m.node)
           w == WatchesOf(m.node, handle, ep)
<1>1. /\ m.ready # <<>> /\ m' = event_run(m) /\ UNCHANGED <<ep, handle, now>>
      /\ Core(m, handle) /\ EventsFirst(m, 1) /\ ArmedFor(m.armed, m.alarm, m.node)
      /\ handle \in [Fds -> Nodes \cup {NoNode}]
      /\ \A k \in Nodes : m.node[k].type = "READY" => m.node[k].add_type # "TIMER"
  BY DEF ApiInv, LoopInv, Run
<1>2. /\ m.ready \in Seq(Nodes) /\ IsListOf(m.ready, "READY", m.node) /\ Owned(handle, m.node)
      /\ Added(m.node)
  BY <1>1, ReadyRange DEF Core, Placed
<1>3. n \in Nodes /\ m.node[n].type = "READY" /\ n = m.ready[1] /\ 1 \in DOMAIN m.ready
      /\ DOMAIN m.ready \subseteq Nat \ {0}
  BY <1>1, <1>2 DEF IsListOf, Range
<1> HIDE DEF n
<1>4. HeadRight(m)
  <2>1. ASSUME NEW k \in Nodes, m.node[k].type = "READY", m.node[n].add_type = "REAR"
        PROVE  m.node[k].add_type # "EVENT"
    <3>1. PICK j \in DOMAIN m.ready : m.ready[j] = k
      BY <1>2, <2>1 DEF IsListOf, Range
    <3>2. CASE j = 1
      BY <1>3, <2>1, <3>1, <3>2
    <3>3. CASE j # 1
      <4>1. 1 < j
        BY <1>3, <3>1, <3>3
      <4> QED
        BY <1>1, <1>3, <2>1, <3>1, <4>1 DEF EventsFirst
    <3> QED
      BY <3>2, <3>3
  <2> QED
    BY <1>1, <2>1 DEF HeadRight, n
<1>5. /\ A!Begin(t, WatchesOf(m.node, handle, ep'))
      /\ \A k \in Nodes : m'.node[k].type = "READY" => m'.node[k].add_type # "TIMER"
  BY <1>1, <1>4, BeginOfApi
<1>6. A!Begin(t, w)
  BY <1>1, <1>5
<1>7. (\E k \in Nodes : t[k].state = "ready") \/ (\E f \in Fds : w[f].ready)
  <2>1. CASE m.node[n].add_type = "EVENT"
    <3>1. /\ m.node[n].fd \in Fds /\ handle[m.node[n].fd] = n /\ n # NoNode
      BY <1>2, <1>3, <2>1, EventCtlAssumption DEF Owned, Watching
    <3>2. w[m.node[n].fd].ready
      BY <1>3, <3>1 DEF WatchesOf, WatchOf
    <3> QED
      BY <3>1, <3>2
  <2>2. CASE m.node[n].add_type # "EVENT"
    <3>1. m.node[n].add_type \in Kinds
      BY <1>2, <1>3, <2>2 DEF Added
    <3>2. t[n].state = "ready"
      BY <1>3, <3>1 DEF TimersOf, TimerOf, Kinds
    <3> QED
      BY <1>3, <3>2
  <2> QED
    BY <2>1, <2>2
<1>8. A!Run
  BY <1>6, <1>7 DEF A!Run, A!NothingReady, TimersOf, WatchesOf
<1> QED
  BY <1>5, <1>8

(* The node k became ready: it was due and the earliest of its kind. *)
Woke(M, N, k, kind) ==
    /\ N[k].type = kind /\ N[k].time <= now
    /\ M[k].type = "READY" /\ M[k].add_type = kind /\ M[k].time = N[k].time
    /\ \A j \in Nodes : N[j].type = kind => N[k].time <= N[j].time

(* Taken, node by node. *)
LEMMA TakenView ==
    ASSUME NEW y, NEW x, NEW kind \in Kinds, Taken(y, x, kind)
    PROVE  /\ \A k \in Nodes : y.node[k] = x.node[k] \/ Woke(y.node, x.node, k, kind)
           /\ \A k \in Nodes : x.node[k].type = kind /\ x.node[k].time <= now
                => \E j \in Nodes : x.node[j].type = kind /\ Woke(y.node, x.node, j, kind)
           /\ \A k \in Nodes : Woke(y.node, x.node, k, kind) => y.ready = Append(x.ready, k)
           /\ y.ready = x.ready \/ \E k \in Nodes : y.ready = Append(x.ready, k)
<1>1. CASE /\ y = x
           /\ \A k \in Nodes : x.node[k].type = kind => ~(x.node[k].time <= now)
  BY <1>1 DEF Woke
<1>2. ASSUME NEW n \in Nodes,
             y.ready = Append(x.ready, n),
             Made(y.node, x.node, n, "READY", kind, x.node[n].time),
             x.node[n].type = kind, x.node[n].time <= now,
             \A k \in Nodes : x.node[k].type = kind => x.node[n].time <= x.node[k].time
      PROVE  /\ \A k \in Nodes : y.node[k] = x.node[k] \/ Woke(y.node, x.node, k, kind)
             /\ \A k \in Nodes : Woke(y.node, x.node, k, kind) => k = n
             /\ Woke(y.node, x.node, n, kind)
  <2>1. Woke(y.node, x.node, n, kind)
    BY <1>2 DEF Woke, Made
  <2>2. ASSUME NEW k \in Nodes, k # n PROVE y.node[k] = x.node[k] /\ ~Woke(y.node, x.node, k, kind)
    <3>1. y.node[k] = x.node[k]
      BY <1>2, <2>2 DEF Made, Only
    <3> QED
      BY <3>1 DEF Woke, Kinds
  <2> QED
    BY <2>1, <2>2
<1>3. CASE \E n \in Nodes :
             /\ y.ready = Append(x.ready, n)
             /\ Made(y.node, x.node, n, "READY", kind, x.node[n].time)
             /\ x.node[n].type = kind /\ x.node[n].time <= now
             /\ \A k \in Nodes : x.node[k].type = kind => x.node[n].time <= x.node[k].time
  <2>1. PICK n \in Nodes :
             /\ y.ready = Append(x.ready, n)
             /\ Made(y.node, x.node, n, "READY", kind, x.node[n].time)
             /\ x.node[n].type = kind /\ x.node[n].time <= now
             /\ \A k \in Nodes : x.node[k].type = kind => x.node[n].time <= x.node[k].time
    BY <1>3
  <2>2. /\ \A k \in Nodes : y.node[k] = x.node[k] \/ Woke(y.node, x.node, k, kind)
        /\ \A k \in Nodes : Woke(y.node, x.node, k, kind) => k = n
        /\ Woke(y.node, x.node, n, kind)
    BY <1>2, <2>1
  <2> QED
    BY <2>1, <2>2
<1> QED
  BY <1>1, <1>3 DEF Taken

(* The list a, the list b and perhaps one more begin as a does, or else b. *)
LEMMA HeadJoined ==
    ASSUME NEW U, NEW a \in Seq(U), Len(a) \in {0, 1}, NEW b \in Seq(U), NEW q \in Seq(U),
           q = a \o b \/ \E k \in U : q = Append(a \o b, k)
    PROVE  /\ a # <<>> => Head(q) = a[1] /\ q # <<>>
           /\ a = <<>> /\ b # <<>> => Head(q) = b[1] /\ q # <<>>
<1> DEFINE c == a \o b
<1>1. c \in Seq(U) /\ Len(c) = Len(a) + Len(b) /\ Len(a) \in Nat /\ Len(b) \in Nat
  OBVIOUS
<1>2. a # <<>> => Len(c) # 0 /\ c[1] = a[1]
  OBVIOUS
<1>3. a = <<>> /\ b # <<>> => Len(c) # 0 /\ c[1] = b[1]
  OBVIOUS
<1>4. ASSUME Len(c) # 0 PROVE Head(q) = c[1] /\ q # <<>>
  <2>1. CASE q = c
    BY <1>1, <1>4, <2>1
  <2>2. ASSUME NEW k \in U, q = Append(c, k) PROVE Head(q) = c[1] /\ q # <<>>
    <3> HIDE DEF c
    <3> QED
      BY <1>1, <1>4, <2>2
  <2> QED
    BY <2>1, <2>2
<1> QED
  BY <1>2, <1>3, <1>4

(* What a round makes of the nodes N, those of the descriptors S among     *)
(* them: the timers' nodes that are due become ready in turn, those of the *)
(* descriptors too, and the other nodes stay what they are.                *)
Rounded(M, N, S) ==
    /\ \A k \in Nodes : N[k].type \in Kinds => M[k] = N[k] \/ Woke(M, N, k, N[k].type)
    /\ \A k \in Nodes : N[k].type \in Kinds /\ N[k].time <= now
         => \E j \in Nodes : N[j].type = N[k].type /\ Woke(M, N, j, N[k].type)
    /\ \A k \in Nodes : N[k].type \notin Kinds =>
         IF \E f \in S : handle[f] = k
           THEN N[k].type = "EVENT" /\ M[k].type = "READY" /\ M[k].add_type = "EVENT"
           ELSE M[k] = N[k]

(* The three steps of a round together. *)
LEMMA RoundNodes ==
    ASSUME NEW N, NEW N1, NEW N2, NEW M, NEW S,
           \A k \in Nodes : N1[k] = N[k] \/ Woke(N1, N, k, "TIMER"),
           \A k \in Nodes : N[k].type = "TIMER" /\ N[k].time <= now
             => \E j \in Nodes : N[j].type = "TIMER" /\ Woke(N1, N, j, "TIMER"),
           Marked(N2, N1, S),
           \A k \in Nodes : M[k] = N2[k] \/ Woke(M, N2, k, "REAR"),
           \A k \in Nodes : N2[k].type = "REAR" /\ N2[k].time <= now
             => \E j \in Nodes : N2[j].type = "REAR" /\ Woke(M, N2, j, "REAR")
    PROVE  Rounded(M, N, S) /\ \A k \in Nodes : Woke(M, N, k, "TIMER") <=> Woke(N1, N, k, "TIMER")
<1>1. ASSUME NEW k \in Nodes, N[k].type = "TIMER" PROVE M[k] = N1[k]
  <2>1. N1[k].type \in {"TIMER", "READY"}
    BY <1>1 DEF Woke
  <2>2. N2[k] = N1[k]
    BY <2>1 DEF Marked
  <2> QED
    BY <2>1, <2>2 DEF Woke
<1>2. ASSUME NEW k \in Nodes PROVE N[k].type = "REAR" <=> N2[k].type = "REAR"
  BY DEF Woke, Marked
<1>3. ASSUME NEW k \in Nodes, N[k].type = "REAR" PROVE N2[k] = N[k]
  BY <1>3 DEF Woke, Marked
<1>4. \A k \in Nodes : Woke(M, N, k, "TIMER") <=> Woke(N1, N, k, "TIMER")
  BY <1>1 DEF Woke
<1>5. \A k \in Nodes : Woke(M, N, k, "REAR") <=> Woke(M, N2, k, "REAR")
  BY <1>2, <1>3 DEF Woke
<1>6. ASSUME NEW k \in Nodes, N[k].type \in Kinds
      PROVE  /\ M[k] = N[k] \/ Woke(M, N, k, N[k].type)
             /\ N[k].time <= now
                  => \E j \in Nodes : N[j].type = N[k].type /\ Woke(M, N, j, N[k].type)
  <2>1. CASE N[k].type = "TIMER"
    BY <1>1, <1>4, <2>1
  <2>2. CASE N[k].type = "REAR"
    <3>1. N2[k] = N[k] /\ N2[k].type = "REAR"
      BY <1>3, <2>2
    <3>2. M[k] = N[k] \/ Woke(M, N, k, "REAR")
      BY <1>5, <3>1
    <3>3. ASSUME N[k].time <= now
          PROVE  \E j \in Nodes : N[j].type = "REAR" /\ Woke(M, N, j, "REAR")
      BY <1>2, <1>5, <3>1, <3>3
    <3> QED
      BY <2>2, <3>2, <3>3
  <2> QED
    BY <1>6, <2>1, <2>2 DEF Kinds
<1>7. ASSUME NEW k \in Nodes, N[k].type \notin Kinds
      PROVE  IF \E f \in S : handle[f] = k
               THEN N[k].type = "EVENT" /\ M[k].type = "READY" /\ M[k].add_type = "EVENT"
               ELSE M[k] = N[k]
  <2>1. N1[k] = N[k]
    BY <1>7 DEF Woke, Kinds
  <2>2. M[k] = N2[k]
    BY <1>2, <1>7 DEF Woke, Kinds
  <2> QED
    BY <2>1, <2>2 DEF Marked
<1> QED
  BY <1>4, <1>6, <1>7 DEF Rounded

(* The nodes that one round makes ready, and the head of their list. *)
LEMMA RoundView ==
    ASSUME LoopInv, m.ready = <<>>, NEW S \in SUBSET Fds, \A f \in S : ep[f].node # NoNode,
           NEW fds \in Orders(S)
    PROVE  LET w == event_timer_process(
                      epoll_process(event_timer_process(m, "TIMER"), fds), "REAR")
           IN  Rounded(w.node, m.node, S) /\ HeadRight(w)
<1> DEFINE x1 == event_timer_process(m, "TIMER")
           x2 == epoll_process(x1, fds)
           w == event_timer_process(x2, "REAR")
           N == m.node
           M == w.node
<1>1. /\ Core(w, handle)
      /\ Core(x1, handle) /\ Taken(x1, m, "TIMER")
      /\ Core(x2, handle) /\ Marked(x2.node, x1.node, S)
      /\ \E nodes \in Seq(Nodes) : /\ x2.ready = x1.ready \o nodes
                                   /\ Range(nodes) = {handle[f] : f \in S}
      /\ Taken(w, x2, "REAR")
  BY RoundCore
<1> HIDE DEF x1, x2, w
<1>2. PICK nodes \in Seq(Nodes) : /\ x2.ready = x1.ready \o nodes
                                  /\ Range(nodes) = {handle[f] : f \in S}
  BY <1>1
<1>3. "TIMER" \in Kinds /\ "REAR" \in Kinds
  BY DEF Kinds
<1>4. /\ \A k \in Nodes : x1.node[k] = N[k] \/ Woke(x1.node, N, k, "TIMER")
      /\ \A k \in Nodes : N[k].type = "TIMER" /\ N[k].time <= now
           => \E j \in Nodes : N[j].type = "TIMER" /\ Woke(x1.node, N, j, "TIMER")
      /\ \A k \in Nodes : Woke(x1.node, N, k, "TIMER") => x1.ready = <<k>>
      /\ x1.ready = <<>> \/ \E k \in Nodes : x1.ready = <<k>>
  <2>1. /\ \A k \in Nodes : x1.node[k] = N[k] \/ Woke(x1.node, N, k, "TIMER")
        /\ \A k \in Nodes : N[k].type = "TIMER" /\ N[k].time <= now
             => \E j \in Nodes : N[j].type = "TIMER" /\ Woke(x1.node, N, j, "TIMER")
        /\ \A k \in Nodes : Woke(x1.node, N, k, "TIMER") => x1.ready = Append(m.ready, k)
        /\ x1.ready = m.ready \/ \E k \in Nodes : x1.ready = Append(m.ready, k)
    BY <1>1, <1>3, TakenView
  <2>2. \A k : Append(m.ready, k) = <<k>>
    OBVIOUS
  <2> QED
    BY <2>1, <2>2
<1>5. /\ \A k \in Nodes : M[k] = x2.node[k] \/ Woke(M, x2.node, k, "REAR")
      /\ \A k \in Nodes : x2.node[k].type = "REAR" /\ x2.node[k].time <= now
           => \E j \in Nodes : x2.node[j].type = "REAR" /\ Woke(M, x2.node, j, "REAR")
      /\ w.ready = x2.ready \/ \E k \in Nodes : w.ready = Append(x2.ready, k)
  BY <1>1, <1>3, TakenView
<1>6. /\ Rounded(M, N, S)
      /\ \A k \in Nodes : Woke(M, N, k, "TIMER") <=> Woke(x1.node, N, k, "TIMER")
  <2> DEFINE N1 == x1.node
             N2 == x2.node
  <2>1. Marked(N2, N1, S)
    BY <1>1
  <2>2. /\ \A k \in Nodes : N1[k] = N[k] \/ Woke(N1, N, k, "TIMER")
        /\ \A k \in Nodes : N[k].type = "TIMER" /\ N[k].time <= now
             => \E j \in Nodes : N[j].type = "TIMER" /\ Woke(N1, N, j, "TIMER")
        /\ \A k \in Nodes : M[k] = N2[k] \/ Woke(M, N2, k, "REAR")
        /\ \A k \in Nodes : N2[k].type = "REAR" /\ N2[k].time <= now
             => \E j \in Nodes : N2[j].type = "REAR" /\ Woke(M, N2, j, "REAR")
    BY <1>4, <1>5
  <2> HIDE DEF N, N1, N2, M
  <2>3. /\ Rounded(M, N, S)
        /\ \A k \in Nodes : Woke(M, N, k, "TIMER") <=> Woke(N1, N, k, "TIMER")
    BY <2>1, <2>2, RoundNodes
  <2> QED
    BY <2>3 DEF N1
<1>7. w.ready \in Seq(Nodes) /\ x1.ready \in Seq(Nodes) /\ Len(x1.ready) \in {0, 1}
      /\ Added(N) /\ IsListOf(m.ready, "READY", N)
  BY <1>1, <1>4, ReadyRange DEF LoopInv, Core, Placed
<1>8. /\ x1.ready # <<>> => Head(w.ready) = x1.ready[1] /\ w.ready # <<>>
      /\ x1.ready = <<>> /\ nodes # <<>> => Head(w.ready) = nodes[1] /\ w.ready # <<>>
  <2> DEFINE a == x1.ready
             q == w.ready
  <2>1. /\ a \in Seq(Nodes) /\ Len(a) \in {0, 1} /\ nodes \in Seq(Nodes) /\ q \in Seq(Nodes)
        /\ q = a \o nodes \/ \E k \in Nodes : q = Append(a \o nodes, k)
    BY <1>2, <1>5, <1>7
  <2> HIDE DEF a, q
  <2>2. /\ a # <<>> => Head(q) = a[1] /\ q # <<>>
        /\ a = <<>> /\ nodes # <<>> => Head(q) = nodes[1] /\ q # <<>>
    BY ONLY <2>1, HeadJoined
  <2> QED
    BY <2>2 DEF a, q
<1>9. \A k \in Nodes : N[k].type # "READY"
  BY <1>7 DEF IsListOf, Range
<1>10. ASSUME NEW k \in Nodes, M[k].type = "READY", M[k].add_type = "TIMER"
       PROVE  k = Head(w.ready)
  <2>1. N[k].type \in Kinds
    BY <1>6, <1>9, <1>10 DEF Rounded
  <2>2. Woke(M, N, k, "TIMER")
    BY <1>6, <1>9, <1>10, <2>1 DEF Rounded, Woke
  <2> QED
    BY <1>4, <1>6, <1>8, <2>2
<1>11. ASSUME NEW k \in Nodes, M[k].type = "READY", M[k].add_type = "EVENT"
       PROVE  M[Head(w.ready)].add_type # "REAR"
  <2>1. N[k].type \notin Kinds
    BY <1>6, <1>9, <1>11 DEF Rounded, Woke, Kinds
  <2>2. \E f \in S : handle[f] = k
    BY <1>6, <1>9, <1>11, <2>1 DEF Rounded
  <2>3. k \in Range(nodes)
    BY <1>2, <2>2
  <2>4. nodes # <<>> /\ nodes[1] \in Range(nodes) /\ nodes[1] \in Nodes
    BY <2>3 DEF Range
  <2>5. CASE x1.ready # <<>>
    <3>1. PICK j \in Nodes : x1.ready = <<j>>
      BY <1>4, <2>5
    <3>2. Head(w.ready) = j
      BY <1>8, <3>1
    <3>3. Woke(x1.node, N, j, "TIMER")
      <4>1. x1.node[j].type = "READY"
        BY <1>1, <3>1 DEF Core, Placed, IsListOf, Range
      <4> QED
        BY <1>4, <1>9, <4>1
    <3> QED
      BY <1>6, <3>2, <3>3 DEF Woke
  <2>6. CASE x1.ready = <<>>
    <3>1. Head(w.ready) = nodes[1]
      BY <1>8, <2>4, <2>6
    <3>2. \E f \in S : handle[f] = nodes[1]
      BY <1>2, <2>4
    <3>3. M[nodes[1]].add_type = "EVENT"
      <4>1. N[nodes[1]].type \notin Kinds
        BY <2>4, <3>2 DEF LoopInv, Core, Owned, Kinds
      <4> QED
        BY <1>6, <2>4, <3>2, <4>1 DEF Rounded
    <3> QED
      BY <3>1, <3>3
  <2> QED
    BY <2>5, <2>6
<1>12. HeadRight(w)
  BY <1>10, <1>11 DEF HeadRight
<1> QED
  BY <1>6, <1>12 DEF w, x2, x1

(* In the terms of EventApi: the due timers T were taken in turn. *)
LEMMA WokenOfApi ==
    ASSUME LoopInv, NEW S, NEW M, Rounded(M, m.node, S),
           \A k \in Nodes : m.node[k].type # "READY"
    PROVE  LET T == {k \in Nodes : m.node[k].type \in Kinds /\ M[k].type = "READY"}
           IN  /\ T \in SUBSET {n \in Nodes : A!Due(n)}
               /\ A!InTurn(T)
               /\ A!Woken(T) = TimersOf(M)
<1> DEFINE N == m.node
           T == {k \in Nodes : N[k].type \in Kinds /\ M[k].type = "READY"}
           t == TimersOf(N)
<1>1. Added(N) /\ Rounded(M, N, S) /\ \A k \in Nodes : N[k].type # "READY"
  BY DEF LoopInv, Core
<1>2. t = [n \in Nodes |-> TimerOf(m.node[n])]
  BY DEF TimersOf
<1> HIDE DEF N
<1>3. ASSUME NEW k \in Nodes
      PROVE  /\ N[k].type \in Kinds => /\ t[k].state = "set"
                                       /\ t[k].rear = (N[k].type = "REAR")
                                       /\ t[k].time = N[k].time
             /\ N[k].type \notin Kinds => /\ t[k] = [state |-> "off", rear |-> FALSE, time |-> 0]
                                          /\ t[k].state # "set"
  <2>1. t[k] = TimerOf(N[k])
    BY DEF TimersOf
  <2>2. N[k].type \in Kinds => N[k].add_type = N[k].type
    BY <1>1 DEF Added
  <2>3. CASE N[k].type \in Kinds
    <3>1. t[k] = [state |-> "set", rear |-> N[k].type = "REAR", time |-> N[k].time]
      BY <2>1, <2>2, <2>3 DEF TimerOf, Kinds
    <3> QED
      BY <2>3, <3>1
  <2>4. CASE N[k].type \notin Kinds
    <3>1. t[k] = [state |-> "off", rear |-> FALSE, time |-> 0]
      BY <1>1, <2>1, <2>4 DEF TimerOf
    <3> QED
      BY <2>4, <3>1
  <2> QED
    BY <2>3, <2>4
<1>4. ASSUME NEW k \in T
      PROVE  Woke(M, N, k, N[k].type) /\ k \in Nodes /\ N[k].type \in Kinds
  BY <1>1 DEF Rounded, Kinds
<1> HIDE DEF t
<1>5. ASSUME NEW k \in Nodes
      PROVE  A!Due(k) <=> N[k].type \in Kinds /\ N[k].time <= now
  BY <1>2, <1>3 DEF A!Due
<1>6. T \in SUBSET {n \in Nodes : A!Due(n)}
  BY <1>4, <1>5 DEF Woke
<1>7. A!InTurn(T)
  <2>1. ASSUME NEW n \in T, NEW k \in Nodes \ T, t[k].state = "set", t[k].rear = t[n].rear
        PROVE  t[n].time <= t[k].time
    <3>1. N[k].type \in Kinds /\ N[k].type = N[n].type
      BY <1>3, <1>4, <2>1 DEF Kinds
    <3>2. N[n].time <= N[k].time
      BY <1>4, <3>1 DEF Woke
    <3> QED
      BY <1>3, <1>4, <3>1, <3>2
  <2>2. ASSUME NEW k \in Nodes, A!Due(k) PROVE \E n \in T : t[n].rear = t[k].rear
    <3>1. PICK j \in Nodes : N[j].type = N[k].type /\ Woke(M, N, j, N[k].type) /\ N[k].type \in Kinds
      BY <1>1, <1>5, <2>2 DEF Rounded
    <3>2. j \in T
      BY <3>1 DEF Woke
    <3>3. t[j].rear = t[k].rear
      BY <1>3, <3>1
    <3> QED
      BY <3>2, <3>3
  <2> QED
    BY <1>2, <2>1, <2>2 DEF A!InTurn
<1>8. A!Woken(T) = TimersOf(M)
  <2>1. ASSUME NEW k \in Nodes
        PROVE  TimerOf(M[k]) = IF k \in T THEN [state |-> "ready", rear |-> t[k].rear, time |-> t[k].time]
                               ELSE t[k]
    <3>1. CASE k \in T
      <4>1. M[k].type = "READY" /\ M[k].add_type = N[k].type /\ M[k].time = N[k].time
            /\ N[k].type \in Kinds
        BY <1>4, <3>1 DEF Woke
      <4>2. t[k].rear = (N[k].type = "REAR") /\ t[k].time = N[k].time
        BY <1>3, <4>1
      <4>3. TimerOf(M[k]) = [state |-> "ready", rear |-> N[k].type = "REAR", time |-> N[k].time]
        BY <4>1 DEF TimerOf, Kinds
      <4> QED
        BY <3>1, <4>2, <4>3
    <3>2. CASE k \notin T /\ M[k] = N[k]
      <4>1. TimerOf(N[k]) = t[k]
        BY DEF t, TimersOf
      <4> QED
        BY <3>2, <4>1
    <3>3. CASE k \notin T /\ M[k] # N[k]
      <4>1. N[k].type \notin Kinds
        BY <1>1, <3>3 DEF Rounded, Woke
      <4>2. M[k].add_type = "EVENT"
        BY <1>1, <3>3, <4>1 DEF Rounded
      <4>3. TimerOf(M[k]) = [state |-> "off", rear |-> FALSE, time |-> 0]
        BY <4>2 DEF TimerOf, Kinds
      <4> QED
        BY <1>3, <3>3, <4>1, <4>3
    <3> QED
      BY <3>1, <3>2, <3>3
  <2>2. A!Woken(T) = [k \in Nodes |-> IF k \in T THEN [state |-> "ready", rear |-> t[k].rear, time |-> t[k].time]
                                      ELSE t[k]]
    BY <1>2 DEF A!Woken
  <2> HIDE DEF T
  <2> QED
    BY <2>1, <2>2 DEF TimersOf
<1> QED
  BY <1>6, <1>7, <1>8 DEF N

(* And the descriptors S were reported. *)
LEMMA ReportedOfApi ==
    ASSUME LoopInv, NEW S \in SUBSET {f \in Fds : ep[f].node # NoNode /\ ep[f].on}, NEW M,
           Rounded(M, m.node, S), NEW e2,
           e2 = [f \in Fds |-> IF f \in S /\ f # ListenFd THEN [ep[f] EXCEPT !.on = FALSE]
                               ELSE ep[f]]
    PROVE  /\ S \in SUBSET {f \in Fds : WatchesOf(m.node, handle, ep)[f].open
                                        /\ WatchesOf(m.node, handle, ep)[f].armed}
           /\ A!Reported(S) = WatchesOf(M, handle, e2)
<1> DEFINE N == m.node
           w == WatchesOf(N, handle, ep)
<1>1. /\ handle \in [Fds -> Nodes \cup {NoNode}] /\ Owned(handle, N) /\ Rounded(M, N, S)
      /\ ep \in [Fds -> [node : Nodes \cup {NoNode}, on : BOOLEAN]]
      /\ \A f \in Fds : ep[f].node = handle[f]
  BY DEF LoopInv, Core
<1>2. w = [fd \in Fds |-> WatchOf(m.node, handle[fd], ep[fd])]
  BY DEF WatchesOf
<1> HIDE DEF N
<1>3. ASSUME NEW f \in Fds, handle[f] # NoNode
      PROVE  /\ handle[f] \in Nodes /\ N[handle[f]].type \notin Kinds
             /\ \A g \in Fds : handle[g] = handle[f] => g = f
  BY <1>1, <1>3 DEF Owned, Kinds
<1>4. ASSUME NEW f \in S
      PROVE  f \in Fds /\ handle[f] # NoNode /\ ep[f].on = TRUE
  BY <1>1
<1>5. ASSUME NEW f \in Fds
      PROVE  WatchOf(M, handle[f], e2[f])
               = IF f \in S THEN [open |-> TRUE, armed |-> f = ListenFd, ready |-> TRUE] ELSE w[f]
  <2>1. CASE f \in S
    <3>1. M[handle[f]].type = "READY"
      BY <1>1, <1>3, <1>4, <2>1 DEF Rounded
    <3>2. e2[f].on = (f = ListenFd)
      BY <1>1, <1>4, <2>1
    <3>3. WatchOf(M, handle[f], e2[f]) = [open |-> TRUE, armed |-> e2[f].on, ready |-> TRUE]
      BY <1>4, <2>1, <3>1 DEF WatchOf
    <3> QED
      BY <2>1, <3>2, <3>3
  <2>2. CASE f \notin S
    <3>1. e2[f] = ep[f]
      BY <2>2
    <3>2. handle[f] # NoNode => M[handle[f]] = N[handle[f]]
      BY <1>1, <1>3, <1>4, <2>2 DEF Rounded
    <3>3. WatchOf(M, handle[f], ep[f]) = WatchOf(N, handle[f], ep[f])
      BY <3>2 DEF WatchOf
    <3> QED
      BY <2>2, <3>1, <3>3 DEF WatchesOf
  <2> QED
    BY <2>1, <2>2
<1>6. S \in SUBSET {f \in Fds : w[f].open /\ w[f].armed}
  <2>1. ASSUME NEW f \in S PROVE f \in Fds /\ w[f].open /\ w[f].armed
    BY <1>4 DEF WatchesOf, WatchOf
  <2> QED
    BY <2>1
<1> HIDE DEF w
<1>7. A!Reported(S) = [f \in Fds |-> IF f \in S THEN [open |-> TRUE, armed |-> f = ListenFd, ready |-> TRUE]
                                     ELSE w[f]]
  BY <1>2 DEF A!Reported
<1> QED
  BY <1>5, <1>6, <1>7 DEF WatchesOf, N, w

(* A round never ends with nothing ready: a descriptor was reported, or    *)
(* the timerfd, which is armed for a node that is due by then.             *)
LEMMA RoundFindsWork ==
    ASSUME LoopInv, NEW S \in SUBSET Fds, \A f \in S : ep[f].node # NoNode,
           S # {} \/ (m.alarm # Never /\ m.alarm <= now),
           NEW M, Rounded(M, m.node, S)
    PROVE  \E k \in Nodes : M[k].type = "READY"
<1>1. /\ ArmedFor(m.armed, m.alarm, m.node) /\ Owned(handle, m.node)
      /\ handle \in [Fds -> Nodes \cup {NoNode}] /\ \A f \in Fds : ep[f].node = handle[f]
  BY DEF LoopInv, Core
<1>2. CASE S # {}
  <2>1. PICK f \in S : f \in Fds /\ handle[f] # NoNode
    BY <1>1, <1>2
  <2>2. handle[f] \in Nodes /\ m.node[handle[f]].type \notin Kinds
    BY <1>1, <2>1 DEF Owned, Kinds
  <2>3. M[handle[f]].type = "READY"
    BY <2>1, <2>2 DEF Rounded
  <2> QED
    BY <2>2, <2>3
<1>3. CASE m.alarm # Never /\ m.alarm <= now
  <2>1. m.armed \in Nodes /\ m.node[m.armed].type \in Kinds /\ m.node[m.armed].time <= now
    BY <1>1, <1>3 DEF ArmedFor
  <2>2. PICK j \in Nodes : Woke(M, m.node, j, m.node[m.armed].type)
    BY <2>1 DEF Rounded
  <2> QED
    BY <2>2 DEF Woke
<1> QED
  BY <1>2, <1>3

(* A round of event_waiting_process is Round. *)
LEMMA RoundOfApi ==
    ASSUME ApiInv, Pass
    PROVE  /\ A!Round
           /\ \A k \in Nodes : m'.node[k].type = "READY" => m'.node[k].add_type # "TIMER"
<1>1. PICK S \in SUBSET {f \in Fds : ep[f].node # NoNode /\ ep[f].on} :
      \E fds \in Orders(S) :
        LET x == Collected(fds) IN
        /\ m.ready = <<>>
        /\ S # {} \/ (m.alarm # Never /\ m.alarm <= now)
        /\ m' = IF x.ready = <<>> THEN x ELSE event_run(x)
        /\ ep' = [f \in Fds |-> IF f \in S /\ f # ListenFd
                                  THEN [ep[f] EXCEPT !.on = FALSE] ELSE ep[f]]
        /\ UNCHANGED <<handle, now>>
  BY DEF Pass
<1>2. PICK fds \in Orders(S) :
        LET x == Collected(fds) IN
        /\ m.ready = <<>>
        /\ S # {} \/ (m.alarm # Never /\ m.alarm <= now)
        /\ m' = IF x.ready = <<>> THEN x ELSE event_run(x)
        /\ ep' = [f \in Fds |-> IF f \in S /\ f # ListenFd
                                  THEN [ep[f] EXCEPT !.on = FALSE] ELSE ep[f]]
        /\ UNCHANGED <<handle, now>>
  BY <1>1
<1> DEFINE v == event_timer_process(epoll_process(event_timer_process(m, "TIMER"), fds), "REAR")
           x == event_timer_reset(v)
           M == x.node
           T == {k \in Nodes : m.node[k].type \in Kinds /\ M[k].type = "READY"}
<1>3. S \in SUBSET Fds /\ \A f \in S : ep[f].node # NoNode
  OBVIOUS
<1>4. LoopInv /\ handle \in [Fds -> Nodes \cup {NoNode}]
  BY DEF ApiInv, LoopInv
<1>5. Core(v, handle) /\ Rounded(v.node, m.node, S) /\ HeadRight(v)
  BY <1>2, <1>3, <1>4, RoundCore, RoundView
<1>6. /\ m.ready = <<>>
      /\ m' = IF x.ready = <<>> THEN x ELSE event_run(x)
      /\ ep' = [f \in Fds |-> IF f \in S /\ f # ListenFd
                                THEN [ep[f] EXCEPT !.on = FALSE] ELSE ep[f]]
      /\ UNCHANGED <<handle, now>>
  BY <1>2 DEF Collected
<1> HIDE DEF v
<1>7. SameLists(x, v) /\ ArmedFor(x.armed, x.alarm, v.node)
  <2>1. /\ v \in MasterType /\ v.node \in [Nodes -> NodeRec]
        /\ IsListOf(v.timer, "TIMER", v.node) /\ IsListOf(v.rear, "REAR", v.node)
        /\ InOrder(v.timer, v.node) /\ InOrder(v.rear, v.node)
        /\ (v.armed = NoNode) <=> (v.alarm = Never)
    BY <1>5 DEF Core, Placed, MasterType
  <2> QED
    BY <2>1, ResetArms
<1> HIDE DEF x
<1>8. Core(x, handle) /\ HeadRight(x) /\ ArmedFor(x.armed, x.alarm, M) /\ Rounded(M, m.node, S)
  <2>1. (x.armed = NoNode) <=> (x.alarm = Never)
    BY <1>7 DEF ArmedFor
  <2>2. Core(x, handle)
    BY <1>5, <1>7, <2>1 DEF SameLists, Core, Placed
  <2>3. HeadRight(x)
    BY <1>5, <1>7 DEF SameLists, HeadRight
  <2> QED
    BY <1>5, <1>7, <2>2, <2>3 DEF SameLists
<1>9. x.ready # <<>>
  <2>1. \E k \in Nodes : M[k].type = "READY"
    BY <1>2, <1>3, <1>4, <1>8, RoundFindsWork
  <2> QED
    BY <1>8, <2>1 DEF Core, Placed, IsListOf, Range
<1>10. /\ A!Begin(TimersOf(M), WatchesOf(M, handle, ep'))
       /\ \A k \in Nodes : m'.node[k].type = "READY" => m'.node[k].add_type # "TIMER"
  BY <1>4, <1>6, <1>8, <1>9, BeginOfApi
<1>11. \A k \in Nodes : m.node[k].type # "READY"
  BY <1>4, <1>6 DEF LoopInv, Core, Placed, IsListOf, Range
<1>12. T \in SUBSET {n \in Nodes : A!Due(n)} /\ A!InTurn(T) /\ A!Woken(T) = TimersOf(M)
  BY <1>4, <1>8, <1>11, WokenOfApi
<1>13. /\ S \in SUBSET {f \in Fds : WatchesOf(m.node, handle, ep)[f].open
                                    /\ WatchesOf(m.node, handle, ep)[f].armed}
       /\ A!Reported(S) = WatchesOf(M, handle, ep')
  BY <1>4, <1>6, <1>8, ReportedOfApi
<1>14. A!NothingReady
  <2>1. /\ \A k \in Nodes : TimersOf(m.node)[k].state # "ready"
        /\ \A f \in Fds : ~WatchesOf(m.node, handle, ep)[f].ready
    BY <1>4, <1>11, ApiViews DEF LoopInv, Core
  <2> QED
    BY <2>1 DEF A!NothingReady, TimersOf, WatchesOf
<1> HIDE DEF M, T
<1>15. A!Begin(A!Woken(T), A!Reported(S))
  BY <1>10, <1>12, <1>13
<1>16. A!Round
  BY <1>12, <1>13, <1>14, <1>15 DEF A!Round, WatchesOf
<1> QED
  BY <1>10, <1>16

(* At the start nothing is set and nothing is watched. *)
LEMMA ApiInvInit == Init => ApiInv /\ A!Init
<1> SUFFICES ASSUME Init PROVE ApiInv /\ A!Init
  OBVIOUS
<1>1. LoopInv
  BY LoopInit
<1>2. /\ m.node = [n \in Nodes |-> [type |-> "FREE", add_type |-> "FREE", fd |-> 0, time |-> 0]]
      /\ handle = [fd \in Fds |-> NoNode] /\ now = 0
  BY DEF Init
<1>3. \A n \in Nodes : TimerOf(m.node[n]) = [state |-> "off", rear |-> FALSE, time |-> 0]
  BY <1>2 DEF TimerOf, Kinds
<1>4. \A fd \in Fds : WatchOf(m.node, handle[fd], ep[fd])
                        = [open |-> FALSE, armed |-> FALSE, ready |-> FALSE]
  BY <1>2 DEF WatchOf
<1> QED
  BY <1>1, <1>2, <1>3, <1>4 DEF ApiInv, A!Init, A!Off, A!Closed

(* No timer is ready but rear nodes, in the terms of EventApi. *)
LEMMA NoTimerReady ==
    ASSUME NEW N
    PROVE  (\A k \in Nodes : N[k].type = "READY" => N[k].add_type # "TIMER")
             <=> \A k \in Nodes : TimersOf(N)[k].state = "ready" => TimersOf(N)[k].rear
<1>1. ASSUME NEW k \in Nodes
      PROVE  (N[k].type = "READY" => N[k].add_type # "TIMER")
               <=> (TimersOf(N)[k].state = "ready" => TimersOf(N)[k].rear)
  <2>1. TimersOf(N)[k] = TimerOf(N[k])
    BY DEF TimersOf
  <2>2. CASE N[k].type = "READY" /\ N[k].add_type = "TIMER"
    <3>1. TimerOf(N[k]) = [state |-> "ready", rear |-> FALSE, time |-> N[k].time]
      BY <2>2 DEF TimerOf, Kinds
    <3> QED
      BY <2>1, <2>2, <3>1
  <2>3. CASE N[k].type = "READY" /\ N[k].add_type = "REAR"
    <3>1. TimerOf(N[k]).rear
      BY <2>3 DEF TimerOf, Kinds
    <3> QED
      BY <2>1, <2>3, <3>1
  <2>4. CASE N[k].type # "READY" \/ N[k].add_type \notin Kinds
    <3>1. TimerOf(N[k]).state # "ready"
      BY <2>4 DEF TimerOf
    <3> QED
      BY <2>1, <2>4, <3>1 DEF Kinds
  <2> QED
    BY <2>2, <2>3, <2>4 DEF Kinds
<1> QED
  BY <1>1

(* What callbacks do makes no timer ready. *)
LEMMA CallbackKeepsApi ==
    ASSUME ApiInv, LoopInv',
           \/ \E n \in Nodes, rear \in BOOLEAN, delay \in Delays : A!Set(n, rear, delay)
           \/ \E n \in Nodes : A!Stop(n)
           \/ \E fd \in Fds : A!Open(fd) \/ A!Arm(fd) \/ A!Close(fd)
           \/ A!Tick \/ UNCHANGED A!vars
    PROVE  ApiInv'
<1> DEFINE t == TimersOf(m.node)
           t2 == TimersOf(m'.node)
<1>1. t = [n \in Nodes |-> TimerOf(m.node[n])] /\ t2 = [n \in Nodes |-> TimerOf(m'.node[n])]
  BY DEF TimersOf
<1>2. \A k \in Nodes : t[k].state = "ready" => t[k].rear
  BY NoTimerReady DEF ApiInv
<1> HIDE DEF t, t2
<1>3. \/ t2 = t
      \/ \E n \in Nodes : \E r : t2 = [t EXCEPT ![n] = r] /\ r.state # "ready"
  <2>1. ASSUME NEW n \in Nodes, NEW rear \in BOOLEAN, NEW delay \in Delays, A!Set(n, rear, delay)
        PROVE  \E r : t2 = [t EXCEPT ![n] = r] /\ r.state # "ready"
    <3> DEFINE r == [state |-> "set", rear |-> rear, time |-> now + delay]
    <3>1. t2 = [t EXCEPT ![n] = r]
      BY <1>1, <2>1 DEF A!Set
    <3>2. r.state # "ready"
      OBVIOUS
    <3> HIDE DEF r
    <3> QED
      BY <3>1, <3>2
  <2>2. ASSUME NEW n \in Nodes, A!Stop(n)
        PROVE  \E r : t2 = [t EXCEPT ![n] = r] /\ r.state # "ready"
    <3>1. t2 = [t EXCEPT ![n] = A!Off] /\ A!Off.state # "ready"
      BY <1>1, <2>2 DEF A!Stop, A!Off
    <3> QED
      BY <3>1
  <2>3. ASSUME NEW fd \in Fds, A!Open(fd) \/ A!Arm(fd) \/ A!Close(fd) PROVE t2 = t
    BY <1>1, <2>3 DEF A!Open, A!Arm, A!Close
  <2>4. ASSUME A!Tick \/ UNCHANGED A!vars PROVE t2 = t
    BY <1>1, <2>4 DEF A!Tick, A!vars
  <2> QED
    BY <2>1, <2>2, <2>3, <2>4
<1>4. \A k \in Nodes : t2[k].state = "ready" => t2[k].rear
  BY <1>1, <1>2, <1>3
<1>5. \A k \in Nodes : m'.node[k].type = "READY" => m'.node[k].add_type # "TIMER"
  BY <1>4, NoTimerReady DEF t2
<1> QED
  BY <1>5 DEF ApiInv

(* Every step keeps the invariant and is a step of EventApi or none. *)
LEMMA ApiNext == ApiInv /\ [Next]_vars => ApiInv' /\ [A!Next]_(A!vars)
<1> SUFFICES ASSUME ApiInv, [Next]_vars PROVE ApiInv' /\ [A!Next]_(A!vars)
  OBVIOUS
<1>1. LoopInv /\ LoopInv'
  BY LoopNext DEF ApiInv
<1>2. CASE Callback \/ Tick \/ UNCHANGED vars
  <2>1. \/ \E n \in Nodes, rear \in BOOLEAN, delay \in Delays : A!Set(n, rear, delay)
        \/ \E n \in Nodes : A!Stop(n)
        \/ \E fd \in Fds : A!Open(fd) \/ A!Arm(fd) \/ A!Close(fd)
        \/ A!Tick \/ UNCHANGED A!vars
    <3>1. ASSUME NEW kind \in Kinds, NEW delay \in Delays, AddTimer(kind, delay)
          PROVE  \E n \in Nodes, rear \in BOOLEAN : A!Set(n, rear, delay)
      <4>1. A!Set(NextNode(m), kind = "REAR", delay)
        BY <1>1, <3>1, SetOfApi
      <4>2. NextNode(m) \in Nodes /\ (kind = "REAR") \in BOOLEAN
        BY <1>1, <3>1, NextIsOff DEF AddTimer
      <4> QED
        BY <4>1, <4>2
    <3>2. ASSUME NEW n \in Nodes, CancelTimer(n) PROVE A!Stop(n)
      BY <1>1, <3>2, StopOfApi
    <3>3. ASSUME NEW fd \in Fds, Watch(fd) PROVE A!Open(fd)
      BY <1>1, <3>3, OpenOfApi
    <3>4. ASSUME NEW fd \in Fds, Rearm(fd) PROVE A!Arm(fd)
      BY <1>1, <3>4, ArmOfApi
    <3>5. ASSUME NEW fd \in Fds, Unwatch(fd) PROVE A!Close(fd)
      BY <1>1, <3>5, CloseOfApi
    <3>6. ASSUME WatchClosed PROVE UNCHANGED A!vars
      BY <1>1, <3>6, WatchClosedOfApi
    <3>7. ASSUME Tick PROVE A!Tick
      BY <3>7 DEF Tick, A!Tick
    <3>8. ASSUME UNCHANGED vars PROVE UNCHANGED A!vars
      BY <3>8 DEF vars, A!vars
    <3> QED
      BY <1>2, <3>1, <3>2, <3>3, <3>4, <3>5, <3>6, <3>7, <3>8 DEF Callback
  <2>2. ApiInv'
    BY <1>1, <2>1, CallbackKeepsApi
  <2> QED
    BY <2>1, <2>2 DEF A!Next
<1>3. ASSUME Pass \/ Run
      PROVE  /\ A!Round \/ A!Run
             /\ \A k \in Nodes : m'.node[k].type = "READY" => m'.node[k].add_type # "TIMER"
  BY <1>3, RoundOfApi, RunOfApi
<1>4. CASE Pass \/ Run
  BY <1>1, <1>3, <1>4 DEF ApiInv, A!Next
<1> QED
  BY <1>2, <1>4 DEF Next, Loop

(* The event loop implements EventApi, for any number of nodes and         *)
(* descriptors: each callback is begun once, when it is due, in the order  *)
(* of event_waiting_process, and never after its OFF.                      *)
THEOREM LoopIsApi == Spec => ImplementsApi
<1>1. Init => ApiInv /\ A!Init
  BY ApiInvInit
<1>2. ApiInv /\ [Next]_vars => ApiInv' /\ [A!Next]_(A!vars)
  BY ApiNext
<1> QED
  BY <1>1, <1>2, PTL DEF Spec, ImplementsApi, A!Spec

=============================================================================
