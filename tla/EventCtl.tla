------------------------------- MODULE EventCtl -------------------------------
(***************************************************************************)
(* The event loop (eventsCtl/event_ctl.c): a pool of event nodes that move *)
(* between the timer list, the rear list, the hash of watched file         *)
(* descriptors, the ready list and the list of unused nodes; the timerfd   *)
(* that is armed for the earliest timer; one pass of epoll_wait.           *)
(*                                                                         *)
(* The callbacks are the loop's users: they add and cancel timers, watch,  *)
(* re-arm and close descriptors.  A callback runs between two rounds of    *)
(* the loop, so each thing it does is a step of its own.                   *)
(***************************************************************************)
EXTENDS Integers, Sequences, FiniteSets, Lists

CONSTANTS
    Nodes,      \* memory of the event nodes: XCALLOC takes one that was never used
    NoNode,     \* NULL
    Fds,        \* file descriptors; a closed one is given out again
    ListenFd,   \* the listening socket, watched without EPOLLONESHOT
    Delays,     \* the delays callbacks ask for
    Horizon     \* the clock stops here, a bound for TLC

ASSUME EventCtlAssumption ==
    /\ NoNode \notin Nodes
    /\ Fds \subseteq Nat \ {0} /\ IsFiniteSet(Fds)
    /\ ListenFd \in Fds
    /\ Delays \subseteq Nat
    /\ Horizon \in Nat

VARIABLES
    m,          \* struct event_master and the nodes it owns
    ep,         \* the kernel's epoll set: fd -> node in data.ptr, still armed?
    handle,     \* fd -> the node its owner holds (t_event), NoNode if closed
    now         \* CLOCK_MONOTONIC

vars == <<m, ep, handle, now>>

(* node->fd: XCALLOC leaves 0; event_epoll_add of a closed socket gets -1.  *)
Bad == -1
NodeFd == Fds \cup {0, Bad}

(* FREE is memory that was never allocated. *)
Types == {"FREE", "UNUSED", "TIMER", "REAR", "EVENT", "READY"}
Kinds == {"TIMER", "REAR"}

(* The timerfd is disarmed. *)
Never == -1

NodeRec == [type : Types, add_type : Types, fd : NodeFd, time : Nat]

Init ==
    /\ m = [node   |-> [n \in Nodes |-> [type |-> "FREE", add_type |-> "FREE",
                                         fd |-> 0, time |-> 0]],
            timer  |-> <<>>, rear |-> <<>>, ready |-> <<>>, unuse |-> <<>>,
            hash   |-> [fd \in Fds |-> NoNode],
            armed  |-> NoNode,      \* event_timer.event
            alarm  |-> Never]       \* what timerfd_settime was last told
    /\ ep = [fd \in Fds |-> [node |-> NoNode, on |-> FALSE]]
    /\ handle = [fd \in Fds |-> NoNode]
    /\ now = 0

-----------------------------------------------------------------------------
(* Functions of the code, as operators on the master x.  Those whose name  *)
(* ends in _bug are faulty variants of the definition that follows; no     *)
(* action uses them.                                                       *)

Without(list, n) == Keep(list, Nodes \ {n})

ListOf(x, kind) == IF kind = "TIMER" THEN x.timer ELSE x.rear

WithList(x, kind, list) ==
    IF kind = "TIMER" THEN [x EXCEPT !.timer = list] ELSE [x EXCEPT !.rear = list]

(* event_node_get: the head of the unused nodes, or fresh memory. *)
CanGet(x) == x.unuse # <<>> \/ \E n \in Nodes : x.node[n].type = "FREE"

NextNode(x) == IF x.unuse # <<>> THEN Head(x.unuse)
               ELSE CHOOSE n \in Nodes : x.node[n].type = "FREE"

event_node_get_bug(x, type) ==    \* the type is set, add_type is left alone
    LET n == NextNode(x)
    IN  [x EXCEPT !.unuse = Without(@, n), !.node[n].type = type]

event_node_get(x, type) ==
    LET n == NextNode(x)
    IN  [x EXCEPT !.unuse = Without(@, n),
                  !.node[n].type = type, !.node[n].add_type = type]

(* event_timer_get: the earlier head; the rear list's if they are equal. *)
event_timer_get(x) ==
    IF x.rear = <<>> THEN IF x.timer = <<>> THEN NoNode ELSE Head(x.timer)
    ELSE IF x.timer = <<>> THEN Head(x.rear)
    ELSE IF x.node[Head(x.rear)].time > x.node[Head(x.timer)].time
           THEN Head(x.timer) ELSE Head(x.rear)

(* event_timer_set / event_timer_cancel / event_timer_reset *)
event_timer_set(x, n) == [x EXCEPT !.armed = n, !.alarm = x.node[n].time]

event_timer_reset_bug(x) ==    \* looks at the timer list only
    IF x.timer # <<>> THEN event_timer_set(x, Head(x.timer))
                      ELSE [x EXCEPT !.armed = NoNode, !.alarm = Never]

event_timer_reset(x) ==
    LET n == event_timer_get(x)
    IN  IF n # NoNode THEN event_timer_set(x, n)
        ELSE IF x.armed # NoNode THEN [x EXCEPT !.armed = NoNode, !.alarm = Never]
        ELSE x

(* event_timer_add_itimerspec: behind all nodes that are not later. *)
event_timer_add(x, kind, time) ==
    LET n == NextNode(x)
        y == [event_node_get(x, kind) EXCEPT !.node[n].time = time]
        old == ListOf(x, kind)
        Later == {k \in Nodes : x.node[k].time > time}
        z == WithList(y, kind, Keep(old, Nodes \ Later) \o <<n>> \o Keep(old, Later))
    IN  IF x.armed = NoNode THEN event_timer_set(z, n)
        ELSE IF x.node[x.armed].time > time THEN event_timer_set(z, n)
        ELSE z

(* hash_get keeps an entry that is already there. *)
HashAdd(x, fd, n) == IF x.hash[fd] = NoNode THEN [x EXCEPT !.hash[fd] = n] ELSE x

ToUnused(x, n) == [x EXCEPT !.node[n].type = "UNUSED", !.unuse = Append(@, n)]

event_cancel_bug(x, n) ==    \* "if (node == event_timer.event)" missing
    LET type == x.node[n].type
        y == CASE type \in Kinds -> WithList(x, type, Without(ListOf(x, type), n))
               [] type = "READY" -> [x EXCEPT !.ready = Without(@, n)]
               [] type = "EVENT" -> [x EXCEPT !.hash[x.node[n].fd] = NoNode]
    IN  ToUnused(y, n)

(* event_cancel, without the epoll_ctl *)
event_cancel(x, n) ==
    LET type == x.node[n].type
        y == CASE type \in Kinds -> WithList(x, type, Without(ListOf(x, type), n))
               [] type = "READY" -> [x EXCEPT !.ready = Without(@, n)]
               [] type = "EVENT" -> [x EXCEPT !.hash[x.node[n].fd] = NoNode]
        z == IF type # "EVENT" /\ n = x.armed THEN event_timer_reset(y) ELSE y
    IN  ToUnused(z, n)

(* event_epoll_lookup_by_fd: the hash, then the ready list, from its head. *)
event_epoll_lookup_by_fd(x, fd) ==
    LET hits == {i \in DOMAIN x.ready : x.node[x.ready[i]].fd = fd}
    IN  IF x.hash[fd] # NoNode THEN x.hash[fd]
        ELSE IF hits = {} THEN NoNode
        ELSE x.ready[CHOOSE i \in hits : \A j \in hits : i <= j]

event_timer_process_bug(x, kind) ==    \* all nodes that are due
    LET list == ListOf(x, kind)
        Due == {n \in Nodes : x.node[n].type = kind /\ x.node[n].time <= now}
        y == WithList(x, kind, Keep(list, Nodes \ Due))
    IN  [y EXCEPT !.ready = @ \o Keep(list, Due),
                  !.node = [n \in Nodes |-> IF n \in Due THEN [@[n] EXCEPT !.type = "READY"]
                                                         ELSE @[n]]]

(* event_timer_process: event_list_delete clears the next pointer of the   *)
(* node the loop stands on, so a pass takes at most one node of a list.    *)
event_timer_process(x, kind) ==
    LET list == ListOf(x, kind)
    IN  IF list # <<>> /\ x.node[Head(list)].time <= now
          THEN LET y == WithList(x, kind, Tail(list))
               IN  [y EXCEPT !.node[Head(list)].type = "READY",
                             !.ready = Append(@, Head(list))]
          ELSE x

(* The events epoll_wait reported, in its order: out of the hash, ready.   *)
epoll_process(x, fds) ==
    LET nodes == Keep([i \in DOMAIN fds |-> ep[fds[i]].node],
                      {n \in Nodes : x.node[n].type \notin Kinds})
        Hit == {nodes[i] : i \in DOMAIN nodes}
    IN  [x EXCEPT !.ready = @ \o nodes,
                  !.hash = [fd \in Fds |-> IF x.hash[fd] \in Hit THEN NoNode ELSE x.hash[fd]],
                  !.node = [n \in Nodes |-> IF n \in Hit THEN [@[n] EXCEPT !.type = "READY"]
                                                         ELSE @[n]]]

event_run_bug(x) ==    \* the node of a timer is not given back
    LET n == Head(x.ready)
        y == [x EXCEPT !.ready = Tail(@)]
    IN  IF x.node[n].add_type = "EVENT"
          THEN HashAdd([y EXCEPT !.node[n].type = "EVENT"], x.node[n].fd, n)
          ELSE [y EXCEPT !.node[n].type = "UNUSED"]

(* event_list_trim_head(&m->ready) and event_run: the watched descriptor   *)
(* goes back into the hash, a timer to the unused nodes.                   *)
event_run(x) ==
    LET n == Head(x.ready)
        y == [x EXCEPT !.ready = Tail(@)]
    IN  IF x.node[n].add_type = "EVENT"
          THEN HashAdd([y EXCEPT !.node[n].type = "EVENT"], x.node[n].fd, n)
          ELSE ToUnused(y, n)

-----------------------------------------------------------------------------
(* What callbacks do. *)

(* TIMER_ON, REAR_ON *)
AddTimer(kind, delay) ==
    /\ CanGet(m) /\ now + delay <= Horizon
    /\ m' = event_timer_add(m, kind, now + delay)
    /\ UNCHANGED <<ep, handle, now>>

(* TIMER_OFF, by the owner of a timer whose callback has not begun yet. *)
CancelTimer(n) ==
    /\ m.node[n].add_type \in Kinds /\ m.node[n].type \in Kinds \cup {"READY"}
    /\ m' = event_cancel(m, n)
    /\ UNCHANGED <<ep, handle, now>>

(* EVENT_SET of a descriptor that is not watched: event_epoll_add. *)
Watch(fd) ==
    LET n == NextNode(m) IN
    /\ handle[fd] = NoNode /\ CanGet(m)
    /\ m' = HashAdd([event_node_get(m, "EVENT") EXCEPT !.node[n].fd = fd], fd, n)
    /\ ep' = [ep EXCEPT ![fd] = [node |-> n, on |-> TRUE]]
    /\ handle' = [handle EXCEPT ![fd] = n]
    /\ UNCHANGED now

(* event_epoll_add of a socket that was closed meanwhile (fd -1): epoll_ctl  *)
(* fails, and the node, typed EVENT, stays outside of every list.            *)
WatchClosed ==
    /\ CanGet(m)
    /\ m' = [event_node_get(m, "EVENT") EXCEPT !.node[NextNode(m)].fd = Bad]
    /\ UNCHANGED <<ep, handle, now>>

(* EVENT_SET of a watched descriptor: event_epoll_mod re-arms EPOLLONESHOT   *)
(* for the node the lookup finds.  The macro aborts if that is not the       *)
(* owner's node: LookupFindsHandle.                                          *)
Rearm(fd) ==
    /\ handle[fd] # NoNode
    /\ ep' = [ep EXCEPT ![fd] = [node |-> event_epoll_lookup_by_fd(m, fd), on |-> TRUE]]
    /\ UNCHANGED <<m, handle, now>>

Unwatch_bug(fd) ==    \* no EPOLL_CTL_DEL, and the descriptor stays open
    /\ handle[fd] # NoNode /\ fd # ListenFd
    /\ m' = event_cancel(m, handle[fd])
    /\ handle' = [handle EXCEPT ![fd] = NoNode]
    /\ UNCHANGED <<ep, now>>

(* EVENT_OFF and close(); a READY node gets no EPOLL_CTL_DEL, but close()    *)
(* takes the descriptor out of the epoll set.                                *)
Unwatch(fd) ==
    /\ handle[fd] # NoNode /\ fd # ListenFd
    /\ m' = event_cancel(m, handle[fd])
    /\ ep' = [ep EXCEPT ![fd] = [node |-> NoNode, on |-> FALSE]]
    /\ handle' = [handle EXCEPT ![fd] = NoNode]
    /\ UNCHANGED now

-----------------------------------------------------------------------------
(* The loop. *)

(* The orders in which epoll_wait may report the descriptors of S. *)
Orders(S) == {f \in [1 .. Cardinality(S) -> S] : \A i, j \in DOMAIN f : f[i] = f[j] => i = j}

Collected_bug(fds) ==    \* rear nodes before descriptors
    event_timer_reset(epoll_process(
        event_timer_process(event_timer_process(m, "TIMER"), "REAR"), fds))

(* What a round makes ready, "according to the priority of events": timers, *)
(* descriptors, rear nodes; and the timerfd is set again.                    *)
Collected(fds) ==
    event_timer_reset(event_timer_process(
        epoll_process(event_timer_process(m, "TIMER"), fds), "REAR"))

(* One round of event_waiting_process with nothing ready: epoll_wait returns *)
(* because of some descriptors or the timerfd, and the first node that is    *)
(* ready then is run.                                                        *)
Pass ==
    \E S \in SUBSET {fd \in Fds : ep[fd].node # NoNode /\ ep[fd].on} :
    \E fds \in Orders(S) :
        LET x == Collected(fds) IN
        /\ m.ready = <<>>
        /\ S # {} \/ (m.alarm # Never /\ m.alarm <= now)
        /\ m' = IF x.ready = <<>> THEN x ELSE event_run(x)
        /\ ep' = [fd \in Fds |-> IF fd \in S /\ fd # ListenFd
                                   THEN [ep[fd] EXCEPT !.on = FALSE] ELSE ep[fd]]
        /\ UNCHANGED <<handle, now>>

(* The same with nodes that are ready already. *)
Run ==
    /\ m.ready # <<>>
    /\ m' = event_run(m)
    /\ UNCHANGED <<ep, handle, now>>

Tick ==
    /\ now < Horizon
    /\ now' = now + 1
    /\ UNCHANGED <<m, ep, handle>>

Callback ==
    \/ \E kind \in Kinds, delay \in Delays : AddTimer(kind, delay)
    \/ \E n \in Nodes : CancelTimer(n)
    \/ \E fd \in Fds : Watch(fd) \/ Rearm(fd) \/ Unwatch(fd)
    \/ WatchClosed

Loop == Pass \/ Run

Next == Callback \/ Loop \/ Tick

(* The process gets the processor, and time passes. *)
Fairness == WF_vars(Loop) /\ WF_vars(Tick)

Spec == Init /\ [][Next]_vars

FairSpec == Spec /\ Fairness

-----------------------------------------------------------------------------
(* Properties. *)

(* The loop's records keep their types, and a node that is not free was    *)
(* added as one of the kinds event_run tells apart.                        *)
TypeOK ==
    /\ m \in [node : [Nodes -> NodeRec], timer : Seq(Nodes), rear : Seq(Nodes),
              ready : Seq(Nodes), unuse : Seq(Nodes),
              hash : [Fds -> Nodes \cup {NoNode}],
              armed : Nodes \cup {NoNode}, alarm : Nat \cup {Never}]
    /\ ep \in [Fds -> [node : Nodes \cup {NoNode}, on : BOOLEAN]]
    /\ handle \in [Fds -> Nodes \cup {NoNode}]
    /\ now \in Nat
    /\ \A n \in Nodes : m.node[n].type # "FREE" => m.node[n].add_type \in Kinds \cup {"EVENT"}

Places(n) ==
    [TIMER  |-> Cardinality({i \in DOMAIN m.timer : m.timer[i] = n}),
     REAR   |-> Cardinality({i \in DOMAIN m.rear : m.rear[i] = n}),
     READY  |-> Cardinality({i \in DOMAIN m.ready : m.ready[i] = n}),
     UNUSED |-> Cardinality({i \in DOMAIN m.unuse : m.unuse[i] = n}),
     EVENT  |-> Cardinality({fd \in Fds : m.hash[fd] = n}),
     FREE   |-> 0]

(* A node is in exactly the place its type names, and there once: the lists *)
(* share the next and prev fields, so a node in two of them would break     *)
(* both.  Nodes of failed event_epoll_add calls are in none.                *)
NodeInOnePlace ==
    \A n \in Nodes : \A place \in Types :
        Places(n)[place] = IF place = m.node[n].type /\ place # "FREE"
                              /\ ~(place = "EVENT" /\ m.node[n].fd = Bad)
                             THEN 1 ELSE 0

Pending == {n \in Nodes : m.node[n].type \in Kinds}

(* The timerfd is armed exactly when a timer is pending, and never later    *)
(* than the earliest of them: a timer cannot be missed.                     *)
TimerfdArmedForEarliest ==
    /\ (m.armed = NoNode) <=> (Pending = {})
    /\ (m.armed = NoNode) <=> (m.alarm = Never)
    /\ Pending # {} => /\ m.armed \in Pending
                       /\ m.alarm = m.node[m.armed].time
                       /\ \A n \in Pending : m.alarm <= m.node[n].time

(* event_epoll_mod finds the node its caller holds, although unused nodes   *)
(* keep the fd they once had and the ready list is searched by fd: the      *)
(* abort() of EPOLL_EVENT_MOD is not reached.                               *)
LookupFindsHandle ==
    \A fd \in Fds : handle[fd] # NoNode => event_epoll_lookup_by_fd(m, fd) = handle[fd]

(* data.ptr of a descriptor in the epoll set is its owner's node: an event  *)
(* is never reported to a node that was recycled for something else.        *)
EpollNodesLive ==
    \A fd \in Fds :
        /\ ep[fd].node = handle[fd]
        /\ handle[fd] # NoNode => /\ m.node[handle[fd]].type \in {"EVENT", "READY"}
                                  /\ m.node[handle[fd]].add_type = "EVENT"
                                  /\ m.node[handle[fd]].fd = fd

(* Every timer that is set is cancelled or run, although a pass takes only  *)
(* one of a list: event_timer_reset arms the timerfd for the rest.          *)
TimersRun == \A n \in Nodes : m.node[n].type \in Kinds ~> m.node[n].type \notin Kinds

=============================================================================
