----------------------------- MODULE EventCtlApi -----------------------------
(***************************************************************************)
(* EventCtl implements EventApi: the nodes of timers and rear nodes are    *)
(* the timers, a descriptor is what its owner's node and the epoll set     *)
(* make of it, and where the nodes are kept is hidden.                     *)
(***************************************************************************)
EXTENDS EventCtl

(* A node added as a timer, until its callback begins; the time of a node   *)
(* that was given back means nothing.                                       *)
TimerOf(r) ==
    IF r.add_type \in Kinds /\ r.type \in Kinds \cup {"READY"}
      THEN [state |-> IF r.type = "READY" THEN "ready" ELSE "set",
            rear  |-> r.add_type = "REAR", time |-> r.time]
      ELSE [state |-> "off", rear |-> FALSE, time |-> 0]

WatchOf(node, h, e) ==
    IF h = NoNode THEN [open |-> FALSE, armed |-> FALSE, ready |-> FALSE]
    ELSE [open |-> TRUE, armed |-> e.on, ready |-> node[h].type = "READY"]

A == INSTANCE EventApi WITH
       Timers <- Nodes,
       timer  <- [n \in Nodes |-> TimerOf(m.node[n])],
       watch  <- [fd \in Fds |-> WatchOf(m.node, handle[fd], ep[fd])]

(* Every step of the loop and of its callers is a step of EventApi or none. *)
(* A callback is run once for what it was asked for, not before its time    *)
(* and not after TIMER_OFF or EVENT_OFF, even of a node that is ready       *)
(* already; a round takes a due timer of each list, the earliest, however   *)
(* many descriptors are reported, and runs timers, descriptors and rear     *)
(* nodes in this order (event_ctl.c, event_waiting_process).                *)
ImplementsApi == A!Spec

=============================================================================
