------------------------------ MODULE ProxyRelay ------------------------------
(***************************************************************************)
(* Proxy implements Relay: the peers are the halves, and the state         *)
(* machines, timers, info queues and DNS queries of a peer are hidden      *)
(* behind three states of its connection.                                  *)
(***************************************************************************)
EXTENDS Proxy

(* A client's connection is up from accept() on, a server's when connect() *)
(* has succeeded.                                                          *)
StatusOf(r) ==
    IF ~r.alive THEN "none"
    ELSE IF r.server_status = "Established" \/ r.client_status = "Establish" THEN "up"
    ELSE "idle"

R == INSTANCE Relay WITH
       Halves  <- Peers,
       NoHalf  <- NoPeer,
       side    <- [p \in Peers |-> peer[p].type],
       status  <- [p \in Peers |-> StatusOf(peer[p])],
       partner <- [p \in Peers |-> peer[p].paired_peer],
       queue   <- [p \in Peers |-> peer[p].write_fifo]

(* Every callback of the program is a step of Relay or none.  Packets are   *)
(* not lost, doubled or reordered while their pair is open, they leave      *)
(* through connections that are up, pairs are closed in one step, and a     *)
(* peer is freed only when it is closed and alone (pop_network.c:97-99).    *)
ImplementsRelay == R!Spec

=============================================================================
