-------------------------------- MODULE Relay --------------------------------
(***************************************************************************)
(* What the proxy is to those who use it, whatever timers, DNS queries and *)
(* event queues it takes: a set of halves, each the end of one connection, *)
(* joined in pairs of a client and a server.  A half has a queue of        *)
(* packets that are to leave through it.  Packets leave in the order in    *)
(* which they came, through a connection that is up, and both halves of a  *)
(* pair are closed in one step.                                            *)
(***************************************************************************)
EXTENDS Naturals, Sequences

CONSTANTS
    Halves, NoHalf,
    EarlyData       \* are bytes that come too early kept with who sent them?

VARIABLES
    side,       \* half -> "unknown" (no connection), "client" or "server"
    status,     \* half -> "none", "idle" (not yet up, or closed), "up"
    partner,    \* half -> the half it is joined with
    queue       \* half -> packets that have not left yet

vars == <<side, status, partner, queue>>

Init ==
    /\ side = [h \in Halves |-> "unknown"]
    /\ status = [h \in Halves |-> "none"]
    /\ partner = [h \in Halves |-> NoHalf]
    /\ queue = [h \in Halves |-> <<>>]

Joined(h) == partner[h] # NoHalf

Up(h) == status[h] = "up"

(* A client connects. *)
Open(c) ==
    /\ status[c] = "none"
    /\ side' = [side EXCEPT ![c] = "client"]
    /\ status' = [status EXCEPT ![c] = "up"]
    /\ UNCHANGED <<partner, queue>>

(* The queues with what has to wait for the server's connection: the       *)
(* request for the server, or for a tunnel the answer for the client.      *)
Waiting(c, s, tunnel) ==
    IF tunnel THEN [queue EXCEPT ![c] = Append(@, "estab")]
              ELSE [queue EXCEPT ![s] = Append(@, "client")]

(* A client that has no server asks for one. *)
Request(c, s, tunnel) ==
    /\ side[c] = "client" /\ Up(c) /\ ~Joined(c)
    /\ status[s] = "none"
    /\ side' = [side EXCEPT ![s] = "server"]
    /\ queue' = Waiting(c, s, tunnel)
    /\ \/ /\ status' = [status EXCEPT ![s] = "idle"]
          /\ partner' = [partner EXCEPT ![c] = s, ![s] = c]
       \/ /\ status' = [status EXCEPT ![s] = "idle", ![c] = "idle"]    \* refused
          /\ UNCHANGED partner

(* The connection to the server is there, even if the client has gone. *)
Connect(s) ==
    /\ side[s] = "server" /\ status[s] = "idle"
    /\ status' = [status EXCEPT ![s] = "up"]
    /\ UNCHANGED <<side, partner, queue>>

(* The first k packets of q leave, an answer to CONNECT only when the       *)
(* server it speaks of is up.                                               *)
MayLeave(h, q, k) ==
    \A i \in 1 .. k : q[i] = "estab" => Joined(h) /\ Up(partner[h])

Left(q, k) == SubSeq(q, k + 1, Len(q))

Deliver(h) ==
    /\ Up(h)
    /\ \E k \in 1 .. Len(queue[h]) :
         /\ MayLeave(h, queue[h], k)
         /\ queue' = [queue EXCEPT ![h] = Left(@, k)]
    /\ UNCHANGED <<side, status, partner>>

(* Both halves of h's pair are closed. *)
Closed(h) ==
    /\ status' = [g \in Halves |-> IF g = h \/ g = partner[h] THEN "idle" ELSE status[g]]
    /\ partner' = [g \in Halves |-> IF g = h \/ g = partner[h] THEN NoHalf ELSE partner[g]]
    /\ UNCHANGED side

Close(h) ==
    /\ status[h] # "none"
    /\ Closed(h)
    /\ UNCHANGED queue

(* A packet is read from h and joins the queue of its partner; some of      *)
(* that queue leaves at once, or the partner turns out to be broken.        *)
Forward(h) ==
    LET g == partner[h]
        q == Append(queue[g], side[h])
    IN  /\ Joined(h) /\ Up(h) /\ Up(g)
        /\ \/ /\ \E k \in 0 .. Len(q) : queue' = [queue EXCEPT ![g] = Left(q, k)]
              /\ UNCHANGED <<side, status, partner>>
           \/ /\ queue' = [queue EXCEPT ![g] = q]
              /\ Closed(h)

(* Bytes of a client whose server is not up come too early. *)
Early(c) ==
    /\ EarlyData
    /\ side[c] = "client" /\ Up(c)
    /\ Joined(c) => ~Up(partner[c])
    /\ queue' = [queue EXCEPT ![c] = Append(@, "client")]
    /\ UNCHANGED <<side, status, partner>>

(* A closed half is forgotten, with the packets that did not leave; so is   *)
(* a server that came up when its client had already gone.                 *)
Release(h) ==
    /\ ~Joined(h)
    /\ status[h] = "idle" \/ (side[h] = "server" /\ Up(h))
    /\ side' = [side EXCEPT ![h] = "unknown"]
    /\ status' = [status EXCEPT ![h] = "none"]
    /\ queue' = [queue EXCEPT ![h] = <<>>]
    /\ UNCHANGED partner

Next ==
    \/ \E h \in Halves : \/ Open(h) \/ Connect(h) \/ Deliver(h) \/ Close(h)
                         \/ Forward(h) \/ Early(h) \/ Release(h)
    \/ \E c, s \in Halves, tunnel \in BOOLEAN : Request(c, s, tunnel)

Spec == Init /\ [][Next]_vars

=============================================================================
