----------------------------- MODULE EventCtlAccept -----------------------------
(***************************************************************************)
(* The event loop with a callback that cancels its own event: what         *)
(* pop_http_proxy_tcp_server_accept does when accept() fails for good.     *)
(***************************************************************************)
EXTENDS EventCtl

(* The copy of the node that is being run, in the frame of main(): none of *)
(* the Nodes.                                                              *)
CONSTANT Fetch

(* event_run puts the listening node back into the hash; the callback gets *)
(* the copy, which was taken before that and is typed READY.  event_cancel *)
(* deletes the copy, which has no neighbours, from the ready list: head    *)
(* and tail become NULL.  The copy joins the unused nodes.                 *)
AcceptError ==
    /\ m.ready # <<>> /\ Head(m.ready) = handle[ListenFd]
    /\ LET x == event_run(m)
       IN  m' = [x EXCEPT
                   !.ready = <<>>,
                   !.unuse = Append(@, Fetch),
                   !.node  = [n \in Nodes \cup {Fetch} |->
                                IF n = Fetch THEN [m.node[Head(m.ready)] EXCEPT !.type = "UNUSED"]
                                             ELSE @[n]]]
    /\ UNCHANGED <<ep, handle, now>>

(* The steps until the first such error. *)
SpecAccept == Init /\ [][DOMAIN m.node = Nodes /\ (Next \/ AcceptError)]_vars

(* pop_tcp_fsm.c:369 (in translation): "cancel reading of the listening     *)
(* socket": after the error nothing watches it any more.                    *)
AcceptErrorCancels == [][AcceptError => ep'[ListenFd].node = NoNode]_vars

=============================================================================
