--------------------------- MODULE MCEventCtlAccept ---------------------------
(* An instance of EventCtlAccept for TLC. *)
EXTENDS EventCtlAccept

MCFds == {1, 2}
MCDelays == {0}

=============================================================================
