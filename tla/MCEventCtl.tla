----------------------------- MODULE MCEventCtl -----------------------------
(* An instance of EventCtl for TLC. *)
EXTENDS EventCtlApi, TLC

MCFds == {1, 2}
MCOneFd == {1}
MCDelays == {0, 1}

(* Memory that was never used is alike, so it does not matter which of it *)
(* the CHOOSE of NextNode takes.                                          *)
Symmetry == Permutations(Nodes)

=============================================================================
