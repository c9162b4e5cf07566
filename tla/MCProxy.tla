------------------------------- MODULE MCProxy -------------------------------
(* Instances of Proxy for TLC. *)
EXTENDS ProxyRelay, TLC

(* Slots are interchangeable in everything but liveness. *)
Symmetry == Permutations(Peers)

=============================================================================
