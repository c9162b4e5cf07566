------------------------------ MODULE MCDnsCache ------------------------------
(* Instances of DnsCache for TLC. *)
EXTENDS DnsCache, TLC

(* 7 is longer than the time that is left before the clock wraps. *)
MCTimeLives == {0, 1, 7}

Symmetry == Permutations(Hosts)

=============================================================================
