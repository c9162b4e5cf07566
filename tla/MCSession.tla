------------------------------- MODULE MCSession -------------------------------
(* Instances of Session for TLC. *)
EXTENDS Session

(* a.b, a, the same with the dot at its end, names with the longest label  *)
(* that can be asked for and with one that is too long, an address, and a  *)
(* name the DNS server does not know.                                      *)
MCHosts == {"two", "one", "dot", "longest", "tooLong", "address", "unknown"}

Letters(n) == [k \in 1 .. n |-> 97]

MCSpelling ==
    [h \in MCHosts |-> CASE h = "two" -> <<97, Dot, 98>>
                         [] h = "one" -> <<97>>
                         [] h = "dot" -> <<97, Dot>>
                         [] h = "longest" -> <<98, Dot>> \o Letters(CharMax)
                         [] h = "tooLong" -> <<98, Dot>> \o Letters(CharMax + 1)
                         [] h = "address" -> <<49>>
                         [] h = "unknown" -> <<98>>]

MCPaths ==
    {<<>>} \cup {<<"/">> \o p : p \in UNION {[1 .. n -> {"/", ":", "word"}] : n \in 0 .. 2}}

=============================================================================
