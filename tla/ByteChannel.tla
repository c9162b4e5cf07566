----------------------------- MODULE ByteChannel -----------------------------
(***************************************************************************)
(* What one direction of a pair promises: bytes are taken from the source, *)
(* numbered from 1, and handed to the destination, each once and in their  *)
(* order, until the pair breaks.                                           *)
(***************************************************************************)
EXTENDS Naturals, Sequences

CONSTANT Bytes      \* bound on the bytes the source sends

VARIABLES
    taken,      \* how many bytes were taken
    output,     \* the bytes handed over
    open        \* is there still a pair?

vars == <<taken, output, open>>

Init == taken \in 0 .. Bytes /\ output = <<>> /\ open = TRUE

Take ==
    /\ open
    /\ taken' \in taken + 1 .. Bytes
    /\ UNCHANGED <<output, open>>

(* The next k bytes of those taken. *)
Give ==
    /\ open
    /\ \E k \in 1 .. taken - Len(output) :
         output' = output \o [i \in 1 .. k |-> Len(output) + i]
    /\ UNCHANGED <<taken, open>>

(* Bytes that were taken and not yet given are lost. *)
Break == open /\ open' = FALSE /\ UNCHANGED <<taken, output>>

Next == Take \/ Give \/ Break

Spec == Init /\ [][Next]_vars

=============================================================================
