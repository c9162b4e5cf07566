------------------------------ MODULE DnsMessage ------------------------------
(***************************************************************************)
(* DNS messages (pop_domain_parse.c): the form a host name has in them,    *)
(* and what DomainNameIpv4Addr makes of a response.                        *)
(***************************************************************************)
EXTENDS Naturals, Sequences, FiniteSetsExt

-----------------------------------------------------------------------------
(* Names, as sequences of bytes.  In a message each label follows the      *)
(* number of its bytes, and 0 ends the name.  Operators that end in _bug   *)
(* are faulty variants of the definition that follows; nothing uses them.  *)

Dot == 46    \* '.'
Byte == 256       \* a char has as many values
CharMax == 127    \* from the next on a char is negative

(* Where a label's count is put: before the name, and over each dot. *)
CountAt(name, p) == p = 1 \/ (p \in 2 .. Len(name) + 1 /\ name[p - 1] = Dot)

NextCount(name, p) ==
    Min({q \in p + 1 .. Len(name) + 2 : q = Len(name) + 2 \/ CountAt(name, q)})

(* _trans_dns_name_into_pkt_format: each count is the distance to the next *)
(* dot or to the end, an int that is stored in a char.                     *)
PacketName_bug(name) ==    \* the loop ends at domainNameLen: the last label is not counted
    [p \in 1 .. Len(name) + 2 |->
        IF p = Len(name) + 2 \/ (CountAt(name, p) /\ NextCount(name, p) = Len(name) + 2) THEN 0
        ELSE IF CountAt(name, p) THEN (NextCount(name, p) - p - 1) % Byte
        ELSE name[p - 1]]

PacketName(name) ==
    [p \in 1 .. Len(name) + 2 |->
        IF p = Len(name) + 2 THEN 0
        ELSE IF CountAt(name, p) THEN (NextCount(name, p) - p - 1) % Byte
        ELSE name[p - 1]]

(* The string at the start of a buffer: what strlen() counts. *)
String(b) == SubSeq(b, 1, Min({k \in DOMAIN b : b[k] = 0}) - 1)

(* The places that are reached by going from count to count.  A count above *)
(* CharMax is a negative char: as an unsigned int it leads beyond any string *)
(* (or, if it is -1, nowhere: then the walk does not end).                 *)
Counts(s) ==
    LET reached[p \in 1 .. Len(s) + 1] ==
          p = 1 \/ \E q \in 1 .. p - 1 : s[q] <= CharMax /\ q + s[q] + 1 = p /\ reached[q]
    IN  {p \in 1 .. Len(s) + 1 : reached[p]}

(* Does the walk end where the string does? *)
check_dns_name_pkt_format(s) == Len(s) + 1 \in Counts(s)

(* _dns_pkt_name_parse of a legal name: the counts but for the first       *)
(* become dots.                                                            *)
HostName(b) ==
    LET s      == String(b)
        counts == Counts(s)
    IN  [k \in 1 .. Len(s) - 1 |-> IF k + 1 \in counts THEN Dot ELSE s[k + 1]]

-----------------------------------------------------------------------------
(* Responses.  The name of a question or record has one of three forms:    *)
(* its labels; a pointer to a name elsewhere in the message; labels and    *)
(* then a pointer, for which check_dns_name_pkt_format fails.              *)
NameForms == {"labels", "pointer", "mixed"}

Types == {"A", "other"}

Records(Addrs, Times) ==
    [form : NameForms, type : Types, TimeLive : Times, ADDR : Addrs]

(* recursion is the flag 1 << 7, which the code calls the response flag. *)
Responses(Addrs, Times, Lengths) ==
    UNION {[recursion : BOOLEAN, questions : 0 .. 2, question : NameForms, qtype : Types,
            answers : [1 .. n -> Records(Addrs, Times)]] : n \in Lengths}

DomainNameAnswerParse_bug(r) == r.form = "labels"    \* a pointer is an error, too

(* Is the record parsed?  "Only the address matters", but a name that      *)
(* cannot be parsed is an error.                                           *)
DomainNameAnswerParse(r) == r.form # "mixed"

(* The name of the question cannot be a pointer. *)
DomainNameQuestionParse(m) == m.question = "labels"

HeaderAccepted(m) ==
    m.recursion /\ m.questions = 1 /\ DomainNameQuestionParse(m) /\ m.qtype = "A"

LoopEnd_bug(m) ==    \* the loop does not stop at a record of type A
    Min({k \in 1 .. Len(m.answers) + 1 :
           k = Len(m.answers) + 1 \/ ~DomainNameAnswerParse(m.answers[k])})

(* The record with which the loop ends: the first that is not parsed or    *)
(* that has an address, or one beyond the last.                            *)
LoopEnd(m) ==
    Min({k \in 1 .. Len(m.answers) + 1 :
           \/ k = Len(m.answers) + 1
           \/ ~DomainNameAnswerParse(m.answers[k])
           \/ m.answers[k].type = "A"})

(* What DomainNameIpv4Addr finds out: "null" is NULL; "none" a result      *)
(* without an address; "undefined" a look at Answer[i] past the last       *)
(* record; "address" the address of record LoopEnd(m).                     *)
DomainNameIpv4Addr(m) ==
    CASE ~HeaderAccepted(m) -> "null"
      [] HeaderAccepted(m) /\ m.answers = <<>> -> "none"
      [] HeaderAccepted(m) /\ m.answers # <<>> /\ LoopEnd(m) = Len(m.answers) + 1 -> "undefined"
      [] HeaderAccepted(m) /\ LoopEnd(m) <= Len(m.answers) ->
           IF DomainNameAnswerParse(m.answers[LoopEnd(m)]) THEN "address" ELSE "none"

=============================================================================
