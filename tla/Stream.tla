-------------------------------- MODULE Stream --------------------------------
(***************************************************************************)
(* The stream buffer (pop_stream.c): a buffer of a fixed size, of which    *)
(* the first endp bytes are valid and the first getp have been taken.      *)
(* The data field holds the valid bytes, so endp is its length.            *)
(***************************************************************************)
EXTENDS Naturals, Sequences

Streams(Bytes) == [size : Nat, getp : Nat, data : Seq(Bytes)]

endp(s) == Len(s.data)

(* The macros of pop_stream.h. *)
STREAM_WRITEABLE(s) == s.size - endp(s)
STREAM_READABLE(s) == endp(s) - s.getp

GETP_VALID(s, pos) == pos <= endp(s)

(* What STREAM_VERIFY_SANE asserts at the start of every operation. *)
Sane(s) == GETP_VALID(s, s.getp) /\ endp(s) <= s.size

Unread_bug(s) == s.data    \* from the start of the buffer

(* stream_pnt: the bytes from getp to endp. *)
Unread(s) == SubSeq(s.data, s.getp + 1, endp(s))

-----------------------------------------------------------------------------
(* The operations.  An operation whose name has the suffix _asserts next   *)
(* to it calls abort() unless that condition holds.                        *)

stream_new_asserts(size) == size > 0

stream_new(size) == [size |-> size, getp |-> 0, data |-> <<>>]

stream_reset_bug(s) == [s EXCEPT !.getp = 0]    \* endp stays

stream_reset(s) == [s EXCEPT !.getp = 0, !.data = <<>>]

stream_copy_asserts(new, src) == Sane(src) /\ new.size >= endp(src)

stream_copy_bug(new, src) == [new EXCEPT !.getp = endp(src), !.data = src.data]    \* nothing left to take

stream_copy(new, src) == [new EXCEPT !.getp = src.getp, !.data = src.data]

(* The copy is as large as the data, not as the buffer. *)
stream_dup_asserts(s) ==
    stream_new_asserts(endp(s)) /\ stream_copy_asserts(stream_new(endp(s)), s)

stream_dup(s) == stream_copy(stream_new(endp(s)), s)

stream_forward_getp_asserts(s, size) == Sane(s) /\ GETP_VALID(s, s.getp + size)

stream_forward_getp_bug(s, size) == [s EXCEPT !.getp = size]    \* from the start, not from getp

stream_forward_getp(s, size) == [s EXCEPT !.getp = @ + size]

(* stream_read_unblock, when read() finds these bytes for a buffer that    *)
(* was to take up to size of them.                                         *)
stream_read_unblock_asserts(s, size) == Sane(s) /\ STREAM_WRITEABLE(s) >= size

stream_read_unblock(s, bytes) == [s EXCEPT !.data = @ \o bytes]

=============================================================================
