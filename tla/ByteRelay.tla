------------------------------- MODULE ByteRelay -------------------------------
(***************************************************************************)
(* One direction of an open pair, byte by byte: pop_http_proxy_tcp_read    *)
(* reads from the source's socket, copies what it read into a packet of    *)
(* the destination's write_fifo, and _pop_http_proxy_tcp_write sends as    *)
(* much of the fifo as the destination's socket takes.  Proxy.tla has the  *)
(* same functions with whole packets and as single steps; here every       *)
(* system call is a step, because the kernel goes on between them.         *)
(* Byte number n of the source is the number n.                            *)
(***************************************************************************)
EXTENDS Stream

CONSTANTS
    Bytes,          \* bound on the bytes the source sends
    BufferSize,     \* MAX_RECV_PACKET_SIZE, 102400 in the code
    ReadTimes,      \* POP_PACKET_READ_TIMES, 10 in the code
    SendRoom        \* bytes the send buffer of the destination's socket holds

ASSUME ByteRelayAssumption ==
    /\ Bytes \in Nat
    /\ BufferSize \in Nat \ {0}
    /\ ReadTimes \in Nat \ {0}
    /\ SendRoom \in Nat \ {0}

VARIABLES
    \* the kernel
    sent,           \* bytes that have come in from the source
    eof,            \* has the source closed its end?
    room,           \* free bytes in the destination's send buffer
    output,         \* bytes write() took for the destination
    errno,          \* of the process: a call that succeeds leaves it alone
    \* the program
    pc, caller,     \* what the thread does; who called the write loop
    i,              \* the read loop's counter
    taken,          \* bytes read from the source
    recv_buffer,    \* of the source
    write_fifo,     \* of the destination
    srcArmed,       \* does the source's t_event wait for input?
    dstEvents,      \* what the destination's t_event waits for: "read" or "rw"
    open,           \* is the pair open?
    aborted         \* has an assertion failed?

kernel == <<sent, eof, room, output>>
thread == <<pc, caller, i>>
events == <<srcArmed, dstEvents>>
vars == <<kernel, errno, thread, taken, recv_buffer, write_fifo, events, open, aborted>>

Minimum(a, b) == IF a < b THEN a ELSE b

(* A copy of the first n bytes. *)
FirstPacket(n) == [size |-> n, getp |-> 0, data |-> [k \in 1 .. n |-> k]]

(* A pair whose server is connected: the request that was read before, of  *)
(* n bytes, lies in the server's write_fifo and SUCCESS has had the socket  *)
(* watched; n is 0 for a tunnel and for the direction to the client.       *)
Started(n) ==
    /\ sent = n /\ taken = n
    /\ write_fifo = IF n = 0 THEN <<>> ELSE <<FirstPacket(n)>>
    /\ dstEvents = IF n = 0 THEN "read" ELSE "rw"

Init ==
    /\ \E n \in 0 .. Minimum(Bytes, BufferSize) : Started(n)
    /\ eof = FALSE /\ room = SendRoom /\ output = <<>>
    /\ errno = "none"
    /\ pc = "loop" /\ caller = "loop" /\ i = 0
    /\ recv_buffer = stream_new(BufferSize)
    /\ srcArmed = TRUE
    /\ open = TRUE /\ aborted = FALSE

-----------------------------------------------------------------------------
(* The kernel and the two ends of the connections. *)

Send ==
    /\ ~eof /\ sent' \in sent + 1 .. Bytes
    /\ UNCHANGED <<eof, room, output, errno, thread, taken, recv_buffer, write_fifo, events, open, aborted>>

SourceCloses ==
    /\ ~eof /\ eof' = TRUE
    /\ UNCHANGED <<sent, room, output, errno, thread, taken, recv_buffer, write_fifo, events, open, aborted>>

Drain ==
    /\ room < SendRoom /\ room' \in room + 1 .. SendRoom
    /\ UNCHANGED <<sent, eof, output, errno, thread, taken, recv_buffer, write_fifo, events, open, aborted>>

(* Any other callback of the loop: its calls may fail, and it may close    *)
(* this pair.                                                              *)
OtherCallback ==
    /\ pc = "loop"
    /\ errno' \in {"none", "again", "fatal"}
    /\ errno = "none" \/ errno' # "none"
    /\ open' \in {open, FALSE}
    /\ UNCHANGED <<kernel, thread, taken, recv_buffer, write_fifo, events, aborted>>

-----------------------------------------------------------------------------
(* pop_http_proxy_tcp_read.  Names that end in _bug are faulty variants of *)
(* the definition that follows them; no action uses them.                  *)

(* EPOLLIN; the events are one-shot. *)
SourceReadable ==
    /\ pc = "loop" /\ open /\ srcArmed
    /\ sent > taken \/ eof
    /\ srcArmed' = FALSE
    /\ pc' = "read" /\ i' = 0
    /\ UNCHANGED <<kernel, errno, caller, taken, recv_buffer, write_fifo, dstEvents, open, aborted>>

(* The label OUT: the source's event is set again. *)
Out_bug == pc' = "loop" /\ UNCHANGED <<caller, i, events>>

Out ==
    /\ pc' = "loop" /\ srcArmed' = TRUE
    /\ UNCHANGED <<caller, i, dstEvents>>

ReadLoopEnds ==
    /\ pc = "read" /\ open /\ i = ReadTimes
    /\ Out
    /\ UNCHANGED <<kernel, errno, taken, recv_buffer, write_fifo, open, aborted>>

InLoop_bug == pc = "read" /\ open /\ i <= ReadTimes    \* once too often

InLoop == pc = "read" /\ open /\ i < ReadTimes

(* read() finds bytes; pop_http_proxy_message_deal puts a copy of the      *)
(* buffer into the destination's fifo and calls the write loop.            *)
ReadBytes ==
    LET n     == Minimum(BufferSize, sent - taken)
        empty == stream_reset(recv_buffer)
        full  == stream_read_unblock(empty, [k \in 1 .. n |-> taken + k])
    IN
    /\ InLoop /\ sent > taken
    /\ aborted' = ~(stream_read_unblock_asserts(empty, BufferSize) /\ stream_dup_asserts(full))
    /\ recv_buffer' = full
    /\ taken' = taken + n
    /\ write_fifo' = Append(write_fifo, stream_dup(full))
    /\ i' = i + 1 /\ pc' = "write" /\ caller' = "read"
    /\ UNCHANGED <<kernel, errno, events, open>>

(* read() finds nothing: -1 and EAGAIN. *)
ReadNothing ==
    /\ InLoop /\ sent = taken /\ ~eof
    /\ errno' = "again"
    /\ recv_buffer' = stream_reset(recv_buffer)
    /\ Out
    /\ UNCHANGED <<kernel, taken, write_fifo, open, aborted>>

(* The pair is closed and the callback is left. *)
Closed ==
    /\ open' = FALSE
    /\ pc' = "loop"
    /\ recv_buffer' = stream_reset(recv_buffer)
    /\ UNCHANGED <<caller, i, events>>

(* read() returns 0 and errno is that of an earlier call: only if it is    *)
(* not EAGAIN the pair is closed.                                          *)
ReadEnd ==
    /\ InLoop /\ sent = taken /\ eof
    /\ \/ errno = "again" /\ Out /\ recv_buffer' = stream_reset(recv_buffer) /\ UNCHANGED open
       \/ errno # "again" /\ Closed
    /\ UNCHANGED <<kernel, errno, taken, write_fifo, aborted>>

(* A hard error. *)
ReadError ==
    /\ InLoop
    /\ errno' = "fatal"
    /\ Closed
    /\ UNCHANGED <<kernel, taken, write_fifo, aborted>>

(* The write loop closed the pair: the next read(-1) fails and closes it   *)
(* again, or the loop was at its end.                                      *)
ReadClosedPair ==
    /\ pc = "read" /\ ~open
    /\ errno' \in {errno, "fatal"}
    /\ pc' = "loop"
    /\ UNCHANGED <<kernel, caller, i, taken, recv_buffer, write_fifo, events, open, aborted>>

-----------------------------------------------------------------------------
(* _pop_http_proxy_tcp_write. *)

(* EPOLLOUT on the destination's socket. *)
DestinationWritable ==
    /\ pc = "loop" /\ open /\ dstEvents = "rw" /\ room > 0
    /\ pc' = "write" /\ caller' = "loop"
    /\ UNCHANGED <<kernel, errno, i, taken, recv_buffer, write_fifo, events, open, aborted>>

Return == pc' = caller /\ UNCHANGED <<caller, i>>

(* The loop is left: what the event has to wait for depends on the fifo. *)
WriteLoopEnds_bug(fifo) == dstEvents' = "read" /\ Return /\ UNCHANGED srcArmed

WriteLoopEnds(fifo) ==
    /\ dstEvents' = IF fifo = <<>> THEN "read" ELSE "rw"
    /\ Return
    /\ UNCHANGED srcArmed

WriteEmpty ==
    /\ pc = "write" /\ open /\ write_fifo = <<>>
    /\ WriteLoopEnds(write_fifo)
    /\ UNCHANGED <<kernel, errno, taken, recv_buffer, write_fifo, open, aborted>>

(* write() takes what there is room for, of the first packet. *)
WriteBytes ==
    LET s   == Head(write_fifo)
        num == Minimum(room, STREAM_READABLE(s))
    IN
    /\ pc = "write" /\ open /\ write_fifo # <<>> /\ room > 0
    /\ output' = output \o SubSeq(Unread(s), 1, num)
    /\ room' = room - num
    /\ \/ /\ num = STREAM_READABLE(s)
          /\ write_fifo' = Tail(write_fifo)
          /\ UNCHANGED <<thread, events, aborted>>
       \/ /\ num # STREAM_READABLE(s)
          /\ aborted' = ~stream_forward_getp_asserts(s, num)
          /\ write_fifo' = [write_fifo EXCEPT ![1] = stream_forward_getp(@, num)]
          /\ WriteLoopEnds(write_fifo')
    /\ UNCHANGED <<sent, eof, errno, taken, recv_buffer, open>>

WriteWouldBlock ==
    /\ pc = "write" /\ open /\ write_fifo # <<>> /\ room = 0
    /\ errno' = "again"
    /\ WriteLoopEnds(write_fifo)
    /\ UNCHANGED <<kernel, taken, recv_buffer, write_fifo, open, aborted>>

(* A hard error closes the pair; a read loop that called goes on. *)
WriteError ==
    /\ pc = "write" /\ open /\ write_fifo # <<>>
    /\ errno' = "fatal"
    /\ open' = FALSE
    /\ recv_buffer' = stream_reset(recv_buffer)
    /\ Return
    /\ UNCHANGED <<kernel, taken, write_fifo, events, aborted>>

-----------------------------------------------------------------------------
Kernel == Send \/ SourceCloses \/ Drain

ReadStep == \/ ReadLoopEnds \/ ReadBytes \/ ReadNothing \/ ReadEnd \/ ReadError
            \/ ReadClosedPair

WriteStep == WriteEmpty \/ WriteBytes \/ WriteWouldBlock \/ WriteError

(* After a failed assertion there is no program. *)
Next ==
    /\ ~aborted
    /\ \/ Kernel
       \/ OtherCallback
       \/ SourceReadable \/ ReadStep
       \/ DestinationWritable \/ WriteStep

Spec == Init /\ [][Next]_vars

(* The thread goes on with its callback; a descriptor that is ready again  *)
(* and again is served, because each pass of the loop serves all that are  *)
(* (EventCtl.tla, event_ctl.c:803-826); the destination takes in what its  *)
(* socket holds.                                                           *)
Fairness ==
    /\ WF_vars(~aborted /\ ReadStep)
    /\ WF_vars(~aborted /\ WriteStep)
    /\ SF_vars(~aborted /\ SourceReadable)
    /\ SF_vars(~aborted /\ DestinationWritable)
    /\ WF_vars(~aborted /\ Drain)

FairSpec == Spec /\ Fairness

-----------------------------------------------------------------------------
(* Properties. *)

(* Buffers, positions and what the thread does have their types, and the   *)
(* read loop keeps to its bound.                                           *)
TypeOK ==
    /\ sent \in 0 .. Bytes /\ eof \in BOOLEAN /\ room \in 0 .. SendRoom
    /\ output \in Seq(Nat) /\ errno \in {"none", "again", "fatal"}
    /\ pc \in {"loop", "read", "write"} /\ caller \in {"loop", "read"}
    /\ i \in 0 .. ReadTimes
    /\ taken \in 0 .. sent
    /\ recv_buffer \in Streams(Nat) /\ write_fifo \in Seq(Streams(Nat))
    /\ srcArmed \in BOOLEAN /\ dstEvents \in {"read", "rw"}
    /\ open \in BOOLEAN /\ aborted \in BOOLEAN

(* No assertion of pop_stream.c fails: the buffer always has the room that *)
(* stream_read_unblock asks for, so the 0 of a refused read is never taken *)
(* for the end of the connection; no empty packet is copied; and no        *)
(* position moves beyond the data (pop_stream.h:11-31).                     *)
NeverAborts == ~aborted

First(s) == s.data[s.getp + 1]
Last(s) == s.data[endp(s)]

(* What the destination gets is what the source sent, without gaps,        *)
(* repetitions or changes of order, whatever is in the fifo: a packet that *)
(* was sent in part goes on where it stopped, and packets and their bytes  *)
(* follow one another up to the last byte read.                            *)
OutputInOrder == \A n \in DOMAIN output : output[n] = n

(* A packet of a fifo has bytes to send, numbered one after the other.      *)
Packet(s) ==
    /\ Sane(s) /\ STREAM_READABLE(s) > 0
    /\ \A a \in s.getp + 1 .. endp(s) : s.data[a] = First(s) + (a - s.getp - 1)

PacketsFollow(fifo, given, last) ==
    /\ \A k \in DOMAIN fifo :
         /\ Packet(fifo[k])
         /\ First(fifo[k]) = IF k = 1 THEN given + 1 ELSE Last(fifo[k - 1]) + 1
    /\ last = IF fifo = <<>> THEN given ELSE Last(fifo[Len(fifo)])

BytesInOrder == OutputInOrder /\ PacketsFollow(write_fifo, Len(output), taken)

(* When the loop waits, nothing of an open pair waits for nobody: the      *)
(* source is listened to, and so is the destination if packets are left.   *)
(* The event is one-shot, so every way out of a callback has to set it.    *)
SocketsWatched ==
    pc = "loop" /\ open => srcArmed /\ (write_fifo # <<>> => dstEvents = "rw")

C == INSTANCE ByteChannel

(* Each system call, partial write and error is a step of ByteChannel or   *)
(* none.                                                                   *)
ImplementsChannel == C!Spec

(* If the destination goes on taking bytes, every byte that was read       *)
(* reaches it, or the pair is closed.                                      *)
BytesArrive == \A n \in 1 .. Bytes : taken >= n ~> Len(output) >= n \/ ~open

(* The end of a connection closes the pair if errno does not go on being   *)
(* EAGAIN: pop_network.c:293 looks at it although read() that returned 0   *)
(* has not set it.                                                         *)
EndNoticed == <>[](errno # "again") => (eof ~> ~open)

=============================================================================
