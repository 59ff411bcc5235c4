--------------------------- MODULE FileDescriptor ---------------------------
(***************************************************************************)
(* libsponge/util/file_descriptor.{hh,cc} and Socket::shutdown, on a pair   *)
(* of connected AF_UNIX stream sockets as the kernel gives them.  The pair *)
(* is two channels of bytes; shutting down one end for writing is the same *)
(* as shutting down the other for reading.                                 *)
(***************************************************************************)
EXTENDS Naturals, Sequences

CONSTANT SocketBuffer            \* bytes the kernel holds for each direction
ASSUME SocketBufferAssumption == SocketBuffer \in Nat \ {0}

ChannelType(B) == [data : Seq(B), shut : BOOLEAN]
new_channel == [data |-> << >>, shut |-> FALSE]

\* socket_pair_helper: what the owner writes goes up, what it reads comes down.
PairType(B) == [up : ChannelType(B), down : ChannelType(B)]
socket_pair == [up |-> new_channel, down |-> new_channel]

\* What poll says of the two ends of a channel, and of a socket both of whose channels are shut.
readable(ch) == ch.data # << >> \/ ch.shut
writable(ch) == Len(ch.data) < SocketBuffer
hung_up(pair) == pair.up.shut /\ pair.down.shut

\* FileDescriptor::read and write of a socket that does not block, and how each ends: it
\* throws for EAGAIN, and writing to a channel that is shut raises SIGPIPE.
smaller(a, b) == IF a <= b THEN a ELSE b

fd_read(ch, limit) ==
    LET n == smaller(limit, Len(ch.data))
    IN  [data |-> SubSeq(ch.data, 1, n), channel |-> [ch EXCEPT !.data = SubSeq(@, n + 1, Len(@))],
         eof |-> limit > 0 /\ n = 0,
         fate |-> IF limit > 0 /\ ~readable(ch) THEN "threw" ELSE "alive"]

fd_write(ch, data) ==
    LET n == IF ch.shut THEN 0 ELSE smaller(Len(data), SocketBuffer - Len(ch.data))
    IN  [bytes_written |-> n, channel |-> [ch EXCEPT !.data = @ \o SubSeq(data, 1, n)],
         fate |-> CASE data # << >> /\ ch.shut -> "sigpipe"
                    [] data # << >> /\ ~ch.shut /\ n = 0 -> "threw"
                    [] OTHER -> "alive"]

\* Socket::shutdown with SHUT_WR and SHUT_RDWR.
shutdown_wr(ch) == [ch EXCEPT !.shut = TRUE]
shutdown_rdwr(pair) == [up |-> shutdown_wr(pair.up), down |-> shutdown_wr(pair.down)]

=============================================================================
