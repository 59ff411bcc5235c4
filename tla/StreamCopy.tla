----------------------------- MODULE StreamCopy -----------------------------
(***************************************************************************)
(* apps/bidirectional_stream_copy.cc: standard input to the socket and the *)
(* socket to standard output, with a stream in between each way.  Its      *)
(* world is [app, pair, fate, room]; the socket's other end belongs to     *)
(* TCPSpongeSocket.  Standard input comes in pieces and ends as a terminal *)
(* does (a read of nothing) or as a pipe does (a hangup).  Standard output *)
(* takes room bytes of a write, one at least when poll reports it ready.   *)
(***************************************************************************)
EXTENDS ByteStream, EventLoop, FileDescriptor

CONSTANT CopyBuffer              \* buffer_size: 1048576; max_copy_length is no smaller here
ASSUME CopyBufferAssumption == CopyBuffer \in Nat \ {0}

\* coming is what has not been typed yet, dropped a history of what was read from standard
\* input and not taken by the stream it was written to.
new_app(text) ==
    [loop |-> new_EventLoop(4), outbound |-> new_ByteStream(CopyBuffer),
     inbound |-> new_ByteStream(CopyBuffer), outbound_shutdown |-> FALSE,
     inbound_shutdown |-> FALSE, coming |-> text, stdin |-> << >>, dropped |-> << >>,
     stdin_end |-> "open", input_eof |-> FALSE, socket_eof |-> FALSE, output_closed |-> FALSE,
     printed |-> << >>]

AppType(B) ==
    [loop : EventLoopType(4), outbound : ByteStreamType(B), inbound : ByteStreamType(B),
     outbound_shutdown : BOOLEAN, inbound_shutdown : BOOLEAN, coming : Seq(B), stdin : Seq(B),
     dropped : Seq(B), stdin_end : {"open", "eof", "hup"}, input_eof : BOOLEAN,
     socket_eof : BOOLEAN, output_closed : BOOLEAN, printed : Seq(B)]

\* Rules: 1 reads standard input, 2 writes the socket, 3 reads it, 4 writes standard output.
copy_over(w, r) ==
    \/ r = 1 /\ w.app.input_eof
    \/ r = 3 /\ w.app.socket_eof
    \/ r = 4 /\ w.app.output_closed

copy_interest(w, r) ==
    LET out == w.app.outbound
        in  == w.app.inbound
    IN  CASE r = 1 -> ~out.error /\ remaining_capacity(out) > 0 /\ ~in.error
          [] r = 2 -> ~buffer_empty(out) \/ (eof(out) /\ ~w.app.outbound_shutdown)
          [] r = 3 -> ~in.error /\ remaining_capacity(in) > 0 /\ ~out.error
          [] r = 4 -> ~buffer_empty(in) \/ (eof(in) /\ ~w.app.inbound_shutdown)

copy_cancel(w, r) ==
    IF r \in {1, 2} THEN [w EXCEPT !.app.outbound = end_input(@)]
    ELSE [w EXCEPT !.app.inbound = end_input(@)]

copy_ready(w, r) ==
    CASE r = 1 -> w.app.stdin # << >> \/ w.app.stdin_end = "eof"
      [] r = 2 -> writable(w.pair.up)
      [] r = 3 -> readable(w.pair.down)
      [] r = 4 -> TRUE

copy_hup(w, r) ==
    CASE r = 1 -> w.app.stdin_end = "hup" [] r \in {2, 3} -> hung_up(w.pair) [] r = 4 -> FALSE

\* The stream takes what was read, and ends with it.
taken_in(stream, data, at_eof) ==
    LET written == bs_write(stream, data) IN IF at_eof THEN end_input(written) ELSE written

\* write takes nothing once the stream has ended: what was read for it is gone.
read_stdin(w) ==
    LET n == min(Len(w.app.stdin), remaining_capacity(w.app.outbound))
        data == SubSeq(w.app.stdin, 1, n)
        at_eof == w.app.stdin = << >>
    IN  [w EXCEPT !.app.outbound = taken_in(@, data, at_eof),
                  !.app.dropped = IF input_ended(w.app.outbound) THEN @ \o data ELSE @,
                  !.app.stdin = SubSeq(@, n + 1, Len(@)), !.app.input_eof = at_eof]

write_socket(w) ==
    LET out == fd_write(w.pair.up, w.app.outbound.buff)
        rest == pop_output(w.app.outbound, out.bytes_written)
    IN  [w EXCEPT !.fate = out.fate, !.app.outbound = rest,
                  !.app.outbound_shutdown = @ \/ eof(rest),
                  !.pair.up = IF eof(rest) THEN shutdown_wr(out.channel) ELSE out.channel]

\* Mutant: a read of less than was asked for is taken for the end of file.
read_socket_short(w) ==
    LET limit == remaining_capacity(w.app.inbound)
        got == fd_read(w.pair.down, limit)
        at_eof == w.app.socket_eof \/ Len(got.data) < limit
    IN  [w EXCEPT !.fate = got.fate, !.pair.down = got.channel, !.app.socket_eof = at_eof,
                  !.app.inbound = taken_in(@, got.data, at_eof)]

read_socket(w) ==
    LET got == fd_read(w.pair.down, remaining_capacity(w.app.inbound))
        at_eof == w.app.socket_eof \/ got.eof
    IN  [w EXCEPT !.fate = got.fate, !.pair.down = got.channel, !.app.socket_eof = at_eof,
                  !.app.inbound = taken_in(@, got.data, at_eof)]

\* Mutant: what standard output did not take is popped too.
write_stdout_pops_all(w) ==
    LET n == min(w.room, buffer_size(w.app.inbound))
        rest == pop_output(w.app.inbound, buffer_size(w.app.inbound))
    IN  [w EXCEPT !.app.printed = @ \o peek_output(w.app.inbound, n), !.app.inbound = rest,
                  !.app.output_closed = eof(rest), !.app.inbound_shutdown = @ \/ eof(rest)]

write_stdout(w) ==
    LET n == min(w.room, buffer_size(w.app.inbound))
        rest == pop_output(w.app.inbound, n)
    IN  [w EXCEPT !.app.printed = @ \o peek_output(w.app.inbound, n), !.app.inbound = rest,
                  !.app.output_closed = eof(rest), !.app.inbound_shutdown = @ \/ eof(rest)]

copy_callback(w, r) ==
    CASE r = 1 -> read_stdin(w) [] r = 2 -> write_socket(w)
      [] r = 3 -> read_socket(w) [] r = 4 -> write_stdout(w)

=============================================================================
