---------------------------- MODULE SpongeSocket ----------------------------
(***************************************************************************)
(* libsponge/tcp_helpers/tcp_sponge_socket.{hh,cc}: what the TCPConnection  *)
(* thread does.  Its world is w == [sock, pair, wire, fate]: the socket    *)
(* object, the pair of local sockets it shares with its owner, the         *)
(* datagrams in each direction, and whether the process is still alive.    *)
(***************************************************************************)
EXTENDS TCPConnection, InboundStream, OutboundStream, StreamCopy, FdAdapter

CONSTANTS SendCapacity, LocalISN,
          MaxTime            \* bound: time_since_last_segment_received is not counted further
ASSUME SocketAssumption == {SendCapacity, MaxTime} \subseteq Nat /\ LocalISN \in WrappingInt32

\* The constructor and _initialize_TCP.
new_socket(adapter) ==
    [tcp |-> new_TCPConnection(SendCapacity, Capacity, RetxTimeout, LocalISN),
     loop |-> new_EventLoop(4), adapter |-> adapter, phase |-> "none", abort |-> FALSE,
     outbound_shutdown |-> FALSE, inbound_shutdown |-> FALSE, eof |-> FALSE]

Phases == {"none", "connect", "listen", "main", "leaving", "ended"}
SocketType(B, A) ==
    [tcp : ConnectionType(B), loop : EventLoopType(4),
     adapter : [source : A, destination : A, listening : BOOLEAN], phase : Phases,
     abort : BOOLEAN, outbound_shutdown : BOOLEAN, inbound_shutdown : BOOLEAN, eof : BOOLEAN]

-----------------------------------------------------------------------------
(* The four rules: 1 reads datagrams, 2 reads what the owner wrote, 3      *)
(* writes what the owner will read, 4 writes datagrams.                    *)

socket_over(w, r) == r = 2 /\ w.sock.eof

\* Mutant: once the connection is over nothing more is sent.
has_datagrams_if_active(tcp) == tcp.isactive /\ tcp.segments_out # << >>
has_datagrams(tcp) == tcp.segments_out # << >>

has_news(in, shutdown) == ~buffer_empty(in) \/ ((eof(in) \/ in.error) /\ ~shutdown)

socket_interest(w, r) ==
    LET tcp == w.sock.tcp
    IN  CASE r = 1 -> tcp.isactive
          [] r = 2 -> tcp.isactive /\ ~w.sock.outbound_shutdown
                        /\ remaining_capacity(tcp.sender.stream) > 0
          [] r = 3 -> has_news(inbound_stream(tcp), w.sock.inbound_shutdown)
          [] r = 4 -> has_datagrams(tcp)

socket_cancel(w, r) ==
    IF r = 2
    THEN [w EXCEPT !.sock.tcp = end_input_stream(@), !.sock.outbound_shutdown = TRUE]
    ELSE w

socket_ready(w, r) ==
    CASE r = 1 -> w.wire.rx # << >>
      [] r = 2 -> readable(w.pair.up)
      [] r = 3 -> writable(w.pair.down)
      [] r = 4 -> TRUE

socket_hup(w, r) == r \in {2, 3} /\ hung_up(w.pair)

\* TCPOverUDPSocketAdapter::read, the bytes of whose datagrams FdAdapter is about.
adapter_read(a, dgram) ==
    IF udp_is_for_us(a, dgram.source)
    THEN udp_accept(a, dgram.source, dgram.seg.syn, dgram.seg.rst, dgram.seg)
    ELSE nothing(a)

given(tcp, segs) == IF segs = {} THEN tcp ELSE segment_received(tcp, CHOOSE seg \in segs : TRUE)
datagram_in(w) ==
    LET answer == adapter_read(w.sock.adapter, Head(w.wire.rx))
    IN  [w EXCEPT !.wire.rx = Tail(@), !.sock.adapter = answer.adapter,
                  !.sock.tcp = given(@, answer.segs)]

\* What TCPConnection::write returns.
amount_written(tcp, data) == IF tcp.isactive THEN write_size(tcp.sender.stream, data) ELSE 0

ended_if(at_eof, tcp) == IF at_eof THEN end_input_stream(tcp) ELSE tcp
bytes_from_owner(w) ==
    LET tcp == w.sock.tcp
        got == fd_read(w.pair.up, remaining_capacity(tcp.sender.stream))
        at_eof == w.sock.eof \/ got.eof
    IN  [w EXCEPT !.pair.up = got.channel, !.sock.eof = at_eof,
                  !.fate = IF amount_written(tcp, got.data) # Len(got.data) THEN "threw"
                           ELSE got.fate,
                  !.sock.tcp = ended_if(at_eof, write(@, got.data)),
                  !.sock.outbound_shutdown = @ \/ at_eof]

\* Mutant: everything is popped, written or not.
popped_all(in, n) == pop_output(in, buffer_size(in))
popped(in, n) == pop_output(in, n)

bytes_to_owner(w) ==
    LET in == inbound_stream(w.sock.tcp)
        out == fd_write(w.pair.down, peek_output(in, buffer_size(in)))
        rest == popped(in, out.bytes_written)
        over == eof(rest) \/ rest.error
    IN  [w EXCEPT !.fate = out.fate, !.sock.tcp.receiver.reassembler.output = rest,
                  !.pair.down = IF over THEN shutdown_wr(out.channel) ELSE out.channel,
                  !.sock.inbound_shutdown = @ \/ over]

datagrams_out(w) ==
    LET queue == w.sock.tcp.segments_out
    IN  [w EXCEPT !.wire.tx = @ \o queue, !.sock.tcp.segments_out = << >>]

socket_callback(w, r) ==
    CASE r = 1 -> datagram_in(w) [] r = 2 -> bytes_from_owner(w)
      [] r = 3 -> bytes_to_owner(w) [] r = 4 -> datagrams_out(w)

\* Which callbacks read or write their descriptor: rule 4 only if there is a segment.
serves(w, r) == r = 4 => w.sock.tcp.segments_out # << >>

-----------------------------------------------------------------------------
(* _tcp_loop, for connect, for listen_and_accept and for _tcp_main *)

condition(sock) ==
    CASE sock.phase = "connect" -> tcp_state(sock.tcp) = State.SYN_SENT
      [] sock.phase = "listen" ->
            tcp_state(sock.tcp) \in {State.LISTEN, State.SYN_RCVD, State.SYN_SENT}
      [] sock.phase = "main" -> TRUE

\* The loop of connect or listen_and_accept is followed by the thread's.
leave_loop(w) ==
    [w EXCEPT !.sock.phase = IF @ = "main" THEN "leaving" ELSE "main"]

\* A TCPConnection is told the time only while it is active.
ticked(tcp, ms) ==
    [tick(tcp, ms) EXCEPT !.time_since_last_segment_received = min(@, MaxTime)]

\* What follows wait_next_event; is_exit: it returned Result::Exit.
back_to_top(w) == IF condition(w.sock) THEN w ELSE leave_loop(w)
ends_loop_on_exit(w, is_exit) == is_exit                           \* mutant
ends_loop(w, is_exit) == is_exit \/ w.sock.abort

after_turn(w, is_exit, ms) ==
    IF ends_loop(w, is_exit) THEN leave_loop(w)
    ELSE back_to_top([w EXCEPT !.sock.tcp = IF @.isactive THEN ticked(@, ms) ELSE @])

\* connect and listen_and_accept up to their loops.
start_connect(sock, destination) ==
    [sock EXCEPT !.phase = "connect", !.tcp = connect(@), !.adapter.destination = destination]
start_listen(sock) == [sock EXCEPT !.phase = "listen", !.adapter.listening = TRUE]

=============================================================================
