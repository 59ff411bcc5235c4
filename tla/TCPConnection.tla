--------------------------- MODULE TCPConnection ---------------------------
(***************************************************************************)
(* libsponge/tcp_connection.{hh,cc}: one endpoint, a TCPSender and a        *)
(* TCPReceiver that share the segments of both directions, and the rules   *)
(* by which a connection ends.                                             *)
(***************************************************************************)
EXTENDS TCPState

CONSTANTS MAX_RETX_ATTEMPTS,         \* TCPConfig: 8
          LingerTimeouts,            \* 10 in clean_shutdown
          MaxU16                     \* numeric_limits<uint16_t>::max()
ASSUME ConnectionAssumption == {MAX_RETX_ATTEMPTS, LingerTimeouts, MaxU16} \subseteq Nat

new_TCPConnection(send_capacity, recv_capacity, rt_timeout, isn) ==
    [receiver |-> new_TCPReceiver(recv_capacity),
     sender |-> new_TCPSender(send_capacity, rt_timeout, isn),
     segments_out |-> << >>, linger_after_streams_finish |-> TRUE, isactive |-> TRUE,
     time_since_last_segment_received |-> 0, rt_timeout |-> rt_timeout]

ConnectionType(B) ==
    [receiver : ReceiverType(B), sender : SenderType(B), segments_out : Seq(SegmentType(B)),
     linger_after_streams_finish : BOOLEAN, isactive : BOOLEAN,
     time_since_last_segment_received : Nat, rt_timeout : Nat]

inbound_stream(c) == stream_out(c.receiver)
tcp_state(c) == state(c.sender, c.receiver, c.isactive, c.linger_after_streams_finish)

\* The header fields only the receiver knows.
fill_header(c, seg) ==
    IF has_ackno(c.receiver)
    THEN [seg EXCEPT !.ack = TRUE, !.ackno = ackno(c.receiver),
                     !.win = min(window_size(c.receiver), MaxU16)]
    ELSE seg

\* Moves every segment the sender has queued to the connection's own queue.
send_segment(c) ==
    LET queued == c.sender.segments_out
    IN  [c EXCEPT !.sender.segments_out = << >>,
                  !.segments_out = @ \o [i \in 1 .. Len(queued) |-> fill_header(c, queued[i])]]

\* With nothing queued, an empty segment is left in the sender's queue and no RST is made.
send_rst_segment(c) ==
    LET filled == fill_window(c.sender)
        first == [fill_header(c, Head(filled.segments_out)) EXCEPT !.rst = TRUE]
    IN  IF filled.segments_out = << >>
        THEN [c EXCEPT !.sender = send_empty_segment(filled)]
        ELSE [c EXCEPT !.sender = [filled EXCEPT !.segments_out = Tail(@)],
                       !.segments_out = Append(@, first)]

\* The whole inbound stream is here while our own is not at its end.
passive_close_always(c) == input_ended(inbound_stream(c))          \* mutant
passive_close(c) == input_ended(inbound_stream(c)) /\ ~eof(c.sender.stream)

\* Mutant: a FIN that has been sent counts as acknowledged.
streams_finished_early(c) ==
    /\ sender_summary(c.sender) \in {"fin_sent", "fin_acked"}
    /\ receiver_summary(c.receiver) = "fin_recv"

streams_finished(c) ==
    sender_summary(c.sender) = "fin_acked" /\ receiver_summary(c.receiver) = "fin_recv"

\* After a passive close there is no need to linger;
\* when both streams are done the connection ends, for the other one after a while.
clean_shutdown(c) ==
    IF passive_close(c) THEN [c EXCEPT !.linger_after_streams_finish = FALSE]
    ELSE IF /\ streams_finished(c)
            /\ \/ ~c.linger_after_streams_finish
               \/ c.time_since_last_segment_received >= LingerTimeouts * c.rt_timeout
    THEN [c EXCEPT !.isactive = FALSE]
    ELSE c

unclean_shutdown(c) ==
    [c EXCEPT !.sender.stream = set_error(@), !.receiver.reassembler.output = set_error(@),
              !.isactive = FALSE]

connect(c) == send_segment([c EXCEPT !.sender = fill_window(@)])

\* An empty segment just before the expected seqno asks whether we are still there.
is_keep_alive(v, seg) ==
    /\ has_ackno(v) /\ length_in_sequence_space(seg) = 0
    /\ seg.seqno = U32(ackno(v) - 1)

\* The acknowledgement is the sender's; whatever occupies sequence numbers is acknowledged,
\* with an empty segment if the sender has none to go; and so is a keep-alive.
acknowledged(c, seg) ==
    IF seg.ack THEN [c EXCEPT !.sender = ack_received(@, seg.ackno, seg.win)] ELSE c
answered(c, seg) ==
    IF length_in_sequence_space(seg) > 0 /\ c.sender.segments_out = << >>
    THEN [c EXCEPT !.sender = send_empty_segment(@)] ELSE c
kept_alive(c, seg) ==
    IF is_keep_alive(c.receiver, seg) THEN [c EXCEPT !.sender = send_empty_segment(@)] ELSE c

heard(c) == [c EXCEPT !.time_since_last_segment_received = 0]
taken_segment(c, seg) ==
    IF receiver_summary(c.receiver) = "syn_recv" /\ sender_summary(c.sender) = "closed"
    THEN connect(c)
    ELSE clean_shutdown(send_segment(kept_alive(answered(acknowledged(c, seg), seg), seg)))

segment_received(c, seg) ==
    IF ~c.isactive THEN c
    ELSE IF seg.rst THEN unclean_shutdown(heard(c))
    ELSE taken_segment([heard(c) EXCEPT !.receiver = receiver_segment_received(@, seg)], seg)

write(c, data) ==
    IF ~c.isactive \/ data = << >> THEN c
    ELSE send_segment([c EXCEPT !.sender =
                          fill_window([c.sender EXCEPT !.stream = bs_write(@, data)])])

\* The connection gives up after too many retransmissions in a row.
after_tick(c) ==
    IF consecutive_retransmissions(c.sender) > MAX_RETX_ATTEMPTS
    THEN unclean_shutdown(send_rst_segment(c))
    ELSE clean_shutdown(send_segment(c))
tick(c, ms) ==
    IF ~c.isactive THEN c
    ELSE after_tick([c EXCEPT !.sender = sender_tick(@, ms),
                              !.time_since_last_segment_received = @ + ms])

\* Unlike write, it does not ask whether the connection is active.
end_input_stream(c) ==
    send_segment([c EXCEPT !.sender = fill_window([c.sender EXCEPT !.stream = end_input(@)])])

\* The destructor.
destruct(c) == IF c.isactive THEN unclean_shutdown(send_rst_segment(c)) ELSE c

=============================================================================
