----------------------------- MODULE TCPSender -----------------------------
(***************************************************************************)
(* libsponge/tcp_sender.{hh,cc}: cuts the outgoing ByteStream into segments *)
(* that fit the receiver's window, keeps the ones not yet acknowledged,    *)
(* and retransmits the oldest of them when the RetransmissionTimer fires.  *)
(***************************************************************************)
EXTENDS TCPSegment

CONSTANT MAX_PAYLOAD_SIZE            \* TCPConfig: 1000
ASSUME PayloadAssumption == MAX_PAYLOAD_SIZE \in Nat \ {0}

-----------------------------------------------------------------------------
(* RetransmissionTimer *)

TimerType == [remaining_time : Nat, is_expired : BOOLEAN, is_started : BOOLEAN]

timer_start(rto) == [remaining_time |-> rto, is_expired |-> FALSE, is_started |-> TRUE]
timer_stop == [remaining_time |-> 0, is_expired |-> FALSE, is_started |-> FALSE]
\* Mutant: the time left is not compared with the time that has passed.
timer_tick_underflow(t, ms) ==
    IF ~t.is_started THEN t
    ELSE IF t.remaining_time = 0 THEN [t EXCEPT !.is_expired = TRUE]
    ELSE [t EXCEPT !.remaining_time = @ - ms]

timer_tick(t, ms) ==
    IF ~t.is_started THEN t
    ELSE IF ms >= t.remaining_time THEN [t EXCEPT !.is_expired = TRUE]
    ELSE [t EXCEPT !.remaining_time = @ - ms]

timer_expired(t) == t.is_expired /\ t.is_started

-----------------------------------------------------------------------------
(* TCPSender *)

SenderType(B) ==
    [isn : WrappingInt32, segments_out : Seq(SegmentType(B)),
     initial_retransmission_timeout : Nat, stream : ByteStreamType(B),
     next_seqno : Nat, RTO : Nat, retransmission_count : Nat, last_ackno : Nat,
     last_win : Nat, timer : TimerType, outstanding_seg : Seq(SegmentType(B))]

new_TCPSender(cap, retx_timeout, isn) ==
    [isn |-> isn, segments_out |-> << >>,
     initial_retransmission_timeout |-> retx_timeout, stream |-> new_ByteStream(cap),
     next_seqno |-> 0, RTO |-> retx_timeout, retransmission_count |-> 0, last_ackno |-> 0,
     last_win |-> 1, timer |-> timer_stop, outstanding_seg |-> << >>]

bytes_in_flight(s) == s.next_seqno - s.last_ackno

\* send_segment of each of segs, which follow one another from next_seqno and
\* take len sequence numbers between them.
send_segments(s, segs, len) ==
    [s EXCEPT !.next_seqno = @ + len,
              !.segments_out = @ \o segs,
              !.outstanding_seg = @ \o segs,
              !.timer = IF @.is_started \/ segs = << >> THEN @ ELSE timer_start(s.RTO)]

send_empty_segment(s) ==
    [s EXCEPT !.segments_out =
        Append(@, [new_TCPSegment EXCEPT !.seqno = wrap(s.next_seqno, s.isn)])]

\* The segments the loop of fill_window cuts len bytes of the stream into; the
\* last one carries the FIN if is_fin.
cut_segments(s, len, is_fin) ==
    LET count == (len + MAX_PAYLOAD_SIZE - 1) \div MAX_PAYLOAD_SIZE
    IN  [k \in 1 .. count |->
            LET from == (k - 1) * MAX_PAYLOAD_SIZE
            IN  [new_TCPSegment EXCEPT
                    !.seqno = wrap(s.next_seqno + from, s.isn),
                    !.payload = SubSeq(s.stream.buff, from + 1, min(len, from + MAX_PAYLOAD_SIZE)),
                    !.fin = is_fin /\ k = count]]

\* A closed window is probed with one byte.
cur_win_no_probe(s) == s.last_win                                  \* mutant
cur_win(s) == IF s.last_win = 0 THEN 1 ELSE s.last_win

\* Mutants: the FIN is sent with bytes left to send; it is sent beyond the window.
fin_fits_early(s, len, remaining_win) == input_ended(s.stream)
fin_fits_over(s, len, remaining_win) == input_ended(s.stream) /\ len = buffer_size(s.stream)

\* Whether the segment that takes the last of len bytes carries the FIN.
fin_fits(s, len, remaining_win) ==
    input_ended(s.stream) /\ len = buffer_size(s.stream) /\ len < remaining_win

\* SYN first, and nothing more until it is acknowledged.  Then the loop, which ends
\* when the window is full, the stream is empty, or the FIN has been sent: what it
\* sends is decided by remaining_win at its start, a size_t that wraps when more is
\* in flight than the window has room for.
fill_window(s) ==
    LET syn == [new_TCPSegment EXCEPT !.seqno = wrap(s.next_seqno, s.isn), !.syn = TRUE]
        fin == [new_TCPSegment EXCEPT !.seqno = wrap(s.next_seqno, s.isn), !.fin = TRUE]
        remaining_win == U64(cur_win(s) - bytes_in_flight(s))
        len == min(buffer_size(s.stream), remaining_win)
        is_fin == fin_fits(s, len, remaining_win)
    IN  IF s.next_seqno = 0 THEN send_segments(s, << syn >>, 1)
        ELSE IF s.next_seqno = bytes_in_flight(s) \/ remaining_win = 0 THEN s
        ELSE IF eof(s.stream)
             THEN IF s.next_seqno < bytes_written(s.stream) + 2
                  THEN send_segments(s, << fin >>, 1) ELSE s
        ELSE send_segments([s EXCEPT !.stream = pop_output(@, len)],
                           cut_segments(s, len, is_fin), len + flag(is_fin))

\* The test that pops a segment compares raw 32-bit numbers, and its sum is a size_t:
\* nothing wraps on either side.
fully_acked(seg, ack_no) == seg.seqno + length_in_sequence_space(seg) <= ack_no

\* How many segments of the queue's front the loop of ack_received pops.
acked_count(queue, ack_no) ==
    CHOOSE k \in 0 .. Len(queue) :
        /\ \A j \in 1 .. k : fully_acked(queue[j], ack_no)
        /\ k < Len(queue) => ~fully_acked(queue[k + 1], ack_no)

new_ack(s, abs_ack, ack_no) ==
    LET rest == SubSeq(s.outstanding_seg, acked_count(s.outstanding_seg, ack_no) + 1,
                       Len(s.outstanding_seg))
    IN  [s EXCEPT !.last_ackno = abs_ack,
                  !.outstanding_seg = rest,
                  !.retransmission_count = 0,
                  !.RTO = s.initial_retransmission_timeout,
                  !.timer = IF rest # << >> THEN timer_start(s.initial_retransmission_timeout)
                            ELSE timer_stop]
is_new_always(s, abs_ack) == TRUE                                  \* mutant
is_new(s, abs_ack) == abs_ack > s.last_ackno

\* An ackno of something never sent is ignored; any other updates the window, old or new.
ack_received(s, ack_no, win) ==
    LET abs_ack == unwrap(ack_no, s.isn, s.last_ackno)
        acked == IF is_new(s, abs_ack) THEN new_ack(s, abs_ack, ack_no) ELSE s
    IN  IF abs_ack > s.next_seqno THEN s
        ELSE fill_window([acked EXCEPT !.last_win = win])

retransmit_nothing(s) == s                                         \* mutant
retransmit(s) == [s EXCEPT !.segments_out = Append(@, Head(s.outstanding_seg))]

\* Back-off happens only while the receiver has a window.
backed_off_always(s) == 2 * s.RTO                                  \* mutant
backed_off(s) == IF s.last_win > 0 THEN 2 * s.RTO ELSE s.RTO

sender_tick(s, ms) ==
    LET timer == timer_tick(s.timer, ms)
    IN  IF s.outstanding_seg = << >> THEN [s EXCEPT !.timer = timer_stop]
        ELSE IF ~timer_expired(timer) THEN [s EXCEPT !.timer = timer]
        ELSE [retransmit(s) EXCEPT !.retransmission_count = @ + flag(s.last_win > 0),
                                   !.RTO = backed_off(s),
                                   !.timer = timer_start(backed_off(s))]

consecutive_retransmissions(s) == s.retransmission_count

=============================================================================
