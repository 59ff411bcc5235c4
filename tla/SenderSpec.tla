----------------------------- MODULE SenderSpec -----------------------------
(***************************************************************************)
(* A TCPSender, the application that writes to its stream, and a peer that *)
(* acknowledges what it was sent and opens its window.  Every call is the  *)
(* one TCPConnection makes, and like TCPConnection it takes at once the    *)
(* segments the sender has queued.                                         *)
(***************************************************************************)
EXTENDS OutboundStream

CONSTANTS Stream,             \* what the application writes, at most
          SendCapacity,
          ISNs,               \* the initial sequence numbers it may draw
          MaxWin,             \* bound: the largest window the peer offers
          MaxRetx,            \* bound: retransmissions in a row
          TickMs,             \* how many milliseconds a tick may report
          StaleAcks           \* whether an ACK may arrive after a later one

ASSUME StreamAssumption == Stream \in OutStreams
ASSUME SenderAssumption ==
    /\ {SendCapacity, MaxWin, MaxRetx} \subseteq Nat
    /\ ISNs \subseteq WrappingInt32 /\ TickMs \subseteq Nat /\ StaleAcks \in BOOLEAN
    /\ MaxWin < Mod64

N == Len(Stream)

VARIABLES snd,      \* the TCPSender
          out,      \* the segments the last step gave to the network
          acks      \* the peer's ACKs that may still arrive, [ack, win] with ack absolute

vars == << snd, out, acks >>

\* TCPConnection::send_segment takes every queued segment after each call.
Becomes(s) == snd' = [s EXCEPT !.segments_out = << >>] /\ out' = s.segments_out

Init ==
    /\ \E isn \in ISNs : snd = new_TCPSender(SendCapacity, RetxTimeout, isn)
    /\ out = << >>
    /\ acks = {}

Connect == Becomes(fill_window(snd)) /\ UNCHANGED acks

Write(len) ==
    LET from == bytes_written(snd.stream)
        data == SubSeq(Stream, from + 1, from + len)
    IN  /\ from + len <= N
        /\ Becomes(fill_window([snd EXCEPT !.stream = bs_write(@, data)]))
        /\ UNCHANGED acks

EndInput ==
    /\ Becomes(fill_window([snd EXCEPT !.stream = end_input(@)]))
    /\ UNCHANGED acks

Tick(ms) ==
    /\ snd.retransmission_count < MaxRetx
    /\ Becomes(sender_tick(snd, ms))
    /\ UNCHANGED acks

\* The peer acknowledges at least what it did before, nothing it was not sent, and
\* never takes back a part of the window.
AckArrives(ack, win) ==
    /\ 0 < ack /\ ack <= snd.next_seqno
    /\ \A a \in acks : ack >= a.ack /\ ack + win >= a.ack + a.win
    /\ acks' = (IF StaleAcks THEN acks ELSE {}) \cup {[ack |-> ack, win |-> win]}
    /\ Becomes(ack_received(snd, wrap(ack, snd.isn), win))

\* An ACK the network kept back, or a copy of it.
StaleAckArrives ==
    /\ StaleAcks
    /\ \E a \in acks : Becomes(ack_received(snd, wrap(a.ack, snd.isn), a.win))
    /\ UNCHANGED acks

\* An ackno beyond what was sent, from a broken peer.
ImpossibleAckArrives ==
    /\ Becomes(ack_received(snd, wrap(snd.next_seqno + 1, snd.isn), MaxWin))
    /\ UNCHANGED acks

Next ==
    \/ Connect \/ EndInput \/ StaleAckArrives \/ ImpossibleAckArrives
    \/ \E len \in 1 .. N : Write(len)
    \/ \E ms \in TickMs : Tick(ms)
    \/ \E ack \in 1 .. (N + 2), win \in 0 .. MaxWin : AckArrives(ack, win)

Spec == Init /\ [][Next]_vars

-----------------------------------------------------------------------------
\* Shorthands for the properties.
queue == snd.outstanding_seg
ends(seg) == U32(seg.seqno + length_in_sequence_space(seg))
all_sent == input_ended(snd.stream) /\ snd.next_seqno = bytes_written(snd.stream) + 2


\* The sender's fields have their types, and nothing is left in its queue.
TypeOK ==
    /\ snd \in SenderType(Byte) /\ snd.segments_out = << >>
    /\ out \in Seq(SegmentType(Byte))

\* _outstanding_seg is exactly what is in flight: its segments follow one another up to
\* next_seqno, and the first holds the oldest number not acknowledged, so that a
\* retransmission always repairs the first hole, and nothing is kept once all is acked.
OutstandingIsInFlight ==
    /\ queue = << >> <=> bytes_in_flight(snd) = 0
    /\ \A k \in 1 .. Len(queue) :
            ends(queue[k]) = IF k = Len(queue) THEN wrap(snd.next_seqno, snd.isn)
                             ELSE queue[k + 1].seqno
    /\ queue # << >> =>
            U32(wrap(snd.last_ackno, snd.isn) - queue[1].seqno)
                < length_in_sequence_space(queue[1])

\* The timer runs while something is outstanding and only then, an expiry is handled in
\* the tick that finds it, and the timeout has doubled once per retransmission in a row.
TimerFollowsOutstanding ==
    /\ snd.timer.is_started <=> queue # << >>
    /\ ~snd.timer.is_expired
    /\ snd.RTO = doubled[snd.retransmission_count]
    /\ snd.timer.remaining_time <= snd.RTO

\* Every segment sent or kept carries the SYN, the bytes and the FIN of its own place in
\* the stream, first time or retransmitted.
SegmentsInPlace ==
    \A seg \in {out[i] : i \in 1 .. Len(out)} \cup {queue[i] : i \in 1 .. Len(queue)} :
        \E abs \in 0 .. snd.next_seqno :
            /\ seg.seqno = wrap(abs, snd.isn)
            /\ abs + length_in_sequence_space(seg) <= snd.next_seqno
            /\ seg.syn <=> abs = 0
            /\ seg.payload = SubSeq(Stream, abs, abs + Len(seg.payload) - 1)
            /\ Len(seg.payload) <= MAX_PAYLOAD_SIZE
            /\ seg.fin <=> input_ended(snd.stream) /\
                           abs + length_in_sequence_space(seg) = bytes_written(snd.stream) + 2

\* fill_window leaves nothing unsent that the window has room for, bytes or FIN: a
\* connection is never stuck with data to send, an open window and no timer running.
WindowUsed ==
    snd.last_ackno > 0 /\ (~buffer_empty(snd.stream) \/ (input_ended(snd.stream) /\ ~all_sent))
        => bytes_in_flight(snd) >= in_window(snd)

\* fill_window stops at the right edge of the window last offered, one byte when it is
\* closed, unless what is in flight already reaches beyond it.
StopsAtWindow ==
    [][(/\ 0 < snd.next_seqno /\ snd.next_seqno < snd'.next_seqno
        /\ snd.next_seqno - snd'.last_ackno <= in_window(snd'))
         => bytes_in_flight(snd') <= in_window(snd')]_vars

\* The same whatever is in flight (tests/send_extra.cc:364, "a full window of nonzero size
\* should be respected").
WindowRespected ==
    [][0 < snd.next_seqno /\ snd.next_seqno < snd'.next_seqno
         => bytes_in_flight(snd') <= in_window(snd')]_vars

=============================================================================
